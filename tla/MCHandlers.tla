----------------------------- MODULE MCHandlers ------------------------------
(* Instance of Handlers for TLC: one client with one of many requests, or   *)
(* two that each post a parameter to a program.                             *)
EXTENDS Handlers

CONSTANTS h1, h2, server

MCHandlersSet == {h1, h2}

MCWithEquals == {"Connection=", "Content-Length=", "k=1", "m=2"}
MCNumeral == [n \in {"0", "1", "2"} |-> IF n = "0" THEN 0 ELSE IF n = "1" THEN 1 ELSE 2]
MCQuery == [url \in {"/a.cgi?k=1"} |-> [path |-> "/a.cgi", params |-> {<<"k=1">>}]]
MCFiles == {"/index.html", "/a.cgi", "/b.cgi", "/c.cgi"}

MCResourceType ==
  [url \in MCFiles \cup {"/m.memory", "/a.cgi?k=1", Garbage} |->
     CASE url = "/index.html" -> "html"
       [] url = "/m.memory" -> "memory"
       [] url \in {"/a.cgi", "/b.cgi", "/c.cgi"} -> "cgi"
       [] url = "/a.cgi?k=1" -> "cgi?k=1"
       [] OTHER -> "NULL"]

Echo == <<"all", "t">>
Full == <<"all", "t", "t">>
Verbose == <<"all", "t", "t", "t", "t", "t">>
Binary == <<"all", "t", Nul, "t">>
Stubborn == <<"eof", "t">>
Deaf == <<>>
Brief == <<"one", "one">>
Hasty == <<"one", "t", "one", "one">>
Chatty == <<"t", "t", "t", "all">>
Greedy == <<"all", "one">>

MCPrograms ==
  [url \in {"/a.cgi", "/b.cgi", "/c.cgi"} |->
     IF url = "/a.cgi"
     THEN {Echo, Full, Verbose, Binary, Stubborn, Deaf, Hasty, Chatty, Greedy}
     ELSE IF url = "/b.cgi" THEN {Echo, Stubborn} ELSE {Brief}]

NL == <<CR, LF>>
Post(url, length, body) ==
  <<"POST", url, "v">> \o NL \o <<"Content-Length=">> \o length \o NL \o NL \o body

One == {
  <<"GET", "/", "v">> \o NL \o <<"Connection=", "keep-alive">> \o NL \o NL,
  <<"GET", "/m.memory", "v">> \o NL \o <<"Connection:", "keep-alive">> \o NL \o NL,
  <<"GET", "/a.cgi?k=1", "v">> \o NL \o NL,
  <<"GET", "/a.cgi", "v", CR, CR, LF, LF>> \o NL \o NL,
  <<"GET">> \o NL \o NL,
  <<"PUT", "/", "v">> \o NL \o NL,
  NL,
  <<"GET", "/", "v", "a", "b", "c", "d">> \o NL \o NL,
  <<"POST", "/", "v">> \o NL \o <<"Content-Length=", "1">> \o NL \o NL \o <<"k=1">>,
  <<"POST", "/a.cgi", "v">> \o NL \o NL \o <<"k=1">>,
  <<"POST", "/a.cgi", "v">> \o NL \o NL \o <<"Content-Length=", "1">>,
  <<"GET", "/", "v", "a", "b", "c", "d">>,
  <<"POST", "/a.cgi", "v">> \o NL \o <<"Content-Length">> \o NL \o NL \o <<"k=1">>,
  Post("/a.cgi", <<"2">>, <<"k=1", "m=2", "GET">>),
  Post("/a.cgi", <<"2">>, <<"k", "m=2">>),
  Post("/a.cgi", <<"2">>, <<"k=1", "m">>),
  Post("/a.cgi", <<"0">>, <<"k=1", "m=2", "k=1">>),
  Post("/a.cgi", <<>>, <<"k=1">>),
  Post("/a.cgi", <<"x">>, <<"k=1">>)}

MCStreams ==
  {[h \in MCHandlersSet |-> IF h = h1 THEN s ELSE <<>>] : s \in One}
    \cup {[h \in MCHandlersSet |-> IF h = h1 THEN Post("/b.cgi", <<"1">>, <<>>)
                                             ELSE Post("/c.cgi", <<"1">>, <<>>)]}

=============================================================================
