------------------------------ MODULE Handlers -------------------------------
(***************************************************************************)
(* httpserver() of src/src/httpserver.cpp: requests that are parsed and    *)
(* answered side by side, each by a handler of its own.  HttpData.tla and  *)
(* Responser.tla have its steps, this module what comes after them, and    *)
(* what should be true of all of it.  Connections.tla takes from here only *)
(* how a handler ends.                                                     *)
(***************************************************************************)
EXTENDS Responser

vars == <<parserVars, at, crash, exists, pipeVars>>

Ended == {"kept", "closed", "failed", "left"}

Init == HttpDataInit /\ ResponserInit

\* keepConnection() is read as it is; only parseHeader ever sets it, to true.
Finish(h) ==
  /\ \E last \in (IF fields[h].keep = "keep-alive" THEN {"kept"} ELSE {"kept", "closed"}) :
       Move(h, "finish", last)
  /\ UNCHANGED <<parserVars, crash, exists, pipeVars>>

\* The catch clause: deleteFd and close.
Catch(h) ==
  /\ Move(h, "exception", "failed")
  /\ UNCHANGED <<parserVars, crash, exists, pipeVars>>

\* The returns in the middle, which leave the socket open.
Return(h) ==
  /\ Move(h, "return", "left")
  /\ UNCHANGED <<parserVars, crash, exists, pipeVars>>

Parse(h) == ParseStep(h) /\ UNCHANGED <<exists, pipeVars>>

Next ==
  \E h \in Handlers :
    /\ crash = "no"
    /\ \/ Parse(h) \/ PageStep(h) \/ CgiStep(h) \/ ChildStep(h)
       \/ Finish(h) \/ Catch(h) \/ Return(h)
       \/ RemoveFile(h)

Spec == Init /\ [][Next]_vars

\* What a handler does next once its program runs, unless a call fails.
CgiAdvance(h) ==
  /\ cgi[h].child \notin {"none", "reaped"}
  /\ \/ CloseEnd(h, "close outW", "close inR", "outW")
     \/ CloseEnd(h, "close inR", "write", "inR")
     \/ WriteInput(h) \/ WriteKills(h)
     \/ ReadOutput(h) \/ EndRead(h)
     \/ at[h] = "answer" /\ Send(h)
     \/ Wait(h)
     \/ Catch(h)

\* Threads that can run and programs that can run do; clients, files and failing
\* calls owe nothing.
Fairness ==
  \A h \in Handlers :
    /\ WF_vars(crash = "no" /\ CgiAdvance(h))
    /\ WF_vars(crash = "no" /\ ChildStep(h))

FairSpec == Spec /\ Fairness

-----------------------------------------------------------------------------
(* Properties. *)

\* The variables have their types, the read index stays within the buffer or just
\* past the last byte received, and nothing is buffered that was not sent.
TypeOK ==
  /\ stream \in Streams
  /\ \A h \in Handlers :
       /\ Consumed(h) \in 0..Received(h) /\ Received(h) <= Len(stream[h])
       /\ readIndex[h] <= dataEndIndex[h] =>
            Unit(h) = stream[h][Consumed(h) + 1]
       /\ fields[h].method \in {"UNSUPPORT", "GET", "POST"}
       /\ at[h] \in ParsePlaces \cup AnswerPlaces \cup Ended \cup {"finish", "exception", "return"}
       /\ cgi[h].child \in {"none", "started", "running", "zombie", "reaped"}
       /\ cgi[h].inPipe \in 0..PipeCap /\ OutPipe(h) \in 0..PipeCap
       /\ cgi[h].step \in 1..(Len(cgi[h].program) + 1)
  /\ exists \subseteq Files
  /\ holds \in [Processes -> SUBSET Ends]

LineEndsIn(s) == {p \in 2..Len(s) : s[p - 1] = CR /\ s[p] = LF}

LastOf(S) == CHOOSE x \in S : \A y \in S : y <= x

\* The position of the LF that ends the header.
HeaderEnd(s) ==
  LET blank == {p \in LineEndsIn(s) : p - 2 \in LineEndsIn(s)}
  IN  CHOOSE p \in blank : \A q \in blank : p <= q

\* A line is what lies between two CRLF, wherever recv cut the bytes, and nothing
\* of one line is left in the next (parseOneLine, where prev outlives the buffer).
LinesExact ==
  \A h \in Handlers :
    LET ends == lineEnds[h] \cup {0}
        last == LastOf(ends) IN
    /\ at[h] \in {"start line", "start line read", "header", "header read"} =>
         lineEnds[h] = {p \in LineEndsIn(stream[h]) : p <= Consumed(h)}
    /\ at[h] \in {"start line", "header"} =>
         lineBuffer[h] = SubSeq(stream[h], last + 1, Consumed(h))
    /\ at[h] \in {"start line read", "header read"} =>
         lineBuffer[h] = SubSeq(stream[h], LastOf(ends \ {last}) + 1, last - 2)

\* A POST whose body is parameters gets the keys of exactly as many bytes as
\* Content-Length says, unless recv had returned the header and no more when the
\* body was to be read (parseBodyParamData does not call it then).
BodyRead ==
  \A h \in Handlers :
    LET s == stream[h]
        start == HeaderEnd(s)
        body == SubSeq(s, start + 1, start + ContentLength(h)) IN
    /\ at[h] = "parsed" /\ fields[h].method = "POST"
    /\ ContentLength(h) > 0 /\ ~bodyCut[h]
    /\ \A i \in DOMAIN body : body[i] \in WithEquals
    => fields[h].params = {<<body[i]>> : i \in DOMAIN body}

\* What the parser reads is what the client sent.
ReadAsSent == LinesExact /\ BodyRead

\* The headers of this name, each by its position.
LengthHeaders(s) ==
  {i \in DOMAIN s : s[i] = "Content-Length=" /\ i - 1 \in LineEndsIn(s) /\ i < HeaderEnd(s)}

\* A request as this parser wants it: a header with an end, lines that fit, three words
\* in the first, '=' in the others, and for a POST a length and that many parameters.
Sound(s) ==
  LET ends == LineEndsIn(s)
      Start(p) == LastOf({q \in ends \cup {0} : q < p})
      Length(i) == IF s[i + 1] \in DOMAIN Numeral THEN Numeral[s[i + 1]] ELSE 0 IN
  /\ \E p \in ends : p - 2 \in ends
  /\ \A p \in ends : p <= HeaderEnd(s) =>
       /\ p - Start(p) <= LineSize
       /\ IF Start(p) = 0 THEN p >= 5
          ELSE p - Start(p) = 2 \/ \E i \in Start(p)..p : s[i] \in WithEquals
  /\ s[1] = "POST" =>
       /\ LengthHeaders(s) # {}
       /\ \A i \in LengthHeaders(s) :
            /\ Length(i) > 0
            /\ \A j \in 1..Length(i) :
                 HeaderEnd(s) + j \in DOMAIN s => s[HeaderEnd(s) + j] \in WithEquals

\* Nothing the parser reads or writes is out of bounds for such a request, unless its
\* body was cut off as above.  (A header with a colon for '=' is not one.)
SoundRequestSafe ==
  crash \in {"line buffer", "start line", "header name", "content length", "data", "parameter"} =>
    \E h \in Handlers : stream[h] # <<>> /\ (Sound(stream[h]) => bodyCut[h])

\* What a program has read, and printed, when it comes to step i, if there is enough
\* to read: "all" and "eof" read everything that is written.
Before(h, i) == {j \in 1..(i - 1) : j <= Len(cgi[h].program)}
ReadsBefore(h, i) ==
  IF \E j \in Before(h, i) : cgi[h].program[j] \in {"all", "eof"} THEN 4 * ParamCount(h)
  ELSE Cardinality({j \in Before(h, i) : cgi[h].program[j] = "one"})
PrintsBefore(h, i) == Cardinality({j \in Before(h, i) : cgi[h].program[j] \notin Reads})

End(h) == Len(cgi[h].program) + 1

\* The server dies of SIGPIPE while it writes the parameters only if the program
\* ends before it has read them all, down to the last newline (lines 94-100).  To read
\* as many characters as CGIDATA announces is not enough: cgiContentLength (lines
\* 214-223) counts keys and values, not the blanks and newlines between them.
PoliteNeverKills ==
  crash = "write" =>
    \E h \in Handlers : at[h] = "write" /\ ReadsBefore(h, End(h)) < 4 * ParamCount(h)

\* strlen leaves its buffer only for the output of a program that fills the page, or
\* for a file that is not html (lines 105, 109 and 129).
ShortOutputSafe ==
  crash = "page" =>
    \E h \in Handlers :
      \/ Len(cgi[h].printed) >= PageSize
      \/ at[h] = "file" /\ ResourceType[fields[h].url] # "html"

\* What an out-of-bounds access or a SIGPIPE needs, bar those of a client that hangs
\* up and a file that vanishes: a request that is not sound or is cut off, a program
\* that does not read all its parameters, a program that prints a page, an image.
DiesOnlyOf == SoundRequestSafe /\ PoliteNeverKills /\ ShortOutputSafe

\* A program is run for a POST only: the parameters of a url are never seen, though
\* parseUrlDataParamList is there to split them off (HttpData.cpp, line 127).
CgiOnlyAfterPost ==
  \A h \in Handlers : cgi[h].child # "none" => fields[h].method = "POST"

\* A connection is marked to be kept only by a header with '=' where HTTP has a
\* colon (getHeaderLineName): a client that asks as HTTP says is not heard.
KeptByEquals ==
  \A h \in Handlers : fields[h].keep = "keep-alive" =>
    \E i \in DOMAIN stream[h] : stream[h][i] = "Connection="

\* Two things README.md and HttpData.h offer that no client gets by asking for them.
AskedInVain == CgiOnlyAfterPost /\ KeptByEquals

\* No zombie is left of a request that was answered (waitpid, Responser.cpp:112).
ChildReaped ==
  \A h \in Handlers : at[h] \in {"kept", "closed"} => cgi[h].child \in {"none", "reaped"}

\* What a handler that was not cut short leaves open in the server: nothing, or two
\* of the four pipe ends for a program it ran, for ever.
LeakExact ==
  \A h \in Handlers : at[h] \in Ended \ {"failed"} =>
    {e \in holds[Server] : e[1] = h} =
      (IF cgi[h].child = "none" THEN {} ELSE {<<h, "inW">>, <<h, "outR">>})

\* What a request leaves behind in the server when it was answered.
LeavesBehind == ChildReaped /\ LeakExact

\* What line 109 sends of the page.
Sent(h) == SubSeq(cgi[h].page, 1, StrLen(cgi[h].page))

\* The client is sent what the program printed up to a NUL, or as much as fits the
\* page, and nothing else if there is no NUL; and unless the page is full the program
\* has ended, and prints no more: output ends when no process has the pipe open, not
\* when it is empty, however the reads have cut it (lines 103-109).
OutputComplete ==
  \A h \in Handlers : at[h] = "answer" =>
    LET printed == cgi[h].printed
        sent == Sent(h) IN
    /\ \A i \in DOMAIN printed \cap 1..PageSize :
         (\A j \in 1..i : printed[j] # Nul) => i <= Len(sent) /\ sent[i] = printed[i]
    /\ (\A i \in DOMAIN printed : printed[i] # Nul) => Len(sent) <= Len(printed)
    /\ Len(sent) < PageSize => cgi[h].child = "zombie"

\* A program that waits for the end of its input, which the server never closes, or
\* for more than it is sent; one that prints more than the server reads and the pipe
\* holds; and one that fills its pipe before it has read so much that the server can
\* write the rest: neither goes on.
Hangs(h) ==
  \E i \in DOMAIN cgi[h].program :
    LET op == cgi[h].program[i] IN
    \/ op = "eof"
    \/ op = "one" /\ ReadsBefore(h, i) >= 4 * ParamCount(h)
    \/ op \notin Reads /\ PrintsBefore(h, i) >= PageSize + PipeCap
    \/ op \notin Reads /\ PrintsBefore(h, i) >= PipeCap
                      /\ ReadsBefore(h, i) + PipeCap < 4 * ParamCount(h)

\* A program that was started ends and is waited for, unless the server dies, a read
\* fails, or some program hangs: another request's is enough, since programs
\* inherit each other's pipes (Responser.cpp, lines 62-112).
CgiEnds ==
  \A h \in Handlers :
    cgi[h].child = "started" ~>
      \/ cgi[h].child = "reaped"
      \/ at[h] = "failed" \/ crash # "no"
      \/ \E g \in Handlers : Hangs(g)

=============================================================================
