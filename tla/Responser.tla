------------------------------ MODULE Responser ------------------------------
(***************************************************************************)
(* The answers: src/src/Responser.cpp, with the choice among them that     *)
(* httpserver() makes (httpserver.cpp, lines 75-88).                       *)
(*                                                                         *)
(* A CGI program is a process that inherits every descriptor the server    *)
(* has at the fork: `holds' says which pipe ends each process has open, so *)
(* that a pipe has a reader, or a writer, exactly as long as one of them   *)
(* holds that end.  What is written to the program is counted, one unit    *)
(* for each call of write.  What it prints are units of text, one of which *)
(* is a NUL: the page buffer is measured by strlen.                        *)
(*                                                                         *)
(* A program is a sequence of what it does: "one" reads what one call has  *)
(* written, "all" reads all the parameters that CGIDATA announces, "eof"   *)
(* reads to the end of its input, and everything else is printed.          *)
(*                                                                         *)
(* Clients and the file system are external: a client may have closed its  *)
(* socket at any send, and files may be removed at any time.               *)
(***************************************************************************)
EXTENDS HttpData

CONSTANTS Server,        \* the process of the server
          Files,         \* what the directory www holds at first
          ResourceType,  \* the suffix of each url
          Programs,      \* what the program of each url may do
          PageSize,      \* room for a program's output in a page buffer
          PipeCap        \* capacity of a pipe

Ends == Handlers \X {"inR", "inW", "outR", "outW"}
Processes == Handlers \cup {Server}

Reads == {"one", "all", "eof"}
Nul == "NUL"

ASSUME ResponserAssumption ==
  /\ Server \notin Handlers
  /\ Files \subseteq DOMAIN ResourceType
  /\ Programs \in [DOMAIN Programs -> SUBSET Seq(STRING)]
  /\ \A url \in Files : ResourceType[url] = "cgi" => url \in DOMAIN Programs
  /\ PageSize \in Nat \ {0} /\ PipeCap \in Nat \ {0}

VARIABLES exists,     \* the files there are
          holds,      \* the pipe ends each process has open
          cgi         \* what the server and the program of each request are doing

\* child: "none", "zombie" when it has ended, "reaped" when waitpid has taken it;
\* step: what the program does next; inPipe: what the input pipe holds; toWrite: the
\* calls of write still to come; toRead: the input the program has not read;
\* printed: history of its output, of which taken is what the server has read;
\* page: the part of buf behind the header, zeroed by memset.
EmptyPage == [i \in 1..PageSize |-> Nul]

NoCgi == [child |-> "none", program |-> <<>>, step |-> 1,
          inPipe |-> 0, toWrite |-> 0, toRead |-> 0,
          printed |-> <<>>, taken |-> 0, page |-> EmptyPage]

pipeVars == <<holds, cgi>>

ResponserInit ==
  /\ exists = Files
  /\ holds = [p \in Processes |-> {}]
  /\ cgi = [h \in Handlers |-> NoCgi]

\* Somebody holds this end of the pipe.
Open(h, end) == \E p \in Processes : <<h, end>> \in holds[p]

Move(h, from, to) == at[h] = from /\ Goto(h, to)

-----------------------------------------------------------------------------
(* Which answer. *)

Answer(h) ==
  LET type == ResourceType[fields[h].url] IN
  IF fields[h].url \notin exists /\ type # "memory" THEN "notFoundReturn"
  ELSE IF type = "cgi" THEN "cgi"
  ELSE IF fields[h].method = "POST" THEN "notFound"
  ELSE IF type = "memory" THEN "memory"
  ELSE "stat"

Dispatch(h) ==
  /\ Move(h, "parsed", Answer(h))
  /\ UNCHANGED <<parserVars, crash, exists, pipeVars>>

\* External: a file is removed, or access to it is.  Only four steps look; a
\* removal is placed before the next that looks for the file.
RemoveFile(h) ==
  /\ at[h] \in {"parsed", "stat", "open"} \/ cgi[h].child = "started"
  /\ fields[h].url \in exists
  /\ exists' = exists \ {fields[h].url}
  /\ UNCHANGED <<parserVars, at, crash, pipeVars>>

-----------------------------------------------------------------------------
(* Pages and files. *)

\* Where the handler goes when what it sends at a place has been sent.
AfterSend == [notFoundReturn |-> "return", notFound |-> "finish", forbidden |-> "finish",
              memory |-> "finish", fileHeader |-> "open", file |-> "finish", answer |-> "wait"]

Send(h) ==
  /\ at[h] \in DOMAIN AfterSend
  /\ Goto(h, AfterSend[at[h]])
  /\ UNCHANGED <<parserVars, crash, exists, pipeVars>>

\* send returns -1.  sendMemoryPage does not look at it, sendForBidden throws a
\* runtime_error, and every other place SocketClosed, which no handler catches.
SendFails(h) ==
  /\ at[h] \in DOMAIN AfterSend \ {"memory"}
  /\ IF at[h] = "forbidden" THEN Goto(h, "exception") /\ UNCHANGED crash
                            ELSE Crash("SocketClosed") /\ UNCHANGED at
  /\ UNCHANGED <<parserVars, exists, pipeVars>>

\* The pages are sent without MSG_NOSIGNAL, and SIGPIPE is not handled.
SendKills(h) ==
  /\ at[h] \in {"notFoundReturn", "notFound", "forbidden", "memory"}
  /\ Crash("SIGPIPE")
  /\ UNCHANGED <<parserVars, at, exists, pipeVars>>

\* sendStaticFileToClient.
Stat(h) ==
  /\ \E next \in (IF fields[h].url \in exists THEN {"fileHeader"} ELSE {"notFound", "forbidden"}) :
       Move(h, "stat", next)
  /\ UNCHANGED <<parserVars, crash, exists, pipeVars>>

\* serverStaticFile reads from what fopen returned, a null pointer or not.
OpenFile(h) ==
  /\ at[h] = "open"
  /\ IF fields[h].url \in exists THEN Goto(h, "file") /\ UNCHANGED crash
                                 ELSE Crash("file") /\ UNCHANGED at
  /\ UNCHANGED <<parserVars, exists, pipeVars>>

PageStep(h) ==
  Dispatch(h) \/ Send(h) \/ SendFails(h) \/ SendKills(h) \/ Stat(h) \/ OpenFile(h)

-----------------------------------------------------------------------------
(* executeCGI in the server. *)

StartCgi(h) ==
  /\ Move(h, "cgi", IF fields[h].params = {} THEN "forbidden" ELSE "pipe in")
  /\ UNCHANGED <<parserVars, crash, exists, pipeVars>>

Pipe(h, from, to, reader, writer) ==
  /\ Move(h, from, to)
  /\ holds' = [holds EXCEPT ![Server] = @ \cup {<<h, reader>>, <<h, writer>>}]
  /\ UNCHANGED <<parserVars, crash, exists, cgi>>

\* pipe, fork or read returns -1; whatever is open stays open.
CgiFails(h) ==
  /\ at[h] \in {"pipe in", "pipe out", "fork", "read"}
  /\ Goto(h, "exception")
  /\ UNCHANGED <<parserVars, crash, exists, pipeVars>>

\* What CGIDATA tells the program first.
ParamCount(h) == Cardinality(fields[h].params)

\* The child has every descriptor the server has, those of other requests too.
\* Each parameter is written by four calls: the key, a blank, the value, a newline.
Fork(h) ==
  /\ Move(h, "fork", "close outW")
  /\ holds' = [holds EXCEPT ![h] = holds[Server]]
  /\ \E p \in Programs[fields[h].url] :
       cgi' = [cgi EXCEPT ![h].child = "started", ![h].program = p,
                          ![h].toWrite = 4 * Cardinality(fields[h].params),
                          ![h].toRead = 4 * ParamCount(h)]
  /\ UNCHANGED <<parserVars, crash, exists>>

\* Mutant: the end is not closed.
CloseEndSkipped(h, from, to, end) ==
  /\ Move(h, from, to)
  /\ UNCHANGED <<parserVars, crash, exists, pipeVars>>

\* Mutant: both ends of the pipe are closed.
CloseEndBoth(h, from, to, end) ==
  /\ Move(h, from, to)
  /\ holds' = [holds EXCEPT ![Server] =
       @ \ {<<h, end>>, IF end = "inR" THEN <<h, "inW">> ELSE <<h, "outR">>}]
  /\ UNCHANGED <<parserVars, crash, exists, cgi>>

CloseEnd(h, from, to, end) ==
  /\ Move(h, from, to)
  /\ holds' = [holds EXCEPT ![Server] = @ \ {<<h, end>>}]
  /\ UNCHANGED <<parserVars, crash, exists, cgi>>

\* One call of write; SIGPIPE when nobody can read it.
WriteInput(h) ==
  /\ Move(h, "write", IF cgi[h].toWrite > 1 THEN "write" ELSE "read")
  /\ Open(h, "inR") /\ cgi[h].inPipe < PipeCap
  /\ cgi' = [cgi EXCEPT ![h].inPipe = @ + 1, ![h].toWrite = @ - 1]
  /\ UNCHANGED <<parserVars, crash, exists, holds>>

WriteKills(h) ==
  /\ at[h] = "write"
  /\ ~Open(h, "inR")
  /\ Crash("write")
  /\ UNCHANGED <<parserVars, at, exists, pipeVars>>

OutPipe(h) == Len(cgi[h].printed) - cgi[h].taken

\* strlen(buf), less the header.
StrLen(page) ==
  CHOOSE n \in 0..PageSize :
    /\ \A i \in 1..n : page[i] # Nul
    /\ n < PageSize => page[n + 1] = Nul

PageFull(h) == StrLen(cgi[h].page) = PageSize

ReadSize(h) ==
  LET room == PageSize - StrLen(cgi[h].page)
  IN  IF OutPipe(h) < room THEN OutPipe(h) ELSE room

\* What is read goes where strlen ends: over all that follows a NUL.
ReadOutput(h) ==
  LET end == StrLen(cgi[h].page)
      n == ReadSize(h)
      Filled(i) == IF i \in (end + 1)..(end + n) THEN cgi[h].printed[cgi[h].taken + i - end]
                                              ELSE cgi[h].page[i] IN
  /\ at[h] = "read" /\ n > 0
  /\ cgi' = [cgi EXCEPT ![h].taken = @ + n, ![h].page = [i \in 1..PageSize |-> Filled(i)]]
  /\ UNCHANGED <<parserVars, at, crash, exists, holds>>

\* Mutant: an empty pipe is taken for its end.
OutputEndsEarly(h) == PageFull(h) \/ OutPipe(h) = 0

\* read returns 0: there is no writer; or strlen of the full page, which has no
\* NUL, stops right behind it by chance, and no room is left.
OutputEnds(h) ==
  \/ PageFull(h)
  \/ OutPipe(h) = 0 /\ ~Open(h, "outW")

EndRead(h) ==
  /\ OutputEnds(h)
  /\ Move(h, "read", "answer")
  /\ UNCHANGED <<parserVars, crash, exists, pipeVars>>

\* strlen without a NUL: of the full page, before it is read into again or sent, and
\* of what serverStaticFile reads of any file but html.  (If it stops further behind
\* the page, the size that is left is negative and the read fails: CgiFails.)
Overread(h) ==
  /\ \/ at[h] \in {"read", "answer"} /\ PageFull(h)
     \/ at[h] = "file" /\ ResourceType[fields[h].url] # "html"
  /\ Crash("page")
  /\ UNCHANGED <<parserVars, at, exists, pipeVars>>

\* waitpid.
Wait(h) ==
  /\ cgi[h].child = "zombie"
  /\ Move(h, "wait", "finish")
  /\ cgi' = [cgi EXCEPT ![h].child = "reaped"]
  /\ UNCHANGED <<parserVars, crash, exists, holds>>

CgiStep(h) ==
  \/ StartCgi(h)
  \/ Pipe(h, "pipe in", "pipe out", "inR", "inW")
  \/ Pipe(h, "pipe out", "fork", "outR", "outW")
  \/ Fork(h) \/ CgiFails(h)
  \/ CloseEnd(h, "close outW", "close inR", "outW")
  \/ CloseEnd(h, "close inR", "write", "inR")
  \/ WriteInput(h) \/ WriteKills(h)
  \/ ReadOutput(h) \/ EndRead(h) \/ Overread(h)
  \/ Wait(h)

-----------------------------------------------------------------------------
(* The program: executeCGI up to execl, then external.  The server never     *)
(* closes outR, so a program that prints is never killed by SIGPIPE.         *)

\* execl finds no program when the file has gone, and exit(0) is called.
ChildCloses(h) ==
  /\ cgi[h].child = "started"
  /\ holds' = [holds EXCEPT ![h] = @ \ {<<h, "inW">>, <<h, "outR">>}]
  /\ cgi' = [cgi EXCEPT ![h].child = "running",
                        ![h].program = IF fields[h].url \in exists THEN @ ELSE <<>>]
  /\ UNCHANGED <<parserVars, at, crash, exists>>

Working(h) == cgi[h].child = "running" /\ cgi[h].step <= Len(cgi[h].program)
Op(h) == cgi[h].program[cgi[h].step]

\* It has read what this step wants.
InputEnds(h) ==
  \/ Op(h) = "all" /\ cgi[h].toRead = 0
  \/ cgi[h].inPipe = 0 /\ ~Open(h, "inW")

ChildReads(h) ==
  /\ Working(h) /\ Op(h) \in Reads
  /\ ~InputEnds(h) /\ cgi[h].inPipe > 0
  /\ cgi' = [cgi EXCEPT ![h].inPipe = @ - 1, ![h].toRead = @ - 1,
                        ![h].step = IF Op(h) = "one" THEN @ + 1 ELSE @]
  /\ UNCHANGED <<parserVars, at, crash, exists, holds>>

ChildHasRead(h) ==
  /\ Working(h) /\ Op(h) \in Reads
  /\ InputEnds(h)
  /\ cgi' = [cgi EXCEPT ![h].step = @ + 1]
  /\ UNCHANGED <<parserVars, at, crash, exists, holds>>

ChildPrints(h) ==
  /\ Working(h) /\ Op(h) \notin Reads
  /\ OutPipe(h) < PipeCap
  /\ cgi' = [cgi EXCEPT ![h].printed = Append(@, Op(h)), ![h].step = @ + 1]
  /\ UNCHANGED <<parserVars, at, crash, exists, holds>>

ChildExits(h) ==
  /\ cgi[h].child = "running" /\ cgi[h].step > Len(cgi[h].program)
  /\ holds' = [holds EXCEPT ![h] = {}]
  /\ cgi' = [cgi EXCEPT ![h].child = "zombie"]
  /\ UNCHANGED <<parserVars, at, crash, exists>>

ChildStep(h) ==
  ChildCloses(h) \/ ChildReads(h) \/ ChildHasRead(h) \/ ChildPrints(h) \/ ChildExits(h)

AnswerPlaces == DOMAIN AfterSend \cup
  {"parsed", "stat", "open", "cgi", "pipe in", "pipe out", "fork", "close outW", "close inR",
   "write", "read", "wait"}

=============================================================================
