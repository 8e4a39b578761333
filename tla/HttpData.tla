------------------------------- MODULE HttpData -------------------------------
(***************************************************************************)
(* The request parser: src/src/HttpData.cpp and src/include/HttpData.h,    *)
(* one object for each handler of the server.                              *)
(*                                                                         *)
(* A client's bytes are a sequence of units: carriage return, line feed,   *)
(* and words, which stand for the text between two blanks of a line (the   *)
(* tokens of stringSplit) and for one parameter of a body.  recv gives the *)
(* parser any number of them that fits its buffer, so a request may be cut *)
(* between any two units; text inside a word is never looked at in pieces. *)
(*                                                                         *)
(* Where the code reads outside an object, the program may crash or go on  *)
(* with what the memory held: both are steps.  Where it writes outside     *)
(* one, nothing is known of what follows.  `crash' names the place, and a  *)
(* behaviour ends there.                                                   *)
(***************************************************************************)
EXTENDS Integers, Sequences, FiniteSets

CONSTANTS Handlers,      \* the requests being handled, each by a thread
          Streams,       \* what the clients may send
          BufferSize,    \* HTTPDATA_BUFFERSIZE
          LineSize,      \* LINE_BUFFERSIZE
          WithEquals,    \* the words that contain '='
          Numeral,       \* the words that are numbers, with their values
          Query          \* the urls with a '?', each with the part before it and
                         \* the parameters after it

CR == "\r"
LF == "\n"
Garbage == "?"             \* what uninitialised memory or memory past the end holds
NoLength == <<Garbage>>    \* contentLength, the null pointer

ASSUME HttpDataAssumption ==
  /\ IsFiniteSet(Handlers)
  /\ Streams \subseteq [Handlers -> Seq(STRING)]
  /\ BufferSize \in Nat \ {0} /\ LineSize \in Nat \ {0}
  /\ Numeral \in [DOMAIN Numeral -> Nat] /\ Garbage \notin DOMAIN Numeral
  /\ Query \in [DOMAIN Query -> [path : STRING, params : SUBSET Seq(WithEquals)]]
  /\ {CR, LF} \cap (WithEquals \cup DOMAIN Numeral) = {}
  /\ {"Connection=", "Content-Length="} \subseteq WithEquals

VARIABLES stream,        \* what each client sends, all of it
          wire,          \* the part recv has not returned yet
          dataBuffer, readIndex, dataEndIndex, prev,
          lineBuffer,    \* of parseOneLine
          data,          \* of parseBodyParamData
          fields,        \* the members that hold the parsed request
          at,            \* where each handler is
          crash,         \* "no", or what ended the process
          lineEnds,      \* history: the positions where parseOneLine returned
          bodyCut        \* history: recv had returned exactly the header when
                         \* the body was to be read

bufferVars == <<wire, dataBuffer, readIndex, dataEndIndex>>
parserVars == <<stream, bufferVars, prev, lineBuffer, data, fields, lineEnds, bodyCut>>

HttpDataInit ==
  /\ stream \in Streams
  /\ wire = stream
  /\ dataBuffer = [h \in Handlers |-> <<>>]
  /\ readIndex = [h \in Handlers |-> BufferSize]
  /\ dataEndIndex = [h \in Handlers |-> BufferSize - 1]
  /\ prev = [h \in Handlers |-> ""]
  /\ lineBuffer = [h \in Handlers |-> <<>>]
  /\ data = [h \in Handlers |-> <<>>]
  /\ fields = [h \in Handlers |->
       [method |-> "UNSUPPORT", url |-> Garbage, keep |-> Garbage,
        contentLength |-> NoLength, params |-> {}]]
  /\ at = [h \in Handlers |-> "start line"]
  /\ crash = "no"
  /\ lineEnds = [h \in Handlers |-> {}]
  /\ bodyCut = [h \in Handlers |-> FALSE]

Goto(h, place) == at' = [at EXCEPT ![h] = place]

Crash(place) == crash' = place

-----------------------------------------------------------------------------
(* readRawDataFromSocket. *)

DataBufferEmpty(h) == readIndex[h] > dataEndIndex[h] \/ readIndex[h] >= BufferSize

\* Inside parseOneLine, and inside the loop of parseBodyParamData.
InLoop(h) == at[h] \in {"start line", "header", "body"}

Received(h) == Len(stream[h]) - Len(wire[h])
Consumed(h) == Received(h) - (dataEndIndex[h] - readIndex[h] + 1)

\* Mutant: dataEndIndex is the number of bytes.
LastIndexOff(n) == n

LastIndex(n) == n - 1

Recv(h) ==
  /\ InLoop(h) /\ DataBufferEmpty(h)
  /\ \E n \in 1..Len(wire[h]) :
       /\ n <= BufferSize
       /\ dataBuffer' = [dataBuffer EXCEPT ![h] = SubSeq(wire[h], 1, n)]
       /\ wire' = [wire EXCEPT ![h] = SubSeq(@, n + 1, Len(@))]
       /\ readIndex' = [readIndex EXCEPT ![h] = 0]
       /\ dataEndIndex' = [dataEndIndex EXCEPT ![h] = LastIndex(n)]
  /\ UNCHANGED <<stream, prev, lineBuffer, data, fields, lineEnds, bodyCut, at, crash>>

\* The peer has closed and sends no more: SocketClosed, which no handler catches.
RecvClosed(h) ==
  /\ InLoop(h) /\ DataBufferEmpty(h)
  /\ Crash("SocketClosed")
  /\ UNCHANGED <<parserVars, at>>

RecvFails(h) ==
  /\ InLoop(h) /\ DataBufferEmpty(h)
  /\ Goto(h, "exception")
  /\ UNCHANGED <<parserVars, crash>>

-----------------------------------------------------------------------------
(* parseOneLine. *)

Unit(h) == dataBuffer[h][readIndex[h] + 1]

AtLineUnit(h) == at[h] \in {"start line", "header"} /\ ~DataBufferEmpty(h)

\* Mutant: prev is not a member but starts anew with each buffer.
EndsLineLocalPrev(h) == prev[h] = CR /\ Unit(h) = LF /\ readIndex[h] > 0

EndsLine(h) == prev[h] = CR /\ Unit(h) = LF

\* The index into lineBuffer is not compared with its size.
StoreInLine(h) == IF Len(lineBuffer[h]) < LineSize THEN UNCHANGED crash ELSE Crash("line buffer")

TakeUnit(h) ==
  /\ AtLineUnit(h)
  /\ ~EndsLine(h)
  /\ StoreInLine(h)
  /\ lineBuffer' = [lineBuffer EXCEPT ![h] = Append(@, Unit(h))]
  /\ prev' = [prev EXCEPT ![h] = Unit(h)]
  /\ readIndex' = [readIndex EXCEPT ![h] = @ + 1]
  /\ UNCHANGED <<stream, wire, dataBuffer, dataEndIndex, data, fields, lineEnds, bodyCut, at>>

\* The CRLF is cut off and the line returned.
EndLine(h) ==
  /\ AtLineUnit(h)
  /\ EndsLine(h)
  /\ StoreInLine(h)
  /\ lineBuffer' = [lineBuffer EXCEPT ![h] = SubSeq(@, 1, Len(@) - 1)]
  /\ prev' = [prev EXCEPT ![h] = ""]
  /\ readIndex' = [readIndex EXCEPT ![h] = @ + 1]
  /\ lineEnds' = [lineEnds EXCEPT ![h] = @ \cup {Consumed(h) + 1}]
  /\ Goto(h, IF at[h] = "start line" THEN "start line read" ELSE "header read")
  /\ UNCHANGED <<stream, wire, dataBuffer, dataEndIndex, data, fields, bodyCut>>

-----------------------------------------------------------------------------
(* parseStartLine and parseHeader. *)

\* Mutant: a line is not cleared before the next.
NextLineKept(h) == UNCHANGED lineBuffer

NextLine(h) == lineBuffer' = [lineBuffer EXCEPT ![h] = <<>>]

\* headerInfo is the words of the line.  An empty one is a bad request, one that
\* does not start with GET or POST is unsupported.
Supported(info) == info # <<>> /\ info[1] \in {"GET", "POST"}

GiveUp(h) ==
  /\ at[h] = "start line read"
  /\ ~Supported(lineBuffer[h])
  /\ Goto(h, "return")
  /\ UNCHANGED <<parserVars, crash>>

\* Mutant: the parameters are split off as the comment on line 122 says.
SplitUrlAtQuery(url) ==
  IF url \in DOMAIN Query THEN Query[url] ELSE [path |-> url, params |-> {}]

\* parseUrlDataParamList: the condition of line 127 assigns `size != 0 || ...',
\* which is true of every url, so it returns before it has done anything.
SplitUrl(url) == [path |-> url, params |-> {}]

\* headerInfo[1] and [2] are read without looking at its size.
ParseStartLine(h) ==
  LET info == lineBuffer[h]
      url == IF Len(info) < 2 THEN Garbage
             ELSE IF info[2] = "/" THEN "/index.html" ELSE info[2] IN
  /\ at[h] = "start line read"
  /\ Supported(info)
  /\ \/ /\ fields' = [fields EXCEPT
              ![h].method = info[1],
              ![h].url = SplitUrl(url).path,
              ![h].params = SplitUrl(url).params]
        /\ NextLine(h)
        /\ Goto(h, "header")
        /\ UNCHANGED crash
     \/ /\ Len(info) < 3
        /\ Crash("start line")
        /\ UNCHANGED <<fields, lineBuffer, at>>
  /\ UNCHANGED <<stream, bufferVars, prev, data, lineEnds, bodyCut>>

\* getHeaderLineName looks for '=' and not for ':'.  Of the headers with one, two
\* have an effect; the value of Connection is compared whole.
StoreHeader(h) ==
  /\ at[h] = "header read"
  /\ \E i \in DOMAIN lineBuffer[h] : lineBuffer[h][i] \in WithEquals
  /\ LET line == lineBuffer[h] IN
     fields' = [fields EXCEPT
       ![h].keep = IF line = <<"Connection=", "keep-alive">> THEN "keep-alive" ELSE @,
       ![h].contentLength = IF line[1] = "Content-Length=" THEN Tail(line) ELSE @]
  /\ NextLine(h)
  /\ Goto(h, "header")
  /\ UNCHANGED <<stream, bufferVars, prev, data, lineEnds, bodyCut, crash>>

\* In a line without '=' the search runs past its end: it stops somewhere, and the
\* name found is the whole line, or it crashes.
SkipHeader(h) ==
  /\ at[h] = "header read"
  /\ lineBuffer[h] # <<>>
  /\ \A i \in DOMAIN lineBuffer[h] : lineBuffer[h][i] \notin WithEquals
  /\ \/ /\ fields' = [fields EXCEPT
              ![h].contentLength = IF lineBuffer[h] = <<"Content-Length">> THEN <<>> ELSE @]
        /\ NextLine(h)
        /\ Goto(h, "header")
        /\ UNCHANGED crash
     \/ /\ Crash("header name")
        /\ UNCHANGED <<fields, lineBuffer, at>>
  /\ UNCHANGED <<stream, bufferVars, prev, data, lineEnds, bodyCut>>

EndHeader(h) ==
  /\ at[h] = "header read"
  /\ lineBuffer[h] = <<>>
  /\ Goto(h, IF fields[h].method = "POST" THEN "body start" ELSE "parsed")
  /\ UNCHANGED <<parserVars, crash>>

-----------------------------------------------------------------------------
(* parseBodyParamData. *)

ContentLength(h) == Numeral[fields[h].contentLength[1]]

HasNumber(h) ==
  fields[h].contentLength # <<>> /\ fields[h].contentLength[1] \in DOMAIN Numeral

\* numeralContentLength without a number: the pointer is null, or there is no
\* blank to find, or stoi throws.
NoNumber(h) ==
  /\ at[h] = "body start"
  /\ ~HasNumber(h)
  /\ \/ /\ fields[h].contentLength \in {NoLength, <<>>}
        /\ Crash("content length")
        /\ UNCHANGED at
     \/ /\ fields[h].contentLength # NoLength
        /\ Goto(h, "exception")
        /\ UNCHANGED crash
  /\ UNCHANGED parserVars

\* The header was the last that recv returned: the loop of line 107 is not
\* entered, nothing is read, and the memory that new returned is parsed up to its
\* first zero.
BodyUnread(h) ==
  /\ at[h] = "body start"
  /\ HasNumber(h) /\ DataBufferEmpty(h)
  /\ bodyCut' = [bodyCut EXCEPT ![h] = TRUE]
  /\ \/ /\ \E found \in {{}, {<<Garbage>>}} :
             /\ found = {} => ContentLength(h) > 0
             /\ fields' = [fields EXCEPT ![h].params = found]
        /\ Goto(h, "parsed")
        /\ UNCHANGED crash
     \/ /\ Crash("parameter")
        /\ UNCHANGED <<fields, at>>
  /\ UNCHANGED <<stream, bufferVars, prev, lineBuffer, data, lineEnds>>

BeginBody(h) ==
  /\ at[h] = "body start"
  /\ HasNumber(h) /\ ~DataBufferEmpty(h)
  /\ Goto(h, "body")
  /\ UNCHANGED <<parserVars, crash>>

\* data has room for two bytes more than the length; a length of 0 is passed by
\* before it is compared with the index.
TakeBodyUnit(h) ==
  /\ at[h] = "body" /\ ~DataBufferEmpty(h)
  /\ data' = [data EXCEPT ![h] = Append(@, Unit(h))]
  /\ readIndex' = [readIndex EXCEPT ![h] = @ + 1]
  /\ IF Len(data'[h]) = ContentLength(h) THEN Goto(h, "body read") ELSE UNCHANGED at
  /\ IF Len(data[h]) < ContentLength(h) + 2 THEN UNCHANGED crash ELSE Crash("data")
  /\ UNCHANGED <<stream, wire, dataBuffer, dataEndIndex, prev, lineBuffer, fields, lineEnds,
                 bodyCut>>

\* Units i to j make a key: the text from the start of i to the first '=', or to
\* the end if there is none.  The values are lost: `end = mid' on line 146 assigns,
\* and "" is stored.
IsKey(body, i, j) ==
  /\ i <= j
  /\ body[j] \in WithEquals \/ j = Len(body)
  /\ \A k \in i..(j - 1) : body[k] \notin WithEquals

Keys(body) ==
  {SubSeq(body, p[1], p[2]) :
     p \in {q \in (1..Len(body)) \X (1..Len(body)) : IsKey(body, q[1], q[2])}}

\* The search for a last '=' that is not there leaves the string.
ParseBody(h) ==
  /\ at[h] = "body read"
  /\ \/ /\ fields' = [fields EXCEPT ![h].params = Keys(data[h])]
        /\ Goto(h, "parsed")
        /\ UNCHANGED crash
     \/ /\ data[h][Len(data[h])] \notin WithEquals
        /\ Crash("parameter")
        /\ UNCHANGED <<fields, at>>
  /\ UNCHANGED <<stream, bufferVars, prev, lineBuffer, data, lineEnds, bodyCut>>

ParseStep(h) ==
  \/ Recv(h) \/ RecvClosed(h) \/ RecvFails(h)
  \/ TakeUnit(h) \/ EndLine(h)
  \/ GiveUp(h) \/ ParseStartLine(h)
  \/ StoreHeader(h) \/ SkipHeader(h) \/ EndHeader(h)
  \/ NoNumber(h) \/ BodyUnread(h) \/ BeginBody(h) \/ TakeBodyUnit(h) \/ ParseBody(h)

ParsePlaces == {"start line", "start line read", "header", "header read",
                "body start", "body", "body read"}

=============================================================================
