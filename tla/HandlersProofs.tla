---------------------------- MODULE HandlersProofs ----------------------------
EXTENDS Handlers, TLAPS, SequenceTheorems, FiniteSetTheorems, WellFoundedInduction

-----------------------------------------------------------------------------
(* Types. *)

Places == ParsePlaces \cup AnswerPlaces \cup Ended \cup {"finish", "exception", "return"}

\* STRING, and those words of the parser's own that its variables can hold: the provers do
\* not know that a literal is in STRING.
Text == STRING \cup {"", Garbage, "/index.html", "keep-alive"}

Fields == [method : {"UNSUPPORT", "GET", "POST"}, url : Text, keep : Text,
           contentLength : Seq(Text), params : SUBSET Seq(Text)]

ParserTyped ==
  /\ stream \in Streams
  /\ wire \in [Handlers -> Seq(Text)] /\ dataBuffer \in [Handlers -> Seq(Text)]
  /\ readIndex \in [Handlers -> Nat] /\ dataEndIndex \in [Handlers -> Nat]
  /\ prev \in [Handlers -> Text]
  /\ lineBuffer \in [Handlers -> Seq(Text)] /\ data \in [Handlers -> Seq(Text)]
  /\ fields \in [Handlers -> Fields]
  /\ lineEnds \in [Handlers -> SUBSET Int] /\ bodyCut \in [Handlers -> BOOLEAN]
  /\ at \in [Handlers -> Places]

\* What recv has returned and not yet been read is what the client sent, at its place.
BufferOf(h) ==
  /\ Len(wire[h]) <= Len(stream[h])
  /\ \A k \in 1..Len(wire[h]) : wire[h][k] = stream[h][Received(h) + k]
  /\ dataEndIndex[h] < BufferSize
  /\ readIndex[h] <= dataEndIndex[h] + 1
  /\ Consumed(h) >= 0
  /\ \A k \in readIndex[h]..dataEndIndex[h] :
       /\ k + 1 \in DOMAIN dataBuffer[h]
       /\ dataBuffer[h][k + 1] = stream[h][Received(h) - dataEndIndex[h] + k]

Buffers == \A h \in Handlers : BufferOf(h)

LEMMA Constants ==
  /\ BufferSize \in Nat /\ BufferSize >= 1 /\ LineSize \in Nat
  /\ \A c \in Streams : c \in [Handlers -> Seq(Text)]
  /\ Server \notin Handlers /\ Handlers \subseteq Processes /\ Server \in Processes
  /\ PageSize \in Nat /\ PageSize >= 1 /\ PipeCap \in Nat
<1>1. ASSUME NEW s \in Seq(STRING)
      PROVE  s \in Seq(Text)
  <2>1. \A i \in 1..Len(s) : s[i] \in Text
    BY ElementOfSeq DEF Text
  <2>2. s \in [1..Len(s) -> Text] /\ Len(s) \in Nat
    BY <2>1, LenProperties
  <2> QED
    BY <2>2, SeqDef
<1>2. Streams \subseteq [Handlers -> Seq(STRING)]
  BY HttpDataAssumption
<1>3. \A c \in Streams : c \in [Handlers -> Seq(Text)]
  <2> SUFFICES ASSUME NEW c \in Streams
               PROVE  c \in [Handlers -> Seq(Text)]
    OBVIOUS
  <2>1. c \in [Handlers -> Seq(STRING)]
    BY <1>2
  <2>2. \A h \in Handlers : c[h] \in Seq(Text)
    BY <1>1, <2>1
  <2> QED
    BY <2>1, <2>2
<1> QED
  BY <1>3, HttpDataAssumption, ResponserAssumption DEF Processes

LEMMA AfterSendIs ==
  /\ DOMAIN AfterSend = {"notFoundReturn", "notFound", "forbidden", "memory", "fileHeader",
                         "file", "answer"}
  /\ AfterSend["notFoundReturn"] = "return"
  /\ \A p \in {"notFound", "forbidden", "memory", "file"} : AfterSend[p] = "finish"
  /\ AfterSend["fileHeader"] = "open" /\ AfterSend["answer"] = "wait"
BY DEF AfterSend

\* The numbers of a handler.
LEMMA Numbers ==
  ASSUME ParserTyped, NEW h \in Handlers
  PROVE  /\ readIndex[h] \in Nat /\ dataEndIndex[h] \in Nat /\ BufferSize \in Nat
         /\ wire[h] \in Seq(Text) /\ Len(wire[h]) \in Nat
         /\ stream[h] \in Seq(Text) /\ Len(stream[h]) \in Nat
         /\ Received(h) = Len(stream[h]) - Len(wire[h])
         /\ Received(h) \in Int /\ Received(h) <= Len(stream[h])
         /\ Consumed(h) = Received(h) - (dataEndIndex[h] - readIndex[h] + 1)
         /\ Consumed(h) \in Int
<1>1. /\ readIndex[h] \in Nat /\ dataEndIndex[h] \in Nat /\ BufferSize \in Nat
      /\ wire[h] \in Seq(Text) /\ stream[h] \in Seq(Text)
  BY Constants DEF ParserTyped
<1>2. Len(wire[h]) \in Nat /\ Len(stream[h]) \in Nat
  BY <1>1, LenProperties
<1>3. \A m, n \in Nat : m - n \in Int /\ m - n <= m
  OBVIOUS
<1>4. Received(h) = Len(stream[h]) - Len(wire[h])
  BY DEF Received
<1>5. Received(h) \in Int /\ Received(h) <= Len(stream[h])
  BY <1>2, <1>3, <1>4
<1>6. Consumed(h) = Received(h) - (dataEndIndex[h] - readIndex[h] + 1)
  BY DEF Consumed
<1>7. Consumed(h) \in Int
  BY <1>1, <1>5, <1>6
<1> QED
  BY <1>1, <1>2, <1>4, <1>5, <1>6, <1>7

\* The units in the hands of the parser.
LEMMA UnitIs ==
  ASSUME ParserTyped, NEW h \in Handlers, BufferOf(h), ~DataBufferEmpty(h)
  PROVE  /\ Unit(h) \in Text /\ Unit(h) = stream[h][Consumed(h) + 1]
         /\ Consumed(h) \in Nat /\ Consumed(h) + 1 <= Len(stream[h])
         /\ readIndex[h] <= dataEndIndex[h] /\ readIndex[h] + 1 \in DOMAIN dataBuffer[h]
<1>0. /\ readIndex[h] \in Nat /\ dataEndIndex[h] \in Nat
      /\ Received(h) \in Int /\ Received(h) <= Len(stream[h])
      /\ Consumed(h) = Received(h) - (dataEndIndex[h] - readIndex[h] + 1)
      /\ Consumed(h) \in Int /\ Len(stream[h]) \in Nat
  BY Numbers
<1>1. readIndex[h] \in readIndex[h]..dataEndIndex[h]
  BY <1>0 DEF DataBufferEmpty
<1>2. /\ readIndex[h] + 1 \in DOMAIN dataBuffer[h]
      /\ Unit(h) = stream[h][Received(h) - dataEndIndex[h] + readIndex[h]]
  BY <1>1 DEF BufferOf, Unit
<1>3. Unit(h) \in Text
  <2>1. dataBuffer[h] \in Seq(Text)
    BY DEF ParserTyped
  <2> QED
    BY <1>2, <2>1, LenProperties, ElementOfSeq DEF Unit
<1>4. Consumed(h) >= 0
  BY DEF BufferOf
<1>5. Received(h) - dataEndIndex[h] + readIndex[h] = Consumed(h) + 1
  BY <1>0
<1>6. Consumed(h) \in Nat /\ Consumed(h) + 1 <= Len(stream[h]) /\ readIndex[h] <= dataEndIndex[h]
  BY <1>0, <1>1, <1>4
<1> QED
  BY <1>2, <1>3, <1>5, <1>6

LEMMA FieldsKept ==
  ASSUME NEW f \in [Handlers -> Fields], NEW h \in Handlers
  PROVE  /\ \A m \in {"GET", "POST"}, url \in Text :
              [f EXCEPT ![h].method = m, ![h].url = url, ![h].params = {}] \in [Handlers -> Fields]
         /\ \A keep \in Text, l \in Seq(Text) :
              [f EXCEPT ![h].keep = keep, ![h].contentLength = l] \in [Handlers -> Fields]
         /\ \A l \in Seq(Text) : [f EXCEPT ![h].contentLength = l] \in [Handlers -> Fields]
         /\ \A found \in SUBSET Seq(Text) : [f EXCEPT ![h].params = found] \in [Handlers -> Fields]
<1>1. ASSUME NEW m \in {"GET", "POST"}, NEW url \in Text
      PROVE  [f EXCEPT ![h].method = m, ![h].url = url, ![h].params = {}] \in [Handlers -> Fields]
  BY DEF Fields
<1>2. ASSUME NEW keep \in Text, NEW l \in Seq(Text)
      PROVE  [f EXCEPT ![h].keep = keep, ![h].contentLength = l] \in [Handlers -> Fields]
  BY DEF Fields
<1>3. ASSUME NEW found \in SUBSET Seq(Text)
      PROVE  [f EXCEPT ![h].params = found] \in [Handlers -> Fields]
  BY DEF Fields
<1>4. ASSUME NEW l \in Seq(Text)
      PROVE  [f EXCEPT ![h].contentLength = l] \in [Handlers -> Fields]
  BY DEF Fields
<1> QED
  BY <1>1, <1>2, <1>3, <1>4

LEMMA EmptyLine == <<>> \in Seq(Text) /\ <<Garbage>> \in Seq(Text)
<1>1. <<>> \in Seq(Text)
  BY EmptySeq
<1>2. Append(<<>>, Garbage) = <<Garbage>>
  OBVIOUS
<1>3. Append(<<>>, Garbage) \in Seq(Text)
  <2>1. Garbage \in Text
    BY DEF Text
  <2> QED
    BY <1>1, <2>1, AppendProperties
<1> QED
  BY <1>1, <1>2, <1>3

LEMMA ParserTypedKept ==
  ASSUME ParserTyped, NEW h \in Handlers, BufferOf(h), ParseStep(h)
  PROVE  ParserTyped'
<1>0. /\ at[h] \in Places /\ fields[h] \in Fields /\ lineBuffer[h] \in Seq(Text)
      /\ wire[h] \in Seq(Text) /\ Len(wire[h]) \in Nat /\ data[h] \in Seq(Text)
      /\ readIndex[h] \in Nat /\ Consumed(h) \in Int
  BY Numbers DEF ParserTyped
<1>1. ASSUME UNCHANGED parserVars, at' = at \/ \E q \in Places : Goto(h, q)
      PROVE  ParserTyped'
  BY <1>1 DEF ParserTyped, parserVars, bufferVars, Goto
<1>2. CASE Recv(h)
  <2>1. PICK n \in 1..Len(wire[h]) :
          /\ n <= BufferSize
          /\ dataBuffer' = [dataBuffer EXCEPT ![h] = SubSeq(wire[h], 1, n)]
          /\ wire' = [wire EXCEPT ![h] = SubSeq(@, n + 1, Len(@))]
          /\ readIndex' = [readIndex EXCEPT ![h] = 0]
          /\ dataEndIndex' = [dataEndIndex EXCEPT ![h] = n - 1]
    BY <1>2 DEF Recv, LastIndex
  <2>2. SubSeq(wire[h], 1, n) \in Seq(Text)
    <3>1. \A i \in 1..n : wire[h][i] \in Text
      BY <1>0, ElementOfSeq
    <3> QED
      BY <3>1, SubSeqProperties
  <2>3. SubSeq(wire[h], n + 1, Len(wire[h])) \in Seq(Text)
    <3>1. \A i \in (n + 1)..Len(wire[h]) : wire[h][i] \in Text
      BY <1>0, ElementOfSeq
    <3> QED
      BY <1>0, <3>1, SubSeqProperties
  <2>4. n - 1 \in Nat
    BY <1>0
  <2>5. UNCHANGED <<stream, prev, lineBuffer, data, fields, lineEnds, bodyCut, at>>
    BY <1>2 DEF Recv
  <2> QED
    BY <2>1, <2>2, <2>3, <2>4, <2>5 DEF ParserTyped
<1>3. CASE RecvClosed(h) \/ RecvFails(h) \/ GiveUp(h) \/ EndHeader(h) \/ NoNumber(h) \/ BeginBody(h)
  <2>1. UNCHANGED parserVars
    BY <1>3 DEF RecvClosed, RecvFails, GiveUp, EndHeader, NoNumber, BeginBody
  <2>2. at' = at \/ \E q \in Places : Goto(h, q)
    BY <1>3 DEF RecvClosed, RecvFails, GiveUp, EndHeader, NoNumber, BeginBody, Places,
                AnswerPlaces, ParsePlaces
  <2> QED
    BY <1>1, <2>1, <2>2
<1>4. CASE TakeUnit(h)
  <2>1. Unit(h) \in Text
    BY <1>4, UnitIs DEF TakeUnit, AtLineUnit
  <2>2. Append(lineBuffer[h], Unit(h)) \in Seq(Text)
    BY <1>0, <2>1, AppendProperties
  <2>3. /\ lineBuffer' = [lineBuffer EXCEPT ![h] = Append(@, Unit(h))]
        /\ prev' = [prev EXCEPT ![h] = Unit(h)]
        /\ readIndex' = [readIndex EXCEPT ![h] = @ + 1]
        /\ UNCHANGED <<stream, wire, dataBuffer, dataEndIndex, data, fields, lineEnds, bodyCut, at>>
    BY <1>4 DEF TakeUnit
  <2> QED
    BY <2>1, <2>2, <2>3 DEF ParserTyped
<1>5. CASE EndLine(h)
  <2>1. /\ lineBuffer' = [lineBuffer EXCEPT ![h] = SubSeq(@, 1, Len(@) - 1)]
        /\ prev' = [prev EXCEPT ![h] = ""]
        /\ readIndex' = [readIndex EXCEPT ![h] = @ + 1]
        /\ lineEnds' = [lineEnds EXCEPT ![h] = @ \cup {Consumed(h) + 1}]
        /\ UNCHANGED <<stream, wire, dataBuffer, dataEndIndex, data, fields, bodyCut>>
    BY <1>5 DEF EndLine
  <2>2. \E q \in Places : Goto(h, q)
    BY <1>5 DEF EndLine, Places, ParsePlaces
  <2>3. SubSeq(lineBuffer[h], 1, Len(lineBuffer[h]) - 1) \in Seq(Text)
    <3>1. Len(lineBuffer[h]) \in Nat
      BY <1>0, LenProperties
    <3>2. \A i \in 1..(Len(lineBuffer[h]) - 1) : lineBuffer[h][i] \in Text
      BY <1>0, <3>1, ElementOfSeq
    <3> QED
      BY <3>1, <3>2, SubSeqProperties
  <2>4. Consumed(h) + 1 \in Int
    BY <1>0
  <2>5. lineBuffer' \in [Handlers -> Seq(Text)]
    BY <2>1, <2>3 DEF ParserTyped
  <2>6. lineEnds' \in [Handlers -> SUBSET Int]
    BY <2>1, <2>4 DEF ParserTyped
  <2>7. prev' \in [Handlers -> Text] /\ readIndex' \in [Handlers -> Nat]
    <3>1. readIndex[h] + 1 \in Nat
      BY <1>0
    <3>2. "" \in Text
      BY DEF Text
    <3>3. prev' \in [Handlers -> Text]
      BY <2>1, <3>2 DEF ParserTyped
    <3>4. readIndex' \in [Handlers -> Nat]
      BY <2>1, <3>1 DEF ParserTyped
    <3> QED
      BY <3>3, <3>4
  <2>8. at' \in [Handlers -> Places]
    BY <2>2 DEF ParserTyped, Goto
  <2> QED
    BY <2>1, <2>5, <2>6, <2>7, <2>8 DEF ParserTyped
<1>6. CASE ParseStartLine(h)
  <2>0. UNCHANGED <<stream, bufferVars, prev, data, lineEnds, bodyCut>>
    BY <1>6 DEF ParseStartLine
  <2>1. CASE UNCHANGED <<fields, lineBuffer, at>>
    BY <1>1, <2>0, <2>1 DEF parserVars, bufferVars
  <2>2. CASE \E url \in Text :
               /\ fields' = [fields EXCEPT ![h].method = lineBuffer[h][1], ![h].url = url,
                                           ![h].params = {}]
               /\ NextLine(h) /\ Goto(h, "header")
    <3>1. lineBuffer[h][1] \in {"GET", "POST"}
      BY <1>6 DEF ParseStartLine, Supported
    <3>2. PICK url \in Text :
            /\ fields' = [fields EXCEPT ![h].method = lineBuffer[h][1], ![h].url = url,
                                        ![h].params = {}]
            /\ NextLine(h) /\ Goto(h, "header")
      BY <2>2
    <3>3. fields' \in [Handlers -> Fields]
      <4>1. fields \in [Handlers -> Fields]
        BY DEF ParserTyped
      <4> QED
        BY <3>1, <3>2, <4>1, FieldsKept
    <3>4. at' \in [Handlers -> Places]
      BY <3>2 DEF Places, ParsePlaces, ParserTyped, Goto
    <3>5. lineBuffer' \in [Handlers -> Seq(Text)]
      BY <3>2, EmptyLine DEF NextLine, ParserTyped
    <3> QED
      BY <2>0, <3>3, <3>4, <3>5 DEF ParserTyped, bufferVars
  <2>3. /\ NextLine(h) /\ Goto(h, "header")
        /\ fields' = [fields EXCEPT
              ![h].method = lineBuffer[h][1],
              ![h].url = IF Len(lineBuffer[h]) < 2 THEN Garbage
                         ELSE IF lineBuffer[h][2] = "/" THEN "/index.html" ELSE lineBuffer[h][2],
              ![h].params = {}]
        => \E url \in Text :
             /\ fields' = [fields EXCEPT ![h].method = lineBuffer[h][1], ![h].url = url,
                                         ![h].params = {}]
             /\ NextLine(h) /\ Goto(h, "header")
    <3>1. Len(lineBuffer[h]) \in Nat
      BY <1>0, LenProperties
    <3>2. Len(lineBuffer[h]) >= 2 => lineBuffer[h][2] \in Text
      BY <1>0, <3>1, ElementOfSeq
    <3>3. (IF Len(lineBuffer[h]) < 2 THEN Garbage
           ELSE IF lineBuffer[h][2] = "/" THEN "/index.html" ELSE lineBuffer[h][2]) \in Text
      <4>1. Garbage \in Text /\ "/index.html" \in Text
        BY DEF Text
      <4>2. Len(lineBuffer[h]) < 2 \/ Len(lineBuffer[h]) >= 2
        BY <3>1
      <4> QED
        BY <3>2, <4>1, <4>2
    <3> QED
      BY <3>3
  <2> QED
    BY <1>6, <2>1, <2>2, <2>3 DEF ParseStartLine, SplitUrl
<1>7. CASE StoreHeader(h)
  <2>1. PICK keep \in Text, l \in Seq(Text) :
          fields' = [fields EXCEPT ![h].keep = keep, ![h].contentLength = l]
    <3>1. lineBuffer[h] # <<>>
      <4>1. \E i \in DOMAIN lineBuffer[h] : TRUE
        BY <1>7 DEF StoreHeader
      <4>2. DOMAIN lineBuffer[h] = 1..Len(lineBuffer[h])
        BY <1>0, LenProperties
      <4> QED
        BY <4>1, <4>2, EmptySeq
    <3>2. Tail(lineBuffer[h]) \in Seq(Text)
      BY <1>0, <3>1, HeadTailProperties
    <3>3. fields[h].keep \in Text /\ fields[h].contentLength \in Seq(Text)
      BY <1>0 DEF Fields
    <3> DEFINE keep == IF lineBuffer[h] = <<"Connection=", "keep-alive">> THEN "keep-alive"
                       ELSE fields[h].keep
               l == IF lineBuffer[h][1] = "Content-Length=" THEN Tail(lineBuffer[h])
                    ELSE fields[h].contentLength
    <3>4. keep \in Text /\ l \in Seq(Text)
      BY <3>2, <3>3 DEF Text
    <3>5. fields' = [fields EXCEPT ![h].keep = keep, ![h].contentLength = l]
      BY <1>7 DEF StoreHeader
    <3> QED
      BY <3>4, <3>5
  <2>2. fields' \in [Handlers -> Fields]
    <3>1. fields \in [Handlers -> Fields]
      BY DEF ParserTyped
    <3> QED
      BY <2>1, <3>1, FieldsKept
  <2>3. at' \in [Handlers -> Places]
    BY <1>7 DEF StoreHeader, Places, ParsePlaces, ParserTyped, Goto
  <2>4. lineBuffer' \in [Handlers -> Seq(Text)]
    BY <1>7, EmptyLine DEF StoreHeader, NextLine, ParserTyped
  <2>5. UNCHANGED <<stream, bufferVars, prev, data, lineEnds, bodyCut>>
    BY <1>7 DEF StoreHeader
  <2> QED
    BY <2>2, <2>3, <2>4, <2>5 DEF ParserTyped, bufferVars
<1>8. CASE SkipHeader(h)
  <2>1. at' \in [Handlers -> Places]
    BY <1>8 DEF SkipHeader, Places, ParsePlaces, ParserTyped, Goto
  <2>2. lineBuffer' \in [Handlers -> Seq(Text)]
    BY <1>8, EmptyLine DEF SkipHeader, NextLine, ParserTyped
  <2>3. UNCHANGED <<stream, bufferVars, prev, data, lineEnds, bodyCut>>
    BY <1>8 DEF SkipHeader
  <2>4. fields' \in [Handlers -> Fields]
    <3> DEFINE l == IF lineBuffer[h] = <<"Content-Length">> THEN <<>>
                    ELSE fields[h].contentLength
    <3>1. fields \in [Handlers -> Fields]
      BY DEF ParserTyped
    <3>2. l \in Seq(Text)
      BY <3>1, EmptyLine DEF Fields
    <3>3. fields' = fields \/ fields' = [fields EXCEPT ![h].contentLength = l]
      BY <1>8 DEF SkipHeader
    <3>4. \A s \in Seq(Text) : [fields EXCEPT ![h].contentLength = s] \in [Handlers -> Fields]
      BY <3>1, FieldsKept
    <3> HIDE DEF l
    <3> QED
      BY <3>1, <3>2, <3>3, <3>4
  <2> QED
    BY <2>1, <2>2, <2>3, <2>4 DEF ParserTyped, bufferVars
<1>9. CASE BodyUnread(h)
  <2>1. "parsed" \in Places
    BY DEF Places, AnswerPlaces
  <2>2. <<Garbage>> \in Seq(Text)
    BY EmptyLine
  <2>3. UNCHANGED <<stream, bufferVars, prev, lineBuffer, data, lineEnds>>
    BY <1>9 DEF BodyUnread
  <2>4. bodyCut' \in [Handlers -> BOOLEAN]
    BY <1>9 DEF BodyUnread, ParserTyped
  <2>5. fields' \in [Handlers -> Fields] /\ at' \in [Handlers -> Places]
    <3>1. CASE UNCHANGED <<fields, at>>
      BY <3>1 DEF ParserTyped
    <3>2. CASE (\E found \in {{}, {<<Garbage>>}} : fields' = [fields EXCEPT ![h].params = found])
                 /\ Goto(h, "parsed")
      <4>1. PICK found \in SUBSET Seq(Text) : fields' = [fields EXCEPT ![h].params = found]
        BY <2>2, <3>2
      <4>2. fields \in [Handlers -> Fields] /\ at \in [Handlers -> Places]
        BY DEF ParserTyped
      <4>3. fields' \in [Handlers -> Fields]
        BY <4>1, <4>2, FieldsKept
      <4> QED
        BY <2>1, <3>2, <4>2, <4>3 DEF Goto
    <3> QED
      BY <1>9, <3>1, <3>2 DEF BodyUnread
  <2> QED
    BY <2>3, <2>4, <2>5 DEF ParserTyped, bufferVars
<1>10. CASE TakeBodyUnit(h)
  <2>1. Unit(h) \in Text
    BY <1>10, UnitIs DEF TakeBodyUnit
  <2>2. Append(data[h], Unit(h)) \in Seq(Text)
    BY <1>0, <2>1, AppendProperties
  <2>3. /\ data' = [data EXCEPT ![h] = Append(@, Unit(h))]
        /\ readIndex' = [readIndex EXCEPT ![h] = @ + 1]
        /\ UNCHANGED <<stream, wire, dataBuffer, dataEndIndex, prev, lineBuffer, fields, lineEnds,
                       bodyCut>>
        /\ at' = at \/ Goto(h, "body read")
    BY <1>10 DEF TakeBodyUnit
  <2>4. at' \in [Handlers -> Places]
    BY <2>3 DEF Places, ParsePlaces, ParserTyped, Goto
  <2>5. data' \in [Handlers -> Seq(Text)]
    BY <2>2, <2>3 DEF ParserTyped
  <2>6. readIndex' \in [Handlers -> Nat]
    <3>1. readIndex[h] + 1 \in Nat
      BY <1>0
    <3> QED
      BY <2>3, <3>1 DEF ParserTyped
  <2> QED
    BY <2>3, <2>4, <2>5, <2>6 DEF ParserTyped
<1>11. CASE ParseBody(h)
  <2>1. "parsed" \in Places
    BY DEF Places, AnswerPlaces
  <2>2. UNCHANGED <<stream, bufferVars, prev, lineBuffer, data, lineEnds, bodyCut>>
    BY <1>11 DEF ParseBody
  <2>3. CASE UNCHANGED <<fields, at>>
    BY <1>1, <2>2, <2>3 DEF parserVars, bufferVars
  <2>4. CASE fields' = [fields EXCEPT ![h].params = Keys(data[h])] /\ Goto(h, "parsed")
    <3>1. Keys(data[h]) \in SUBSET Seq(Text)
      <4>1. DOMAIN data[h] = 1..Len(data[h]) /\ Len(data[h]) \in Nat
        BY <1>0, LenProperties
      <4>2. \A i, j \in 1..Len(data[h]) : SubSeq(data[h], i, j) \in Seq(Text)
        <5> TAKE i, j \in 1..Len(data[h])
        <5>1. \A k \in i..j : data[h][k] \in Text
          BY <1>0, <4>1, ElementOfSeq
        <5> QED
          BY <4>1, <5>1, SubSeqProperties
      <4> QED
        BY <4>2 DEF Keys
    <3>2. fields \in [Handlers -> Fields] /\ at \in [Handlers -> Places]
      BY DEF ParserTyped
    <3>3. fields' \in [Handlers -> Fields]
      BY <2>4, <3>1, <3>2, FieldsKept
    <3>4. at' \in [Handlers -> Places]
      BY <2>1, <2>4, <3>2 DEF Goto
    <3> QED
      BY <2>2, <3>3, <3>4 DEF ParserTyped, bufferVars
  <2> QED
    BY <1>11, <2>3, <2>4 DEF ParseBody
<1> QED
  BY <1>2, <1>3, <1>4, <1>5, <1>6, <1>7, <1>8, <1>9, <1>10, <1>11 DEF ParseStep
LEMMA InitParser == HttpDataInit => ParserTyped /\ Buffers
<1> SUFFICES ASSUME HttpDataInit
             PROVE  ParserTyped /\ Buffers
  OBVIOUS
<1>1. stream \in [Handlers -> Seq(Text)] /\ BufferSize - 1 \in Nat /\ BufferSize \in Nat
  <2>1. stream \in [Handlers -> Seq(Text)]
    BY Constants DEF HttpDataInit
  <2>2. BufferSize \in Nat /\ BufferSize >= 1
    BY Constants
  <2> QED
    BY <2>1, <2>2
<1>2. fields \in [Handlers -> Fields]
  BY EmptyLine DEF HttpDataInit, Fields, Text, NoLength
<1>3. "start line" \in Places /\ "" \in Text
  BY DEF Places, ParsePlaces, Text
<1>4. ParserTyped
  <2>1. wire \in [Handlers -> Seq(Text)] /\ dataBuffer \in [Handlers -> Seq(Text)]
    BY <1>1, EmptyLine DEF HttpDataInit
  <2>2. lineBuffer \in [Handlers -> Seq(Text)] /\ data \in [Handlers -> Seq(Text)]
    BY EmptyLine DEF HttpDataInit
  <2>3. readIndex \in [Handlers -> Nat] /\ dataEndIndex \in [Handlers -> Nat]
    BY <1>1 DEF HttpDataInit
  <2> QED
    BY <1>2, <1>3, <2>1, <2>2, <2>3 DEF HttpDataInit, ParserTyped
<1>5. ASSUME NEW h \in Handlers
      PROVE  BufferOf(h)
  <2>1. /\ wire[h] = stream[h] /\ readIndex[h] = BufferSize /\ dataEndIndex[h] = BufferSize - 1
        /\ Len(stream[h]) \in Nat
    BY <1>1, LenProperties DEF HttpDataInit
  <2>2. Received(h) = 0
    BY <2>1 DEF Received
  <2>3. Consumed(h) = 0
    BY <1>1, <2>1, <2>2 DEF Consumed
  <2> QED
    BY <1>1, <2>1, <2>2, <2>3 DEF BufferOf
<1> QED
  BY <1>4, <1>5 DEF Buffers

\* What a step does with the buffer of a handler: nothing, fill it, or read one unit.
BufferSame(h) ==
  /\ stream' = stream /\ wire'[h] = wire[h] /\ dataBuffer'[h] = dataBuffer[h]
  /\ readIndex'[h] = readIndex[h] /\ dataEndIndex'[h] = dataEndIndex[h]

UnitRead(h) ==
  /\ ~DataBufferEmpty(h)
  /\ stream' = stream /\ wire'[h] = wire[h] /\ dataBuffer'[h] = dataBuffer[h]
  /\ readIndex'[h] = readIndex[h] + 1 /\ dataEndIndex'[h] = dataEndIndex[h]

LEMMA SameBuffer ==
  ASSUME NEW h \in Handlers, BufferSame(h)
  PROVE  /\ Received(h)' = Received(h) /\ Consumed(h)' = Consumed(h)
         /\ BufferOf(h) => BufferOf(h)'
<1>1. Received(h)' = Received(h) /\ Consumed(h)' = Consumed(h)
  BY DEF BufferSame, Received, Consumed
<1>2. BufferOf(h) => BufferOf(h)'
  BY <1>1 DEF BufferSame, BufferOf
<1> QED
  BY <1>1, <1>2

LEMMA ReadUnit ==
  ASSUME ParserTyped, NEW h \in Handlers, BufferOf(h), UnitRead(h)
  PROVE  Received(h)' = Received(h) /\ Consumed(h)' = Consumed(h) + 1 /\ BufferOf(h)'
<1>0. /\ readIndex[h] \in Nat /\ dataEndIndex[h] \in Nat
      /\ Received(h) \in Int /\ Consumed(h) \in Int
      /\ Consumed(h) = Received(h) - (dataEndIndex[h] - readIndex[h] + 1)
  BY Numbers
<1>1. Received(h)' = Received(h)
  BY DEF UnitRead, Received
<1>2. Consumed(h)' = Received(h) - (dataEndIndex[h] - (readIndex[h] + 1) + 1)
  BY <1>1 DEF UnitRead, Consumed
<1>3. Consumed(h)' = Consumed(h) + 1
  BY <1>0, <1>2
<1>4. BufferOf(h)'
  <2>1. readIndex[h] + 1 <= dataEndIndex[h] + 1
    BY <1>0 DEF UnitRead, DataBufferEmpty
  <2>2. Consumed(h) + 1 >= 0
    BY <1>0 DEF BufferOf
  <2>3. \A k \in (readIndex[h] + 1)..dataEndIndex[h] : k \in readIndex[h]..dataEndIndex[h]
    BY <1>0
  <2>4. \A k \in (readIndex[h] + 1)..dataEndIndex[h] :
           /\ k + 1 \in DOMAIN dataBuffer[h]
           /\ dataBuffer[h][k + 1] = stream[h][Received(h) - dataEndIndex[h] + k]
    BY <2>3 DEF BufferOf
  <2> QED
    BY <1>1, <1>3, <2>1, <2>2, <2>4 DEF UnitRead, BufferOf
<1> QED
  BY <1>1, <1>3, <1>4

LEMMA FillBuffer ==
  ASSUME ParserTyped, NEW h \in Handlers, BufferOf(h), Recv(h)
  PROVE  BufferOf(h)' /\ Consumed(h)' = Consumed(h)
<1>0. /\ wire[h] \in Seq(Text) /\ Len(wire[h]) \in Nat /\ Len(stream[h]) \in Nat
      /\ Received(h) = Len(stream[h]) - Len(wire[h]) /\ Received(h) \in Int
      /\ readIndex[h] \in Nat /\ dataEndIndex[h] \in Nat /\ BufferSize \in Nat
      /\ Consumed(h) = Received(h) - (dataEndIndex[h] - readIndex[h] + 1)
  BY Numbers
<1>1. PICK n \in 1..Len(wire[h]) :
        /\ n <= BufferSize
        /\ dataBuffer' = [dataBuffer EXCEPT ![h] = SubSeq(wire[h], 1, n)]
        /\ wire' = [wire EXCEPT ![h] = SubSeq(@, n + 1, Len(@))]
        /\ readIndex' = [readIndex EXCEPT ![h] = 0]
        /\ dataEndIndex' = [dataEndIndex EXCEPT ![h] = n - 1]
        /\ stream' = stream
  BY DEF Recv, LastIndex
<1>2. /\ dataBuffer'[h] = SubSeq(wire[h], 1, n) /\ wire'[h] = SubSeq(wire[h], n + 1, Len(wire[h]))
      /\ readIndex'[h] = 0 /\ dataEndIndex'[h] = n - 1
  BY <1>1 DEF ParserTyped
<1>3. \A i \in 1..Len(wire[h]) : wire[h][i] \in Text
  BY <1>0, ElementOfSeq
<1>4. /\ Len(SubSeq(wire[h], 1, n)) = n /\ DOMAIN SubSeq(wire[h], 1, n) = 1..n
      /\ \A i \in 1..n : SubSeq(wire[h], 1, n)[i] = wire[h][i]
  <2>1. \A i \in 1..n : wire[h][i] \in Text
    BY <1>0, <1>3
  <2>2. 1 \in Nat /\ n \in Nat /\ n >= 1
    BY <1>0
  <2>3. Len(SubSeq(wire[h], 1, n)) = n /\ SubSeq(wire[h], 1, n) \in Seq(Text)
    BY <2>1, <2>2, SubSeqProperties
  <2>4. \A i \in 1..n : SubSeq(wire[h], 1, n)[i] = wire[h][1 + i - 1]
    BY <2>1, <2>2, SubSeqProperties
  <2>5. DOMAIN SubSeq(wire[h], 1, n) = 1..n
    BY <2>3, LenProperties
  <2> QED
    BY <2>2, <2>3, <2>4, <2>5
<1>5. /\ Len(SubSeq(wire[h], n + 1, Len(wire[h]))) = Len(wire[h]) - n
      /\ \A i \in 1..(Len(wire[h]) - n) : SubSeq(wire[h], n + 1, Len(wire[h]))[i] = wire[h][n + i]
  <2>1. \A i \in (n + 1)..Len(wire[h]) : wire[h][i] \in Text
    BY <1>0, <1>3
  <2>2. n + 1 \in Nat /\ n + 1 <= Len(wire[h]) + 1 /\ Len(wire[h]) - (n + 1) + 1 = Len(wire[h]) - n
    BY <1>0
  <2>3. Len(SubSeq(wire[h], n + 1, Len(wire[h])))
          = (IF n + 1 <= Len(wire[h]) THEN Len(wire[h]) - (n + 1) + 1 ELSE 0)
    BY <1>0, <2>1, <2>2, SubSeqProperties
  <2>4. \A i \in 1..(Len(wire[h]) - (n + 1) + 1) :
          SubSeq(wire[h], n + 1, Len(wire[h]))[i] = wire[h][(n + 1) + i - 1]
    BY <1>0, <2>1, <2>2, SubSeqProperties
  <2> QED
    BY <1>0, <2>2, <2>3, <2>4
<1>. n \in Int
  BY <1>0
<1>r. Received(h) \in Int
  BY <1>0
<1>sum. /\ \A l, w, m \in Int : l - (w - m) = (l - w) + m
        /\ \A r, m \in Int : (r + m) - ((m - 1) - 0 + 1) = r
        /\ \A r, m, k \in Int : (r + m) - (m - 1) + k = r + (k + 1)
        /\ \A r, m, k \in Int : r + (m + k) = r + m + k
        /\ \A r, e \in Int : r - (e - (e + 1) + 1) = r
  OBVIOUS
<1>6. Received(h)' = Received(h) + n
  <2>1. Received(h)' = Len(stream[h]) - (Len(wire[h]) - n)
    BY <1>1, <1>2, <1>5 DEF Received
  <2>2. Len(stream[h]) \in Int /\ Len(wire[h]) \in Int
    BY <1>0
  <2> QED
    BY <1>0, <1>sum, <2>1, <2>2
<1>7. Consumed(h)' = Received(h)
  <2>1. Consumed(h)' = (Received(h) + n) - ((n - 1) - 0 + 1)
    BY <1>2, <1>6 DEF Consumed
  <2> QED
    BY <1>0, <1>sum, <2>1
<1>8. Received(h) = Consumed(h)
  <2>1. readIndex[h] <= dataEndIndex[h] + 1 /\ dataEndIndex[h] < BufferSize
    BY DEF BufferOf
  <2>2. readIndex[h] > dataEndIndex[h] \/ readIndex[h] >= BufferSize
    BY DEF Recv, DataBufferEmpty
  <2>3. readIndex[h] = dataEndIndex[h] + 1
    BY <1>0, <2>1, <2>2
  <2>4. dataEndIndex[h] - readIndex[h] + 1 = 0
    BY <1>0, <2>3
  <2>5. Consumed(h) = Received(h) - 0
    BY <1>0, <2>4
  <2> QED
    BY <1>r, <2>5
<1>9. BufferOf(h)'
  <2>1. Len(wire[h]) - n <= Len(stream[h])
    BY <1>0 DEF BufferOf
  <2>2. \A k \in 1..(Len(wire[h]) - n) : wire[h][n + k] = stream[h][Received(h) + n + k]
    <3> TAKE k \in 1..(Len(wire[h]) - n)
    <3>1. n + k \in 1..Len(wire[h])
      BY <1>0
    <3>2. wire[h][n + k] = stream[h][Received(h) + (n + k)]
      BY <3>1 DEF BufferOf
    <3>3. k \in Int
      OBVIOUS
    <3>4. Received(h) + (n + k) = Received(h) + n + k
      BY <1>r, <3>3
    <3> QED
      BY <3>2, <3>4
  <2>3. n - 1 < BufferSize /\ 0 <= (n - 1) + 1 /\ Received(h) >= 0
    BY <1>0, <1>1, <1>8 DEF BufferOf
  <2>4. \A k \in 0..(n - 1) :
          /\ k + 1 \in 1..n
          /\ SubSeq(wire[h], 1, n)[k + 1] = stream[h][(Received(h) + n) - (n - 1) + k]
    <3> TAKE k \in 0..(n - 1)
    <3>1. k + 1 \in 1..n /\ k + 1 \in 1..Len(wire[h])
      BY <1>0
    <3>2. wire[h][k + 1] = stream[h][Received(h) + (k + 1)]
      BY <3>1 DEF BufferOf
    <3>. k \in Int
      OBVIOUS
    <3>3. (Received(h) + n) - (n - 1) + k = Received(h) + (k + 1)
      BY <1>r
    <3> QED
      BY <1>4, <3>1, <3>2, <3>3
  <2>5. Len(wire'[h]) = Len(wire[h]) - n
    BY <1>2, <1>5
  <2>6. \A k \in 1..Len(wire'[h]) : wire'[h][k] = stream'[h][Received(h)' + k]
    BY <1>1, <1>2, <1>5, <1>6, <2>2, <2>5
  <2>7. \A k \in readIndex'[h]..dataEndIndex'[h] :
          /\ k + 1 \in DOMAIN dataBuffer'[h]
          /\ dataBuffer'[h][k + 1] = stream'[h][Received(h)' - dataEndIndex'[h] + k]
    <3>1. /\ readIndex'[h] = 0 /\ dataEndIndex'[h] = n - 1 /\ stream' = stream
          /\ dataBuffer'[h] = SubSeq(wire[h], 1, n) /\ Received(h)' = Received(h) + n
          /\ DOMAIN SubSeq(wire[h], 1, n) = 1..n
      BY <1>1, <1>2, <1>4, <1>6
    <3>2. ASSUME NEW k \in readIndex'[h]..dataEndIndex'[h]
          PROVE  /\ k + 1 \in DOMAIN dataBuffer'[h]
                 /\ dataBuffer'[h][k + 1] = stream'[h][Received(h)' - dataEndIndex'[h] + k]
      <4>1. k \in 0..(n - 1)
        BY <3>1, <3>2
      <4>2. k + 1 \in 1..n /\ SubSeq(wire[h], 1, n)[k + 1] = stream[h][(Received(h) + n) - (n - 1) + k]
        BY <2>4, <4>1
      <4>3. Received(h)' - dataEndIndex'[h] + k = (Received(h) + n) - (n - 1) + k
        BY <3>1
      <4>4. /\ stream'[h] = stream[h] /\ DOMAIN dataBuffer'[h] = 1..n
            /\ dataBuffer'[h][k + 1] = SubSeq(wire[h], 1, n)[k + 1]
        BY <3>1
      <4> QED
        BY <4>2, <4>3, <4>4, Zenon
    <3> QED
      BY <3>2
  <2>8. Consumed(h)' >= 0
    BY <1>7, <2>3
  <2> QED
    BY <1>1, <1>2, <2>1, <2>3, <2>5, <2>6, <2>7, <2>8 DEF BufferOf
<1> QED
  BY <1>7, <1>8, <1>9
\* The state of one handler's parser.
ParserSame(g) ==
  /\ BufferSame(g)
  /\ prev'[g] = prev[g] /\ lineBuffer'[g] = lineBuffer[g] /\ data'[g] = data[g]
  /\ fields'[g] = fields[g] /\ lineEnds'[g] = lineEnds[g] /\ bodyCut'[g] = bodyCut[g]

\* A handler's parser touches its own object only.
LEMMA ParseFrame ==
  ASSUME ParserTyped, NEW h \in Handlers, ParseStep(h), NEW g \in Handlers, g # h
  PROVE  ParserSame(g) /\ at'[g] = at[g]
<1>1. ASSUME UNCHANGED parserVars
      PROVE  ParserSame(g)
  BY <1>1 DEF parserVars, bufferVars, ParserSame, BufferSame
<1>2. ASSUME NEW q, Goto(h, q)
      PROVE  at'[g] = at[g]
  BY <1>2 DEF Goto, ParserTyped
<1>3. CASE Recv(h)
  BY <1>3 DEF Recv, ParserSame, BufferSame, ParserTyped
<1>4. CASE RecvClosed(h) \/ RecvFails(h) \/ GiveUp(h) \/ EndHeader(h) \/ NoNumber(h) \/ BeginBody(h)
  BY <1>1, <1>2, <1>4 DEF RecvClosed, RecvFails, GiveUp, EndHeader, NoNumber, BeginBody
<1>5. CASE TakeUnit(h)
  BY <1>5 DEF TakeUnit, ParserSame, BufferSame, ParserTyped
<1>6. CASE EndLine(h)
  BY <1>2, <1>6 DEF EndLine, ParserSame, BufferSame, ParserTyped
<1>7. CASE ParseStartLine(h)
  BY <1>2, <1>7 DEF ParseStartLine, NextLine, ParserSame, BufferSame, bufferVars, ParserTyped
<1>8. CASE StoreHeader(h)
  BY <1>2, <1>8 DEF StoreHeader, NextLine, ParserSame, BufferSame, bufferVars, ParserTyped
<1>9. CASE SkipHeader(h)
  BY <1>2, <1>9 DEF SkipHeader, NextLine, ParserSame, BufferSame, bufferVars, ParserTyped
<1>10. CASE BodyUnread(h)
  BY <1>2, <1>10 DEF BodyUnread, ParserSame, BufferSame, bufferVars, ParserTyped
<1>11. CASE TakeBodyUnit(h)
  BY <1>2, <1>11 DEF TakeBodyUnit, ParserSame, BufferSame, ParserTyped
<1>12. CASE ParseBody(h)
  BY <1>2, <1>12 DEF ParseBody, ParserSame, BufferSame, bufferVars, ParserTyped
<1> QED
  BY <1>3, <1>4, <1>5, <1>6, <1>7, <1>8, <1>9, <1>10, <1>11, <1>12 DEF ParseStep

\* What happens to the buffer of the handler that steps.
LEMMA ParseBuffer ==
  ASSUME ParserTyped, NEW h \in Handlers, ParseStep(h)
  PROVE  BufferSame(h) \/ UnitRead(h) \/ Recv(h)
<1>1. ASSUME stream' = stream, UNCHANGED bufferVars
      PROVE  BufferSame(h)
  BY <1>1 DEF bufferVars, BufferSame
<1>2. ASSUME UNCHANGED parserVars
      PROVE  BufferSame(h)
  BY <1>2 DEF parserVars, bufferVars, BufferSame
<1>3. CASE RecvClosed(h) \/ RecvFails(h) \/ GiveUp(h) \/ EndHeader(h) \/ NoNumber(h) \/ BeginBody(h)
  BY <1>2, <1>3 DEF RecvClosed, RecvFails, GiveUp, EndHeader, NoNumber, BeginBody
<1>4. CASE \/ ParseStartLine(h) \/ StoreHeader(h) \/ SkipHeader(h) \/ BodyUnread(h) \/ ParseBody(h)
  BY <1>1, <1>4 DEF ParseStartLine, StoreHeader, SkipHeader, BodyUnread, ParseBody
<1>5. CASE TakeUnit(h) \/ EndLine(h) \/ TakeBodyUnit(h)
  <2>1. /\ ~DataBufferEmpty(h)
        /\ stream' = stream /\ wire' = wire /\ dataBuffer' = dataBuffer
        /\ readIndex' = [readIndex EXCEPT ![h] = @ + 1] /\ dataEndIndex' = dataEndIndex
    BY <1>5 DEF TakeUnit, EndLine, TakeBodyUnit, AtLineUnit
  <2>2. readIndex'[h] = readIndex[h] + 1
    BY <2>1 DEF ParserTyped
  <2> QED
    BY <2>1, <2>2 DEF UnitRead
<1> QED
  BY <1>3, <1>4, <1>5 DEF ParseStep

LEMMA BuffersKept ==
  ASSUME ParserTyped, Buffers, NEW h \in Handlers, ParseStep(h)
  PROVE  Buffers'
<1> SUFFICES ASSUME NEW g \in Handlers
             PROVE  BufferOf(g)'
  BY DEF Buffers
<1>1. CASE g = h
  BY <1>1, ParseBuffer, SameBuffer, ReadUnit, FillBuffer DEF Buffers
<1>2. CASE g # h
  BY <1>2, ParseFrame, SameBuffer DEF Buffers, ParserSame
<1> QED
  BY <1>1, <1>2

-----------------------------------------------------------------------------
(* The answers. *)

ChildState == {"none", "started", "running", "zombie", "reaped"}
Word == STRING \cup {Nul}
InPipe == 0..PipeCap
Page == [1..PageSize -> Word]

Cgi == [child : ChildState, program : Seq(STRING), step : Nat,
        inPipe : InPipe, toWrite : Nat, toRead : Nat,
        printed : Seq(STRING), taken : Nat, page : Page]

AnswerTyped ==
  exists \subseteq Files /\ holds \in [Processes -> SUBSET Ends] /\ cgi \in [Handlers -> Cgi]

Piping == {"pipe out", "fork"}
InCgi == {"close outW", "close inR", "write", "read", "answer", "wait"}
Done == {"finish", "kept", "closed"}
Cut == {"exception", "failed"}
AfterPipe == Piping \cup InCgi \cup Done \cup Cut

\* The pipe ends of a request that the server has open.
Held(h) == {e \in holds[Server] : e[1] = h}

\* There is a program from the fork to waitpid.
ChildOf(h) ==
  /\ at[h] \notin AfterPipe \/ at[h] \in Piping => cgi[h].child = "none"
  /\ at[h] \in InCgi => cgi[h].child \in {"started", "running", "zombie"}
  /\ at[h] \in Done => cgi[h].child \in {"none", "reaped"}
  /\ cgi[h].child = "none" => cgi[h] = NoCgi

\* The program holds the ends it uses until it ends, the server those that the code has
\* opened and not closed.
PipesOf(h) ==
  /\ at[h] \notin AfterPipe => Held(h) = {}
  /\ at[h] = "pipe out" => Held(h) = {<<h, "inR">>, <<h, "inW">>}
  /\ at[h] \in {"fork", "close outW"} =>
       Held(h) = {<<h, "inR">>, <<h, "inW">>, <<h, "outR">>, <<h, "outW">>}
  /\ at[h] = "close inR" => Held(h) = {<<h, "inR">>, <<h, "inW">>, <<h, "outR">>}
  /\ at[h] \in {"write", "read", "answer", "wait"} => Held(h) = {<<h, "inW">>, <<h, "outR">>}
  /\ at[h] \in Done =>
       Held(h) = IF cgi[h].child = "none" THEN {} ELSE {<<h, "inW">>, <<h, "outR">>}
  /\ cgi[h].child \in {"started", "running"} => {<<h, "inR">>, <<h, "outW">>} \subseteq holds[h]

Writing == {"close outW", "close inR", "write"}

Ones(h, i) == {j \in Before(h, i) : cgi[h].program[j] = "one"}

\* While the server writes, the program has read with "one" only, as often as it did so,
\* or is reading everything.
PartRead(h) ==
  /\ \A j \in Before(h, cgi[h].step) : cgi[h].program[j] \notin {"all", "eof"}
  /\ Cardinality(Ones(h, cgi[h].step)) + cgi[h].toRead <= 4 * ParamCount(h)

\* Nothing is lost in the input pipe, and a program ends at its end.
InputOf(h) ==
  /\ cgi[h].step >= 1 /\ cgi[h].step <= Len(cgi[h].program) + 1
  /\ cgi[h].toRead = cgi[h].toWrite + cgi[h].inPipe
  /\ cgi[h].child = "started" => cgi[h].step = 1
  /\ cgi[h].child \in {"zombie", "reaped"} => cgi[h].step > Len(cgi[h].program)
  /\ at[h] \in Writing => cgi[h].toWrite >= 1 /\ PartRead(h)

\* Nothing is lost in the output pipe, what comes before the first NUL is in the page at
\* its place, and behind what was read the page is as memset left it.
OutputOf(h) ==
  /\ cgi[h].taken <= Len(cgi[h].printed) /\ OutPipe(h) <= PipeCap
  /\ \A i \in 1..PageSize : i > cgi[h].taken => cgi[h].page[i] = Nul
  /\ \A i \in 1..cgi[h].taken :
       (\A j \in 1..i : cgi[h].printed[j] # Nul) =>
         i <= PageSize /\ cgi[h].page[i] = cgi[h].printed[i]
  /\ at[h] = "answer" => PageFull(h) \/ (OutPipe(h) = 0 /\ cgi[h].child = "zombie")

AmountsOf(h) == InputOf(h) /\ OutputOf(h)

\* Parameters come with a POST only, and a program is looked for where there is one.
PostOf(h) ==
  /\ IsFiniteSet(fields[h].params)
  /\ at[h] \in {"body start", "body", "body read"} => fields[h].method = "POST"
  /\ fields[h].params # {} => fields[h].method = "POST"
  /\ at[h] \in {"pipe in", "pipe out", "fork"} \cup InCgi => fields[h].params # {}
  /\ at[h] \in {"cgi", "pipe in", "pipe out", "fork"} => fields[h].url \in DOMAIN Programs
  /\ cgi[h].child # "none" => fields[h].method = "POST"

AnswerOf(h) == ChildOf(h) /\ PipesOf(h) /\ AmountsOf(h) /\ PostOf(h)

Answers == \A h \in Handlers : AnswerOf(h)

StepOf(h) ==
  \/ Parse(h) \/ PageStep(h) \/ CgiStep(h) \/ ChildStep(h)
  \/ Finish(h) \/ Catch(h) \/ Return(h) \/ RemoveFile(h)

\* What one handler's steps leave to every other.
Same(g) ==
  /\ ParserSame(g)
  /\ at'[g] = at[g] /\ cgi'[g] = cgi[g] /\ holds'[g] = holds[g] /\ Held(g)' = Held(g)

LEMMA AmountsSame ==
  ASSUME NEW h \in Handlers, AmountsOf(h), cgi'[h] = cgi[h],
         at'[h] \in Writing => at[h] \in Writing /\ fields'[h] = fields[h],
         at'[h] = "answer" => at[h] = "answer"
  PROVE  AmountsOf(h)'
<1>1. InputOf(h)'
  <2>1. PartRead(h) /\ at'[h] \in Writing => PartRead(h)'
    BY DEF PartRead, Before, Ones, ParamCount
  <2> QED
    BY <2>1 DEF AmountsOf, InputOf
<1>2. OutputOf(h)'
  BY DEF AmountsOf, OutputOf, OutPipe, PageFull
<1> QED
  BY <1>1, <1>2 DEF AmountsOf

LEMMA Frame ==
  ASSUME ParserTyped, AnswerTyped, NEW h \in Handlers, StepOf(h), NEW g \in Handlers, g # h
  PROVE  Same(g)
<1>0. g # Server /\ h # Server /\ Server \in Processes /\ g \in Processes /\ h \in Processes
  BY Constants
<1>1. ASSUME UNCHANGED parserVars
      PROVE  ParserSame(g)
  BY <1>1 DEF parserVars, bufferVars, ParserSame, BufferSame
<1>2. ASSUME NEW q, Goto(h, q)
      PROVE  at'[g] = at[g]
  BY <1>2 DEF Goto, ParserTyped
<1>3. ASSUME UNCHANGED holds
      PROVE  holds'[g] = holds[g] /\ Held(g)' = Held(g)
  BY <1>3 DEF Held
<1>4. ASSUME NEW S, holds' = [holds EXCEPT ![h] = S]
      PROVE  holds'[g] = holds[g] /\ Held(g)' = Held(g)
  BY <1>0, <1>4 DEF Held, AnswerTyped
<1>5. ASSUME NEW e, NEW f, holds' = [holds EXCEPT ![Server] = @ \cup {<<h, e>>, <<h, f>>}]
      PROVE  holds'[g] = holds[g] /\ Held(g)' = Held(g)
  BY <1>0, <1>5 DEF Held, AnswerTyped
<1>6. ASSUME NEW e, holds' = [holds EXCEPT ![Server] = @ \ {<<h, e>>}]
      PROVE  holds'[g] = holds[g] /\ Held(g)' = Held(g)
  BY <1>0, <1>6 DEF Held, AnswerTyped
<1>7. ASSUME UNCHANGED <<parserVars, pipeVars>>, at' = at \/ \E q : Goto(h, q)
      PROVE  Same(g)
  BY <1>1, <1>2, <1>3, <1>7 DEF pipeVars, Same
<1>8. CASE Parse(h)
  BY <1>3, <1>8, ParseFrame DEF Parse, pipeVars, Same
<1>9. CASE PageStep(h)
  BY <1>7, <1>9 DEF PageStep, Dispatch, Send, SendFails, SendKills, Stat, OpenFile, Move
<1>10. CASE Finish(h) \/ Catch(h) \/ Return(h) \/ RemoveFile(h)
  BY <1>7, <1>10 DEF Finish, Catch, Return, RemoveFile, Move
<1>11. CASE StartCgi(h) \/ CgiFails(h) \/ WriteKills(h) \/ EndRead(h) \/ Overread(h)
  BY <1>7, <1>11 DEF StartCgi, CgiFails, WriteKills, EndRead, Overread, Move
<1>12. ASSUME NEW from, NEW to, NEW r, NEW w, Pipe(h, from, to, r, w)
       PROVE  Same(g)
  BY <1>1, <1>2, <1>5, <1>12 DEF Pipe, Move, Same
<1>13. ASSUME NEW from, NEW to, NEW e, CloseEnd(h, from, to, e)
       PROVE  Same(g)
  BY <1>1, <1>2, <1>6, <1>13 DEF CloseEnd, Move, Same
<1>14. CASE WriteInput(h) \/ ReadOutput(h) \/ Wait(h)
  <2>1. UNCHANGED <<parserVars, holds>> /\ (at' = at \/ \E q : Goto(h, q))
    BY <1>14 DEF WriteInput, ReadOutput, Wait, Move
  <2>2. cgi'[g] = cgi[g]
    BY <1>14 DEF WriteInput, ReadOutput, Wait, AnswerTyped
  <2> QED
    BY <1>1, <1>2, <1>3, <2>1, <2>2 DEF Same
<1>15. CASE Fork(h)
  <2>1. /\ UNCHANGED parserVars /\ Goto(h, "close outW")
        /\ holds' = [holds EXCEPT ![h] = holds[Server]]
    BY <1>15 DEF Fork, Move
  <2>2. cgi'[g] = cgi[g]
    BY <1>15 DEF Fork, AnswerTyped
  <2> QED
    BY <1>1, <1>2, <1>4, <2>1, <2>2 DEF Same
<1>16. CASE ChildStep(h)
  <2>1. UNCHANGED <<parserVars, at>>
    BY <1>16 DEF ChildStep, ChildCloses, ChildReads, ChildHasRead, ChildPrints, ChildExits
  <2>2. cgi'[g] = cgi[g]
    BY <1>16 DEF ChildStep, ChildCloses, ChildReads, ChildHasRead, ChildPrints, ChildExits, AnswerTyped
  <2>3. holds'[g] = holds[g] /\ Held(g)' = Held(g)
    <3>1. holds' = holds \/ \E S : holds' = [holds EXCEPT ![h] = S]
      BY <1>16 DEF ChildStep, ChildCloses, ChildReads, ChildHasRead, ChildPrints, ChildExits
    <3> QED
      BY <1>3, <1>4, <3>1
  <2> QED
    BY <1>1, <2>1, <2>2, <2>3 DEF Same
<1> QED
  BY <1>8, <1>9, <1>10, <1>11, <1>12, <1>13, <1>14, <1>15, <1>16 DEF StepOf, CgiStep

LEMMA SameAnswer ==
  ASSUME NEW g \in Handlers, Same(g), AnswerOf(g)
  PROVE  AnswerOf(g)'
<1>1. ChildOf(g)'
  BY DEF AnswerOf, ChildOf, Same
<1>2. PipesOf(g)'
  BY DEF AnswerOf, PipesOf, Same
<1>3. AmountsOf(g)'
  BY AmountsSame DEF AnswerOf, Same, ParserSame
<1>4. PostOf(g)'
  BY DEF AnswerOf, PostOf, Same, ParserSame
<1> QED
  BY <1>1, <1>2, <1>3, <1>4 DEF AnswerOf

\* What a step of the parser means for the answer: the parameters are finitely many,
\* and there are some for a POST only.
LEMMA ParamsParsed ==
  ASSUME ParserTyped, NEW h \in Handlers, PostOf(h), ParseStep(h), at[h] \in ParsePlaces
  PROVE  /\ IsFiniteSet(fields'[h].params)
         /\ at'[h] \in {"body start", "body", "body read"} => fields'[h].method = "POST"
         /\ fields'[h].params # {} => fields'[h].method = "POST"
<1>0. fields \in [Handlers -> Fields] /\ at \in [Handlers -> Places]
  BY DEF ParserTyped
<1>1. ASSUME UNCHANGED fields, at'[h] \notin {"body start", "body", "body read"} \/ at'[h] = at[h]
      PROVE  /\ IsFiniteSet(fields'[h].params)
             /\ at'[h] \in {"body start", "body", "body read"} => fields'[h].method = "POST"
             /\ fields'[h].params # {} => fields'[h].method = "POST"
  BY <1>1 DEF PostOf
<1>2. CASE \/ Recv(h) \/ RecvClosed(h) \/ RecvFails(h) \/ GiveUp(h) \/ NoNumber(h)
           \/ TakeUnit(h) \/ EndLine(h)
  <2>1. UNCHANGED fields
    BY <1>2 DEF Recv, RecvClosed, RecvFails, GiveUp, NoNumber, TakeUnit, EndLine, parserVars
  <2>2. at'[h] \notin {"body start", "body", "body read"} \/ at'[h] = at[h]
    BY <1>0, <1>2 DEF Recv, RecvClosed, RecvFails, GiveUp, NoNumber, TakeUnit, EndLine, Goto
  <2> QED
    BY <1>1, <2>1, <2>2
<1>3. CASE EndHeader(h)
  BY <1>0, <1>3 DEF EndHeader, Goto, PostOf, parserVars
<1>4. CASE BeginBody(h) \/ TakeBodyUnit(h)
  <2>1. UNCHANGED fields /\ at[h] \in {"body start", "body"}
    BY <1>4 DEF BeginBody, TakeBodyUnit, parserVars
  <2> QED
    BY <2>1 DEF PostOf
<1>5. CASE ParseStartLine(h)
  <2>1. CASE UNCHANGED <<fields, lineBuffer, at>>
    BY <1>1, <2>1
  <2>2. CASE Goto(h, "header")
    <3>1. at'[h] = "header"
      BY <1>0, <2>2 DEF Goto
    <3>2. CASE UNCHANGED <<fields, lineBuffer, at>>
      BY <1>1, <3>2
    <3>3. CASE \E url : fields' = [fields EXCEPT ![h].method = lineBuffer[h][1], ![h].url = url,
                                                 ![h].params = {}]
      <4>1. fields'[h].params = {}
        BY <1>0, <3>3 DEF Fields
      <4> QED
        BY <3>1, <4>1, FS_EmptySet
    <3> QED
      BY <1>5, <3>2, <3>3 DEF ParseStartLine, SplitUrl
  <2> QED
    BY <1>5, <2>1, <2>2 DEF ParseStartLine
<1>6. CASE StoreHeader(h) \/ SkipHeader(h)
  <2>1. at'[h] = "header" \/ at'[h] = "header read"
    BY <1>0, <1>6 DEF StoreHeader, SkipHeader, Goto
  <2>2. \/ fields' = fields
        \/ \E l : fields' = [fields EXCEPT ![h].contentLength = l]
        \/ \E k, l : fields' = [fields EXCEPT ![h].keep = k, ![h].contentLength = l]
    BY <1>6 DEF StoreHeader, SkipHeader
  <2>3. fields'[h].params = fields[h].params /\ fields'[h].method = fields[h].method
    BY <1>0, <2>2 DEF Fields
  <2> QED
    BY <2>1, <2>3 DEF PostOf
<1>7. CASE BodyUnread(h) \/ ParseBody(h)
  <2>1. fields[h].method = "POST"
    BY <1>7 DEF BodyUnread, ParseBody, PostOf
  <2>2. CASE UNCHANGED <<fields, at>>
    BY <1>1, <2>2
  <2>3. CASE \E found : IsFiniteSet(found) /\ fields' = [fields EXCEPT ![h].params = found]
    <3>1. IsFiniteSet(fields'[h].params) /\ fields'[h].method = fields[h].method
      BY <1>0, <2>3 DEF Fields
    <3> QED
      BY <2>1, <3>1
  <2>4. IsFiniteSet({}) /\ IsFiniteSet({<<Garbage>>})
    BY FS_EmptySet, FS_Singleton
  <2>5. IsFiniteSet(Keys(data[h]))
    <3>1. Len(data[h]) \in Nat
      BY LenProperties DEF ParserTyped
    <3>2. IsFiniteSet(1..Len(data[h]))
      BY <3>1, FS_Interval
    <3>3. IsFiniteSet((1..Len(data[h])) \X (1..Len(data[h])))
      BY <3>2, FS_Product
    <3> DEFINE Q == {q \in (1..Len(data[h])) \X (1..Len(data[h])) : IsKey(data[h], q[1], q[2])}
    <3>4. IsFiniteSet(Q)
      BY <3>3, FS_Subset
    <3> HIDE DEF Q
    <3>5. IsFiniteSet({SubSeq(data[h], p[1], p[2]) : p \in Q})
      <4> DEFINE f == [p \in Q |-> SubSeq(data[h], p[1], p[2])]
                 T == {SubSeq(data[h], p[1], p[2]) : p \in Q}
      <4>1. f \in Surjection(Q, T)
        BY DEF Surjection
      <4> QED
        BY <3>4, <4>1, FS_Surjection
    <3> QED
      BY <3>5 DEF Keys, Q
  <2> QED
    BY <1>7, <2>2, <2>3, <2>4, <2>5 DEF BodyUnread, ParseBody
<1> QED
  BY <1>2, <1>3, <1>4, <1>5, <1>6, <1>7 DEF ParseStep

LEMMA ParseMoves ==
  ASSUME ParserTyped, NEW h \in Handlers, ParseStep(h)
  PROVE  at[h] \in ParsePlaces /\ at'[h] \in ParsePlaces \cup {"parsed", "exception", "return"}
<1>0. at \in [Handlers -> Places]
  BY DEF ParserTyped
<1>1. at[h] \in ParsePlaces
  BY DEF ParseStep, ParsePlaces, Recv, RecvClosed, RecvFails, TakeUnit, EndLine, GiveUp,
         ParseStartLine, StoreHeader, SkipHeader, EndHeader, NoNumber, BodyUnread, BeginBody,
         TakeBodyUnit, ParseBody, InLoop, AtLineUnit
<1>2. at' = at \/ \E q \in ParsePlaces \cup {"parsed", "exception", "return"} : Goto(h, q)
  BY DEF ParseStep, ParsePlaces, Recv, RecvClosed, RecvFails, TakeUnit, EndLine, GiveUp,
         ParseStartLine, StoreHeader, SkipHeader, EndHeader, NoNumber, BodyUnread, BeginBody,
         TakeBodyUnit, ParseBody, parserVars
<1> QED
  BY <1>0, <1>1, <1>2 DEF Goto

LEMMA AnswerParse ==
  ASSUME ParserTyped, AnswerTyped, NEW h \in Handlers, AnswerOf(h), Parse(h)
  PROVE  AnswerOf(h)'
<1>1. /\ at[h] \in ParsePlaces
      /\ at'[h] \in ParsePlaces \cup {"parsed", "exception", "return"}
      /\ cgi' = cgi /\ holds' = holds /\ Held(h)' = Held(h)
  BY ParseMoves DEF Parse, pipeVars, Held
<1>2. cgi[h].child = "none" /\ Held(h) = {} /\ cgi[h] = NoCgi
  BY <1>1 DEF AnswerOf, ChildOf, PipesOf, AfterPipe, Piping, InCgi, Done, Cut, ParsePlaces
<1>3. ChildOf(h)'
  BY <1>1, <1>2 DEF ChildOf, AfterPipe, Piping, InCgi, Done, Cut, ParsePlaces
<1>4. PipesOf(h)'
  BY <1>1, <1>2 DEF PipesOf, AfterPipe, Piping, InCgi, Done, Cut, ParsePlaces
<1>5. AmountsOf(h)'
  BY <1>1, AmountsSame DEF AnswerOf, Writing, ParsePlaces
<1>6. PostOf(h)'
  <2>1. /\ IsFiniteSet(fields'[h].params)
        /\ at'[h] \in {"body start", "body", "body read"} => fields'[h].method = "POST"
        /\ fields'[h].params # {} => fields'[h].method = "POST"
    BY <1>1, ParamsParsed DEF AnswerOf, Parse
  <2> QED
    BY <1>1, <1>2, <2>1 DEF PostOf, InCgi, ParsePlaces
<1> QED
  BY <1>3, <1>4, <1>5, <1>6 DEF AnswerOf

\* Where the steps lead that change neither a pipe nor what is known of the program.
LEMMA QuietMoves ==
  ASSUME ParserTyped, AnswerTyped, NEW h \in Handlers, AnswerOf(h),
         \/ PageStep(h) \/ Finish(h) \/ Catch(h) \/ Return(h) \/ RemoveFile(h)
         \/ StartCgi(h) \/ CgiFails(h) \/ WriteKills(h) \/ EndRead(h) \/ Overread(h)
  PROVE  /\ UNCHANGED <<parserVars, pipeVars>>
         /\ \/ at'[h] = at[h]
            \/ at'[h] \in Cut
            \/ at[h] \notin AfterPipe /\ at'[h] \notin AfterPipe \cup ParsePlaces \cup {"cgi", "pipe in"}
            \/ at[h] \notin AfterPipe /\ at'[h] = "cgi" /\ fields[h].url \in DOMAIN Programs
            \/ at[h] = "cgi" /\ at'[h] = "pipe in" /\ fields[h].params # {}
            \/ at[h] \notin AfterPipe /\ at'[h] = "finish"
            \/ at[h] = "finish" /\ at'[h] \in Done
            \/ at[h] = "read" /\ at'[h] = "answer" /\ OutputEnds(h)
            \/ at[h] = "answer" /\ at'[h] = "wait"
<1>0. at \in [Handlers -> Places]
  BY DEF ParserTyped
<1>a. ASSUME NEW q, Goto(h, q)
      PROVE  at'[h] = q
  BY <1>0, <1>a DEF Goto
<1>1. CASE PageStep(h)
  <2>1. CASE Dispatch(h)
    <3>1. UNCHANGED <<parserVars, pipeVars>> /\ at[h] = "parsed" /\ at'[h] = Answer(h)
      BY <1>a, <2>1 DEF Dispatch, Move
    <3>2. Answer(h) \in {"notFoundReturn", "cgi", "notFound", "memory", "stat"}
      BY DEF Answer
    <3>3. Answer(h) = "cgi" => fields[h].url \in DOMAIN Programs
      <4>1. ASSUME Answer(h) = "cgi"
            PROVE  fields[h].url \in exists /\ ResourceType[fields[h].url] = "cgi"
        BY <4>1 DEF Answer
      <4> QED
        BY <4>1, ResponserAssumption DEF AnswerTyped
    <3> QED
      BY <3>1, <3>2, <3>3 DEF AfterPipe, Piping, InCgi, Done, Cut, ParsePlaces
  <2>2. CASE Send(h)
    <3>1. UNCHANGED <<parserVars, pipeVars>> /\ at[h] \in DOMAIN AfterSend /\ at'[h] = AfterSend[at[h]]
      BY <1>a, <2>2 DEF Send
    <3> QED
      BY <3>1, AfterSendIs DEF AfterPipe, Piping, InCgi, Done, Cut, ParsePlaces
  <2>3. CASE SendFails(h) \/ SendKills(h)
    BY <1>a, <2>3 DEF SendFails, SendKills, Cut
  <2>4. CASE Stat(h)
    <3>1. /\ UNCHANGED <<parserVars, pipeVars>> /\ at[h] = "stat"
          /\ at'[h] \in {"fileHeader", "notFound", "forbidden"}
      BY <1>a, <2>4 DEF Stat, Move
    <3> QED
      BY <3>1 DEF AfterPipe, Piping, InCgi, Done, Cut, ParsePlaces
  <2>5. CASE OpenFile(h)
    <3>1. /\ UNCHANGED <<parserVars, pipeVars>> /\ at[h] = "open"
          /\ at'[h] = "file" \/ at' = at
      BY <1>a, <2>5 DEF OpenFile
    <3> QED
      BY <3>1 DEF AfterPipe, Piping, InCgi, Done, Cut, ParsePlaces
  <2> QED
    BY <1>1, <2>1, <2>2, <2>3, <2>4, <2>5 DEF PageStep
<1>2. CASE Finish(h)
  <2>1. UNCHANGED <<parserVars, pipeVars>> /\ at[h] = "finish" /\ at'[h] \in {"kept", "closed"}
    BY <1>a, <1>2 DEF Finish, Move
  <2> QED
    BY <2>1 DEF Done
<1>3. CASE Catch(h)
  BY <1>a, <1>3 DEF Catch, Move, Cut
<1>4. CASE Return(h)
  <2>1. UNCHANGED <<parserVars, pipeVars>> /\ at[h] = "return" /\ at'[h] = "left"
    BY <1>a, <1>4 DEF Return, Move
  <2> QED
    BY <2>1 DEF AfterPipe, Piping, InCgi, Done, Cut, ParsePlaces
<1>5. CASE RemoveFile(h)
  BY <1>5 DEF RemoveFile
<1>6. CASE StartCgi(h)
  <2>1. /\ UNCHANGED <<parserVars, pipeVars>> /\ at[h] = "cgi"
        /\ at'[h] = IF fields[h].params = {} THEN "forbidden" ELSE "pipe in"
    BY <1>a, <1>6 DEF StartCgi, Move
  <2> QED
    BY <2>1 DEF AfterPipe, Piping, InCgi, Done, Cut, ParsePlaces
<1>7. CASE CgiFails(h)
  BY <1>a, <1>7 DEF CgiFails, Cut
<1>8. CASE WriteKills(h)
  BY <1>8 DEF WriteKills
<1>9. CASE EndRead(h)
  BY <1>a, <1>9 DEF EndRead, Move
<1>10. CASE Overread(h)
  BY <1>10 DEF Overread
<1> QED
  BY <1>1, <1>2, <1>3, <1>4, <1>5, <1>6, <1>7, <1>8, <1>9, <1>10

LEMMA AnswerQuiet ==
  ASSUME ParserTyped, AnswerTyped, NEW h \in Handlers, AnswerOf(h),
         \/ PageStep(h) \/ Finish(h) \/ Catch(h) \/ Return(h) \/ RemoveFile(h)
         \/ StartCgi(h) \/ CgiFails(h) \/ WriteKills(h) \/ EndRead(h) \/ Overread(h)
  PROVE  AnswerOf(h)'
<1>1. cgi' = cgi /\ holds' = holds /\ fields' = fields /\ Held(h)' = Held(h)
  BY QuietMoves DEF parserVars, pipeVars, Held
<1>2. CASE at'[h] = at[h]
  <2>1. ChildOf(h)'
    BY <1>1, <1>2 DEF AnswerOf, ChildOf
  <2>2. PipesOf(h)'
    BY <1>1, <1>2 DEF AnswerOf, PipesOf
  <2>3. AmountsOf(h)'
    BY <1>1, <1>2, AmountsSame DEF AnswerOf
  <2>4. PostOf(h)'
    BY <1>1, <1>2 DEF AnswerOf, PostOf
  <2> QED
    BY <2>1, <2>2, <2>3, <2>4 DEF AnswerOf
<1>3. CASE at'[h] \in Cut
  <2>1. at'[h] \in {"exception", "failed"}
    BY <1>3 DEF Cut
  <2>2. ChildOf(h)'
    BY <1>1, <2>1 DEF AnswerOf, ChildOf, AfterPipe, Piping, InCgi, Done, Cut
  <2>3. PipesOf(h)'
    BY <1>1, <2>1 DEF AnswerOf, PipesOf, AfterPipe, Piping, InCgi, Done, Cut
  <2>4. AmountsOf(h)'
    BY <1>1, <2>1, AmountsSame DEF AnswerOf, Writing
  <2>5. PostOf(h)'
    BY <1>1, <2>1 DEF AnswerOf, PostOf, InCgi
  <2> QED
    BY <2>2, <2>3, <2>4, <2>5 DEF AnswerOf
<1>4. CASE /\ at[h] \notin AfterPipe
           /\ \/ at'[h] \notin AfterPipe \cup ParsePlaces \cup {"cgi", "pipe in"}
              \/ at'[h] = "cgi" /\ fields[h].url \in DOMAIN Programs
              \/ at[h] = "cgi" /\ at'[h] = "pipe in" /\ fields[h].params # {}
  <2>1. at'[h] \notin AfterPipe
    BY <1>4 DEF AfterPipe, Piping, InCgi, Done, Cut
  <2>2. ChildOf(h)'
    BY <1>1, <1>4, <2>1 DEF AnswerOf, ChildOf, AfterPipe, Piping, InCgi, Done, Cut
  <2>3. PipesOf(h)'
    BY <1>1, <1>4, <2>1 DEF AnswerOf, PipesOf, AfterPipe, Piping, InCgi, Done, Cut
  <2>4. AmountsOf(h)'
    BY <1>1, <2>1, AmountsSame DEF AnswerOf, Writing, AfterPipe, InCgi
  <2>5. PostOf(h)'
    BY <1>1, <1>4, <2>1 DEF AnswerOf, PostOf, AfterPipe, Piping, InCgi, ParsePlaces
  <2> QED
    BY <2>2, <2>3, <2>4, <2>5 DEF AnswerOf
<1>5. CASE \/ at[h] \notin AfterPipe /\ at'[h] = "finish"
           \/ at[h] = "finish" /\ at'[h] \in Done
  <2>1. at'[h] \in Done
    BY <1>5 DEF Done
  <2>2. ChildOf(h)'
    BY <1>1, <1>5, <2>1 DEF AnswerOf, ChildOf, AfterPipe, Piping, InCgi, Done, Cut
  <2>3. PipesOf(h)'
    <3>1. cgi[h].child \notin {"started", "running"}
      BY <1>5 DEF AnswerOf, ChildOf, Done
    <3>2. Held(h) = IF cgi[h].child = "none" THEN {} ELSE {<<h, "inW">>, <<h, "outR">>}
      BY <1>5 DEF AnswerOf, ChildOf, PipesOf, Done
    <3>3. at'[h] \in {"finish", "kept", "closed"}
      BY <2>1 DEF Done
    <3> QED
      BY <1>1, <3>1, <3>2, <3>3 DEF PipesOf, AfterPipe, Piping, InCgi, Done, Cut
  <2>4. AmountsOf(h)'
    BY <1>1, <2>1, AmountsSame DEF AnswerOf, Writing, Done
  <2>5. PostOf(h)'
    BY <1>1, <2>1 DEF AnswerOf, PostOf, InCgi, Done
  <2> QED
    BY <2>2, <2>3, <2>4, <2>5 DEF AnswerOf
<1>6. CASE at[h] = "read" /\ at'[h] = "answer" /\ OutputEnds(h)
  <2>1. ChildOf(h)'
    BY <1>1, <1>6 DEF AnswerOf, ChildOf, AfterPipe, Piping, InCgi, Done, Cut
  <2>2. PipesOf(h)'
    BY <1>1, <1>6 DEF AnswerOf, PipesOf, AfterPipe, Piping, InCgi, Done, Cut
  <2>3. PageFull(h) \/ (OutPipe(h) = 0 /\ cgi[h].child = "zombie")
    <3>1. cgi[h].child \in {"started", "running", "zombie"}
      BY <1>6 DEF AnswerOf, ChildOf, InCgi
    <3>2. cgi[h].child \in {"started", "running"} => Open(h, "outW")
      BY Constants DEF AnswerOf, PipesOf, Open
    <3> QED
      BY <1>6, <3>1, <3>2 DEF OutputEnds
  <2>4. AmountsOf(h)'
    <3>1. InputOf(h)'
      BY <1>1, <1>6 DEF AnswerOf, AmountsOf, InputOf, Writing
    <3>2. OutputOf(h)'
      BY <1>1, <1>6, <2>3 DEF AnswerOf, AmountsOf, OutputOf, OutPipe, PageFull
    <3> QED
      BY <3>1, <3>2 DEF AmountsOf
  <2>5. PostOf(h)'
    BY <1>1, <1>6 DEF AnswerOf, PostOf, InCgi
  <2> QED
    BY <2>1, <2>2, <2>4, <2>5 DEF AnswerOf
<1>7. CASE at[h] = "answer" /\ at'[h] = "wait"
  <2>1. ChildOf(h)'
    BY <1>1, <1>7 DEF AnswerOf, ChildOf, AfterPipe, Piping, InCgi, Done, Cut
  <2>2. PipesOf(h)'
    BY <1>1, <1>7 DEF AnswerOf, PipesOf, AfterPipe, Piping, InCgi, Done, Cut
  <2>4. AmountsOf(h)'
    BY <1>1, <1>7, AmountsSame DEF AnswerOf, Writing
  <2>5. PostOf(h)'
    BY <1>1, <1>7 DEF AnswerOf, PostOf, InCgi
  <2> QED
    BY <2>1, <2>2, <2>4, <2>5 DEF AnswerOf
<1>8. at[h] = "cgi" => at[h] \notin AfterPipe
  BY DEF AfterPipe, Piping, InCgi, Done, Cut
<1> QED
  BY <1>2, <1>3, <1>4, <1>5, <1>6, <1>7, <1>8, QuietMoves

\* The steps that move pipe ends.
LEMMA AnswerPipes ==
  ASSUME ParserTyped, AnswerTyped, NEW h \in Handlers, AnswerOf(h),
         \/ Pipe(h, "pipe in", "pipe out", "inR", "inW")
         \/ Pipe(h, "pipe out", "fork", "outR", "outW")
         \/ CloseEnd(h, "close outW", "close inR", "outW")
         \/ CloseEnd(h, "close inR", "write", "inR")
  PROVE  AnswerOf(h)'
<1>0. /\ at \in [Handlers -> Places] /\ holds \in [Processes -> SUBSET Ends]
      /\ Server \in Processes /\ h # Server /\ h \in Processes
  BY Constants DEF ParserTyped, AnswerTyped
<1>a. ASSUME NEW q, Goto(h, q)
      PROVE  at'[h] = q
  BY <1>0, <1>a DEF Goto
<1>b. ASSUME NEW S, holds' = [holds EXCEPT ![Server] = S]
      PROVE  holds'[h] = holds[h] /\ Held(h)' = {e \in S : e[1] = h}
  <2>1. holds'[Server] = S /\ holds'[h] = holds[h]
    BY <1>0, <1>b
  <2> QED
    BY <2>1 DEF Held
<1>1. cgi' = cgi /\ fields' = fields
  BY DEF Pipe, CloseEnd, parserVars
<1>2. CASE Pipe(h, "pipe in", "pipe out", "inR", "inW")
  <2>1. /\ at[h] = "pipe in" /\ at'[h] = "pipe out" /\ holds'[h] = holds[h]
        /\ Held(h)' = {e \in holds[Server] \cup {<<h, "inR">>, <<h, "inW">>} : e[1] = h}
    BY <1>a, <1>b, <1>2 DEF Pipe, Move
  <2>2. Held(h) = {}
    BY <2>1 DEF AnswerOf, PipesOf, AfterPipe, Piping, InCgi, Done, Cut
  <2>3. Held(h)' = {<<h, "inR">>, <<h, "inW">>}
    <3>1. Held(h)' = Held(h) \cup {<<h, "inR">>, <<h, "inW">>}
      <4>1. <<h, "inR">>[1] = h /\ <<h, "inW">>[1] = h
        OBVIOUS
      <4> QED
        BY <2>1, <4>1 DEF Held
    <3> QED
      BY <2>2, <3>1
  <2>4. ChildOf(h)'
    BY <1>1, <2>1 DEF AnswerOf, ChildOf, AfterPipe, Piping, InCgi, Done, Cut
  <2>5. PipesOf(h)'
    BY <1>1, <2>1, <2>3 DEF AnswerOf, PipesOf, AfterPipe, Piping, InCgi, Done, Cut
  <2>6. AmountsOf(h)'
    BY <1>1, <2>1, AmountsSame DEF AnswerOf, Writing
  <2>7. PostOf(h)'
    BY <1>1, <2>1 DEF AnswerOf, PostOf, InCgi
  <2> QED
    BY <2>4, <2>5, <2>6, <2>7 DEF AnswerOf
<1>3. CASE Pipe(h, "pipe out", "fork", "outR", "outW")
  <2>1. /\ at[h] = "pipe out" /\ at'[h] = "fork" /\ holds'[h] = holds[h]
        /\ Held(h)' = {e \in holds[Server] \cup {<<h, "outR">>, <<h, "outW">>} : e[1] = h}
    BY <1>a, <1>b, <1>3 DEF Pipe, Move
  <2>2. Held(h) = {<<h, "inR">>, <<h, "inW">>}
    BY <2>1 DEF AnswerOf, PipesOf
  <2>3. Held(h)' = {<<h, "inR">>, <<h, "inW">>, <<h, "outR">>, <<h, "outW">>}
    <3>1. Held(h)' = Held(h) \cup {<<h, "outR">>, <<h, "outW">>}
      <4>1. <<h, "outR">>[1] = h /\ <<h, "outW">>[1] = h
        OBVIOUS
      <4> QED
        BY <2>1, <4>1 DEF Held
    <3> QED
      BY <2>2, <3>1
  <2>4. ChildOf(h)'
    BY <1>1, <2>1 DEF AnswerOf, ChildOf, AfterPipe, Piping, InCgi, Done, Cut
  <2>5. PipesOf(h)'
    BY <1>1, <2>1, <2>3 DEF AnswerOf, PipesOf, AfterPipe, Piping, InCgi, Done, Cut
  <2>6. AmountsOf(h)'
    BY <1>1, <2>1, AmountsSame DEF AnswerOf, Writing
  <2>7. PostOf(h)'
    BY <1>1, <2>1 DEF AnswerOf, PostOf, InCgi
  <2> QED
    BY <2>4, <2>5, <2>6, <2>7 DEF AnswerOf
<1>4. CASE CloseEnd(h, "close outW", "close inR", "outW")
  <2>1. /\ at[h] = "close outW" /\ at'[h] = "close inR" /\ holds'[h] = holds[h]
        /\ Held(h)' = {e \in holds[Server] \ {<<h, "outW">>} : e[1] = h}
    BY <1>a, <1>b, <1>4 DEF CloseEnd, Move
  <2>2. Held(h) = {<<h, "inR">>, <<h, "inW">>, <<h, "outR">>, <<h, "outW">>}
    BY <2>1 DEF AnswerOf, PipesOf
  <2>3. Held(h)' = {<<h, "inR">>, <<h, "inW">>, <<h, "outR">>}
    BY <2>1, <2>2 DEF Held
  <2>4. ChildOf(h)'
    BY <1>1, <2>1 DEF AnswerOf, ChildOf, AfterPipe, Piping, InCgi, Done, Cut
  <2>5. PipesOf(h)'
    BY <1>1, <2>1, <2>3 DEF AnswerOf, PipesOf, AfterPipe, Piping, InCgi, Done, Cut
  <2>6. AmountsOf(h)'
    BY <1>1, <2>1, AmountsSame DEF AnswerOf, Writing
  <2>7. PostOf(h)'
    BY <1>1, <2>1 DEF AnswerOf, PostOf, InCgi
  <2> QED
    BY <2>4, <2>5, <2>6, <2>7 DEF AnswerOf
<1>5. CASE CloseEnd(h, "close inR", "write", "inR")
  <2>1. /\ at[h] = "close inR" /\ at'[h] = "write" /\ holds'[h] = holds[h]
        /\ Held(h)' = {e \in holds[Server] \ {<<h, "inR">>} : e[1] = h}
    BY <1>a, <1>b, <1>5 DEF CloseEnd, Move
  <2>2. Held(h) = {<<h, "inR">>, <<h, "inW">>, <<h, "outR">>}
    BY <2>1 DEF AnswerOf, PipesOf
  <2>3. Held(h)' = {<<h, "inW">>, <<h, "outR">>}
    BY <2>1, <2>2 DEF Held
  <2>4. ChildOf(h)'
    BY <1>1, <2>1 DEF AnswerOf, ChildOf, AfterPipe, Piping, InCgi, Done, Cut
  <2>5. PipesOf(h)'
    BY <1>1, <2>1, <2>3 DEF AnswerOf, PipesOf, AfterPipe, Piping, InCgi, Done, Cut
  <2>6. AmountsOf(h)'
    BY <1>1, <2>1, AmountsSame DEF AnswerOf, Writing
  <2>7. PostOf(h)'
    BY <1>1, <2>1 DEF AnswerOf, PostOf, InCgi
  <2> QED
    BY <2>4, <2>5, <2>6, <2>7 DEF AnswerOf
<1> QED
  BY <1>2, <1>3, <1>4, <1>5

LEMMA CgiKept ==
  ASSUME NEW c \in [Handlers -> Cgi], NEW h \in Handlers
  PROVE  /\ \A p \in Seq(STRING), n \in Nat :
              [c EXCEPT ![h].child = "started", ![h].program = p,
                        ![h].toWrite = n, ![h].toRead = n] \in [Handlers -> Cgi]
         /\ \A i \in InPipe, n \in Nat :
              [c EXCEPT ![h].inPipe = i, ![h].toWrite = n] \in [Handlers -> Cgi]
         /\ \A i \in InPipe, n, k \in Nat :
              [c EXCEPT ![h].inPipe = i, ![h].toRead = n, ![h].step = k] \in [Handlers -> Cgi]
         /\ \A o \in Seq(STRING), k \in Nat :
              [c EXCEPT ![h].printed = o, ![h].step = k] \in [Handlers -> Cgi]
         /\ \A n \in Nat, g \in Page :
              [c EXCEPT ![h].taken = n, ![h].page = g] \in [Handlers -> Cgi]
         /\ \A k \in Nat : [c EXCEPT ![h].step = k] \in [Handlers -> Cgi]
         /\ \A p \in Seq(STRING) :
              [c EXCEPT ![h].child = "running", ![h].program = p] \in [Handlers -> Cgi]
         /\ \A s \in {"zombie", "reaped"} : [c EXCEPT ![h].child = s] \in [Handlers -> Cgi]
<1>1. ASSUME NEW p \in Seq(STRING), NEW n \in Nat
      PROVE  [c EXCEPT ![h].child = "started", ![h].program = p,
                       ![h].toWrite = n, ![h].toRead = n] \in [Handlers -> Cgi]
  <2>1. c[h] \in Cgi
    OBVIOUS
  <2>2. [c[h] EXCEPT !.child = "started", !.program = p, !.toWrite = n, !.toRead = n] \in Cgi
    BY <2>1 DEF Cgi, ChildState
  <2> QED
    BY <2>2
<1>2. ASSUME NEW i \in InPipe, NEW n \in Nat
      PROVE  [c EXCEPT ![h].inPipe = i, ![h].toWrite = n] \in [Handlers -> Cgi]
  BY DEF Cgi
<1>8. ASSUME NEW i \in InPipe, NEW n \in Nat, NEW k \in Nat
      PROVE  [c EXCEPT ![h].inPipe = i, ![h].toRead = n, ![h].step = k] \in [Handlers -> Cgi]
  BY DEF Cgi
<1>3. ASSUME NEW o \in Seq(STRING), NEW k \in Nat
      PROVE  [c EXCEPT ![h].printed = o, ![h].step = k] \in [Handlers -> Cgi]
  BY DEF Cgi
<1>4. ASSUME NEW n \in Nat, NEW g \in Page
      PROVE  [c EXCEPT ![h].taken = n, ![h].page = g] \in [Handlers -> Cgi]
  BY DEF Cgi
<1>5. ASSUME NEW k \in Nat
      PROVE  [c EXCEPT ![h].step = k] \in [Handlers -> Cgi]
  BY DEF Cgi
<1>6. ASSUME NEW p \in Seq(STRING)
      PROVE  [c EXCEPT ![h].child = "running", ![h].program = p] \in [Handlers -> Cgi]
  BY DEF Cgi, ChildState
<1>7. ASSUME NEW s \in {"zombie", "reaped"}
      PROVE  [c EXCEPT ![h].child = s] \in [Handlers -> Cgi]
  BY DEF Cgi, ChildState
<1> QED
  BY <1>1, <1>2, <1>3, <1>4, <1>5, <1>6, <1>7, <1>8

LEMMA CgiNumbers ==
  ASSUME AnswerTyped, NEW h \in Handlers
  PROVE  /\ cgi[h].inPipe \in Nat /\ cgi[h].toWrite \in Nat /\ cgi[h].toRead \in Nat
         /\ cgi[h].step \in Nat /\ cgi[h].taken \in Nat /\ cgi[h].inPipe <= PipeCap
         /\ cgi[h].program \in Seq(STRING) /\ cgi[h].printed \in Seq(STRING)
         /\ Len(cgi[h].program) \in Nat /\ Len(cgi[h].printed) \in Nat
         /\ cgi[h].page \in Page /\ PipeCap \in Nat /\ PageSize \in Nat
         /\ cgi[h].child \in {"none", "started", "running", "zombie", "reaped"}
<1>1. cgi[h] \in Cgi /\ PipeCap \in Nat /\ PageSize \in Nat
  BY Constants DEF AnswerTyped
<1>2. cgi[h].program \in Seq(STRING) /\ cgi[h].printed \in Seq(STRING)
  BY <1>1 DEF Cgi
<1>3. Len(cgi[h].program) \in Nat /\ Len(cgi[h].printed) \in Nat
  BY <1>2, LenProperties
<1> QED
  BY <1>1, <1>2, <1>3 DEF Cgi, InPipe, ChildState

LEMMA ParamNumber ==
  ASSUME NEW h \in Handlers, IsFiniteSet(fields[h].params)
  PROVE  ParamCount(h) \in Nat /\ 4 * ParamCount(h) \in Nat
         /\ (fields[h].params # {} => ParamCount(h) >= 1)
<1>1. Cardinality(fields[h].params) \in Nat
  BY FS_CardinalityType
<1>2. fields[h].params # {} => Cardinality(fields[h].params) # 0
  BY FS_EmptySet
<1> QED
  BY <1>1, <1>2 DEF ParamCount

\* A set of natural numbers has a least.
LEMMA Least ==
  ASSUME NEW S \in SUBSET Nat, S # {}
  PROVE  \E m \in S : \A x \in S : m <= x
<1>1. PICK R : IsWellFoundedOn(R, Nat) /\ \A x, y \in Nat : <<y, x>> \in R <=> y < x
  <2> DEFINE R == OpToRel(<, Nat)
  <2>1. IsWellFoundedOn(R, Nat)
    BY NatLessThanWellFounded
  <2>2. \A x, y \in Nat : <<y, x>> \in R <=> y < x
    BY DEF OpToRel
  <2> HIDE DEF R
  <2> QED
    BY <2>1, <2>2
<1>2. PICK m \in S : \A x \in Nat : <<x, m>> \in R => x \notin S
  BY <1>1, WFMin
<1>3. \A x \in S : ~(x < m)
  BY <1>1, <1>2
<1> QED
  BY <1>3

\* strlen of the page: what is before the first NUL, if there is one.
LEMMA StrLenIs ==
  ASSUME NEW page \in Page
  PROVE  /\ StrLen(page) \in 0..PageSize
         /\ \A i \in 1..StrLen(page) : page[i] # Nul
         /\ StrLen(page) < PageSize => page[StrLen(page) + 1] = Nul
<1>0. PageSize \in Nat
  BY Constants
<1>1. \E n \in 0..PageSize : (\A i \in 1..n : page[i] # Nul) /\ (n < PageSize => page[n + 1] = Nul)
  <2>1. CASE \A i \in 1..PageSize : page[i] # Nul
    <3>1. PageSize \in 0..PageSize /\ ~(PageSize < PageSize)
      BY <1>0
    <3> QED
      BY <2>1, <3>1
  <2>2. CASE \E i \in 1..PageSize : page[i] = Nul
    <3> DEFINE S == {i \in 1..PageSize : page[i] = Nul}
    <3>1. S \in SUBSET Nat /\ S # {}
      BY <1>0, <2>2
    <3>2. PICK m \in S : \A x \in S : m <= x
      BY <3>1, Least
    <3>3. m \in 1..PageSize /\ page[m] = Nul
      BY <3>2
    <3>4. \A i \in 1..(m - 1) : page[i] # Nul
      <4> SUFFICES ASSUME NEW i \in 1..(m - 1), page[i] = Nul
                   PROVE  FALSE
        OBVIOUS
      <4>1. i \in 1..PageSize /\ i < m
        BY <1>0, <3>3
      <4>2. m <= i
        BY <3>2, <4>1
      <4> QED
        BY <3>3, <4>1, <4>2
    <3>5. m - 1 \in 0..PageSize /\ (m - 1) + 1 = m
      BY <1>0, <3>3
    <3> QED
      BY <3>3, <3>4, <3>5
  <2> QED
    BY <2>1, <2>2
<1> QED
  BY <1>1 DEF StrLen

\* A program is started with everything still to be written, read and printed.
LEMMA AnswerFork ==
  ASSUME ParserTyped, AnswerTyped, NEW h \in Handlers, AnswerOf(h), Fork(h)
  PROVE  AnswerOf(h)' /\ cgi' \in [Handlers -> Cgi]
<1>0. /\ at \in [Handlers -> Places] /\ holds \in [Processes -> SUBSET Ends]
      /\ cgi \in [Handlers -> Cgi] /\ Server \in Processes /\ h # Server /\ h \in Processes
  BY Constants DEF ParserTyped, AnswerTyped
<1>1. /\ at[h] = "fork" /\ at'[h] = "close outW" /\ UNCHANGED parserVars
      /\ holds' = [holds EXCEPT ![h] = holds[Server]]
  BY <1>0 DEF Fork, Move, Goto
<1> DEFINE n == 4 * ParamCount(h)
<1>2. PICK p \in Programs[fields[h].url] :
        cgi' = [cgi EXCEPT ![h].child = "started", ![h].program = p,
                           ![h].toWrite = n, ![h].toRead = n]
  BY DEF Fork, ParamCount
<1>3. p \in Seq(STRING) /\ Len(p) \in Nat
  <2>1. fields[h].url \in DOMAIN Programs
    BY <1>1 DEF AnswerOf, PostOf
  <2>2. p \in Seq(STRING)
    BY <2>1, ResponserAssumption
  <2> QED
    BY <2>2, LenProperties
<1>4. n \in Nat /\ n >= 1
  <2>1. IsFiniteSet(fields[h].params) /\ fields[h].params # {}
    BY <1>1 DEF AnswerOf, PostOf
  <2> QED
    BY <2>1, ParamNumber
<1>5. cgi[h] = NoCgi
  BY <1>1 DEF AnswerOf, ChildOf, Piping
<1> HIDE DEF n
<1>6. /\ cgi'[h].child = "started" /\ cgi'[h].program = p
      /\ cgi'[h].toWrite = n /\ cgi'[h].toRead = n
      /\ cgi'[h].step = 1 /\ cgi'[h].inPipe = 0
      /\ cgi'[h].printed = <<>> /\ cgi'[h].taken = 0 /\ cgi'[h].page = EmptyPage
  <2>1. /\ cgi[h].step = 1 /\ cgi[h].inPipe = 0 /\ cgi[h].printed = <<>> /\ cgi[h].taken = 0
        /\ cgi[h].page = EmptyPage
    BY <1>5 DEF NoCgi
  <2> QED
    BY <1>0, <1>2, <2>1 DEF Cgi
<1>7. cgi' \in [Handlers -> Cgi]
  BY <1>0, <1>2, <1>3, <1>4, CgiKept
<1>8. Held(h)' = Held(h) /\ holds'[h] = holds[Server]
  BY <1>0, <1>1 DEF Held
<1>9. Held(h) = {<<h, "inR">>, <<h, "inW">>, <<h, "outR">>, <<h, "outW">>}
  BY <1>1 DEF AnswerOf, PipesOf
<1>10. ChildOf(h)'
  BY <1>1, <1>6 DEF ChildOf, AfterPipe, Piping, InCgi, Done, Cut
<1>11. PipesOf(h)'
  <2>1. {<<h, "inR">>, <<h, "outW">>} \subseteq holds'[h]
    BY <1>8, <1>9 DEF Held
  <2> QED
    BY <1>1, <1>8, <1>9, <2>1 DEF PipesOf, AfterPipe, Piping, InCgi, Done, Cut
<1>12. InputOf(h)'
  <2>1. Before(h, cgi[h].step)' = {} /\ Ones(h, cgi[h].step)' = {}
    BY <1>6 DEF Before, Ones
  <2>2. Cardinality({}) = 0
    BY FS_EmptySet
  <2>3. Cardinality(Ones(h, cgi[h].step)') + cgi'[h].toRead <= 4 * ParamCount(h)'
    <3>1. 4 * ParamCount(h)' = n
      BY <1>1 DEF n, ParamCount, parserVars
    <3>2. Cardinality(Ones(h, cgi[h].step)') = 0
      BY <2>1, <2>2
    <3>3. 0 + n <= n
      BY <1>4
    <3> QED
      BY <1>6, <3>1, <3>2, <3>3
  <2>4. PartRead(h)'
    BY <2>1, <2>3 DEF PartRead
  <2>5. cgi'[h].toRead = cgi'[h].toWrite + cgi'[h].inPipe
    BY <1>4, <1>6
  <2>6. cgi'[h].step >= 1 /\ cgi'[h].step <= Len(cgi'[h].program) + 1
    BY <1>3, <1>6
  <2> QED
    BY <1>4, <1>6, <2>4, <2>5, <2>6 DEF InputOf
<1>13. OutputOf(h)'
  <2>1. OutPipe(h)' = 0
    BY <1>6 DEF OutPipe
  <2>2. \A i \in 1..PageSize : cgi'[h].page[i] = Nul
    BY <1>6 DEF EmptyPage
  <2>3. cgi'[h].taken <= Len(cgi'[h].printed) /\ 1..cgi'[h].taken = {}
    BY <1>6
  <2>4. PipeCap >= 0
    BY Constants
  <2> QED
    BY <1>1, <2>1, <2>2, <2>3, <2>4 DEF OutputOf
<1>14. PostOf(h)'
  BY <1>1 DEF AnswerOf, PostOf, InCgi, parserVars
<1> QED
  BY <1>7, <1>10, <1>11, <1>12, <1>13, <1>14 DEF AnswerOf, AmountsOf

\* A read puts the next of what was printed where strlen ends.
LEMMA AnswerRead ==
  ASSUME ParserTyped, AnswerTyped, NEW h \in Handlers, AnswerOf(h), ReadOutput(h)
  PROVE  AnswerOf(h)' /\ cgi' \in [Handlers -> Cgi]
<1> DEFINE taken == cgi[h].taken
           printed == cgi[h].printed
           page == cgi[h].page
           end == StrLen(page)
           n == ReadSize(h)
           Filled(i) == IF i \in (end + 1)..(end + n) THEN printed[taken + i - end] ELSE page[i]
           next == [i \in 1..PageSize |-> Filled(i)]
<1>0. /\ cgi \in [Handlers -> Cgi] /\ taken \in Nat /\ printed \in Seq(STRING)
      /\ Len(printed) \in Nat /\ page \in Page /\ PageSize \in Nat /\ PipeCap \in Nat
  BY CgiNumbers DEF AnswerTyped
<1>1. /\ at[h] = "read" /\ at'[h] = "read" /\ n > 0 /\ UNCHANGED <<fields, holds>>
      /\ cgi' = [cgi EXCEPT ![h].taken = @ + n, ![h].page = next]
  BY DEF ReadOutput, parserVars
<1>2. /\ end \in 0..PageSize
      /\ \A i \in 1..end : page[i] # Nul
      /\ end < PageSize => page[end + 1] = Nul
  BY <1>0, StrLenIs
<1>3. /\ taken <= Len(printed) /\ OutPipe(h) <= PipeCap
      /\ \A i \in 1..PageSize : i > taken => page[i] = Nul
      /\ \A i \in 1..taken :
           (\A j \in 1..i : printed[j] # Nul) => i <= PageSize /\ page[i] = printed[i]
  BY DEF AnswerOf, AmountsOf, OutputOf
<1>4. n \in Nat /\ n <= PageSize - end /\ n <= Len(printed) - taken
  BY <1>0, <1>2, <1>3 DEF ReadSize, OutPipe
<1>5. end <= taken
  <2> SUFFICES ASSUME ~(end <= taken)
               PROVE  FALSE
    OBVIOUS
  <2>1. end \in 1..PageSize /\ end > taken /\ end \in 1..end
    BY <1>0, <1>2
  <2> QED
    BY <1>2, <1>3, <2>1
<1>6. next \in Page
  <2>1. \A i \in 1..PageSize : i \in (end + 1)..(end + n) => printed[taken + i - end] \in Word
    <3> SUFFICES ASSUME NEW i \in 1..PageSize, i \in (end + 1)..(end + n)
                 PROVE  printed[taken + i - end] \in Word
      OBVIOUS
    <3>1. taken + i - end \in 1..Len(printed)
      BY <1>0, <1>2, <1>4
    <3> QED
      BY <1>0, <3>1, ElementOfSeq DEF Word
  <2>2. \A i \in 1..PageSize : Filled(i) \in Word
    BY <1>0, <2>1 DEF Page
  <2> QED
    BY <2>2 DEF Page
<1> HIDE DEF Filled, next, n, end, taken, printed, page
<1>7. cgi' = [cgi EXCEPT ![h].taken = taken + n, ![h].page = next] /\ taken + n \in Nat
  BY <1>0, <1>1, <1>4 DEF taken
<1>8. cgi' \in [Handlers -> Cgi]
  BY <1>0, <1>6, <1>7, CgiKept
<1>9. /\ cgi'[h].taken = taken + n /\ cgi'[h].page = next
      /\ cgi'[h].child = cgi[h].child /\ cgi'[h].program = cgi[h].program
      /\ cgi'[h].step = cgi[h].step /\ cgi'[h].inPipe = cgi[h].inPipe
      /\ cgi'[h].toRead = cgi[h].toRead /\ cgi'[h].toWrite = cgi[h].toWrite
      /\ cgi'[h].printed = printed
  BY <1>0, <1>7 DEF Cgi, printed
<1>10. ChildOf(h)'
  <2>1. cgi[h].child \in {"started", "running", "zombie"}
    BY <1>1 DEF AnswerOf, ChildOf, InCgi
  <2> QED
    BY <1>1, <1>9, <2>1 DEF ChildOf, AfterPipe, Piping, InCgi, Done, Cut
<1>11. PipesOf(h)'
  BY <1>1, <1>9 DEF AnswerOf, PipesOf, Held, AfterPipe, Piping, InCgi, Done, Cut
<1>12. InputOf(h)'
  BY <1>1, <1>9 DEF AnswerOf, AmountsOf, InputOf, Writing
<1>13. \A i \in 1..PageSize : i > taken + n => next[i] = Nul
  <2> SUFFICES ASSUME NEW i \in 1..PageSize, i > taken + n
               PROVE  next[i] = Nul
    OBVIOUS
  <2>1. i \notin (end + 1)..(end + n) /\ i > taken
    BY <1>0, <1>2, <1>4, <1>5
  <2> QED
    BY <1>3, <2>1 DEF next, Filled
<1>14. ASSUME NEW i \in 1..taken, \A j \in 1..i : printed[j] # Nul
       PROVE  i <= end /\ page[i] = printed[i]
  <2>1. i <= PageSize /\ page[i] = printed[i]
    BY <1>3, <1>14
  <2>2. ASSUME ~(i <= end)
        PROVE  FALSE
    <3>1. end + 1 \in 1..i /\ end + 1 \in 1..taken /\ end < PageSize
      BY <1>0, <1>2, <2>1, <2>2
    <3>2. \A j \in 1..(end + 1) : printed[j] # Nul
      BY <1>0, <1>2, <1>14, <3>1
    <3>3. page[end + 1] = printed[end + 1] /\ printed[end + 1] # Nul
      BY <1>3, <1>14, <3>1, <3>2
    <3> QED
      BY <1>2, <3>1, <3>3
  <2> QED
    BY <2>1, <2>2
<1>15. ASSUME NEW i \in 1..(taken + n), \A j \in 1..i : printed[j] # Nul
       PROVE  i <= PageSize /\ next[i] = printed[i]
  <2>0. i \in Nat /\ i >= 1
    BY <1>0, <1>4
  <2>1. CASE i <= taken
    <3>1. i \in 1..taken
      BY <1>0, <2>0, <2>1
    <3>2. i <= end /\ page[i] = printed[i]
      BY <1>14, <1>15, <3>1
    <3>3. i \in 1..PageSize /\ i \notin (end + 1)..(end + n)
      BY <1>0, <1>2, <2>0, <3>2
    <3> QED
      BY <3>2, <3>3 DEF next, Filled
  <2>2. CASE i > taken
    <3>1. end = taken
      <4>1. CASE taken = 0
        BY <1>0, <1>2, <1>5, <4>1
      <4>2. CASE taken >= 1
        <5>1. taken \in 1..taken /\ \A j \in 1..taken : j \in 1..i
          BY <1>0, <2>0, <2>2, <4>2
        <5>2. taken <= end
          BY <1>14, <1>15, <5>1
        <5> QED
          BY <1>0, <1>2, <1>5, <5>2
      <4> QED
        BY <1>0, <4>1, <4>2
    <3>2. i \in (end + 1)..(end + n) /\ i \in 1..PageSize /\ taken + i - end = i
      BY <1>0, <1>2, <1>4, <2>0, <2>2, <3>1
    <3> QED
      BY <3>2 DEF next, Filled
  <2> QED
    BY <1>0, <2>0, <2>1, <2>2
<1>16. OutputOf(h)'
  <2>1. OutPipe(h)' = Len(printed) - (taken + n)
    BY <1>9 DEF OutPipe
  <2>2. OutPipe(h)' <= PipeCap /\ taken + n <= Len(printed)
    <3>1. OutPipe(h) = Len(printed) - taken
      BY DEF OutPipe, printed, taken
    <3> QED
      BY <1>0, <1>3, <1>4, <2>1, <3>1
  <2> QED
    BY <1>1, <1>9, <1>13, <1>15, <2>2 DEF OutputOf
<1>17. PostOf(h)'
  BY <1>1, <1>9 DEF AnswerOf, PostOf, InCgi
<1> QED
  BY <1>8, <1>10, <1>11, <1>12, <1>16, <1>17 DEF AnswerOf, AmountsOf

\* The other steps that move what is in a pipe.
LEMMA AnswerServer ==
  ASSUME ParserTyped, AnswerTyped, NEW h \in Handlers, AnswerOf(h),
         WriteInput(h) \/ Wait(h)
  PROVE  AnswerOf(h)' /\ cgi' \in [Handlers -> Cgi]
<1>0. at \in [Handlers -> Places] /\ cgi \in [Handlers -> Cgi]
  BY DEF ParserTyped, AnswerTyped
<1>1. /\ cgi[h].inPipe \in Nat /\ cgi[h].toWrite \in Nat /\ cgi[h].toRead \in Nat
      /\ cgi[h].inPipe <= PipeCap /\ PipeCap \in Nat
  BY CgiNumbers
<1>2. UNCHANGED <<fields, holds>> /\ Held(h)' = Held(h)
  BY DEF WriteInput, Wait, parserVars, Held
<1>3. CASE WriteInput(h)
  <2>1. /\ at[h] = "write" /\ cgi[h].inPipe < PipeCap
        /\ at'[h] = IF cgi[h].toWrite > 1 THEN "write" ELSE "read"
        /\ cgi' = [cgi EXCEPT ![h].inPipe = @ + 1, ![h].toWrite = @ - 1]
    BY <1>0, <1>3 DEF WriteInput, Move, Goto
  <2>2. cgi[h].toWrite >= 1 /\ PartRead(h)
    BY <2>1 DEF AnswerOf, AmountsOf, InputOf, Writing
  <2>3. cgi[h].inPipe + 1 \in InPipe /\ cgi[h].toWrite - 1 \in Nat
    BY <1>1, <2>1, <2>2 DEF InPipe
  <2>4. cgi' \in [Handlers -> Cgi]
    <3>1. cgi' = [cgi EXCEPT ![h].inPipe = cgi[h].inPipe + 1, ![h].toWrite = cgi[h].toWrite - 1]
      BY <2>1
    <3> QED
      BY <1>0, <2>3, <3>1, CgiKept
  <2>5. /\ cgi'[h].inPipe = cgi[h].inPipe + 1 /\ cgi'[h].toWrite = cgi[h].toWrite - 1
        /\ cgi'[h].child = cgi[h].child /\ cgi'[h].program = cgi[h].program
        /\ cgi'[h].step = cgi[h].step /\ cgi'[h].toRead = cgi[h].toRead
        /\ cgi'[h].printed = cgi[h].printed /\ cgi'[h].taken = cgi[h].taken
        /\ cgi'[h].page = cgi[h].page
    BY <1>0, <2>1 DEF Cgi
  <2>6. cgi[h].child \in {"started", "running", "zombie"}
    BY <2>1 DEF AnswerOf, ChildOf, InCgi
  <2>7. at'[h] \in {"write", "read"}
    BY <2>1
  <2>8. ChildOf(h)'
    BY <2>5, <2>6, <2>7 DEF ChildOf, AfterPipe, Piping, InCgi, Done, Cut
  <2>9. PipesOf(h)'
    <3>1. Held(h) = {<<h, "inW">>, <<h, "outR">>}
      BY <2>1 DEF AnswerOf, PipesOf
    <3>2. cgi[h].child \in {"started", "running"} => {<<h, "inR">>, <<h, "outW">>} \subseteq holds[h]
      BY DEF AnswerOf, PipesOf
    <3> QED
      BY <1>2, <2>5, <2>7, <3>1, <3>2 DEF PipesOf, AfterPipe, Piping, InCgi, Done, Cut
  <2>10. InputOf(h)'
    <3>1. cgi[h].toRead = cgi[h].toWrite + cgi[h].inPipe
      BY DEF AnswerOf, AmountsOf, InputOf
    <3>2. cgi'[h].toRead = cgi'[h].toWrite + cgi'[h].inPipe
      BY <1>1, <2>5, <3>1
    <3>3. at'[h] = "write" => cgi'[h].toWrite >= 1
      BY <1>1, <2>1, <2>5
    <3>4. PartRead(h)'
      BY <1>2, <2>2, <2>5 DEF PartRead, Before, Ones, ParamCount
    <3> QED
      BY <2>5, <2>7, <3>2, <3>3, <3>4 DEF AnswerOf, AmountsOf, InputOf, Writing
  <2>11. OutputOf(h)'
    BY <2>5, <2>7 DEF AnswerOf, AmountsOf, OutputOf, OutPipe
  <2>12. PostOf(h)'
    BY <1>2, <2>1, <2>5, <2>7 DEF AnswerOf, PostOf, InCgi
  <2> QED
    BY <2>4, <2>8, <2>9, <2>10, <2>11, <2>12 DEF AnswerOf, AmountsOf
<1>4. CASE Wait(h)
  <2>1. /\ at[h] = "wait" /\ at'[h] = "finish" /\ cgi[h].child = "zombie"
        /\ cgi' = [cgi EXCEPT ![h].child = "reaped"]
    BY <1>0, <1>4 DEF Wait, Move, Goto
  <2>2. cgi' \in [Handlers -> Cgi]
    BY <1>0, <2>1, CgiKept
  <2>3. /\ cgi'[h].child = "reaped" /\ cgi'[h].program = cgi[h].program
        /\ cgi'[h].inPipe = cgi[h].inPipe /\ cgi'[h].toRead = cgi[h].toRead
        /\ cgi'[h].toWrite = cgi[h].toWrite /\ cgi'[h].step = cgi[h].step
        /\ cgi'[h].printed = cgi[h].printed /\ cgi'[h].taken = cgi[h].taken
        /\ cgi'[h].page = cgi[h].page
    BY <1>0, <2>1 DEF Cgi
  <2>4. ChildOf(h)'
    BY <2>1, <2>3 DEF ChildOf, AfterPipe, Piping, InCgi, Done, Cut
  <2>5. PipesOf(h)'
    BY <1>2, <2>1, <2>3 DEF AnswerOf, PipesOf, AfterPipe, Piping, InCgi, Done, Cut
  <2>6. InputOf(h)'
    BY <2>1, <2>3 DEF AnswerOf, AmountsOf, InputOf, Writing
  <2>7. OutputOf(h)'
    BY <2>1, <2>3 DEF AnswerOf, AmountsOf, OutputOf, OutPipe
  <2>8. PostOf(h)'
    BY <1>2, <2>1, <2>3 DEF AnswerOf, PostOf, InCgi
  <2> QED
    BY <2>2, <2>4, <2>5, <2>6, <2>7, <2>8 DEF AnswerOf, AmountsOf
<1> QED
  BY <1>3, <1>4

\* The steps that the program has taken before it takes the next.
LEMMA NextStep ==
  ASSUME NEW h \in Handlers, cgi[h].step \in Nat, cgi[h].step >= 1,
         Len(cgi[h].program) \in Nat, cgi[h].step <= Len(cgi[h].program)
  PROVE  /\ Before(h, cgi[h].step + 1) = Before(h, cgi[h].step) \cup {cgi[h].step}
         /\ IsFiniteSet(Before(h, cgi[h].step)) /\ cgi[h].step \notin Before(h, cgi[h].step)
         /\ IsFiniteSet(Ones(h, cgi[h].step))
         /\ Cardinality(Ones(h, cgi[h].step)) \in Nat
         /\ Op(h) # "one" => Ones(h, cgi[h].step + 1) = Ones(h, cgi[h].step)
         /\ Op(h) = "one" =>
              Cardinality(Ones(h, cgi[h].step + 1)) = Cardinality(Ones(h, cgi[h].step)) + 1
<1> DEFINE k == cgi[h].step
<1>1. Before(h, k + 1) = Before(h, k) \cup {k} /\ k \notin Before(h, k)
  BY DEF Before
<1>2. IsFiniteSet(Before(h, k))
  <2>1. k - 1 \in Int /\ Before(h, k) \subseteq 1..(k - 1)
    BY DEF Before
  <2> HIDE DEF k
  <2> QED
    BY <2>1, FS_Interval, FS_Subset
<1>3. IsFiniteSet(Ones(h, k)) /\ Cardinality(Ones(h, k)) \in Nat /\ k \notin Ones(h, k)
  <2>1. Ones(h, k) \subseteq Before(h, k)
    BY DEF Ones
  <2> QED
    BY <1>1, <1>2, <2>1, FS_Subset, FS_CardinalityType
<1>4. Op(h) # "one" => Ones(h, k + 1) = Ones(h, k)
  BY <1>1 DEF Ones, Op
<1>5. Op(h) = "one" => Ones(h, k + 1) = Ones(h, k) \cup {k}
  BY <1>1 DEF Ones, Op
<1>6. Op(h) = "one" => Cardinality(Ones(h, k + 1)) = Cardinality(Ones(h, k)) + 1
  BY <1>3, <1>5, FS_AddElement
<1> QED
  BY <1>1, <1>2, <1>3, <1>4, <1>6

LEMMA AnswerChild ==
  ASSUME ParserTyped, AnswerTyped, NEW h \in Handlers, AnswerOf(h), ChildStep(h)
  PROVE  AnswerOf(h)' /\ cgi' \in [Handlers -> Cgi]
<1>0. /\ cgi \in [Handlers -> Cgi] /\ holds \in [Processes -> SUBSET Ends]
      /\ h # Server /\ h \in Processes /\ Server \in Processes
  BY Constants DEF AnswerTyped
<1>1. /\ cgi[h].inPipe \in Nat /\ cgi[h].toWrite \in Nat /\ cgi[h].toRead \in Nat
      /\ cgi[h].step \in Nat /\ cgi[h].taken \in Nat /\ cgi[h].inPipe <= PipeCap
      /\ cgi[h].program \in Seq(STRING) /\ cgi[h].printed \in Seq(STRING)
      /\ Len(cgi[h].program) \in Nat /\ Len(cgi[h].printed) \in Nat
      /\ PipeCap \in Nat /\ PageSize \in Nat
  BY CgiNumbers
<1>2. UNCHANGED <<fields, at>> /\ Held(h)' = Held(h)
  <2>1. UNCHANGED <<fields, at>>
    BY DEF ChildStep, ChildCloses, ChildReads, ChildHasRead, ChildPrints, ChildExits, parserVars
  <2>2. holds' = holds \/ \E S : holds' = [holds EXCEPT ![h] = S]
    BY DEF ChildStep, ChildCloses, ChildReads, ChildHasRead, ChildPrints, ChildExits
  <2>3. holds'[Server] = holds[Server]
    BY <1>0, <2>2
  <2> QED
    BY <2>1, <2>3 DEF Held
<1>3. /\ cgi[h].child \in {"started", "running"} /\ at[h] \in InCgi \cup Cut
  <2>1. cgi[h].child \in {"started", "running"}
    BY DEF ChildStep, ChildCloses, ChildReads, ChildHasRead, ChildPrints, ChildExits, Working
  <2> QED
    BY <2>1 DEF AnswerOf, ChildOf, AfterPipe
<1>4. ASSUME cgi'[h].child \in {"started", "running", "zombie"}
      PROVE  ChildOf(h)'
  BY <1>2, <1>3, <1>4 DEF ChildOf, AfterPipe, Piping, InCgi, Done, Cut
<1>5. ASSUME cgi'[h].child \in {"started", "running"} =>
               {<<h, "inR">>, <<h, "outW">>} \subseteq holds'[h]
      PROVE  PipesOf(h)'
  BY <1>2, <1>3, <1>5 DEF AnswerOf, PipesOf, AfterPipe, Piping, InCgi, Done, Cut
<1>6. ASSUME cgi'[h].child # "none" PROVE PostOf(h)'
  BY <1>2, <1>3, <1>6 DEF AnswerOf, PostOf
<1>7. /\ {<<h, "inR">>, <<h, "outW">>} \subseteq holds[h]
      /\ cgi[h].toRead = cgi[h].toWrite + cgi[h].inPipe
      /\ cgi[h].step >= 1 /\ cgi[h].step <= Len(cgi[h].program) + 1
      /\ cgi[h].child = "started" => cgi[h].step = 1
      /\ at[h] \in Writing => cgi[h].toWrite >= 1 /\ PartRead(h)
      /\ OutputOf(h)
  BY <1>3 DEF AnswerOf, PipesOf, AmountsOf, InputOf
<1>8. at[h] \in Writing => cgi[h].toRead >= 1 /\ Open(h, "inW")
  <2>1. at[h] \in Writing => <<h, "inW">> \in Held(h)
    BY DEF AnswerOf, PipesOf, Writing
  <2>2. <<h, "inW">> \in Held(h) => Open(h, "inW")
    BY <1>0 DEF Held, Open
  <2> QED
    BY <1>1, <1>7, <2>1, <2>2
<1>9. ParamCount(h) \in Nat /\ 4 * ParamCount(h) \in Nat /\ ParamCount(h)' = ParamCount(h)
  <2>1. IsFiniteSet(fields[h].params)
    BY DEF AnswerOf, PostOf
  <2> QED
    BY <1>2, <2>1, ParamNumber DEF ParamCount
<1>10. ASSUME cgi'[h].printed = cgi[h].printed, cgi'[h].taken = cgi[h].taken,
              cgi'[h].page = cgi[h].page,
              cgi'[h].child = cgi[h].child \/ cgi[h].child # "zombie"
       PROVE  OutputOf(h)'
  <2>1. OutPipe(h)' = OutPipe(h)
    BY <1>10 DEF OutPipe
  <2>2. at[h] = "answer" => PageFull(h)
    BY <1>3, <1>7 DEF OutputOf
  <2>3. PageFull(h)' = PageFull(h)
    BY <1>10 DEF PageFull
  <2> QED
    BY <1>2, <1>7, <1>10, <2>1, <2>2, <2>3 DEF OutputOf
<1>11. CASE ChildCloses(h)
  <2>1. PICK p \in Seq(STRING) :
          /\ cgi' = [cgi EXCEPT ![h].child = "running", ![h].program = p]
          /\ cgi[h].child = "started"
          /\ holds'[h] = holds[h] \ {<<h, "inW">>, <<h, "outR">>}
    <3>1. <<>> \in Seq(STRING)
      BY EmptySeq
    <3> QED
      BY <1>0, <1>1, <1>11, <3>1 DEF ChildCloses
  <2>2. cgi' \in [Handlers -> Cgi]
    BY <1>0, <2>1, CgiKept
  <2>3. /\ cgi'[h].child = "running" /\ cgi'[h].program = p
        /\ cgi'[h].inPipe = cgi[h].inPipe /\ cgi'[h].toRead = cgi[h].toRead
        /\ cgi'[h].toWrite = cgi[h].toWrite /\ cgi'[h].step = cgi[h].step
        /\ cgi'[h].printed = cgi[h].printed /\ cgi'[h].taken = cgi[h].taken
        /\ cgi'[h].page = cgi[h].page
    BY <1>0, <2>1 DEF Cgi
  <2>4. {<<h, "inR">>, <<h, "outW">>} \subseteq holds'[h]
    <3>1. <<h, "inR">> \notin {<<h, "inW">>, <<h, "outR">>} /\ <<h, "outW">> \notin {<<h, "inW">>, <<h, "outR">>}
      OBVIOUS
    <3> QED
      BY <1>7, <2>1, <3>1
  <2>5. InputOf(h)'
    <3>1. cgi[h].step = 1 /\ Len(p) \in Nat
      BY <1>7, <2>1, LenProperties
    <3>2. /\ Before(h, cgi[h].step)' = {} /\ Before(h, cgi[h].step) = {}
          /\ Ones(h, cgi[h].step)' = {} /\ Ones(h, cgi[h].step) = {}
      BY <2>3, <3>1 DEF Before, Ones
    <3>3. PartRead(h) => PartRead(h)'
      BY <1>9, <2>3, <3>2 DEF PartRead
    <3> QED
      BY <1>2, <1>7, <2>3, <3>1, <3>3 DEF InputOf
  <2>6. OutputOf(h)'
    BY <1>10, <2>1, <2>3
  <2> QED
    BY <1>4, <1>5, <1>6, <2>2, <2>3, <2>4, <2>5, <2>6 DEF AnswerOf, AmountsOf
<1>12. CASE ChildReads(h)
  <2> DEFINE k == IF Op(h) = "one" THEN cgi[h].step + 1 ELSE cgi[h].step
  <2>1. /\ cgi[h].inPipe > 0 /\ cgi[h].child = "running" /\ holds' = holds
        /\ cgi[h].step <= Len(cgi[h].program) /\ Op(h) \in Reads
        /\ cgi' = [cgi EXCEPT ![h].inPipe = @ - 1, ![h].toRead = @ - 1, ![h].step = k]
    BY <1>12 DEF ChildReads, Working
  <2> DEFINE i == cgi[h].inPipe - 1
             n == cgi[h].toRead - 1
  <2>2. i \in InPipe /\ n \in Nat /\ k \in Nat
    <3>1. cgi[h].toRead >= 1
      BY <1>1, <1>7, <2>1
    <3>2. k \in Nat
      BY <1>1
    <3> QED
      BY <1>1, <2>1, <3>1, <3>2 DEF InPipe
  <2>3. cgi' = [cgi EXCEPT ![h].inPipe = i, ![h].toRead = n, ![h].step = k]
    BY <2>1
  <2> HIDE DEF k, i, n
  <2>4. cgi' \in [Handlers -> Cgi]
    <3>1. \A j \in InPipe, m, s \in Nat :
            [cgi EXCEPT ![h].inPipe = j, ![h].toRead = m, ![h].step = s] \in [Handlers -> Cgi]
      BY <1>0, CgiKept
    <3> QED
      BY <2>2, <2>3, <3>1
  <2>5. /\ cgi'[h].child = "running" /\ cgi'[h].program = cgi[h].program
        /\ cgi'[h].inPipe = cgi[h].inPipe - 1 /\ cgi'[h].toRead = cgi[h].toRead - 1
        /\ cgi'[h].toWrite = cgi[h].toWrite /\ cgi'[h].step = k
        /\ cgi'[h].printed = cgi[h].printed /\ cgi'[h].taken = cgi[h].taken
        /\ cgi'[h].page = cgi[h].page
    BY <1>0, <2>1, <2>3 DEF Cgi, i, n
  <2>6. InputOf(h)'
    <3>1. cgi'[h].toRead = cgi'[h].toWrite + cgi'[h].inPipe
      BY <1>1, <1>7, <2>5
    <3>2. k >= 1 /\ k <= Len(cgi[h].program) + 1
      BY <1>1, <1>7, <2>1 DEF k
    <3>3. ASSUME PartRead(h)
          PROVE  PartRead(h)'
      <4>1. Before(h, cgi[h].step)' = Before(h, k) /\ Ones(h, cgi[h].step)' = Ones(h, k)
        BY <2>5 DEF Before, Ones
      <4>2. /\ \A j \in Before(h, k) : cgi[h].program[j] \notin {"all", "eof"}
            /\ Cardinality(Ones(h, k)) + (cgi[h].toRead - 1) <= 4 * ParamCount(h)
        <5>1. /\ \A j \in Before(h, cgi[h].step) : cgi[h].program[j] \notin {"all", "eof"}
              /\ Cardinality(Ones(h, cgi[h].step)) + cgi[h].toRead <= 4 * ParamCount(h)
          BY <3>3 DEF PartRead
        <5>2. Cardinality(Ones(h, cgi[h].step)) \in Nat
          BY <1>1, <1>7, <2>1, NextStep
        <5>3. CASE Op(h) = "one"
          <6>1. k = cgi[h].step + 1
            BY <5>3 DEF k
          <6>2. /\ Before(h, k) = Before(h, cgi[h].step) \cup {cgi[h].step}
                /\ Cardinality(Ones(h, k)) = Cardinality(Ones(h, cgi[h].step)) + 1
            BY <1>1, <1>7, <2>1, <5>3, <6>1, NextStep
          <6>3. cgi[h].program[cgi[h].step] \notin {"all", "eof"}
            BY <5>3 DEF Op
          <6>4. \A j \in Before(h, k) : cgi[h].program[j] \notin {"all", "eof"}
            BY <5>1, <6>2, <6>3
          <6>5. Cardinality(Ones(h, k)) + (cgi[h].toRead - 1) <= 4 * ParamCount(h)
            BY <1>1, <1>9, <5>1, <5>2, <6>2
          <6> QED
            BY <6>4, <6>5
        <5>4. CASE Op(h) # "one"
          <6>1. k = cgi[h].step
            BY <5>4 DEF k
          <6> QED
            BY <1>1, <1>9, <5>1, <5>2, <6>1
        <5> QED
          BY <5>3, <5>4
      <4> QED
        BY <1>9, <2>5, <4>1, <4>2 DEF PartRead
    <3> QED
      BY <1>2, <1>7, <2>5, <3>1, <3>2, <3>3 DEF InputOf
  <2>7. OutputOf(h)'
    BY <1>10, <2>1, <2>5
  <2> QED
    BY <1>4, <1>5, <1>6, <1>7, <2>1, <2>4, <2>5, <2>6, <2>7 DEF AnswerOf, AmountsOf
<1>13. CASE ChildHasRead(h)
  <2>1. /\ cgi[h].child = "running" /\ holds' = holds /\ cgi[h].step <= Len(cgi[h].program)
        /\ InputEnds(h) /\ cgi' = [cgi EXCEPT ![h].step = cgi[h].step + 1]
    BY <1>13 DEF ChildHasRead, Working
  <2>2. cgi' \in [Handlers -> Cgi]
    <3> DEFINE k == cgi[h].step + 1
    <3>1. k \in Nat /\ cgi' = [cgi EXCEPT ![h].step = k]
      BY <1>1, <2>1
    <3> HIDE DEF k
    <3> QED
      BY <1>0, <3>1, CgiKept
  <2>3. /\ cgi'[h].child = "running" /\ cgi'[h].program = cgi[h].program
        /\ cgi'[h].inPipe = cgi[h].inPipe /\ cgi'[h].toRead = cgi[h].toRead
        /\ cgi'[h].toWrite = cgi[h].toWrite /\ cgi'[h].step = cgi[h].step + 1
        /\ cgi'[h].printed = cgi[h].printed /\ cgi'[h].taken = cgi[h].taken
        /\ cgi'[h].page = cgi[h].page
    BY <1>0, <2>1 DEF Cgi
  <2>4. at[h] \notin Writing
    BY <1>1, <1>8, <2>1 DEF InputEnds
  <2>5. InputOf(h)'
    BY <1>1, <1>2, <1>7, <2>1, <2>3, <2>4 DEF InputOf
  <2>6. OutputOf(h)'
    BY <1>10, <2>1, <2>3
  <2> QED
    BY <1>4, <1>5, <1>6, <1>7, <2>1, <2>2, <2>3, <2>5, <2>6 DEF AnswerOf, AmountsOf
<1>14. CASE ChildPrints(h)
  <2> DEFINE more == Append(cgi[h].printed, Op(h))
  <2>1. /\ cgi[h].child = "running" /\ holds' = holds /\ cgi[h].step <= Len(cgi[h].program)
        /\ Op(h) \notin Reads /\ OutPipe(h) < PipeCap
        /\ cgi' = [cgi EXCEPT ![h].printed = more, ![h].step = cgi[h].step + 1]
    BY <1>14 DEF ChildPrints, Working
  <2>2. /\ more \in Seq(STRING) /\ Len(more) = Len(cgi[h].printed) + 1
        /\ \A i \in 1..Len(cgi[h].printed) : more[i] = cgi[h].printed[i]
    <3>1. Op(h) \in STRING
      <4>1. cgi[h].step \in 1..Len(cgi[h].program)
        BY <1>1, <1>7, <2>1
      <4> QED
        BY <1>1, <4>1, ElementOfSeq DEF Op
    <3> QED
      BY <1>1, <3>1, AppendProperties
  <2> HIDE DEF more
  <2>3. cgi' \in [Handlers -> Cgi]
    <3> DEFINE k == cgi[h].step + 1
    <3>1. k \in Nat /\ cgi' = [cgi EXCEPT ![h].printed = more, ![h].step = k]
      BY <1>1, <2>1
    <3>2. \A o \in Seq(STRING), s \in Nat :
            [cgi EXCEPT ![h].printed = o, ![h].step = s] \in [Handlers -> Cgi]
      BY <1>0, CgiKept
    <3> HIDE DEF k
    <3> QED
      BY <2>2, <3>1, <3>2
  <2>4. /\ cgi'[h].child = "running" /\ cgi'[h].program = cgi[h].program
        /\ cgi'[h].inPipe = cgi[h].inPipe /\ cgi'[h].toRead = cgi[h].toRead
        /\ cgi'[h].toWrite = cgi[h].toWrite /\ cgi'[h].step = cgi[h].step + 1
        /\ cgi'[h].printed = more /\ cgi'[h].taken = cgi[h].taken
        /\ cgi'[h].page = cgi[h].page
    BY <1>0, <2>1 DEF Cgi
  <2>5. InputOf(h)'
    <3>1. ASSUME PartRead(h)
          PROVE  PartRead(h)'
      <4>1. /\ Before(h, cgi[h].step)' = Before(h, cgi[h].step) \cup {cgi[h].step}
            /\ Ones(h, cgi[h].step)' = Ones(h, cgi[h].step)
        <5>1. /\ Before(h, cgi[h].step)' = Before(h, cgi[h].step + 1)
              /\ Ones(h, cgi[h].step)' = Ones(h, cgi[h].step + 1)
          BY <2>4 DEF Before, Ones
        <5> QED
          BY <1>1, <1>7, <2>1, <5>1, NextStep DEF Reads
      <4>2. cgi[h].program[cgi[h].step] \notin {"all", "eof"}
        BY <2>1 DEF Op, Reads
      <4> QED
        BY <1>9, <2>4, <3>1, <4>1, <4>2 DEF PartRead
    <3>2. cgi[h].step + 1 >= 1 /\ cgi[h].step + 1 <= Len(cgi[h].program) + 1
      BY <1>1, <2>1
    <3> QED
      BY <1>2, <1>7, <2>1, <2>4, <3>1, <3>2 DEF InputOf
  <2>6. OutputOf(h)'
    <3>1. /\ OutPipe(h) = Len(cgi[h].printed) - cgi[h].taken
          /\ OutPipe(h)' = Len(more) - cgi[h].taken
      BY <2>4 DEF OutPipe
    <3>2. cgi[h].taken <= Len(cgi[h].printed)
      BY <1>7 DEF OutputOf
    <3>3. OutPipe(h)' <= PipeCap /\ cgi'[h].taken <= Len(cgi'[h].printed)
      <4>1. Len(more) - cgi[h].taken <= PipeCap /\ cgi[h].taken <= Len(more)
        <5>1. \A a, b \in Nat :
                a - b < PipeCap /\ b <= a => (a + 1) - b <= PipeCap /\ b <= a + 1
          BY <1>1
        <5> QED
          BY <1>1, <2>1, <2>2, <3>1, <3>2, <5>1
      <4> QED
        BY <2>4, <3>1, <4>1
    <3>4. \A i \in 1..cgi[h].taken : more[i] = cgi[h].printed[i]
      BY <1>1, <2>2, <3>2
    <3>5. \A i \in 1..cgi[h].taken : \A j \in 1..i : more[j] = cgi[h].printed[j]
      <4> SUFFICES ASSUME NEW i \in 1..cgi[h].taken, NEW j \in 1..i
                   PROVE  more[j] = cgi[h].printed[j]
        OBVIOUS
      <4>1. j \in 1..cgi[h].taken
        BY <1>1
      <4> QED
        BY <3>4, <4>1
    <3>6. \A i \in 1..cgi'[h].taken :
            (\A j \in 1..i : cgi'[h].printed[j] # Nul) =>
              i <= PageSize /\ cgi'[h].page[i] = cgi'[h].printed[i]
      <4>1. \A i \in 1..cgi[h].taken :
              (\A j \in 1..i : cgi[h].printed[j] # Nul) =>
                i <= PageSize /\ cgi[h].page[i] = cgi[h].printed[i]
        BY <1>7 DEF OutputOf
      <4> SUFFICES ASSUME NEW i \in 1..cgi[h].taken, \A j \in 1..i : more[j] # Nul
                   PROVE  i <= PageSize /\ cgi[h].page[i] = more[i]
        BY <2>4
      <4>2. \A j \in 1..i : cgi[h].printed[j] # Nul
        BY <3>5
      <4> QED
        BY <3>4, <4>1, <4>2
    <3>7. at[h] = "answer" => PageFull(h) /\ PageFull(h)'
      BY <1>3, <1>7, <2>1, <2>4 DEF OutputOf, PageFull
    <3> QED
      BY <1>2, <1>7, <2>4, <3>3, <3>6, <3>7 DEF OutputOf
  <2> QED
    BY <1>4, <1>5, <1>6, <1>7, <2>1, <2>3, <2>4, <2>5, <2>6 DEF AnswerOf, AmountsOf
<1>15. CASE ChildExits(h)
  <2>1. /\ cgi[h].child = "running" /\ cgi[h].step > Len(cgi[h].program)
        /\ cgi' = [cgi EXCEPT ![h].child = "zombie"]
    BY <1>15 DEF ChildExits
  <2>2. cgi' \in [Handlers -> Cgi]
    BY <1>0, <2>1, CgiKept
  <2>3. /\ cgi'[h].child = "zombie" /\ cgi'[h].program = cgi[h].program
        /\ cgi'[h].inPipe = cgi[h].inPipe /\ cgi'[h].toRead = cgi[h].toRead
        /\ cgi'[h].toWrite = cgi[h].toWrite /\ cgi'[h].step = cgi[h].step
        /\ cgi'[h].printed = cgi[h].printed /\ cgi'[h].taken = cgi[h].taken
        /\ cgi'[h].page = cgi[h].page
    BY <1>0, <2>1 DEF Cgi
  <2>4. PartRead(h) => PartRead(h)'
    BY <1>9, <2>3 DEF PartRead, Before, Ones
  <2>5. InputOf(h)'
    BY <1>2, <1>7, <2>1, <2>3, <2>4 DEF InputOf
  <2>6. OutputOf(h)'
    BY <1>10, <2>1, <2>3
  <2> QED
    BY <1>4, <1>5, <1>6, <2>2, <2>3, <2>5, <2>6 DEF AnswerOf, AmountsOf
<1> QED
  BY <1>11, <1>12, <1>13, <1>14, <1>15 DEF ChildStep

-----------------------------------------------------------------------------
(* The invariant. *)

\* WriteKills needs a program that ended before it had read what the server writes, and
\* a page is full only of what its program has printed.
IInv ==
  ParserTyped /\ AnswerTyped /\ Buffers /\ Answers /\ PoliteNeverKills /\ ShortOutputSafe

LEMMA NextIsStep ==
  ASSUME Next
  PROVE  \E h \in Handlers : StepOf(h) /\ crash = "no"
BY DEF Next, StepOf

\* There is no program at first.
LEMMA NoCgiIs ==
  /\ NoCgi \in Cgi
  /\ NoCgi.child = "none" /\ NoCgi.program = <<>> /\ NoCgi.step = 1
  /\ NoCgi.toRead = 0 /\ NoCgi.toWrite = 0 /\ NoCgi.inPipe = 0
  /\ NoCgi.printed = <<>> /\ NoCgi.taken = 0 /\ NoCgi.page = EmptyPage
<1>1. /\ NoCgi.child = "none" /\ NoCgi.program = <<>> /\ NoCgi.step = 1
      /\ NoCgi.toRead = 0 /\ NoCgi.toWrite = 0 /\ NoCgi.inPipe = 0
      /\ NoCgi.printed = <<>> /\ NoCgi.taken = 0 /\ NoCgi.page = EmptyPage
  BY DEF NoCgi
<1>2. EmptyPage \in Page /\ <<>> \in Seq(STRING) /\ 0 \in InPipe
  BY Constants, EmptySeq DEF EmptyPage, Page, Word, InPipe
<1>3. NoCgi \in Cgi
  BY <1>2 DEF NoCgi, Cgi, ChildState
<1> QED
  BY <1>1, <1>3

LEMMA InitIInv == Init => IInv
<1> SUFFICES ASSUME Init
             PROVE  IInv
  OBVIOUS
<1>1. ParserTyped /\ Buffers
  BY InitParser DEF Init
<1>3. AnswerTyped
  BY NoCgiIs DEF Init, ResponserInit, AnswerTyped
<1>4. ASSUME NEW h \in Handlers
      PROVE  AnswerOf(h)
  <2>1. at[h] = "start line" /\ cgi[h] = NoCgi /\ fields[h].params = {}
    BY <1>4 DEF Init, HttpDataInit, ResponserInit
  <2>2. Held(h) = {}
    BY Constants DEF Init, ResponserInit, Held
  <2>3. /\ cgi[h].child = "none" /\ cgi[h].program = <<>> /\ cgi[h].step = 1
        /\ cgi[h].toRead = 0 /\ cgi[h].toWrite = 0 /\ cgi[h].inPipe = 0
        /\ cgi[h].printed = <<>> /\ cgi[h].taken = 0 /\ cgi[h].page = EmptyPage
    BY <2>1, NoCgiIs
  <2>4. ChildOf(h)
    BY <2>1, <2>3 DEF ChildOf, AfterPipe, Piping, InCgi, Done, Cut
  <2>5. PipesOf(h)
    BY <2>1, <2>2, <2>3 DEF PipesOf, Done
  <2>6. AmountsOf(h)
    <3>0. Len(cgi[h].program) = 0 /\ Len(cgi[h].printed) = 0 /\ PageSize \in Nat /\ PipeCap \in Nat
      BY <2>3, Constants, EmptySeq
    <3>1. InputOf(h)
      <4>1. /\ cgi[h].step >= 1 /\ cgi[h].step <= Len(cgi[h].program) + 1
            /\ cgi[h].toRead = cgi[h].toWrite + cgi[h].inPipe
        BY <2>3, <3>0
      <4> QED
        BY <2>1, <2>3, <4>1 DEF InputOf, Writing
    <3>2. OutPipe(h) = 0 /\ \A i \in 1..PageSize : cgi[h].page[i] = Nul
      BY <2>3, <3>0 DEF OutPipe, EmptyPage
    <3>3. OutputOf(h)
      <4>1. cgi[h].taken <= Len(cgi[h].printed) /\ OutPipe(h) <= PipeCap /\ 1..cgi[h].taken = {}
        BY <2>3, <3>0, <3>2
      <4> QED
        BY <2>1, <3>2, <4>1 DEF OutputOf
    <3> QED
      BY <3>1, <3>3 DEF AmountsOf
  <2>7. PostOf(h)
    BY <2>1, <2>3, FS_EmptySet DEF PostOf, InCgi
  <2> QED
    BY <2>4, <2>5, <2>6, <2>7 DEF AnswerOf
<1>5. PoliteNeverKills /\ ShortOutputSafe
  BY DEF Init, HttpDataInit, PoliteNeverKills, ShortOutputSafe
<1> QED
  BY <1>1, <1>3, <1>4, <1>5 DEF IInv, Answers

LEMMA AnswersKept ==
  ASSUME IInv, NEW h \in Handlers, StepOf(h)
  PROVE  Answers'
<1> SUFFICES ASSUME NEW g \in Handlers
             PROVE  AnswerOf(g)'
  BY DEF Answers
<1>0. ParserTyped /\ AnswerTyped /\ AnswerOf(g)
  BY DEF IInv, Answers
<1>1. CASE g # h
  BY <1>0, <1>1, Frame, SameAnswer
<1>2. CASE g = h
  <2>1. CASE Parse(h)
    BY <1>0, <1>2, <2>1, AnswerParse
  <2>2. CASE \/ PageStep(h) \/ Finish(h) \/ Catch(h) \/ Return(h) \/ RemoveFile(h)
             \/ StartCgi(h) \/ CgiFails(h) \/ WriteKills(h) \/ EndRead(h) \/ Overread(h)
    BY <1>0, <1>2, <2>2, AnswerQuiet
  <2>3. CASE \/ Pipe(h, "pipe in", "pipe out", "inR", "inW")
             \/ Pipe(h, "pipe out", "fork", "outR", "outW")
             \/ CloseEnd(h, "close outW", "close inR", "outW")
             \/ CloseEnd(h, "close inR", "write", "inR")
    BY <1>0, <1>2, <2>3, AnswerPipes
  <2>4. CASE Fork(h)
    BY <1>0, <1>2, <2>4, AnswerFork
  <2>5. CASE WriteInput(h) \/ Wait(h)
    BY <1>0, <1>2, <2>5, AnswerServer
  <2>6. CASE ReadOutput(h)
    BY <1>0, <1>2, <2>6, AnswerRead
  <2>7. CASE ChildStep(h)
    BY <1>0, <1>2, <2>7, AnswerChild
  <2> QED
    BY <2>1, <2>2, <2>3, <2>4, <2>5, <2>6, <2>7 DEF StepOf, CgiStep
<1> QED
  BY <1>1, <1>2

\* What a handler's step does to the parser's variables, if it is none of the parser's.
LEMMA NotParse ==
  ASSUME ParserTyped, AnswerTyped, NEW h \in Handlers, AnswerOf(h), StepOf(h), ~Parse(h)
  PROVE  /\ UNCHANGED parserVars
         /\ at' = at \/ \E q \in Places \ (ParsePlaces \cup {"parsed"}) : Goto(h, q)
<1>1. CASE PageStep(h)
  <2>1. CASE Dispatch(h)
    <3>1. Answer(h) \in {"notFoundReturn", "cgi", "notFound", "memory", "stat"}
      BY DEF Answer
    <3>2. Answer(h) \in Places \ (ParsePlaces \cup {"parsed"})
      BY <3>1, AfterSendIs DEF Places, AnswerPlaces, ParsePlaces
    <3> QED
      BY <2>1, <3>2 DEF Dispatch, Move
  <2>2. CASE Send(h)
    <3>1. AfterSend[at[h]] \in Places \ (ParsePlaces \cup {"parsed"})
      BY <2>2, AfterSendIs DEF Send, Places, AnswerPlaces, ParsePlaces
    <3> QED
      BY <2>2, <3>1 DEF Send
  <2>3. CASE SendFails(h) \/ SendKills(h)
    BY <2>3 DEF SendFails, SendKills, Places, ParsePlaces
  <2>4. CASE Stat(h)
    <3>1. {"fileHeader", "notFound", "forbidden"} \subseteq Places \ (ParsePlaces \cup {"parsed"})
      BY AfterSendIs DEF Places, AnswerPlaces, ParsePlaces
    <3>2. \E q \in {"fileHeader", "notFound", "forbidden"} : Goto(h, q)
      BY <2>4 DEF Stat, Move
    <3> QED
      BY <2>4, <3>1, <3>2 DEF Stat
  <2>5. CASE OpenFile(h)
    <3>1. "file" \in Places \ (ParsePlaces \cup {"parsed"})
      BY AfterSendIs DEF Places, AnswerPlaces, ParsePlaces
    <3> QED
      BY <2>5, <3>1 DEF OpenFile
  <2> QED
    BY <1>1, <2>1, <2>2, <2>3, <2>4, <2>5 DEF PageStep
<1>2. CASE Finish(h) \/ Catch(h) \/ Return(h) \/ RemoveFile(h)
  BY <1>2 DEF Finish, Catch, Return, RemoveFile, Move, Places, Ended, ParsePlaces
<1>3. CASE CgiStep(h)
  <2>1. {"forbidden", "pipe in", "pipe out", "fork", "exception", "close outW", "close inR", "write",
         "read", "answer", "finish"} \subseteq Places \ (ParsePlaces \cup {"parsed"})
    BY AfterSendIs DEF Places, AnswerPlaces, ParsePlaces
  <2> HIDE DEF Places, ParsePlaces
  <2>2. /\ UNCHANGED parserVars
        /\ at' = at \/ \E q \in {"forbidden", "pipe in", "pipe out", "fork", "exception", "close outW",
                                 "close inR", "write", "read", "answer", "finish"} : Goto(h, q)
    BY <1>3 DEF CgiStep, StartCgi, Pipe, Fork, CgiFails, CloseEnd, WriteInput, WriteKills, ReadOutput,
                EndRead, Overread, Wait, Move
  <2> QED
    BY <2>1, <2>2
<1>4. CASE ChildStep(h)
  BY <1>4 DEF ChildStep, ChildCloses, ChildReads, ChildHasRead, ChildPrints, ChildExits
<1> QED
  BY <1>1, <1>2, <1>3, <1>4 DEF StepOf

LEMMA ParserKept ==
  ASSUME IInv, NEW h \in Handlers, StepOf(h)
  PROVE  ParserTyped' /\ Buffers'
<1>0. ParserTyped /\ AnswerTyped /\ AnswerOf(h) /\ Buffers /\ BufferOf(h)
  BY DEF IInv, Answers, Buffers
<1>1. CASE Parse(h)
  BY <1>0, <1>1, ParserTypedKept, BuffersKept DEF Parse
<1>2. CASE ~Parse(h)
  <2>1. UNCHANGED parserVars /\ (at' = at \/ \E q \in Places \ (ParsePlaces \cup {"parsed"}) : Goto(h, q))
    BY <1>0, <1>2, NotParse
  <2>2. ParserTyped'
    BY <1>0, <2>1 DEF ParserTyped, parserVars, bufferVars, Goto
  <2>3. \A g \in Handlers : BufferSame(g)
    BY <2>1 DEF parserVars, bufferVars, BufferSame
  <2>4. Buffers'
    BY <1>0, <2>3, SameBuffer DEF Buffers
  <2> QED
    BY <2>2, <2>4
<1> QED
  BY <1>1, <1>2

LEMMA AnswerTypedKept ==
  ASSUME IInv, NEW h \in Handlers, StepOf(h)
  PROVE  AnswerTyped'
<1>0. /\ ParserTyped /\ AnswerTyped /\ AnswerOf(h)
      /\ exists \subseteq Files /\ holds \in [Processes -> SUBSET Ends] /\ cgi \in [Handlers -> Cgi]
      /\ h \in Processes /\ Server \in Processes
      /\ \A e \in {"inR", "inW", "outR", "outW"} : <<h, e>> \in Ends
  BY Constants DEF IInv, Answers, AnswerTyped, Ends
<1>1. CASE Parse(h)
  BY <1>0, <1>1 DEF Parse, AnswerTyped, pipeVars
<1>2. CASE \/ PageStep(h) \/ Finish(h) \/ Catch(h) \/ Return(h) \/ RemoveFile(h)
           \/ StartCgi(h) \/ CgiFails(h) \/ WriteKills(h) \/ EndRead(h) \/ Overread(h)
  <2>1. exists' \subseteq exists
    BY <1>2 DEF PageStep, Dispatch, Send, SendFails, SendKills, Stat, OpenFile, Finish, Catch, Return,
                RemoveFile, StartCgi, CgiFails, WriteKills, EndRead, Overread
  <2>2. UNCHANGED pipeVars
    BY <1>0, <1>2, QuietMoves
  <2> QED
    BY <1>0, <2>1, <2>2 DEF AnswerTyped, pipeVars
<1>3. CASE \/ Pipe(h, "pipe in", "pipe out", "inR", "inW")
           \/ Pipe(h, "pipe out", "fork", "outR", "outW")
           \/ CloseEnd(h, "close outW", "close inR", "outW")
           \/ CloseEnd(h, "close inR", "write", "inR")
  <2>1. exists' = exists /\ cgi' = cgi
    BY <1>3 DEF Pipe, CloseEnd
  <2>2. \E S \in SUBSET Ends : holds' = [holds EXCEPT ![Server] = S]
    BY <1>0, <1>3 DEF Pipe, CloseEnd
  <2> QED
    BY <1>0, <2>1, <2>2 DEF AnswerTyped
<1>4. CASE Fork(h)
  <2>1. exists' = exists /\ holds' = [holds EXCEPT ![h] = holds[Server]] /\ cgi' \in [Handlers -> Cgi]
    BY <1>0, <1>4, AnswerFork DEF Fork
  <2> QED
    BY <1>0, <2>1 DEF AnswerTyped
<1>5. CASE WriteInput(h) \/ ReadOutput(h) \/ Wait(h)
  <2>1. exists' = exists /\ holds' = holds
    BY <1>5 DEF WriteInput, ReadOutput, Wait
  <2>2. cgi' \in [Handlers -> Cgi]
    BY <1>0, <1>5, AnswerServer, AnswerRead
  <2> QED
    BY <1>0, <2>1, <2>2 DEF AnswerTyped
<1>6. CASE ChildStep(h)
  <2>1. exists' = exists /\ cgi' \in [Handlers -> Cgi]
    BY <1>0, <1>6, AnswerChild DEF ChildStep, ChildCloses, ChildReads, ChildHasRead, ChildPrints, ChildExits
  <2>2. holds' = holds \/ \E S \in SUBSET Ends : holds' = [holds EXCEPT ![h] = S]
    BY <1>0, <1>6 DEF ChildStep, ChildCloses, ChildReads, ChildHasRead, ChildPrints, ChildExits
  <2> QED
    BY <1>0, <2>1, <2>2 DEF AnswerTyped
<1> QED
  BY <1>1, <1>2, <1>3, <1>4, <1>5, <1>6 DEF StepOf, CgiStep

\* Which steps crash like this: most do not.
LEMMA CrashOf ==
  ASSUME NEW h \in Handlers, StepOf(h), crash = "no"
  PROVE  /\ crash' = "write" => WriteKills(h)
         /\ crash' = "page" => Overread(h)
<1> SUFFICES ASSUME crash' \in {"write", "page"}
             PROVE  \/ WriteKills(h) /\ crash' = "write"
                    \/ Overread(h) /\ crash' = "page"
  OBVIOUS
<1>1. ~Parse(h)
  BY DEF Parse, ParseStep, Recv, RecvClosed, RecvFails, TakeUnit, EndLine, StoreInLine, GiveUp,
         ParseStartLine, StoreHeader, SkipHeader, EndHeader, NoNumber, BodyUnread, BeginBody,
         TakeBodyUnit, ParseBody, Crash
<1>2. ~PageStep(h) /\ ~Finish(h) /\ ~Catch(h) /\ ~Return(h) /\ ~RemoveFile(h)
  BY DEF PageStep, Dispatch, Send, SendFails, SendKills, Stat, OpenFile, Finish, Catch, Return,
         RemoveFile, Crash
<1>3. ~ChildStep(h)
  BY DEF ChildStep, ChildCloses, ChildReads, ChildHasRead, ChildPrints, ChildExits
<1>4. CgiStep(h)
  BY <1>1, <1>2, <1>3 DEF StepOf
<1>5. WriteKills(h) \/ Overread(h)
  BY <1>4 DEF CgiStep, StartCgi, Pipe, Fork, CgiFails, CloseEnd, WriteInput, ReadOutput, EndRead, Wait
<1> QED
  BY <1>5 DEF WriteKills, Overread, Crash

\* A write that nobody can read kills the server: the program has ended, and as long as
\* the server writes it has not read all, whatever it reads.
LEMMA WriteCrashKept ==
  ASSUME IInv, crash = "no", NEW h \in Handlers, StepOf(h)
  PROVE  PoliteNeverKills'
<1>0. AnswerOf(h) /\ AnswerTyped
  BY DEF IInv, Answers
<1> SUFFICES ASSUME crash' = "write"
             PROVE  \E g \in Handlers :
                      at'[g] = "write" /\ ReadsBefore(g, End(g))' < (4 * ParamCount(g))'
  BY DEF PoliteNeverKills
<1>1. WriteKills(h)
  BY CrashOf
<1>2. /\ at' = at /\ cgi' = cgi /\ fields' = fields
      /\ at[h] = "write" /\ ~Open(h, "inR")
  BY <1>1 DEF WriteKills, pipeVars, parserVars
<1>3. cgi[h].child = "zombie"
  <2>1. cgi[h].child \in {"started", "running", "zombie"}
    BY <1>0, <1>2 DEF AnswerOf, ChildOf, InCgi
  <2>2. cgi[h].child \in {"started", "running"} => Open(h, "inR")
    BY <1>0, Constants DEF AnswerOf, PipesOf, Open
  <2> QED
    BY <1>2, <2>1, <2>2
<1>4. /\ cgi[h].step = End(h) /\ cgi[h].toRead >= 1 /\ PartRead(h)
      /\ End(h) \in Nat /\ End(h) >= 1 /\ cgi[h].toRead \in Nat
  <2>1. /\ cgi[h].step \in Nat /\ cgi[h].toRead \in Nat /\ cgi[h].toWrite \in Nat
        /\ cgi[h].inPipe \in Nat /\ Len(cgi[h].program) \in Nat
    BY <1>0, CgiNumbers
  <2>2. /\ cgi[h].step <= Len(cgi[h].program) + 1 /\ cgi[h].step > Len(cgi[h].program)
        /\ cgi[h].toRead = cgi[h].toWrite + cgi[h].inPipe
        /\ cgi[h].toWrite >= 1 /\ PartRead(h)
    BY <1>0, <1>2, <1>3 DEF AnswerOf, AmountsOf, InputOf, Writing
  <2> QED
    BY <2>1, <2>2 DEF End
<1>5. ReadsBefore(h, End(h)) < 4 * ParamCount(h)
  <2>1. ReadsBefore(h, End(h)) = Cardinality(Ones(h, End(h)))
    BY <1>4 DEF PartRead, ReadsBefore, Ones
  <2>2. Cardinality(Ones(h, End(h))) + cgi[h].toRead <= 4 * ParamCount(h)
    BY <1>4 DEF PartRead
  <2>3. Cardinality(Ones(h, End(h))) \in Nat
    <3>1. IsFiniteSet(1..(End(h) - 1))
      BY <1>4, FS_Interval
    <3> QED
      BY <3>1, FS_Subset, FS_CardinalityType DEF Ones, Before
  <2>4. 4 * ParamCount(h) \in Nat
    BY <1>0, ParamNumber DEF AnswerOf, PostOf
  <2> QED
    BY <1>4, <2>1, <2>2, <2>3, <2>4
<1>6. ReadsBefore(h, End(h))' = ReadsBefore(h, End(h)) /\ (4 * ParamCount(h))' = 4 * ParamCount(h)
  BY <1>2 DEF ReadsBefore, Before, End, ParamCount
<1> QED
  BY <1>2, <1>5, <1>6

\* strlen runs off a page that is full: its last place is not as memset left it, so
\* that so much has been printed.
LEMMA PageCrashKept ==
  ASSUME IInv, crash = "no", NEW h \in Handlers, StepOf(h)
  PROVE  ShortOutputSafe'
<1>0. AnswerOf(h) /\ AnswerTyped
  BY DEF IInv, Answers
<1> SUFFICES ASSUME crash' = "page"
             PROVE  \E g \in Handlers :
                      \/ Len(cgi'[g].printed) >= PageSize
                      \/ at'[g] = "file" /\ ResourceType[fields'[g].url] # "html"
  BY DEF ShortOutputSafe
<1>1. Overread(h)
  BY CrashOf
<1>2. at' = at /\ cgi' = cgi /\ fields' = fields
  BY <1>1 DEF Overread, pipeVars, parserVars
<1>3. ASSUME PageFull(h)
      PROVE  Len(cgi[h].printed) >= PageSize
  <2>0. /\ cgi[h].taken \in Nat /\ Len(cgi[h].printed) \in Nat /\ cgi[h].page \in Page
        /\ PageSize \in Nat /\ PageSize >= 1
    BY <1>0, CgiNumbers, Constants
  <2>1. PageSize \in 1..PageSize
    BY <2>0
  <2>2. cgi[h].page[PageSize] # Nul
    BY <1>3, <2>0, <2>1, StrLenIs DEF PageFull
  <2>3. ~(PageSize > cgi[h].taken) /\ cgi[h].taken <= Len(cgi[h].printed)
    BY <1>0, <2>1, <2>2 DEF AnswerOf, AmountsOf, OutputOf
  <2> QED
    BY <2>0, <2>3
<1> QED
  BY <1>1, <1>2, <1>3 DEF Overread

LEMMA StutterKept ==
  ASSUME IInv, UNCHANGED vars
  PROVE  IInv'
<1>0. /\ UNCHANGED <<parserVars, at, crash, exists, holds, cgi>>
  BY DEF vars, pipeVars
<1>1. ParserTyped'
  BY <1>0 DEF IInv, ParserTyped, parserVars, bufferVars
<1>2. AnswerTyped'
  BY <1>0 DEF IInv, AnswerTyped
<1>3. \A h \in Handlers : Same(h)
  BY <1>0 DEF Same, ParserSame, BufferSame, parserVars, bufferVars, Held
<1>4. Buffers' /\ Answers'
  BY <1>3, SameBuffer, SameAnswer DEF IInv, Buffers, Answers, Same, ParserSame
<1>5. PoliteNeverKills' /\ ShortOutputSafe'
  BY <1>0 DEF IInv, PoliteNeverKills, ShortOutputSafe, ReadsBefore, Before, End, ParamCount,
              parserVars
<1> QED
  BY <1>1, <1>2, <1>4, <1>5 DEF IInv

LEMMA StepIInv == IInv /\ [Next]_vars => IInv'
<1> SUFFICES ASSUME IInv, [Next]_vars
             PROVE  IInv'
  OBVIOUS
<1>1. CASE UNCHANGED vars
  BY <1>1, StutterKept
<1>2. CASE Next
  <2>1. PICK h \in Handlers : StepOf(h) /\ crash = "no"
    BY <1>2, NextIsStep
  <2> QED
    BY <2>1, AnswersKept, ParserKept, AnswerTypedKept, WriteCrashKept, PageCrashKept DEF IInv
<1> QED
  BY <1>1, <1>2

\* Buffers, pipes and programs are as they should be in every state of every behaviour.
THEOREM Invariant == Spec => []IInv
BY InitIInv, StepIInv, PTL DEF Spec

-----------------------------------------------------------------------------
(* What the runs check, for every set of handlers, requests and programs. *)

\* The variables have their types, and what is in a buffer is what the client sent at
\* that place (readRawDataFromSocket).
THEOREM HandlersTypeCorrect == Spec => []TypeOK
<1>1. IInv => TypeOK
  <2> SUFFICES ASSUME IInv
               PROVE  TypeOK
    OBVIOUS
  <2>0. ParserTyped /\ AnswerTyped /\ Buffers /\ Answers
    BY DEF IInv
  <2>1. ASSUME NEW h \in Handlers
        PROVE  /\ Consumed(h) \in 0..Received(h) /\ Received(h) <= Len(stream[h])
               /\ readIndex[h] <= dataEndIndex[h] => Unit(h) = stream[h][Consumed(h) + 1]
    <3>0. /\ readIndex[h] \in Nat /\ dataEndIndex[h] \in Nat /\ BufferSize \in Nat
          /\ Received(h) \in Int /\ Received(h) <= Len(stream[h])
          /\ Consumed(h) = Received(h) - (dataEndIndex[h] - readIndex[h] + 1)
          /\ Consumed(h) \in Int
      BY <2>0, Numbers
    <3>1. BufferOf(h)
      BY <2>0 DEF Buffers
    <3>2. /\ readIndex[h] <= dataEndIndex[h] + 1 /\ dataEndIndex[h] < BufferSize
          /\ Consumed(h) >= 0
      BY <3>1 DEF BufferOf
    <3>3. Consumed(h) \in 0..Received(h)
      BY <3>0, <3>2
    <3>4. readIndex[h] <= dataEndIndex[h] => ~DataBufferEmpty(h)
      BY <3>0, <3>2 DEF DataBufferEmpty
    <3> QED
      BY <2>0, <3>0, <3>1, <3>3, <3>4, UnitIs
  <2>2. ASSUME NEW h \in Handlers
        PROVE  /\ fields[h].method \in {"UNSUPPORT", "GET", "POST"}
               /\ at[h] \in ParsePlaces \cup AnswerPlaces \cup Ended \cup {"finish", "exception", "return"}
    BY <2>0 DEF ParserTyped, Fields, Places
  <2>3. ASSUME NEW h \in Handlers
        PROVE  /\ cgi[h].child \in {"none", "started", "running", "zombie", "reaped"}
               /\ cgi[h].inPipe \in 0..PipeCap /\ OutPipe(h) \in 0..PipeCap
               /\ cgi[h].step \in 1..(Len(cgi[h].program) + 1)
    <3>1. /\ cgi[h].inPipe \in Nat /\ cgi[h].inPipe <= PipeCap /\ PipeCap \in Nat
          /\ cgi[h].step \in Nat /\ cgi[h].taken \in Nat
          /\ Len(cgi[h].program) \in Nat /\ Len(cgi[h].printed) \in Nat
          /\ cgi[h].child \in {"none", "started", "running", "zombie", "reaped"}
      BY <2>0, CgiNumbers
    <3>2. /\ cgi[h].step >= 1 /\ cgi[h].step <= Len(cgi[h].program) + 1
          /\ cgi[h].taken <= Len(cgi[h].printed) /\ OutPipe(h) <= PipeCap
      BY <2>0 DEF Answers, AnswerOf, AmountsOf, InputOf, OutputOf
    <3> QED
      BY <3>1, <3>2 DEF OutPipe
  <2> QED
    BY <2>0, <2>1, <2>2, <2>3 DEF TypeOK, ParserTyped, AnswerTyped
<1> QED
  BY <1>1, Invariant, PTL

\* A request that was answered leaves no zombie, and of its pipes in the server exactly the
\* two ends that nothing closes, however many handlers run (executeCGI).
THEOREM TwoEndsLeftBehind == Spec => []LeavesBehind
<1>1. IInv => LeavesBehind
  <2> SUFFICES ASSUME IInv, NEW h \in Handlers
               PROVE  /\ at[h] \in {"kept", "closed"} => cgi[h].child \in {"none", "reaped"}
                      /\ at[h] \in Ended \ {"failed"} =>
                           {e \in holds[Server] : e[1] = h} =
                             (IF cgi[h].child = "none" THEN {} ELSE {<<h, "inW">>, <<h, "outR">>})
    BY DEF LeavesBehind, ChildReaped, LeakExact
  <2>0. ChildOf(h) /\ PipesOf(h)
    BY DEF IInv, Answers, AnswerOf
  <2>1. at[h] \in {"kept", "closed"} => cgi[h].child \in {"none", "reaped"}
    BY <2>0 DEF ChildOf, Done
  <2>2. CASE at[h] \in {"kept", "closed"}
    BY <2>0, <2>1, <2>2 DEF PipesOf, Done, Held, Ended
  <2>3. CASE at[h] = "left"
    BY <2>0, <2>3 DEF ChildOf, PipesOf, AfterPipe, Piping, InCgi, Done, Cut, Held, Ended
  <2> QED
    BY <2>1, <2>2, <2>3 DEF Ended
<1> QED
  BY <1>1, Invariant, PTL

\* What the client is sent of a program's output: what it printed up to a NUL, in its
\* order, or as much as fits the page, however the reads have cut it; and unless the page
\* is full the program has ended (executeCGI, lines 103-109).
THEOREM NoOutputLost == Spec => []OutputComplete
<1>1. IInv => OutputComplete
  <2> SUFFICES ASSUME IInv, NEW h \in Handlers, at[h] = "answer"
               PROVE  /\ \A i \in DOMAIN cgi[h].printed \cap 1..PageSize :
                           (\A j \in 1..i : cgi[h].printed[j] # Nul) =>
                             i <= Len(Sent(h)) /\ Sent(h)[i] = cgi[h].printed[i]
                      /\ (\A i \in DOMAIN cgi[h].printed : cgi[h].printed[i] # Nul) =>
                           Len(Sent(h)) <= Len(cgi[h].printed)
                      /\ Len(Sent(h)) < PageSize => cgi[h].child = "zombie"
    BY DEF OutputComplete
  <2> DEFINE printed == cgi[h].printed
             page == cgi[h].page
             taken == cgi[h].taken
             end == StrLen(page)
  <2>0. OutputOf(h) /\ AnswerTyped
    BY DEF IInv, Answers, AnswerOf, AmountsOf
  <2>1. /\ taken \in Nat /\ Len(printed) \in Nat /\ page \in Page /\ PageSize \in Nat
        /\ printed \in Seq(STRING) /\ DOMAIN printed = 1..Len(printed)
    BY <2>0, CgiNumbers, LenProperties
  <2>2. /\ end \in 0..PageSize /\ \A i \in 1..end : page[i] # Nul
        /\ end < PageSize => page[end + 1] = Nul
    BY <2>1, StrLenIs
  <2>3. /\ taken <= Len(printed)
        /\ \A i \in 1..PageSize : i > taken => page[i] = Nul
        /\ \A i \in 1..taken :
             (\A j \in 1..i : printed[j] # Nul) => i <= PageSize /\ page[i] = printed[i]
        /\ end = PageSize \/ (Len(printed) - taken = 0 /\ cgi[h].child = "zombie")
    BY <2>0 DEF OutputOf, OutPipe, PageFull
  <2>4. Len(Sent(h)) = end /\ \A i \in 1..end : Sent(h)[i] = page[i]
    <3>1. Sent(h) = [i \in 1..end |-> page[i]]
      BY <2>1, <2>2 DEF Sent
    <3> HIDE DEF end, page
    <3>2. \A i \in 1..end : Sent(h)[i] = page[i]
      BY <3>1
    <3>3. DOMAIN Sent(h) = 1..end /\ end \in Nat
      BY <2>1, <2>2, <3>1
    <3>4. Len(Sent(h)) = end
      <4>1. Sent(h) \in Seq(Word)
        <5>1. \A i \in 1..end : page[i] \in Word
          BY <2>1, <2>2 DEF Page
        <5>2. Sent(h) \in [1..end -> Word]
          BY <3>1, <5>1
        <5> QED
          BY <3>3, <5>2, SeqDef
      <4> QED
        BY <3>3, <4>1, LenProperties
    <3> QED
      BY <3>2, <3>4
  <2>5. ASSUME NEW i \in DOMAIN printed \cap 1..PageSize, \A j \in 1..i : printed[j] # Nul
        PROVE  i <= end /\ page[i] = printed[i]
    <3>0. i \in 1..Len(printed) /\ i \in 1..PageSize
      BY <2>1
    <3>1. i <= end => i \in 1..taken
      <4> SUFFICES ASSUME i <= end, i > taken
                   PROVE  FALSE
        BY <2>1, <3>0
      <4>1. page[i] = Nul /\ i \in 1..end
        BY <2>2, <2>3, <3>0
      <4> QED
        BY <2>2, <4>1
    <3>2. i <= end
      <4> SUFFICES ASSUME end < i
                   PROVE  FALSE
        BY <2>2, <3>0
      <4>1. /\ end < PageSize /\ page[end + 1] = Nul /\ taken = Len(printed)
            /\ end + 1 \in 1..taken /\ end + 1 <= i
        BY <2>1, <2>2, <2>3, <3>0
      <4>2. \A j \in 1..(end + 1) : printed[j] # Nul
        <5> SUFFICES ASSUME NEW j \in 1..(end + 1)
                     PROVE  printed[j] # Nul
          OBVIOUS
        <5>1. j \in 1..i
          BY <2>2, <3>0, <4>1
        <5> QED
          BY <2>5, <5>1
      <4>3. page[end + 1] = printed[end + 1] /\ end + 1 \in 1..(end + 1)
        BY <2>2, <2>3, <4>1, <4>2
      <4> QED
        BY <4>1, <4>2, <4>3
    <3> QED
      BY <2>3, <2>5, <3>1, <3>2
  <2>6. ASSUME \A i \in DOMAIN printed : printed[i] # Nul
        PROVE  end <= Len(printed)
    <3> SUFFICES ASSUME end > Len(printed)
                 PROVE  FALSE
      BY <2>1, <2>2
    <3>1. end \in 1..PageSize /\ end > taken /\ end \in 1..end
      BY <2>1, <2>2, <2>3
    <3> QED
      BY <2>2, <2>3, <3>1
  <2>7. end < PageSize => cgi[h].child = "zombie"
    BY <2>1, <2>2, <2>3
  <2>8. \A i \in DOMAIN printed \cap 1..PageSize :
          (\A j \in 1..i : printed[j] # Nul) => i <= Len(Sent(h)) /\ Sent(h)[i] = printed[i]
    <3> SUFFICES ASSUME NEW i \in DOMAIN printed \cap 1..PageSize, \A j \in 1..i : printed[j] # Nul
                 PROVE  i <= Len(Sent(h)) /\ Sent(h)[i] = printed[i]
      OBVIOUS
    <3>1. i <= end /\ page[i] = printed[i] /\ i \in 1..PageSize
      BY <2>5
    <3>2. i \in 1..end
      BY <2>1, <2>2, <3>1
    <3> QED
      BY <2>4, <3>1, <3>2
  <2> QED
    BY <2>4, <2>6, <2>7, <2>8
<1> QED
  BY <1>1, Invariant, PTL

\* The server dies of SIGPIPE while it writes the parameters only for a program that ends
\* before it has read all of them: as long as a call of write is to come, there is something
\* the program has not read, and it holds the end it reads from until it ends.
THEOREM ReadersAreSafe == Spec => []PoliteNeverKills
BY Invariant, PTL DEF IInv

\* strlen runs off the page of a program only if the program prints as much as the page
\* holds: what it has not printed is zeroed (memset, Responser.cpp, line 52).
THEOREM ShortOutputIsSafe == Spec => []ShortOutputSafe
BY Invariant, PTL DEF IInv

\* No program is ever run for a GET (parseUrlDataParamList gives a url no parameters).
THEOREM ProgramsForPostOnly == Spec => []CgiOnlyAfterPost
<1>1. IInv => CgiOnlyAfterPost
  BY DEF IInv, Answers, AnswerOf, PostOf, CgiOnlyAfterPost
<1> QED
  BY <1>1, Invariant, PTL

=============================================================================
