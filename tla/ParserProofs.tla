----------------------------- MODULE ParserProofs -----------------------------
(***************************************************************************)
(* What the parser makes of the bytes (HttpData.tla): where lines and      *)
(* bodies begin and end, which headers are heard, and why no request that  *)
(* is sound makes it read or write outside an object.  HandlersProofs.tla  *)
(* has the buffer, which this builds on.                                   *)
(***************************************************************************)
EXTENDS HandlersProofs

-----------------------------------------------------------------------------
(* Numbers and sequences. *)

LEMMA Slice ==
  ASSUME NEW s \in Seq(Text), NEW a \in Nat, NEW b \in Int, b <= Len(s)
  PROVE  /\ SubSeq(s, a + 1, b) \in Seq(Text)
         /\ Len(SubSeq(s, a + 1, b)) = (IF a < b THEN b - a ELSE 0)
         /\ DOMAIN SubSeq(s, a + 1, b) = 1..Len(SubSeq(s, a + 1, b))
         /\ \A i \in 1..(b - a) : SubSeq(s, a + 1, b)[i] = s[a + i]
         /\ (SubSeq(s, a + 1, b) = <<>> <=> b <= a)
<1>0. Len(s) \in Nat /\ a + 1 \in Int
  BY LenProperties
<1>1. \A i \in (a + 1)..b : s[i] \in Text
  BY <1>0, ElementOfSeq
<1>2. SubSeq(s, a + 1, b) \in Seq(Text)
  BY <1>0, <1>1, SubSeqProperties
<1>3. Len(SubSeq(s, a + 1, b)) = IF a + 1 <= b THEN b - (a + 1) + 1 ELSE 0
  BY <1>0, <1>1, SubSeqProperties
<1>4. \A i \in 1..(b - (a + 1) + 1) : SubSeq(s, a + 1, b)[i] = s[(a + 1) + i - 1]
  BY <1>0, <1>1, SubSeqProperties
<1>5. Len(SubSeq(s, a + 1, b)) = IF a < b THEN b - a ELSE 0
  BY <1>0, <1>3
<1>6. ASSUME NEW i \in 1..(b - a)
      PROVE  SubSeq(s, a + 1, b)[i] = s[a + i]
  <2>1. i \in 1..(b - (a + 1) + 1) /\ (a + 1) + i - 1 = a + i
    OBVIOUS
  <2> QED
    BY <1>4, <2>1
<1>7. DOMAIN SubSeq(s, a + 1, b) = 1..Len(SubSeq(s, a + 1, b))
  BY <1>2, LenProperties
<1>8. b <= a => SubSeq(s, a + 1, b) = <<>>
  BY <1>0, SubSeqEmpty
<1>9. SubSeq(s, a + 1, b) = <<>> => b <= a
  <2>1. Len(<<>>) = 0
    OBVIOUS
  <2> QED
    BY <1>5, <2>1
<1> QED
  BY <1>2, <1>5, <1>6, <1>7, <1>8, <1>9

LEMMA SliceGrows ==
  ASSUME NEW s \in Seq(Text), NEW a \in Nat, NEW b \in Nat, a <= b, b + 1 <= Len(s)
  PROVE  Append(SubSeq(s, a + 1, b), s[b + 1]) = SubSeq(s, a + 1, b + 1)
<1>0. Len(s) \in Nat /\ b + 1 \in 1..Len(s) /\ b <= Len(s)
  BY LenProperties
<1>1. s[b + 1] \in Text
  BY <1>0, ElementOfSeq
<1> DEFINE t == SubSeq(s, a + 1, b)
           u == SubSeq(s, a + 1, b + 1)
<1>2. t \in Seq(Text) /\ Len(t) = b - a /\ \A i \in 1..(b - a) : t[i] = s[a + i]
  BY <1>0, Slice
<1>3. u \in Seq(Text) /\ Len(u) = (b + 1) - a /\ \A i \in 1..((b + 1) - a) : u[i] = s[a + i]
  BY <1>0, Slice
<1> HIDE DEF t, u
<1>4. /\ Append(t, s[b + 1]) \in Seq(Text) /\ Len(Append(t, s[b + 1])) = (b + 1) - a
      /\ \A i \in 1..(b - a) : Append(t, s[b + 1])[i] = t[i]
      /\ Append(t, s[b + 1])[(b + 1) - a] = s[b + 1]
  <2>1. /\ Append(t, s[b + 1]) \in Seq(Text) /\ Len(Append(t, s[b + 1])) = Len(t) + 1
        /\ \A i \in 1..Len(t) : Append(t, s[b + 1])[i] = t[i]
        /\ Append(t, s[b + 1])[Len(t) + 1] = s[b + 1]
    BY <1>1, <1>2, AppendProperties
  <2>2. Len(t) + 1 = (b + 1) - a
    BY <1>2
  <2> QED
    BY <1>2, <2>1, <2>2
<1>5. ASSUME NEW i \in 1..((b + 1) - a)
      PROVE  Append(t, s[b + 1])[i] = u[i]
  <2>1. CASE i \in 1..(b - a)
    BY <1>2, <1>3, <1>4, <2>1
  <2>2. CASE i = (b + 1) - a
    <3>1. a + i = b + 1
      BY <2>2
    <3> QED
      BY <1>3, <1>4, <2>2, <3>1
  <2>3. i \in 1..(b - a) \/ i = (b + 1) - a
    OBVIOUS
  <2> QED
    BY <2>1, <2>2, <2>3
<1> QED
  BY <1>3, <1>4, <1>5, SeqEqual DEF t, u

LEMMA SliceShrinks ==
  ASSUME NEW s \in Seq(Text), NEW a \in Nat, NEW b \in Nat, a < b, b <= Len(s)
  PROVE  SubSeq(SubSeq(s, a + 1, b), 1, (b - a) - 1) = SubSeq(s, a + 1, b - 1)
<1>0. Len(s) \in Nat /\ b - 1 <= Len(s)
  BY LenProperties
<1> DEFINE t == SubSeq(s, a + 1, b)
           n == (b - a) - 1
<1>. n \in Nat
  OBVIOUS
<1>2. t \in Seq(Text) /\ Len(t) = n + 1 /\ \A i \in 1..(b - a) : t[i] = s[a + i]
  BY <1>0, Slice
<1>3. /\ SubSeq(s, a + 1, b - 1) \in Seq(Text) /\ Len(SubSeq(s, a + 1, b - 1)) = n
      /\ \A i \in 1..n : SubSeq(s, a + 1, b - 1)[i] = s[a + i]
  BY <1>0, Slice
<1>4. /\ SubSeq(t, 1, n) \in Seq(Text) /\ Len(SubSeq(t, 1, n)) = n
      /\ \A i \in 1..n : SubSeq(t, 1, n)[i] = t[i]
  <2> HIDE DEF t, n
  <2>1. SubSeq(t, 0 + 1, n) \in Seq(Text) /\ Len(SubSeq(t, 0 + 1, n)) = (IF 0 < n THEN n - 0 ELSE 0)
    BY <1>2, Slice
  <2>2. \A i \in 1..(n - 0) : SubSeq(t, 0 + 1, n)[i] = t[0 + i]
    BY <1>2, Slice
  <2> QED
    BY <2>1, <2>2
<1>5. \A i \in 1..n : SubSeq(t, 1, n)[i] = SubSeq(s, a + 1, b - 1)[i]
  BY <1>2, <1>3, <1>4
<1> HIDE DEF t, n
<1>6. SubSeq(t, 1, n) = SubSeq(s, a + 1, b - 1)
  BY <1>3, <1>4, <1>5, SeqEqual
<1> QED
  BY <1>6 DEF t, n

-----------------------------------------------------------------------------
(* Ends of lines. *)

IsLast(m, S) == m \in S /\ \A x \in S : x <= m

LEMMA LastIs ==
  ASSUME NEW S \in SUBSET Int, NEW m, IsLast(m, S)
  PROVE  LastOf(S) = m
<1>1. ASSUME NEW x \in S, \A y \in S : y <= x
      PROVE  x = m
  <2>1. x <= m /\ m <= x /\ x \in Int /\ m \in Int
    BY <1>1 DEF IsLast
  <2> QED
    BY <2>1
<1> QED
  BY <1>1 DEF LastOf, IsLast

LEMMA EndIs ==
  ASSUME NEW s \in Seq(Text), NEW p \in LineEndsIn(s)
  PROVE  p \in Nat /\ 2 <= p /\ p <= Len(s) /\ s[p] = LF /\ s[p - 1] = CR
<1>1. Len(s) \in Nat
  BY LenProperties
<1>2. p \in 2..Len(s) /\ s[p - 1] = CR /\ s[p] = LF
  BY DEF LineEndsIn
<1> QED
  BY <1>1, <1>2

LEMMA Letters ==
  /\ CR # LF /\ CR # "" /\ LF # "Content-Length=" /\ CR # "Content-Length="
  /\ CR \notin WithEquals /\ LF \notin WithEquals /\ CR \notin DOMAIN Numeral
  /\ "Content-Length=" \in WithEquals
<1>1. CR # LF /\ CR # "" /\ LF # "Content-Length=" /\ CR # "Content-Length="
  BY DEF CR, LF
<1> QED
  BY <1>1, HttpDataAssumption

IsHeaderEnd(s, e) ==
  /\ e \in LineEndsIn(s) /\ e - 2 \in LineEndsIn(s)
  /\ \A p \in LineEndsIn(s) : p - 2 \in LineEndsIn(s) => e <= p

LEMMA HeaderEndIs ==
  ASSUME NEW s \in Seq(Text), NEW e, IsHeaderEnd(s, e)
  PROVE  HeaderEnd(s) = e
<1> DEFINE blank == {p \in LineEndsIn(s) : p - 2 \in LineEndsIn(s)}
<1>1. e \in blank /\ \A q \in blank : e <= q
  BY DEF IsHeaderEnd
<1>2. blank \subseteq Int
  BY EndIs
<1>3. ASSUME NEW x \in blank, \A q \in blank : x <= q
      PROVE  x = e
  <2>1. x <= e /\ e <= x /\ x \in Int /\ e \in Int
    BY <1>1, <1>2, <1>3
  <2> QED
    BY <2>1
<1>4. (CHOOSE p \in blank : \A q \in blank : p <= q) = e
  <2> HIDE DEF blank
  <2> QED
    BY <1>1, <1>3
<1> QED
  BY <1>4 DEF HeaderEnd

LEMMA HeaderEndExists ==
  ASSUME NEW s \in Seq(Text), \E p \in LineEndsIn(s) : p - 2 \in LineEndsIn(s)
  PROVE  IsHeaderEnd(s, HeaderEnd(s))
<1> DEFINE blank == {p \in LineEndsIn(s) : p - 2 \in LineEndsIn(s)}
<1>1. blank \in SUBSET Nat /\ blank # {}
  BY EndIs
<1>2. PICK e \in blank : \A q \in blank : e <= q
  BY <1>1, Least
<1>3. IsHeaderEnd(s, e)
  BY <1>2 DEF IsHeaderEnd
<1> QED
  BY <1>3, HeaderEndIs
-----------------------------------------------------------------------------
(* The invariant of the parser, handler by handler. *)

EndsUpTo(s, c) == {p \in LineEndsIn(s) : p <= c}

NoBlank(S) == \A p \in S : p - 2 \notin S

\* At c, somewhere in the line that begins after m.
InLine(s, c, ends, line, before) ==
  \E m \in 0..c :
    /\ IsLast(m, ends \cup {0})
    /\ line = SubSeq(s, m + 1, c) /\ before = IF m < c THEN s[c] ELSE ""

\* The line that ends at c, without its CRLF.
LineRead(s, c, ends, line) ==
  \E m \in 0..(c - 1) : IsLast(m, (ends \cup {0}) \ {c}) /\ line = SubSeq(s, m + 1, c - 2)

\* Where lines end, and what is in lineBuffer and prev.
LinesOf(h) ==
  /\ at[h] \in {"start line", "start line read", "header", "header read"} =>
       lineEnds[h] = EndsUpTo(stream[h], Consumed(h))
  /\ at[h] \in {"start line", "header"} =>
       InLine(stream[h], Consumed(h), lineEnds[h], lineBuffer[h], prev[h]) /\ NoBlank(lineEnds[h])
  /\ at[h] \in {"start line read", "header read"} =>
       /\ LineRead(stream[h], Consumed(h), lineEnds[h], lineBuffer[h])
       /\ Consumed(h) \in lineEnds[h] /\ prev[h] = ""
       /\ NoBlank(lineEnds[h] \ {Consumed(h)})
  /\ at[h] = "start line" => lineEnds[h] = {}
  /\ at[h] = "start line read" => lineEnds[h] = {Consumed(h)}
  /\ at[h] = "header" => lineEnds[h] # {}
  /\ at[h] = "header read" => lineEnds[h] # {Consumed(h)}

\* The headers of this name before m.
Heard(s, m) ==
  {i \in DOMAIN s : s[i] = "Content-Length=" /\ i - 1 \in LineEndsIn(s) /\ i < m}

\* contentLength is what follows one of them, if there is one.
LengthFrom(s, m, length) ==
  /\ Heard(s, m) = {} => length = NoLength
  /\ Heard(s, m) # {} =>
       \E i \in Heard(s, m) : IF length = <<>> THEN s[i + 1] = CR ELSE length[1] = s[i + 1]

\* A line without '=' can take it away, but no sound request has one.
LengthIn(s, m, length) == Sound(s) => LengthFrom(s, m, length)

LengthOf(h) ==
  /\ at[h] \in {"start line", "start line read"} => fields[h].contentLength = NoLength
  /\ at[h] \in {"header", "header read", "body start", "body", "body read"} =>
       (fields[h].method = "POST" <=> stream[h][1] = "POST")
  /\ at[h] = "header" =>
       \E m \in lineEnds[h] : IsLast(m, lineEnds[h]) /\ LengthIn(stream[h], m, fields[h].contentLength)
  /\ at[h] = "header read" =>
       \E m \in lineEnds[h] \ {Consumed(h)} :
         /\ IsLast(m, lineEnds[h] \ {Consumed(h)})
         /\ LengthIn(stream[h], m, fields[h].contentLength)
  /\ at[h] \in {"body start", "body", "body read"} =>
       LengthIn(stream[h], HeaderEnd(stream[h]), fields[h].contentLength)

\* What has been read of the body, after the end e of the header.
BodyFrom(s, e, c, body) == IsHeaderEnd(s, e) /\ body = SubSeq(s, e + 1, c)

BodyOf(h) ==
  /\ at[h] \in {"start line", "start line read", "header", "header read", "body start"} =>
       data[h] = <<>>
  /\ at[h] = "body start" => IsHeaderEnd(stream[h], Consumed(h))
  /\ at[h] = "body" =>
       /\ HasNumber(h)
       /\ \E e \in 1..Consumed(h) :
            /\ BodyFrom(stream[h], e, Consumed(h), data[h])
            /\ ContentLength(h) > 0 => Consumed(h) - e < ContentLength(h)
  /\ at[h] = "body read" =>
       /\ HasNumber(h)
       /\ \E e \in 1..Consumed(h) :
            /\ BodyFrom(stream[h], e, Consumed(h), data[h])
            /\ ContentLength(h) > 0 /\ Consumed(h) - e = ContentLength(h)
  /\ at[h] = "parsed" /\ fields[h].method = "POST" /\ ~bodyCut[h] =>
       \E e \in 1..Consumed(h) :
         /\ BodyFrom(stream[h], e, Consumed(h), data[h])
         /\ Consumed(h) - e = ContentLength(h)
         /\ fields[h].params = Keys(data[h])

KeptOf(h) ==
  fields[h].keep = "keep-alive" => \E i \in DOMAIN stream[h] : stream[h][i] = "Connection="

ParserOf(h) == LinesOf(h) /\ LengthOf(h) /\ BodyOf(h) /\ KeptOf(h)
-----------------------------------------------------------------------------
(* Steps of parseOneLine, as facts about the positions. *)

LEMMA EndsTyped ==
  ASSUME NEW s \in Seq(Text), NEW c \in Int
  PROVE  EndsUpTo(s, c) \subseteq Nat /\ EndsUpTo(s, c) \cup {0} \subseteq Int
BY EndIs DEF EndsUpTo

\* A unit that does not end the line.
LEMMA LineGrows ==
  ASSUME NEW s \in Seq(Text), NEW c \in Nat, c + 1 <= Len(s), NEW line, NEW before,
         InLine(s, c, EndsUpTo(s, c), line, before), ~(before = CR /\ s[c + 1] = LF)
  PROVE  /\ EndsUpTo(s, c + 1) = EndsUpTo(s, c)
         /\ InLine(s, c + 1, EndsUpTo(s, c), Append(line, s[c + 1]), s[c + 1])
<1>0. Len(s) \in Nat
  BY LenProperties
<1>1. PICK m \in 0..c :
        /\ IsLast(m, EndsUpTo(s, c) \cup {0})
        /\ line = SubSeq(s, m + 1, c) /\ before = IF m < c THEN s[c] ELSE ""
  BY DEF InLine
<1>2. c + 1 \notin LineEndsIn(s)
  <2> SUFFICES ASSUME c + 1 \in LineEndsIn(s)
               PROVE  FALSE
    OBVIOUS
  <2>1. /\ 2 <= c + 1 /\ s[c + 1] = LF /\ s[(c + 1) - 1] = CR
    BY EndIs
  <2>2. s[c] = CR /\ c >= 1
    <3>1. (c + 1) - 1 = c
      OBVIOUS
    <3> QED
      BY <2>1, <3>1
  <2>3. CASE m < c
    BY <1>1, <2>1, <2>2, <2>3
  <2>4. CASE m = c
    <3>1. c \in EndsUpTo(s, c)
      <4>1. m \in EndsUpTo(s, c) \cup {0}
        BY <1>1 DEF IsLast
      <4>2. m # 0
        BY <2>2, <2>4
      <4> QED
        BY <2>4, <4>1, <4>2
    <3>2. s[c] = LF
      BY <3>1, EndIs DEF EndsUpTo
    <3> QED
      BY <2>2, <3>2, Letters
  <2> QED
    BY <2>3, <2>4
<1>3. EndsUpTo(s, c + 1) = EndsUpTo(s, c)
  <2>1. \A p \in LineEndsIn(s) : p <= c + 1 <=> p <= c
    <3> TAKE p \in LineEndsIn(s)
    <3>1. p \in Nat /\ p # c + 1
      BY <1>2, EndIs
    <3> QED
      BY <3>1
  <2> QED
    BY <2>1 DEF EndsUpTo
<1>4. Append(line, s[c + 1]) = SubSeq(s, m + 1, c + 1)
  <2>1. m \in Nat /\ m <= c
    OBVIOUS
  <2>2. Append(SubSeq(s, m + 1, c), s[c + 1]) = SubSeq(s, m + 1, c + 1)
    BY <2>1, SliceGrows
  <2> QED
    BY <1>1, <2>2
<1>5. m \in 0..(c + 1) /\ m < c + 1
  OBVIOUS
<1> QED
  BY <1>1, <1>3, <1>4, <1>5 DEF InLine

\* The LF after a CR of the same line.
LEMMA LineEnds ==
  ASSUME NEW s \in Seq(Text), NEW c \in Nat, c + 1 <= Len(s), NEW line,
         InLine(s, c, EndsUpTo(s, c), line, CR), s[c + 1] = LF
  PROVE  /\ EndsUpTo(s, c + 1) = EndsUpTo(s, c) \cup {c + 1}
         /\ c + 1 \notin EndsUpTo(s, c)
         /\ LineRead(s, c + 1, EndsUpTo(s, c + 1), SubSeq(line, 1, Len(line) - 1))
<1>0. Len(s) \in Nat /\ c <= Len(s)
  BY LenProperties
<1>1. PICK m \in 0..c :
        /\ IsLast(m, EndsUpTo(s, c) \cup {0})
        /\ line = SubSeq(s, m + 1, c) /\ CR = IF m < c THEN s[c] ELSE ""
  BY DEF InLine
<1>2. m < c /\ s[c] = CR
  BY <1>1, Letters
<1>3. c + 1 \in LineEndsIn(s)
  <2>1. c + 1 \in 2..Len(s) /\ (c + 1) - 1 = c
    BY <1>0, <1>2
  <2> QED
    BY <1>2, <2>1 DEF LineEndsIn
<1>4. EndsUpTo(s, c + 1) = EndsUpTo(s, c) \cup {c + 1}
  <2>1. \A p \in LineEndsIn(s) : p <= c + 1 <=> p <= c \/ p = c + 1
    <3> TAKE p \in LineEndsIn(s)
    <3>1. p \in Nat
      BY EndIs
    <3> QED
      BY <3>1
  <2> QED
    BY <1>3, <2>1 DEF EndsUpTo
<1>5. c + 1 \notin EndsUpTo(s, c)
  BY DEF EndsUpTo
<1>6. IsLast(m, (EndsUpTo(s, c + 1) \cup {0}) \ {c + 1})
  <2>1. (EndsUpTo(s, c + 1) \cup {0}) \ {c + 1} = EndsUpTo(s, c) \cup {0}
    BY <1>4, <1>5
  <2> QED
    BY <1>1, <2>1
<1>7. SubSeq(line, 1, Len(line) - 1) = SubSeq(s, m + 1, (c + 1) - 2)
  <2>1. Len(line) = c - m
    BY <1>0, <1>1, <1>2, Slice
  <2>2. SubSeq(line, 1, (c - m) - 1) = SubSeq(s, m + 1, c - 1)
    BY <1>0, <1>1, <1>2, SliceShrinks
  <2>3. (c + 1) - 2 = c - 1
    OBVIOUS
  <2> QED
    BY <2>1, <2>2, <2>3
<1>8. m \in 0..((c + 1) - 1)
  OBVIOUS
<1> QED
  BY <1>4, <1>5, <1>6, <1>7, <1>8 DEF LineRead

\* The next line begins.
LEMMA LineBegins ==
  ASSUME NEW s \in Seq(Text), NEW c \in Nat, c \in EndsUpTo(s, c)
  PROVE  InLine(s, c, EndsUpTo(s, c), <<>>, "") /\ IsLast(c, EndsUpTo(s, c))
<1>1. IsLast(c, EndsUpTo(s, c) \cup {0}) /\ IsLast(c, EndsUpTo(s, c))
  BY DEF EndsUpTo, IsLast
<1>2. c \in 0..c /\ ~(c < c)
  OBVIOUS
<1>3. SubSeq(s, c + 1, c) = <<>>
  BY SubSeqEmpty
<1> QED
  BY <1>1, <1>2, <1>3 DEF InLine

\* A line that is not empty is not the second of two CRLF.
LEMMA NotBlank ==
  ASSUME NEW s \in Seq(Text), NEW c \in Nat, c \in EndsUpTo(s, c), NEW line, line # <<>>,
         LineRead(s, c, EndsUpTo(s, c), line), NoBlank(EndsUpTo(s, c) \ {c})
  PROVE  NoBlank(EndsUpTo(s, c))
<1>0. c <= Len(s) /\ Len(s) \in Nat
  BY EndIs, LenProperties DEF EndsUpTo
<1>1. PICK m \in 0..(c - 1) :
        IsLast(m, (EndsUpTo(s, c) \cup {0}) \ {c}) /\ line = SubSeq(s, m + 1, c - 2)
  BY DEF LineRead
<1>2. c - 2 > m
  <2>1. c - 2 <= Len(s) /\ c - 2 \in Int
    BY <1>0
  <2>2. ~(c - 2 <= m)
    BY <1>1, <2>1, Slice
  <2> QED
    BY <2>2
<1>3. c - 2 \notin EndsUpTo(s, c)
  <2>1. c - 2 # c
    OBVIOUS
  <2> QED
    BY <1>1, <1>2, <2>1 DEF IsLast
<1> SUFFICES ASSUME NEW p \in EndsUpTo(s, c), p - 2 \in EndsUpTo(s, c)
             PROVE  FALSE
  BY DEF NoBlank
<1>4. p # c
  BY <1>3
<1>5. p - 2 # c /\ p \in Nat /\ p <= c
  BY EndIs DEF EndsUpTo
<1> QED
  BY <1>4, <1>5 DEF NoBlank

\* An empty line, which is not the first, ends the header.
LEMMA BlankEnds ==
  ASSUME NEW s \in Seq(Text), NEW c \in Nat, c \in EndsUpTo(s, c),
         LineRead(s, c, EndsUpTo(s, c), <<>>), NoBlank(EndsUpTo(s, c) \ {c}),
         EndsUpTo(s, c) # {c}
  PROVE  IsHeaderEnd(s, c) /\ c - 2 \in EndsUpTo(s, c) \ {c} /\ IsLast(c - 2, EndsUpTo(s, c) \ {c})
<1>0. /\ c \in LineEndsIn(s) /\ 2 <= c /\ c <= Len(s) /\ Len(s) \in Nat
      /\ s[c] = LF /\ s[c - 1] = CR
  BY EndIs, LenProperties DEF EndsUpTo
<1>1. PICK m \in 0..(c - 1) :
        IsLast(m, (EndsUpTo(s, c) \cup {0}) \ {c}) /\ <<>> = SubSeq(s, m + 1, c - 2)
  BY DEF LineRead
<1>2. c - 2 <= m
  <2>1. c - 2 <= Len(s) /\ c - 2 \in Int
    BY <1>0
  <2> QED
    BY <1>1, <2>1, Slice
<1>3. m \in EndsUpTo(s, c) \ {c}
  <2>1. PICK p \in EndsUpTo(s, c) : p # c
    BY <1>0
  <2>2. p \in Nat /\ 2 <= p
    BY EndIs DEF EndsUpTo
  <2>3. p <= m
    BY <1>1, <2>1 DEF IsLast
  <2>4. m # 0
    BY <2>2, <2>3
  <2> QED
    BY <1>1, <2>4 DEF IsLast
<1>4. m # c - 1
  <2>1. s[m] = LF
    BY <1>3, EndIs DEF EndsUpTo
  <2> QED
    BY <1>0, <2>1, Letters
<1>5. m = c - 2
  BY <1>2, <1>4
<1>6. c - 2 \in LineEndsIn(s)
  BY <1>3, <1>5 DEF EndsUpTo
<1>7. ASSUME NEW p \in LineEndsIn(s), p - 2 \in LineEndsIn(s)
      PROVE  c <= p
  <2> SUFFICES ASSUME ~(c <= p)
               PROVE  FALSE
    OBVIOUS
  <2>1. p \in Nat
    BY EndIs
  <2>2. p \in EndsUpTo(s, c) \ {c} /\ p - 2 \in EndsUpTo(s, c) \ {c}
    BY <1>7, <2>1 DEF EndsUpTo
  <2> QED
    BY <2>2 DEF NoBlank
<1>8. IsLast(c - 2, EndsUpTo(s, c) \ {c})
  BY <1>1, <1>3, <1>5 DEF IsLast
<1> QED
  BY <1>0, <1>3, <1>5, <1>6, <1>7, <1>8 DEF IsHeaderEnd
-----------------------------------------------------------------------------
(* Content-Length, line by line. *)

LEMMA HeardNone ==
  ASSUME NEW s \in Seq(Text), NEW c \in Nat, EndsUpTo(s, c) = {c}
  PROVE  LengthFrom(s, c, NoLength)
<1>1. ASSUME NEW i \in Heard(s, c)
      PROVE  FALSE
  <2>1. i - 1 \in LineEndsIn(s) /\ i < c /\ i \in Int
    BY <1>1, LenProperties DEF Heard
  <2>2. i - 1 \in EndsUpTo(s, c)
    BY <2>1 DEF EndsUpTo
  <2> QED
    BY <2>1, <2>2
<1> QED
  BY <1>1 DEF LengthFrom

\* A header line adds its own first word, if that is the one.
LEMMA HeardNext ==
  ASSUME NEW s \in Seq(Text), NEW c \in Nat, c \in EndsUpTo(s, c), NEW m,
         IsLast(m, EndsUpTo(s, c) \ {c}), m + 1 < c
  PROVE  Heard(s, c) = Heard(s, m) \cup (IF s[m + 1] = "Content-Length=" THEN {m + 1} ELSE {})
<1>0. /\ m \in Nat /\ m \in LineEndsIn(s) /\ s[m] = LF /\ c <= Len(s) /\ Len(s) \in Nat
      /\ DOMAIN s = 1..Len(s)
  BY EndIs, LenProperties DEF EndsUpTo, IsLast
<1>1. ASSUME NEW i \in Heard(s, c)
      PROVE  i \in Heard(s, m) \/ (i = m + 1 /\ s[m + 1] = "Content-Length=")
  <2>1. i \in DOMAIN s /\ s[i] = "Content-Length=" /\ i - 1 \in LineEndsIn(s) /\ i < c /\ i \in Int
    BY <1>0, <1>1 DEF Heard
  <2>2. i - 1 \in EndsUpTo(s, c) \ {c}
    BY <2>1 DEF EndsUpTo
  <2>3. i - 1 <= m
    BY <2>2 DEF IsLast
  <2>4. i # m
    BY <1>0, <2>1, Letters
  <2>5. i < m \/ i = m + 1
    BY <1>0, <2>1, <2>3, <2>4
  <2> QED
    BY <2>1, <2>5 DEF Heard
<1>2. ASSUME NEW i \in Heard(s, m)
      PROVE  i \in Heard(s, c)
  <2>1. i < c
    <3>1. i \in Int /\ i < m
      BY <1>0, <1>2 DEF Heard
    <3> QED
      BY <1>0, <3>1
  <2> QED
    BY <1>2, <2>1 DEF Heard
<1>3. s[m + 1] = "Content-Length=" => m + 1 \in Heard(s, c)
  <2>1. m + 1 \in DOMAIN s /\ (m + 1) - 1 = m
    BY <1>0
  <2> QED
    BY <1>0, <2>1 DEF Heard
<1> QED
  BY <1>1, <1>2, <1>3

LEMMA LengthNext ==
  ASSUME NEW s \in Seq(Text), NEW c \in Nat, c \in EndsUpTo(s, c), NEW m,
         IsLast(m, EndsUpTo(s, c) \ {c}), NEW line, line = SubSeq(s, m + 1, c - 2), line # <<>>,
         NEW length, LengthFrom(s, m, length)
  PROVE  /\ line[1] = "Content-Length=" => LengthFrom(s, c, Tail(line))
         /\ line[1] # "Content-Length=" => LengthFrom(s, c, length)
<1>0. /\ m \in Nat /\ c <= Len(s) /\ Len(s) \in Nat /\ c \in LineEndsIn(s) /\ s[c - 1] = CR
      /\ c - 2 \in Int /\ c - 2 <= Len(s)
  BY EndIs, LenProperties DEF EndsUpTo, IsLast
<1>1. m < c - 2
  <2>1. ~(c - 2 <= m)
    BY <1>0, Slice
  <2> QED
    BY <1>0, <2>1
<1>2. /\ line \in Seq(Text) /\ Len(line) = (c - 2) - m
      /\ \A i \in 1..((c - 2) - m) : line[i] = s[m + i]
  BY <1>0, <1>1, Slice
<1>3. line[1] = s[m + 1]
  BY <1>0, <1>1, <1>2
<1>4. Heard(s, c) = Heard(s, m) \cup (IF s[m + 1] = "Content-Length=" THEN {m + 1} ELSE {})
  <2>1. m + 1 < c
    BY <1>0, <1>1
  <2> QED
    BY <2>1, HeardNext
<1>5. CASE line[1] = "Content-Length="
  <2>1. m + 1 \in Heard(s, c)
    BY <1>3, <1>4, <1>5
  <2>2. Tail(line) = <<>> => s[(m + 1) + 1] = CR
    <3> SUFFICES ASSUME Tail(line) = <<>>
                 PROVE  s[(m + 1) + 1] = CR
      OBVIOUS
    <3>1. Len(Tail(line)) = Len(line) - 1
      BY <1>2, HeadTailProperties
    <3>2. Len(Tail(line)) = 0
      OBVIOUS
    <3>3. (m + 1) + 1 = c - 1
      BY <1>0, <1>2, <3>1, <3>2
    <3> QED
      BY <1>0, <3>3
  <2>3. Tail(line) # <<>> => Tail(line)[1] = s[(m + 1) + 1]
    <3> SUFFICES ASSUME Tail(line) # <<>>
                 PROVE  Tail(line)[1] = s[(m + 1) + 1]
      OBVIOUS
    <3>1. /\ Tail(line) \in Seq(Text) /\ Len(Tail(line)) = Len(line) - 1
          /\ \A i \in 1..Len(Tail(line)) : Tail(line)[i] = line[i + 1]
      BY <1>2, HeadTailProperties
    <3>2. Len(Tail(line)) \in Nat \ {0}
      BY <3>1, EmptySeq
    <3>3. Tail(line)[1] = line[2]
      BY <3>1, <3>2
    <3>4. 2 \in 1..((c - 2) - m)
      BY <1>0, <1>2, <3>1, <3>2
    <3>5. line[2] = s[m + 2]
      BY <1>2, <3>4
    <3>6. m + 2 = (m + 1) + 1
      BY <1>0
    <3> QED
      BY <3>3, <3>5, <3>6
  <2> QED
    BY <1>5, <2>1, <2>2, <2>3 DEF LengthFrom
<1>6. CASE line[1] # "Content-Length="
  BY <1>3, <1>4, <1>6 DEF LengthFrom
<1> QED
  BY <1>5, <1>6

LEMMA LengthEnd ==
  ASSUME NEW s \in Seq(Text), NEW c \in Nat, IsHeaderEnd(s, c), NEW length,
         LengthFrom(s, c - 2, length)
  PROVE  LengthFrom(s, c, length)
<1>0. /\ c \in LineEndsIn(s) /\ c - 2 \in LineEndsIn(s) /\ s[c - 1] = CR /\ s[c - 2] = LF
      /\ Len(s) \in Nat /\ DOMAIN s = 1..Len(s)
  BY EndIs, LenProperties DEF IsHeaderEnd
<1>1. Heard(s, c) = Heard(s, c - 2)
  <2>1. \A i \in DOMAIN s : s[i] = "Content-Length=" => (i < c <=> i < c - 2)
    <3> TAKE i \in DOMAIN s
    <3> HAVE s[i] = "Content-Length="
    <3>1. i # c - 1
      BY <1>0, Letters
    <3>2. i # c - 2
      BY <1>0, Letters
    <3>3. i \in Int
      BY <1>0
    <3> QED
      BY <3>1, <3>2, <3>3
  <2> QED
    BY <2>1 DEF Heard
<1> QED
  BY <1>1 DEF LengthFrom

-----------------------------------------------------------------------------
(* What a sound request spares the parser. *)

LEMMA SoundLine ==
  ASSUME NEW s \in Seq(Text), Sound(s), NEW p \in LineEndsIn(s), p <= HeaderEnd(s),
         NEW m, IsLast(m, {q \in LineEndsIn(s) \cup {0} : q < p})
  PROVE  /\ p - m <= LineSize
         /\ m = 0 => p >= 5
         /\ m # 0 => p - m = 2 \/ \E i \in m..p : s[i] \in WithEquals
<1>1. LastOf({q \in LineEndsIn(s) \cup {0} : q < p}) = m
  <2>1. {q \in LineEndsIn(s) \cup {0} : q < p} \in SUBSET Int
    BY EndIs
  <2> QED
    BY <2>1, LastIs
<1> QED
  BY <1>1 DEF Sound

LEMMA SoundLength ==
  ASSUME NEW s \in Seq(Text), Sound(s), s[1] = "POST", NEW length,
         LengthFrom(s, HeaderEnd(s), length)
  PROVE  /\ length # <<>> /\ length[1] \in DOMAIN Numeral /\ Numeral[length[1]] > 0
         /\ \A j \in 1..Numeral[length[1]] :
              HeaderEnd(s) + j \in DOMAIN s => s[HeaderEnd(s) + j] \in WithEquals
<1>1. Heard(s, HeaderEnd(s)) = LengthHeaders(s)
  BY DEF Heard, LengthHeaders
<1>2. PICK i \in LengthHeaders(s) : IF length = <<>> THEN s[i + 1] = CR ELSE length[1] = s[i + 1]
  BY <1>1 DEF LengthFrom, Sound
<1>3. LET n == IF s[i + 1] \in DOMAIN Numeral THEN Numeral[s[i + 1]] ELSE 0
      IN  n > 0 /\ \A j \in 1..n : HeaderEnd(s) + j \in DOMAIN s => s[HeaderEnd(s) + j] \in WithEquals
  BY <1>2 DEF Sound
<1>4. s[i + 1] \in DOMAIN Numeral
  BY <1>3
<1>5. length # <<>> /\ length[1] = s[i + 1]
  BY <1>2, <1>4, Letters
<1> QED
  BY <1>3, <1>4, <1>5

\* The header has not ended before c.
LEMMA StillHeader ==
  ASSUME NEW s \in Seq(Text), NEW c \in Nat, NEW e, IsHeaderEnd(s, e),
         NoBlank(EndsUpTo(s, c)) \/ NoBlank(EndsUpTo(s, c) \ {c})
  PROVE  e >= c /\ (NoBlank(EndsUpTo(s, c)) => e > c)
<1>1. e \in LineEndsIn(s) /\ e - 2 \in LineEndsIn(s) /\ e \in Nat
  BY EndIs DEF IsHeaderEnd
<1>2. e <= c => e \in EndsUpTo(s, c) /\ e - 2 \in EndsUpTo(s, c)
  BY <1>1 DEF EndsUpTo
<1>3. NoBlank(EndsUpTo(s, c)) => e > c
  BY <1>1, <1>2 DEF NoBlank
<1>4. NoBlank(EndsUpTo(s, c) \ {c}) => e >= c
  <2> SUFFICES ASSUME NoBlank(EndsUpTo(s, c) \ {c}), ~(e >= c)
               PROVE  FALSE
    OBVIOUS
  <2>1. e <= c /\ e # c /\ e - 2 # c
    BY <1>1
  <2>2. e \in EndsUpTo(s, c) \ {c} /\ e - 2 \in EndsUpTo(s, c) \ {c}
    BY <1>2, <2>1
  <2> QED
    BY <2>2 DEF NoBlank
<1>5. NoBlank(EndsUpTo(s, c)) => e >= c
  BY <1>1, <1>3
<1> QED
  BY <1>3, <1>4, <1>5

LEMMA LineFits ==
  ASSUME NEW s \in Seq(Text), Sound(s), NEW c \in Nat, c <= Len(s), NEW line, NEW before,
         InLine(s, c, EndsUpTo(s, c), line, before), NoBlank(EndsUpTo(s, c))
  PROVE  Len(line) < LineSize
<1>1. PICK m \in 0..c : IsLast(m, EndsUpTo(s, c) \cup {0}) /\ line = SubSeq(s, m + 1, c)
  BY DEF InLine
<1>2. Len(line) = c - m
  BY <1>1, Slice
<1> DEFINE e == HeaderEnd(s)
           later == {p \in LineEndsIn(s) : p > c}
<1>3. IsHeaderEnd(s, e)
  BY HeaderEndExists DEF Sound
<1>4. e \in later
  BY <1>3, StillHeader DEF IsHeaderEnd
<1>5. PICK p \in later : \A q \in later : p <= q
  <2>1. later \in SUBSET Nat /\ later # {}
    BY <1>4, EndIs
  <2> QED
    BY <2>1, Least
<1>6. p <= e /\ p \in LineEndsIn(s) /\ p > c /\ p \in Nat
  BY <1>4, <1>5, EndIs
<1>7. IsLast(m, {q \in LineEndsIn(s) \cup {0} : q < p})
  <2>1. m \in LineEndsIn(s) \cup {0} /\ m < p
    BY <1>1, <1>6 DEF IsLast, EndsUpTo
  <2>2. ASSUME NEW q \in LineEndsIn(s) \cup {0}, q < p
        PROVE  q <= m
    <3>1. q \in Nat
      BY EndIs
    <3>2. q <= c
      <4>1. q > c => q \in later
        BY <1>6, <3>1
      <4> QED
        BY <1>5, <1>6, <2>2, <3>1, <4>1
    <3>3. q \in EndsUpTo(s, c) \cup {0}
      BY <3>2 DEF EndsUpTo
    <3> QED
      BY <1>1, <3>3 DEF IsLast
  <2> QED
    BY <2>1, <2>2 DEF IsLast
<1>8. p - m <= LineSize
  BY <1>6, <1>7, SoundLine
<1>9. LineSize \in Nat
  BY Constants
<1> QED
  BY <1>2, <1>6, <1>8, <1>9

LEMMA FirstLine ==
  ASSUME NEW s \in Seq(Text), Sound(s), NEW c \in Nat, EndsUpTo(s, c) = {c}, NEW line,
         LineRead(s, c, {c}, line)
  PROVE  Len(line) >= 3
<1>0. c \in LineEndsIn(s) /\ 2 <= c /\ c <= Len(s) /\ Len(s) \in Nat
  BY EndIs, LenProperties DEF EndsUpTo
<1>1. PICK m \in 0..(c - 1) : IsLast(m, ({c} \cup {0}) \ {c}) /\ line = SubSeq(s, m + 1, c - 2)
  BY DEF LineRead
<1>2. m = 0
  BY <1>1 DEF IsLast
<1>3. IsHeaderEnd(s, HeaderEnd(s))
  BY HeaderEndExists DEF Sound
<1>4. c <= HeaderEnd(s)
  <2>1. NoBlank(EndsUpTo(s, c) \ {c})
    BY DEF NoBlank
  <2>2. HeaderEnd(s) >= c /\ HeaderEnd(s) \in Nat
    BY <1>3, <2>1, StillHeader, EndIs DEF IsHeaderEnd
  <2> QED
    BY <2>2
<1>5. IsLast(0, {q \in LineEndsIn(s) \cup {0} : q < c})
  <2>1. ASSUME NEW q \in LineEndsIn(s), q < c
        PROVE  FALSE
    <3>1. q \in EndsUpTo(s, c) /\ q \in Nat
      BY <2>1, EndIs DEF EndsUpTo
    <3> QED
      BY <2>1, <3>1
  <2> QED
    BY <1>0, <2>1 DEF IsLast
<1>6. c >= 5
  BY <1>0, <1>4, <1>5, SoundLine
<1>7. Len(line) = IF 0 < c - 2 THEN (c - 2) - 0 ELSE 0
  <2>1. c - 2 \in Int /\ c - 2 <= Len(s)
    BY <1>0
  <2> QED
    BY <1>1, <1>2, <2>1, Slice
<1> QED
  BY <1>6, <1>7

LEMMA HeaderLine ==
  ASSUME NEW s \in Seq(Text), Sound(s), NEW c \in Nat, c \in EndsUpTo(s, c), EndsUpTo(s, c) # {c},
         NEW line, line # <<>>, LineRead(s, c, EndsUpTo(s, c), line), NoBlank(EndsUpTo(s, c) \ {c})
  PROVE  \E i \in DOMAIN line : line[i] \in WithEquals
<1>0. /\ c \in LineEndsIn(s) /\ 2 <= c /\ c <= Len(s) /\ Len(s) \in Nat
      /\ s[c] = LF /\ s[c - 1] = CR /\ c - 2 \in Int /\ c - 2 <= Len(s)
  BY EndIs, LenProperties DEF EndsUpTo
<1>1. PICK m \in 0..(c - 1) :
        IsLast(m, (EndsUpTo(s, c) \cup {0}) \ {c}) /\ line = SubSeq(s, m + 1, c - 2)
  BY DEF LineRead
<1>2. m \in LineEndsIn(s) /\ m # 0 /\ s[m] = LF
  <2>1. PICK p \in EndsUpTo(s, c) : p # c
    BY <1>0
  <2>2. p \in Nat /\ 2 <= p
    BY EndIs DEF EndsUpTo
  <2>3. p <= m
    BY <1>1, <2>1 DEF IsLast
  <2>4. m # 0
    BY <2>2, <2>3
  <2>5. m \in LineEndsIn(s)
    BY <1>1, <2>4 DEF IsLast, EndsUpTo
  <2> QED
    BY <2>4, <2>5, EndIs
<1>3. m < c - 2
  <2>1. ~(c - 2 <= m)
    BY <1>0, <1>1, Slice
  <2> QED
    BY <1>0, <2>1
<1>4. /\ Len(line) = (c - 2) - m /\ DOMAIN line = 1..((c - 2) - m)
      /\ \A i \in 1..((c - 2) - m) : line[i] = s[m + i]
  BY <1>0, <1>1, <1>3, Slice
<1>5. c <= HeaderEnd(s)
  <2>1. IsHeaderEnd(s, HeaderEnd(s))
    BY HeaderEndExists DEF Sound
  <2>2. HeaderEnd(s) >= c /\ HeaderEnd(s) \in Nat
    BY <2>1, StillHeader, EndIs DEF IsHeaderEnd
  <2> QED
    BY <2>2
<1>6. IsLast(m, {q \in LineEndsIn(s) \cup {0} : q < c})
  <2>1. {q \in LineEndsIn(s) \cup {0} : q < c} \subseteq (EndsUpTo(s, c) \cup {0}) \ {c}
    <3>1. \A q \in LineEndsIn(s) \cup {0} : q < c => q <= c /\ q # c
      BY EndIs
    <3> QED
      BY <1>0, <3>1 DEF EndsUpTo
  <2>2. m \in {q \in LineEndsIn(s) \cup {0} : q < c}
    BY <1>2, <1>3
  <2> QED
    BY <1>1, <2>1, <2>2 DEF IsLast
<1>7. c - m = 2 \/ \E i \in m..c : s[i] \in WithEquals
  BY <1>0, <1>2, <1>5, <1>6, SoundLine
<1>8. PICK i \in m..c : s[i] \in WithEquals
  BY <1>3, <1>7
<1>9. i # m /\ i # c /\ i # c - 1
  BY <1>0, <1>2, <1>8, Letters
<1>10. i - m \in 1..((c - 2) - m) /\ m + (i - m) = i
  BY <1>9
<1> QED
  BY <1>4, <1>8, <1>10

-----------------------------------------------------------------------------
(* Steps. *)

\* What ParserOf(g) looks at.
LEMMA ParserUntouched ==
  ASSUME NEW g \in Handlers, ParserOf(g), at'[g] = at[g], Consumed(g)' = Consumed(g),
         stream' = stream, prev'[g] = prev[g], lineBuffer'[g] = lineBuffer[g],
         data'[g] = data[g], fields'[g] = fields[g], lineEnds'[g] = lineEnds[g],
         bodyCut'[g] = bodyCut[g]
  PROVE  ParserOf(g)'
<1>1. LinesOf(g)'
  BY DEF ParserOf, LinesOf
<1>2. LengthOf(g)'
  BY DEF ParserOf, LengthOf
<1>3. HasNumber(g)' = HasNumber(g) /\ ContentLength(g)' = ContentLength(g)
  BY DEF HasNumber, ContentLength
<1>4. BodyOf(g)'
  BY <1>3 DEF ParserOf, BodyOf
<1>5. KeptOf(g)'
  BY DEF ParserOf, KeptOf
<1> QED
  BY <1>1, <1>2, <1>4, <1>5 DEF ParserOf

\* Elsewhere only the headers that were heard matter.
LEMMA ParserLeft ==
  ASSUME NEW g \in Handlers, ParserOf(g), at'[g] \notin ParsePlaces \cup {"parsed"},
         stream' = stream, fields'[g] = fields[g]
  PROVE  ParserOf(g)'
<1>1. /\ at'[g] # "start line" /\ at'[g] # "start line read" /\ at'[g] # "header"
      /\ at'[g] # "header read" /\ at'[g] # "body start" /\ at'[g] # "body"
      /\ at'[g] # "body read" /\ at'[g] # "parsed"
  BY DEF ParsePlaces
<1>2. LinesOf(g)'
  BY <1>1 DEF LinesOf
<1>3. LengthOf(g)'
  BY <1>1 DEF LengthOf
<1>4. BodyOf(g)'
  BY <1>1 DEF BodyOf
<1>5. KeptOf(g)'
  BY DEF ParserOf, KeptOf
<1> QED
  BY <1>2, <1>3, <1>4, <1>5 DEF ParserOf

LEMMA ParserRecv ==
  ASSUME ParserTyped, NEW h \in Handlers, BufferOf(h), ParserOf(h),
         Recv(h) \/ RecvClosed(h) \/ RecvFails(h)
  PROVE  ParserOf(h)'
<1>1. CASE Recv(h)
  <2>1. Consumed(h)' = Consumed(h)
    BY <1>1, FillBuffer
  <2> QED
    BY <1>1, <2>1, ParserUntouched DEF Recv
<1>2. CASE RecvClosed(h)
  <2>1. Consumed(h)' = Consumed(h)
    BY <1>2 DEF RecvClosed, parserVars, bufferVars, Consumed, Received
  <2> QED
    BY <1>2, <2>1, ParserUntouched DEF RecvClosed, parserVars
<1>3. CASE RecvFails(h)
  <2>1. at'[h] = "exception"
    BY <1>3 DEF RecvFails, Goto, ParserTyped
  <2>2. at'[h] \notin ParsePlaces \cup {"parsed"}
    BY <2>1 DEF ParsePlaces
  <2> QED
    BY <1>3, <2>2, ParserLeft DEF RecvFails, parserVars
<1> QED
  BY <1>1, <1>2, <1>3

\* Where the line is, for the two places of parseOneLine.
LEMMA ParserTakeUnit ==
  ASSUME ParserTyped, NEW h \in Handlers, BufferOf(h), ParserOf(h), TakeUnit(h)
  PROVE  ParserOf(h)'
<1> DEFINE s == stream[h]
           c == Consumed(h)
<1>1. /\ Unit(h) = s[c + 1] /\ c \in Nat /\ c + 1 <= Len(s) /\ s \in Seq(Text)
      /\ ~DataBufferEmpty(h)
  BY UnitIs, Numbers DEF TakeUnit, AtLineUnit
<1>2. UnitRead(h)
  BY <1>1 DEF TakeUnit, UnitRead, ParserTyped
<1>3. Consumed(h)' = c + 1
  BY <1>2, ReadUnit
<1>4. /\ at[h] \in {"start line", "header"} /\ at' = at /\ stream' = stream
      /\ lineBuffer'[h] = Append(lineBuffer[h], s[c + 1]) /\ prev'[h] = s[c + 1]
      /\ lineEnds' = lineEnds /\ fields' = fields /\ data' = data /\ bodyCut' = bodyCut
  BY <1>1 DEF TakeUnit, AtLineUnit, ParserTyped
<1>5. /\ lineEnds[h] = EndsUpTo(s, c) /\ InLine(s, c, EndsUpTo(s, c), lineBuffer[h], prev[h])
      /\ NoBlank(EndsUpTo(s, c))
  BY <1>4 DEF ParserOf, LinesOf
<1>6. ~(prev[h] = CR /\ s[c + 1] = LF)
  BY <1>1 DEF TakeUnit, EndsLine
<1>7. /\ EndsUpTo(s, c + 1) = EndsUpTo(s, c)
      /\ InLine(s, c + 1, EndsUpTo(s, c), lineBuffer'[h], prev'[h])
  <2> HIDE DEF s, c
  <2> QED
    BY <1>1, <1>4, <1>5, <1>6, LineGrows
<1>8. LinesOf(h)'
  <2>1. /\ at'[h] \in {"start line", "header"} /\ at'[h] = at[h]
        /\ stream'[h] = s /\ lineEnds'[h] = EndsUpTo(s, c) /\ lineEnds'[h] = lineEnds[h]
    BY <1>4, <1>5
  <2>2. lineEnds'[h] = EndsUpTo(stream'[h], Consumed(h)')
    BY <1>3, <1>7, <2>1
  <2>3. InLine(stream'[h], Consumed(h)', lineEnds'[h], lineBuffer'[h], prev'[h]) /\ NoBlank(lineEnds'[h])
    BY <1>3, <1>5, <1>7, <2>1
  <2>4. /\ at'[h] = "start line" => lineEnds'[h] = {}
        /\ at'[h] = "header" => lineEnds'[h] # {}
    BY <2>1 DEF ParserOf, LinesOf
  <2> QED
    BY <2>1, <2>2, <2>3, <2>4 DEF LinesOf
<1>9. LengthOf(h)'
  BY <1>4 DEF ParserOf, LengthOf
<1>10. BodyOf(h)'
  BY <1>4 DEF ParserOf, BodyOf
<1>11. KeptOf(h)'
  BY <1>4 DEF ParserOf, KeptOf
<1> QED
  BY <1>8, <1>9, <1>10, <1>11 DEF ParserOf

LEMMA ParserEndLine ==
  ASSUME ParserTyped, NEW h \in Handlers, BufferOf(h), ParserOf(h), EndLine(h)
  PROVE  ParserOf(h)'
<1> DEFINE s == stream[h]
           c == Consumed(h)
<1>1. /\ Unit(h) = s[c + 1] /\ c \in Nat /\ c + 1 <= Len(s) /\ s \in Seq(Text)
      /\ ~DataBufferEmpty(h)
  BY UnitIs, Numbers DEF EndLine, AtLineUnit
<1>2. UnitRead(h)
  BY <1>1 DEF EndLine, UnitRead, ParserTyped
<1>3. Consumed(h)' = c + 1
  BY <1>2, ReadUnit
<1>4. /\ at[h] \in {"start line", "header"} /\ stream' = stream
      /\ at'[h] = (IF at[h] = "start line" THEN "start line read" ELSE "header read")
      /\ lineBuffer'[h] = SubSeq(lineBuffer[h], 1, Len(lineBuffer[h]) - 1) /\ prev'[h] = ""
      /\ lineEnds'[h] = lineEnds[h] \cup {c + 1}
      /\ fields' = fields /\ data' = data /\ bodyCut' = bodyCut
      /\ prev[h] = CR /\ s[c + 1] = LF
  BY <1>1 DEF EndLine, AtLineUnit, EndsLine, Goto, ParserTyped
<1>5. /\ lineEnds[h] = EndsUpTo(s, c) /\ InLine(s, c, EndsUpTo(s, c), lineBuffer[h], CR)
      /\ NoBlank(EndsUpTo(s, c))
  BY <1>4 DEF ParserOf, LinesOf
<1>6. /\ EndsUpTo(s, c + 1) = EndsUpTo(s, c) \cup {c + 1} /\ c + 1 \notin EndsUpTo(s, c)
      /\ LineRead(s, c + 1, EndsUpTo(s, c + 1), lineBuffer'[h])
  <2> HIDE DEF s, c
  <2>1. s[c + 1] = LF
    BY <1>4
  <2>2. /\ EndsUpTo(s, c + 1) = EndsUpTo(s, c) \cup {c + 1} /\ c + 1 \notin EndsUpTo(s, c)
        /\ LineRead(s, c + 1, EndsUpTo(s, c + 1), SubSeq(lineBuffer[h], 1, Len(lineBuffer[h]) - 1))
    BY <1>1, <1>5, <2>1, LineEnds
  <2> QED
    BY <1>4, <2>2
<1>7. lineEnds'[h] = EndsUpTo(s, c + 1) /\ lineEnds'[h] \ {c + 1} = lineEnds[h]
  BY <1>4, <1>5, <1>6
<1>8. LinesOf(h)'
  <2>1. at'[h] \in {"start line read", "header read"} /\ stream'[h] = s
    BY <1>4
  <2>2. /\ lineEnds'[h] = EndsUpTo(stream'[h], Consumed(h)')
        /\ LineRead(stream'[h], Consumed(h)', lineEnds'[h], lineBuffer'[h])
        /\ Consumed(h)' \in lineEnds'[h] /\ prev'[h] = ""
        /\ NoBlank(lineEnds'[h] \ {Consumed(h)'})
    BY <1>3, <1>4, <1>5, <1>6, <1>7, <2>1
  <2>3. at'[h] = "start line read" => lineEnds'[h] = {Consumed(h)'}
    <3>1. at[h] = "start line" => lineEnds[h] = {}
      BY DEF ParserOf, LinesOf
    <3> QED
      BY <1>3, <1>4, <3>1
  <2>4. at'[h] = "header read" => lineEnds'[h] # {Consumed(h)'}
    <3>1. at[h] = "header" => lineEnds[h] # {}
      BY DEF ParserOf, LinesOf
    <3> QED
      BY <1>3, <1>4, <1>7, <3>1
  <2> QED
    BY <2>1, <2>2, <2>3, <2>4 DEF LinesOf
<1>9. LengthOf(h)'
  <2>1. CASE at[h] = "start line"
    BY <1>4, <2>1 DEF ParserOf, LengthOf
  <2>2. CASE at[h] = "header"
    <3>1. PICK m \in lineEnds[h] :
            IsLast(m, lineEnds[h]) /\ LengthIn(s, m, fields[h].contentLength)
      BY <2>2 DEF ParserOf, LengthOf
    <3>2. /\ at'[h] = "header read" /\ stream'[h] = s /\ fields' = fields
          /\ lineEnds'[h] \ {Consumed(h)'} = lineEnds[h]
          /\ fields[h].method = "POST" <=> s[1] = "POST"
      BY <1>3, <1>4, <1>7, <2>2 DEF ParserOf, LengthOf
    <3> QED
      BY <3>1, <3>2 DEF LengthOf
  <2> QED
    BY <1>4, <2>1, <2>2
<1>10. BodyOf(h)'
  BY <1>4 DEF ParserOf, BodyOf
<1>11. KeptOf(h)'
  BY <1>4 DEF ParserOf, KeptOf
<1> QED
  BY <1>8, <1>9, <1>10, <1>11 DEF ParserOf

LEMMA FirstWord ==
  ASSUME NEW s \in Seq(Text), NEW c \in Nat, EndsUpTo(s, c) = {c}, NEW line, line # <<>>,
         LineRead(s, c, {c}, line)
  PROVE  line[1] = s[1]
<1>0. 2 <= c /\ c <= Len(s) /\ Len(s) \in Nat /\ c - 2 \in Int /\ c - 2 <= Len(s)
  BY EndIs, LenProperties DEF EndsUpTo
<1>1. PICK m \in 0..(c - 1) : IsLast(m, ({c} \cup {0}) \ {c}) /\ line = SubSeq(s, m + 1, c - 2)
  BY DEF LineRead
<1>2. m = 0
  BY <1>1 DEF IsLast
<1>3. 0 < c - 2
  <2>1. ~(c - 2 <= 0)
    BY <1>0, <1>1, <1>2, Slice
  <2> QED
    BY <1>0, <2>1
<1>4. \A i \in 1..((c - 2) - 0) : line[i] = s[0 + i]
  BY <1>0, <1>1, <1>2, Slice
<1> QED
  BY <1>0, <1>3, <1>4

LEMMA ParserStartLine ==
  ASSUME ParserTyped, NEW h \in Handlers, BufferOf(h), ParserOf(h),
         GiveUp(h) \/ ParseStartLine(h)
  PROVE  ParserOf(h)'
<1> DEFINE s == stream[h]
           c == Consumed(h)
<1>0. c \in Nat /\ s \in Seq(Text) /\ fields[h] \in Fields
  BY Numbers DEF BufferOf, ParserTyped
<1>1. CASE GiveUp(h)
  <2>1. at'[h] = "return"
    BY <1>1 DEF GiveUp, Goto, ParserTyped
  <2>2. at'[h] \notin ParsePlaces \cup {"parsed"}
    BY <2>1 DEF ParsePlaces
  <2> QED
    BY <1>1, <2>2, ParserLeft DEF GiveUp, parserVars
<1>2. CASE ParseStartLine(h)
  <2>1. BufferSame(h)
    BY <1>2 DEF ParseStartLine, BufferSame, bufferVars
  <2>2. Consumed(h)' = c
    BY <2>1, SameBuffer
  <2>3. CASE fields' = fields /\ lineBuffer' = lineBuffer /\ at' = at
    BY <1>2, <2>2, <2>3, ParserUntouched DEF ParseStartLine
  <2>4. CASE ~(fields' = fields /\ lineBuffer' = lineBuffer /\ at' = at)
    <3> DEFINE line == lineBuffer[h]
    <3>1. /\ at[h] = "start line read" /\ Supported(line)
          /\ stream' = stream /\ prev' = prev /\ data' = data /\ lineEnds' = lineEnds
          /\ bodyCut' = bodyCut /\ NextLine(h) /\ Goto(h, "header")
      BY <1>2, <2>4 DEF ParseStartLine
    <3>2. /\ at'[h] = "header" /\ lineBuffer'[h] = <<>>
      BY <3>1 DEF Goto, NextLine, ParserTyped
    <3>3. /\ fields'[h].method = line[1] /\ fields'[h].contentLength = fields[h].contentLength
          /\ fields'[h].keep = fields[h].keep
      <4>1. \E url : fields' = [fields EXCEPT ![h].method = line[1], ![h].url = url, ![h].params = {}]
        BY <1>2, <2>4 DEF ParseStartLine, SplitUrl
      <4> QED
        BY <1>0, <4>1 DEF ParserTyped, Fields
    <3>4. /\ lineEnds[h] = EndsUpTo(s, c) /\ lineEnds[h] = {c}
          /\ LineRead(s, c, {c}, line) /\ prev[h] = ""
      BY <3>1 DEF ParserOf, LinesOf
    <3>5. /\ fields[h].contentLength = NoLength /\ data[h] = <<>>
      BY <3>1 DEF ParserOf, LengthOf, BodyOf
    <3>6. line[1] = s[1] /\ LengthFrom(s, c, NoLength)
      <4>1. line # <<>>
        BY <3>1 DEF Supported
      <4> HIDE DEF s, c, line
      <4> QED
        BY <1>0, <3>4, <4>1, FirstWord, HeardNone
    <3>7. /\ InLine(s, c, EndsUpTo(s, c), <<>>, "") /\ IsLast(c, EndsUpTo(s, c))
      <4>1. c \in EndsUpTo(s, c)
        BY <3>4
      <4> HIDE DEF s, c, line
      <4> QED
        BY <1>0, <4>1, LineBegins
    <3>8. NoBlank({c})
      BY <1>0 DEF NoBlank
    <3>9. LinesOf(h)'
      <4>1. /\ lineEnds'[h] = EndsUpTo(stream'[h], Consumed(h)')
            /\ InLine(stream'[h], Consumed(h)', lineEnds'[h], lineBuffer'[h], prev'[h])
            /\ NoBlank(lineEnds'[h]) /\ lineEnds'[h] # {}
        BY <2>2, <3>1, <3>2, <3>4, <3>7, <3>8
      <4> QED
        BY <3>2, <4>1 DEF LinesOf
    <3>10. LengthOf(h)'
      <4>1. /\ fields'[h].method = "POST" <=> stream'[h][1] = "POST"
            /\ c \in lineEnds'[h] /\ IsLast(c, lineEnds'[h])
            /\ LengthIn(stream'[h], c, fields'[h].contentLength)
        BY <3>1, <3>3, <3>4, <3>5, <3>6, <3>7 DEF LengthIn
      <4> HIDE DEF s, c, line
      <4> QED
        BY <3>2, <4>1 DEF LengthOf
    <3>11. BodyOf(h)'
      BY <3>1, <3>2, <3>5 DEF BodyOf
    <3>12. KeptOf(h)'
      BY <3>1, <3>3 DEF ParserOf, KeptOf
    <3> QED
      BY <3>9, <3>10, <3>11, <3>12 DEF ParserOf
  <2> QED
    BY <2>3, <2>4
<1> QED
  BY <1>1, <1>2

LEMMA ParserHeader ==
  ASSUME ParserTyped, NEW h \in Handlers, BufferOf(h), ParserOf(h),
         StoreHeader(h) \/ SkipHeader(h)
  PROVE  ParserOf(h)'
<1> DEFINE s == stream[h]
           c == Consumed(h)
           line == lineBuffer[h]
<1>0. /\ c \in Nat /\ s \in Seq(Text) /\ fields[h] \in Fields /\ line \in Seq(Text)
      /\ Len(s) \in Nat /\ DOMAIN line = 1..Len(line) /\ Len(line) \in Nat
  BY Numbers, LenProperties DEF BufferOf, ParserTyped
<1>1. BufferSame(h)
  BY DEF StoreHeader, SkipHeader, BufferSame, bufferVars
<1>2. Consumed(h)' = c
  BY <1>1, SameBuffer
<1>3. CASE fields' = fields /\ lineBuffer' = lineBuffer /\ at' = at
  BY <1>2, <1>3, ParserUntouched DEF StoreHeader, SkipHeader
<1>4. CASE ~(fields' = fields /\ lineBuffer' = lineBuffer /\ at' = at)
  <2>1. /\ at[h] = "header read" /\ line # <<>>
        /\ stream' = stream /\ prev' = prev /\ data' = data /\ lineEnds' = lineEnds
        /\ bodyCut' = bodyCut /\ NextLine(h) /\ Goto(h, "header")
    <3>1. StoreHeader(h) => line # <<>>
      <4> SUFFICES ASSUME StoreHeader(h), line = <<>>
                   PROVE  FALSE
        OBVIOUS
      <4>1. PICK i \in DOMAIN line : line[i] \in WithEquals
        BY DEF StoreHeader
      <4>2. Len(line) = 0
        BY EmptySeq
      <4> QED
        BY <1>0, <4>1, <4>2
    <3> QED
      BY <1>4, <3>1 DEF StoreHeader, SkipHeader
  <2>2. /\ at'[h] = "header" /\ lineBuffer'[h] = <<>>
    BY <2>1 DEF Goto, NextLine, ParserTyped
  <2>3. /\ fields'[h].method = fields[h].method
        /\ StoreHeader(h) =>
             fields'[h].contentLength =
               (IF line[1] = "Content-Length=" THEN Tail(line) ELSE fields[h].contentLength)
        /\ fields'[h].keep = fields[h].keep \/ line = <<"Connection=", "keep-alive">>
    <3>1. CASE StoreHeader(h)
      BY <1>0, <3>1 DEF StoreHeader, ParserTyped, Fields
    <3>2. CASE SkipHeader(h)
      <4>1. ~StoreHeader(h)
        BY <3>2 DEF SkipHeader, StoreHeader
      <4>2. fields' = fields \/ \E l : fields' = [fields EXCEPT ![h].contentLength = l]
        BY <3>2 DEF SkipHeader
      <4>3. fields'[h].method = fields[h].method /\ fields'[h].keep = fields[h].keep
        BY <1>0, <4>2 DEF ParserTyped, Fields
      <4> QED
        BY <4>1, <4>3
    <3> QED
      BY <3>1, <3>2
  <2>4. /\ lineEnds[h] = EndsUpTo(s, c) /\ c \in lineEnds[h]
        /\ LineRead(s, c, lineEnds[h], line) /\ prev[h] = ""
        /\ NoBlank(lineEnds[h] \ {c}) /\ data[h] = <<>>
        /\ fields[h].method = "POST" <=> s[1] = "POST"
    BY <2>1 DEF ParserOf, LinesOf, BodyOf, LengthOf
  <2>5. PICK m \in lineEnds[h] \ {c} :
          IsLast(m, lineEnds[h] \ {c}) /\ LengthIn(s, m, fields[h].contentLength)
    BY <2>1 DEF ParserOf, LengthOf
  <2>6. m \in Nat /\ line = SubSeq(s, m + 1, c - 2)
    <3>1. PICK k \in 0..(c - 1) : IsLast(k, (lineEnds[h] \cup {0}) \ {c}) /\ line = SubSeq(s, k + 1, c - 2)
      BY <2>4 DEF LineRead
    <3>2. m \in Nat /\ 2 <= m
      BY <2>4, <2>5, EndIs, <1>0 DEF EndsUpTo
    <3>3. m \in (lineEnds[h] \cup {0}) \ {c}
      BY <2>5
    <3>4. m <= k
      BY <3>1, <3>3 DEF IsLast
    <3>5. k \in lineEnds[h] \ {c}
      BY <3>1, <3>2, <3>4 DEF IsLast
    <3>6. k <= m
      BY <2>5, <3>5 DEF IsLast
    <3>7. k = m
      BY <3>1, <3>2, <3>4, <3>6
    <3> QED
      BY <3>1, <3>2, <3>7
  <2>7. NoBlank(lineEnds[h])
    <3> HIDE DEF s, c, line
    <3> QED
      BY <1>0, <2>1, <2>4, NotBlank
  <2>8. /\ InLine(s, c, EndsUpTo(s, c), <<>>, "") /\ IsLast(c, EndsUpTo(s, c))
    <3> HIDE DEF s, c, line
    <3> QED
      BY <1>0, <2>4, LineBegins
  <2>9. LengthIn(s, c, fields'[h].contentLength)
    <3>1. CASE StoreHeader(h)
      <4> HIDE DEF s, c, line
      <4> SUFFICES ASSUME Sound(s)
                   PROVE  LengthFrom(s, c, fields'[h].contentLength)
        BY DEF LengthIn
      <4>1. c \in EndsUpTo(s, c) /\ IsLast(m, EndsUpTo(s, c) \ {c})
        BY <2>4, <2>5
      <4> DEFINE length == fields[h].contentLength
      <4>2. LengthFrom(s, m, length)
        BY <2>5 DEF LengthIn
      <4>3. c \in Nat /\ s \in Seq(Text) /\ line # <<>> /\ line = SubSeq(s, m + 1, c - 2)
        BY <1>0, <2>1, <2>6
      <4> HIDE DEF length
      <4>4. /\ line[1] = "Content-Length=" => LengthFrom(s, c, Tail(line))
            /\ line[1] # "Content-Length=" => LengthFrom(s, c, length)
        BY <4>1, <4>2, <4>3, LengthNext
      <4> QED
        BY <2>3, <3>1, <4>4 DEF length
    <3>2. CASE SkipHeader(h)
      <4>1. \A i \in DOMAIN line : line[i] \notin WithEquals
        BY <3>2 DEF SkipHeader
      <4>2. EndsUpTo(s, c) # {c}
        BY <2>1, <2>4 DEF ParserOf, LinesOf
      <4> HIDE DEF s, c, line
      <4>3. c \in EndsUpTo(s, c) /\ LineRead(s, c, EndsUpTo(s, c), line) /\ NoBlank(EndsUpTo(s, c) \ {c})
        BY <2>4
      <4>4. ~Sound(s)
        BY <1>0, <2>1, <4>1, <4>2, <4>3, HeaderLine
      <4> QED
        BY <4>4 DEF LengthIn
    <3> QED
      BY <3>1, <3>2
  <2>10. LinesOf(h)'
    <3>1. /\ lineEnds'[h] = EndsUpTo(stream'[h], Consumed(h)')
          /\ InLine(stream'[h], Consumed(h)', lineEnds'[h], lineBuffer'[h], prev'[h])
          /\ NoBlank(lineEnds'[h]) /\ lineEnds'[h] # {}
      BY <1>2, <2>1, <2>2, <2>4, <2>7, <2>8
    <3> QED
      BY <2>2, <3>1 DEF LinesOf
  <2>11. LengthOf(h)'
    <3>1. /\ fields'[h].method = "POST" <=> stream'[h][1] = "POST"
          /\ c \in lineEnds'[h] /\ IsLast(c, lineEnds'[h])
          /\ LengthIn(stream'[h], c, fields'[h].contentLength)
      BY <2>1, <2>3, <2>4, <2>8, <2>9
    <3> HIDE DEF s, c, line
    <3> QED
      BY <2>2, <3>1 DEF LengthOf
  <2>12. BodyOf(h)'
    BY <2>1, <2>2, <2>4 DEF BodyOf
  <2>13. KeptOf(h)'
    <3>1. CASE fields'[h].keep = fields[h].keep
      BY <2>1, <3>1 DEF ParserOf, KeptOf
    <3>2. CASE line = <<"Connection=", "keep-alive">>
      <4>1. line[1] = "Connection=" /\ Len(line) = 2
        BY <3>2
      <4>2. /\ c \in LineEndsIn(s) /\ c <= Len(s)
        BY <1>0, <2>4, EndIs DEF EndsUpTo
      <4>3. c - 2 \in Int /\ c - 2 <= Len(s)
        BY <1>0, <4>2
      <4>4. m < c - 2 /\ \A i \in 1..((c - 2) - m) : line[i] = s[m + i]
        <5> HIDE DEF s, c, line
        <5>1. ~(c - 2 <= m) /\ \A i \in 1..((c - 2) - m) : line[i] = s[m + i]
          BY <1>0, <2>1, <2>6, <4>3, Slice
        <5> QED
          BY <2>6, <4>3, <5>1
      <4>5. s[m + 1] = "Connection=" /\ m + 1 \in 1..Len(s)
        <5>1. 1 \in 1..((c - 2) - m)
          BY <1>0, <2>6, <4>3, <4>4
        <5>2. m + 1 \in 1..Len(s)
          BY <1>0, <2>6, <4>3, <4>4
        <5> QED
          BY <4>1, <4>4, <5>1, <5>2
      <4>6. DOMAIN s = 1..Len(s)
        BY <1>0, LenProperties
      <4> QED
        BY <2>1, <4>5, <4>6 DEF KeptOf
    <3> QED
      BY <2>3, <3>1, <3>2
  <2> QED
    BY <2>10, <2>11, <2>12, <2>13 DEF ParserOf
<1> QED
  BY <1>3, <1>4

LEMMA ParserEndHeader ==
  ASSUME ParserTyped, NEW h \in Handlers, BufferOf(h), ParserOf(h), EndHeader(h)
  PROVE  ParserOf(h)'
<1> DEFINE s == stream[h]
           c == Consumed(h)
           length == fields[h].contentLength
<1>0. c \in Nat /\ s \in Seq(Text)
  BY Numbers DEF BufferOf, ParserTyped
<1>1. /\ at[h] = "header read" /\ lineBuffer[h] = <<>> /\ UNCHANGED parserVars
      /\ at'[h] = (IF fields[h].method = "POST" THEN "body start" ELSE "parsed")
  BY DEF EndHeader, Goto, ParserTyped
<1>2. Consumed(h)' = c
  BY <1>1 DEF parserVars, bufferVars, Consumed, Received
<1>3. KeptOf(h)'
  BY <1>1 DEF ParserOf, KeptOf, parserVars
<1>4. LinesOf(h)'
  BY <1>1 DEF LinesOf
<1>5. CASE fields[h].method # "POST"
  <2>1. LengthOf(h)'
    BY <1>1, <1>5 DEF LengthOf
  <2>2. BodyOf(h)'
    BY <1>1, <1>5 DEF BodyOf, parserVars
  <2> QED
    BY <1>3, <1>4, <2>1, <2>2 DEF ParserOf
<1>6. CASE fields[h].method = "POST"
  <2>1. /\ lineEnds[h] = EndsUpTo(s, c) /\ c \in lineEnds[h]
        /\ LineRead(s, c, lineEnds[h], <<>>) /\ NoBlank(lineEnds[h] \ {c})
        /\ lineEnds[h] # {c} /\ data[h] = <<>>
        /\ fields[h].method = "POST" <=> s[1] = "POST"
    BY <1>1 DEF ParserOf, LinesOf, BodyOf, LengthOf
  <2>2. PICK m \in lineEnds[h] \ {c} : IsLast(m, lineEnds[h] \ {c}) /\ LengthIn(s, m, length)
    BY <1>1 DEF ParserOf, LengthOf
  <2>3. /\ IsHeaderEnd(s, c) /\ c - 2 \in lineEnds[h] \ {c} /\ IsLast(c - 2, lineEnds[h] \ {c})
    <3> HIDE DEF s, c, length
    <3>1. c \in EndsUpTo(s, c) /\ LineRead(s, c, EndsUpTo(s, c), <<>>) /\ NoBlank(EndsUpTo(s, c) \ {c})
      BY <2>1
    <3>2. EndsUpTo(s, c) # {c}
      BY <2>1
    <3> QED
      BY <1>0, <2>1, <3>1, <3>2, BlankEnds
  <2>4. m = c - 2
    <3>1. m <= c - 2 /\ c - 2 <= m
      BY <2>2, <2>3 DEF IsLast
    <3>2. m \in Int
      <4> HIDE DEF s, c, length
      <4> QED
        BY <1>0, <2>1, <2>2, EndIs DEF EndsUpTo
    <3> QED
      BY <1>0, <3>1, <3>2
  <2>5. LengthIn(s, HeaderEnd(s), length)
    <3> HIDE DEF s, c, length
    <3> SUFFICES ASSUME Sound(s)
                 PROVE  LengthFrom(s, HeaderEnd(s), length)
      BY DEF LengthIn
    <3>1. HeaderEnd(s) = c
      BY <1>0, <2>3, HeaderEndIs
    <3>2. LengthFrom(s, c - 2, length)
      BY <2>2, <2>4 DEF LengthIn
    <3> QED
      BY <1>0, <2>3, <3>1, <3>2, LengthEnd
  <2>6. at'[h] = "body start" /\ stream' = stream /\ fields' = fields /\ data' = data
    BY <1>1, <1>6 DEF parserVars
  <2>7. LengthOf(h)'
    BY <2>1, <2>5, <2>6 DEF LengthOf
  <2>8. BodyOf(h)'
    BY <1>2, <2>1, <2>3, <2>6 DEF BodyOf
  <2> QED
    BY <1>3, <1>4, <2>7, <2>8 DEF ParserOf
<1> QED
  BY <1>5, <1>6

LEMMA LengthTyped ==
  ASSUME NEW h \in Handlers, HasNumber(h)
  PROVE  ContentLength(h) \in Nat
BY HttpDataAssumption DEF HasNumber, ContentLength

LEMMA ParserBodyStart ==
  ASSUME ParserTyped, NEW h \in Handlers, BufferOf(h), ParserOf(h),
         NoNumber(h) \/ BodyUnread(h) \/ BeginBody(h)
  PROVE  ParserOf(h)'
<1> DEFINE s == stream[h]
           c == Consumed(h)
<1>0. c \in Nat /\ s \in Seq(Text) /\ fields[h] \in Fields
  BY Numbers DEF BufferOf, ParserTyped
<1>1. BufferSame(h)
  BY DEF NoNumber, BodyUnread, BeginBody, BufferSame, bufferVars, parserVars
<1>2. Consumed(h)' = c
  BY <1>1, SameBuffer
<1>3. CASE NoNumber(h)
  <2>1. CASE at' = at
    BY <1>2, <1>3, <2>1, ParserUntouched DEF NoNumber, parserVars
  <2>2. CASE Goto(h, "exception")
    <3>1. at'[h] = "exception"
      BY <2>2 DEF Goto, ParserTyped
    <3>2. at'[h] \notin ParsePlaces \cup {"parsed"}
      BY <3>1 DEF ParsePlaces
    <3> QED
      BY <1>3, <3>2, ParserLeft DEF NoNumber, parserVars
  <2> QED
    BY <1>3, <2>1, <2>2 DEF NoNumber
<1>4. CASE BodyUnread(h)
  <2>1. /\ bodyCut'[h] = TRUE /\ stream' = stream /\ lineBuffer' = lineBuffer /\ prev' = prev
        /\ data' = data /\ lineEnds' = lineEnds /\ at[h] = "body start"
    BY <1>4 DEF BodyUnread, ParserTyped
  <2>2. CASE fields' = fields /\ at' = at
    <3>1. LinesOf(h)' /\ LengthOf(h)'
      BY <1>2, <2>1, <2>2 DEF ParserOf, LinesOf, LengthOf
    <3>2. BodyOf(h)' /\ KeptOf(h)'
      BY <1>2, <2>1, <2>2 DEF ParserOf, BodyOf, KeptOf
    <3> QED
      BY <3>1, <3>2 DEF ParserOf
  <2>3. CASE Goto(h, "parsed") /\ \E found : fields' = [fields EXCEPT ![h].params = found]
    <3>1. at'[h] = "parsed" /\ fields'[h].keep = fields[h].keep
      BY <1>0, <2>3 DEF Goto, ParserTyped, Fields
    <3>2. LinesOf(h)' /\ LengthOf(h)' /\ BodyOf(h)'
      BY <2>1, <3>1 DEF LinesOf, LengthOf, BodyOf
    <3>3. KeptOf(h)'
      BY <2>1, <3>1 DEF ParserOf, KeptOf
    <3> QED
      BY <3>2, <3>3 DEF ParserOf
  <2> QED
    BY <1>4, <2>2, <2>3 DEF BodyUnread
<1>5. CASE BeginBody(h)
  <2>1. /\ at[h] = "body start" /\ at'[h] = "body" /\ UNCHANGED parserVars /\ HasNumber(h)
    BY <1>5 DEF BeginBody, Goto, ParserTyped
  <2>2. HasNumber(h)' /\ ContentLength(h)' = ContentLength(h) /\ ContentLength(h) \in Nat
    BY <2>1, LengthTyped DEF HasNumber, ContentLength, parserVars
  <2>3. IsHeaderEnd(s, c) /\ data[h] = <<>>
    BY <2>1 DEF ParserOf, BodyOf
  <2>4. c \in 1..c /\ data[h] = SubSeq(s, c + 1, c)
    <3> HIDE DEF s, c
    <3>1. SubSeq(s, c + 1, c) = <<>>
      BY <1>0, SubSeqEmpty
    <3>2. 2 <= c
      BY <1>0, <2>3, EndIs DEF IsHeaderEnd
    <3> QED
      BY <1>0, <2>3, <3>1, <3>2
  <2>5. BodyOf(h)'
    <3>1. BodyFrom(stream'[h], c, Consumed(h)', data'[h])
      BY <1>2, <2>1, <2>3, <2>4 DEF BodyFrom, parserVars
    <3>2. c \in 1..Consumed(h)' /\ (ContentLength(h)' > 0 => Consumed(h)' - c < ContentLength(h)')
      <4>1. c - c = 0
        BY <1>0
      <4> HIDE DEF c
      <4> QED
        BY <1>2, <2>2, <2>4, <4>1
    <3> QED
      BY <2>1, <2>2, <3>1, <3>2 DEF BodyOf
  <2>6. LinesOf(h)' /\ LengthOf(h)' /\ KeptOf(h)'
    BY <2>1 DEF ParserOf, LinesOf, LengthOf, KeptOf, parserVars
  <2> QED
    BY <2>5, <2>6 DEF ParserOf
<1> QED
  BY <1>3, <1>4, <1>5

LEMMA ParserTakeBodyUnit ==
  ASSUME ParserTyped, NEW h \in Handlers, BufferOf(h), ParserOf(h), TakeBodyUnit(h)
  PROVE  ParserOf(h)'
<1> DEFINE s == stream[h]
           c == Consumed(h)
           n == ContentLength(h)
<1>1. /\ Unit(h) = s[c + 1] /\ c \in Nat /\ c + 1 <= Len(s) /\ s \in Seq(Text)
      /\ ~DataBufferEmpty(h)
  BY UnitIs, Numbers DEF TakeBodyUnit
<1>2. UnitRead(h)
  BY <1>1 DEF TakeBodyUnit, UnitRead, ParserTyped
<1>3. Consumed(h)' = c + 1
  BY <1>2, ReadUnit
<1>4. /\ at[h] = "body" /\ stream' = stream /\ fields' = fields /\ prev' = prev
      /\ lineBuffer' = lineBuffer /\ lineEnds' = lineEnds /\ bodyCut' = bodyCut
      /\ data'[h] = Append(data[h], s[c + 1])
      /\ at'[h] = (IF Len(data'[h]) = n THEN "body read" ELSE "body")
  <2>1. /\ data'[h] = Append(data[h], s[c + 1])
        /\ IF Len(data'[h]) = n THEN Goto(h, "body read") ELSE UNCHANGED at
        /\ at[h] = "body"
    BY <1>1 DEF TakeBodyUnit, ParserTyped
  <2>2. at'[h] = (IF Len(data'[h]) = n THEN "body read" ELSE "body")
    BY <2>1 DEF Goto, ParserTyped
  <2> QED
    BY <2>1, <2>2 DEF TakeBodyUnit
<1>5. HasNumber(h) /\ HasNumber(h)' /\ ContentLength(h)' = n /\ n \in Nat
  <2>1. HasNumber(h)
    BY <1>4 DEF ParserOf, BodyOf
  <2>2. HasNumber(h)' /\ ContentLength(h)' = n
    BY <1>4, <2>1 DEF HasNumber, ContentLength
  <2> QED
    BY <2>1, <2>2, LengthTyped
<1>6. PICK e \in 1..c : BodyFrom(s, e, c, data[h]) /\ (n > 0 => c - e < n)
  BY <1>4 DEF ParserOf, BodyOf
<1>7. /\ BodyFrom(s, e, c + 1, data'[h]) /\ Len(data'[h]) = (c + 1) - e /\ (c + 1) - e >= 1
  <2> HIDE DEF s, c, n
  <2>1. e \in Nat /\ e <= c
    BY <1>1, <1>6
  <2>2. Append(SubSeq(s, e + 1, c), s[c + 1]) = SubSeq(s, e + 1, c + 1)
    BY <1>1, <2>1, SliceGrows
  <2>3. IsHeaderEnd(s, e) /\ data'[h] = SubSeq(s, e + 1, c + 1)
    BY <1>4, <1>6, <2>2 DEF BodyFrom
  <2>4. Len(SubSeq(s, e + 1, c + 1)) = IF e < c + 1 THEN (c + 1) - e ELSE 0
    <3>1. c + 1 \in Int
      BY <1>1
    <3> QED
      BY <1>1, <2>1, <3>1, Slice
  <2> QED
    BY <1>1, <2>1, <2>3, <2>4 DEF BodyFrom
<1>8. BodyOf(h)'
  <2>1. e \in 1..(c + 1)
    BY <1>1, <1>6
  <2>2. CASE Len(data'[h]) = n
    <3>1. n > 0 /\ (c + 1) - e = n
      BY <1>5, <1>7, <2>2
    <3>2. at'[h] = "body read"
      BY <1>4, <2>2
    <3> HIDE DEF s, c, n
    <3>3. stream'[h] = s /\ ContentLength(h)' = n
      BY <1>4, <1>5 DEF s
    <3> QED
      BY <1>3, <1>5, <1>7, <2>1, <3>1, <3>2, <3>3 DEF BodyOf
  <2>3. CASE Len(data'[h]) # n
    <3>1. n > 0 => (c + 1) - e < n
      <4>1. e \in Int
        BY <1>6
      <4> HIDE DEF c, n, s
      <4> QED
        BY <1>1, <1>5, <1>6, <1>7, <2>3, <4>1
    <3>2. at'[h] = "body"
      BY <1>4, <2>3
    <3> HIDE DEF s, c, n
    <3>3. stream'[h] = s /\ ContentLength(h)' = n
      BY <1>4, <1>5 DEF s
    <3> QED
      BY <1>3, <1>5, <1>7, <2>1, <3>1, <3>2, <3>3 DEF BodyOf
  <2> QED
    BY <2>2, <2>3
<1>9. LinesOf(h)' /\ KeptOf(h)'
  BY <1>4 DEF ParserOf, LinesOf, KeptOf
<1>10. LengthOf(h)'
  <2>1. at'[h] \in {"body", "body read"}
    BY <1>4
  <2> QED
    BY <1>4, <2>1 DEF ParserOf, LengthOf
<1> QED
  BY <1>8, <1>9, <1>10 DEF ParserOf

LEMMA ParserParseBody ==
  ASSUME ParserTyped, NEW h \in Handlers, BufferOf(h), ParserOf(h), ParseBody(h)
  PROVE  ParserOf(h)'
<1> DEFINE s == stream[h]
           c == Consumed(h)
           n == ContentLength(h)
<1>0. fields[h] \in Fields
  BY DEF ParserTyped
<1>1. BufferSame(h)
  BY DEF ParseBody, BufferSame, bufferVars
<1>2. Consumed(h)' = c
  BY <1>1, SameBuffer
<1>3. CASE UNCHANGED <<fields, at>>
  BY <1>2, <1>3, ParserUntouched DEF ParseBody
<1>4. CASE Goto(h, "parsed") /\ fields' = [fields EXCEPT ![h].params = Keys(data[h])]
  <2>1. /\ at[h] = "body read" /\ at'[h] = "parsed" /\ stream' = stream /\ data' = data
        /\ fields'[h].params = Keys(data[h]) /\ fields'[h].keep = fields[h].keep
        /\ fields'[h].contentLength = fields[h].contentLength
    BY <1>0, <1>4 DEF ParseBody, Goto, ParserTyped, Fields
  <2>2. ContentLength(h)' = n
    BY <2>1 DEF ContentLength
  <2>3. PICK e \in 1..c : BodyFrom(s, e, c, data[h]) /\ c - e = n
    BY <2>1 DEF ParserOf, BodyOf
  <2>4. BodyOf(h)'
    <3>1. /\ e \in 1..Consumed(h)' /\ BodyFrom(stream'[h], e, Consumed(h)', data'[h])
          /\ Consumed(h)' - e = ContentLength(h)' /\ fields'[h].params = Keys(data'[h])
      BY <1>2, <2>1, <2>2, <2>3
    <3> QED
      BY <2>1, <3>1 DEF BodyOf
  <2>5. LinesOf(h)' /\ LengthOf(h)'
    BY <2>1 DEF LinesOf, LengthOf
  <2>6. KeptOf(h)'
    BY <2>1 DEF ParserOf, KeptOf
  <2> QED
    BY <2>4, <2>5, <2>6 DEF ParserOf
<1> QED
  BY <1>3, <1>4 DEF ParseBody
-----------------------------------------------------------------------------
(* The invariant. *)

LEMMA ParserStep ==
  ASSUME ParserTyped, NEW h \in Handlers, BufferOf(h), ParserOf(h), ParseStep(h)
  PROVE  ParserOf(h)'
BY ParserRecv, ParserTakeUnit, ParserEndLine, ParserStartLine, ParserHeader, ParserEndHeader,
   ParserBodyStart, ParserTakeBodyUnit, ParserParseBody DEF ParseStep

Parsers == \A h \in Handlers : ParserOf(h)

LEMMA ParsersKept ==
  ASSUME IInv, Parsers, NEW h \in Handlers, StepOf(h)
  PROVE  Parsers'
<1>0. ParserTyped /\ AnswerTyped /\ AnswerOf(h) /\ BufferOf(h)
  BY DEF IInv, Answers, Buffers
<1> SUFFICES ASSUME NEW g \in Handlers
             PROVE  ParserOf(g)'
  BY DEF Parsers
<1>1. ParserOf(g)
  BY DEF Parsers
<1>2. CASE g # h
  <2>1. Same(g)
    BY <1>0, <1>2, Frame
  <2>2. Consumed(g)' = Consumed(g)
    BY <2>1, SameBuffer DEF Same, ParserSame
  <2> QED
    BY <1>1, <2>1, <2>2, ParserUntouched DEF Same, ParserSame, BufferSame
<1>3. CASE g = h /\ Parse(h)
  BY <1>0, <1>1, <1>3, ParserStep DEF Parse
<1>4. CASE g = h /\ ~Parse(h)
  <2>1. UNCHANGED parserVars
    BY <1>0, <1>4, NotParse
  <2>2. Consumed(g)' = Consumed(g)
    BY <2>1 DEF parserVars, bufferVars, Consumed, Received
  <2>3. at'[g] = at[g] \/ at'[g] \notin ParsePlaces \cup {"parsed"}
    BY <1>0, <1>4, NotParse DEF Goto, ParserTyped
  <2>4. CASE at'[g] = at[g]
    BY <1>1, <2>1, <2>2, <2>4, ParserUntouched DEF parserVars
  <2>5. CASE at'[g] \notin ParsePlaces \cup {"parsed"}
    BY <1>1, <2>1, <2>5, ParserLeft DEF parserVars
  <2> QED
    BY <2>3, <2>4, <2>5
<1> QED
  BY <1>2, <1>3, <1>4

LEMMA InitParsers == Init => Parsers
<1> SUFFICES ASSUME Init, NEW h \in Handlers
             PROVE  ParserOf(h)
  BY DEF Parsers
<1> DEFINE s == stream[h]
<1>0. ParserTyped
  BY InitParser DEF Init
<1>1. /\ at[h] = "start line" /\ lineEnds[h] = {} /\ lineBuffer[h] = <<>> /\ prev[h] = ""
      /\ fields[h].contentLength = NoLength /\ fields[h].keep = Garbage /\ data[h] = <<>>
      /\ wire = stream /\ readIndex[h] = BufferSize /\ dataEndIndex[h] = BufferSize - 1
  BY DEF Init, HttpDataInit
<1>2. s \in Seq(Text)
  BY <1>0, Numbers
<1>3. Consumed(h) = 0
  <2>1. Len(s) \in Nat /\ BufferSize \in Nat
    BY <1>0, Numbers
  <2>2. Consumed(h) = (Len(s) - Len(s)) - ((BufferSize - 1) - BufferSize + 1)
    BY <1>1 DEF Consumed, Received
  <2> QED
    BY <2>1, <2>2
<1>4. EndsUpTo(s, 0) = {}
  <2> SUFFICES ASSUME NEW p \in EndsUpTo(s, 0)
               PROVE  FALSE
    OBVIOUS
  <2>1. p \in LineEndsIn(s) /\ p <= 0
    BY DEF EndsUpTo
  <2>2. p \in Nat /\ 2 <= p
    BY <1>2, <2>1, EndIs
  <2> QED
    BY <2>1, <2>2
<1>5. InLine(s, 0, {}, <<>>, "") /\ NoBlank({})
  <2>1. SubSeq(s, 0 + 1, 0) = <<>>
    BY <1>2, SubSeqEmpty
  <2>2. 0 \in 0..0 /\ IsLast(0, {} \cup {0}) /\ ~(0 < 0)
    BY DEF IsLast
  <2> QED
    BY <2>1, <2>2 DEF InLine, NoBlank
<1>6. LinesOf(h)
  BY <1>1, <1>3, <1>4, <1>5 DEF LinesOf
<1>7. LengthOf(h) /\ BodyOf(h)
  BY <1>1 DEF LengthOf, BodyOf
<1>8. KeptOf(h)
  BY <1>1 DEF KeptOf, Garbage
<1> QED
  BY <1>6, <1>7, <1>8 DEF ParserOf
-----------------------------------------------------------------------------
(* Where the parser can crash. *)

CrashPlaces == {"line buffer", "start line", "header name", "content length", "data", "parameter"}

\* The request of h is there, and is not sound or was cut.
Blamed(h) == stream[h] # <<>> /\ (Sound(stream[h]) => bodyCut'[h])

LEMMA HasEnd ==
  ASSUME NEW s \in Seq(Text), NEW p \in Int, 1 <= p, p <= Len(s)
  PROVE  s # <<>>
<1> SUFFICES ASSUME s = <<>>
             PROVE  FALSE
  OBVIOUS
<1>1. Len(s) = 0
  OBVIOUS
<1> QED
  BY <1>1

LEMMA LineMeansText ==
  ASSUME NEW s \in Seq(Text), NEW p \in LineEndsIn(s)
  PROVE  s # <<>>
<1>1. p \in Nat /\ 2 <= p /\ p <= Len(s)
  BY EndIs
<1>2. p \in Int /\ 1 <= p
  BY <1>1
<1> QED
  BY <1>1, <1>2, HasEnd

LEMMA Position ==
  ASSUME ParserTyped, NEW h \in Handlers, BufferOf(h)
  PROVE  /\ Consumed(h) \in Nat /\ Consumed(h) <= Len(stream[h])
         /\ stream[h] \in Seq(Text) /\ Len(stream[h]) \in Nat
         /\ DOMAIN stream[h] = 1..Len(stream[h])
<1> DEFINE s == stream[h]
           c == Consumed(h)
<1>1. Received(h) <= Len(s) /\ Received(h) \in Int /\ Len(s) \in Nat /\ c \in Int /\ s \in Seq(Text)
  BY Numbers
<1>2. /\ readIndex[h] \in Nat /\ dataEndIndex[h] \in Nat
      /\ c = Received(h) - (dataEndIndex[h] - readIndex[h] + 1)
  BY Numbers
<1>3. readIndex[h] <= dataEndIndex[h] + 1 /\ c >= 0
  BY DEF BufferOf
<1> HIDE DEF s, c
<1>4. c \in Nat /\ c <= Len(s)
  BY <1>1, <1>2, <1>3
<1>5. DOMAIN s = 1..Len(s)
  BY <1>1, LenProperties
<1> QED
  BY <1>1, <1>4, <1>5 DEF s, c

LEMMA LineCrash ==
  ASSUME ParserTyped, NEW h \in Handlers, BufferOf(h), ParserOf(h), TakeUnit(h) \/ EndLine(h),
         ~(Len(lineBuffer[h]) < LineSize)
  PROVE  Blamed(h)
<1> DEFINE s == stream[h]
           c == Consumed(h)
<1>1. /\ c \in Nat /\ c + 1 <= Len(s) /\ s \in Seq(Text) /\ at[h] \in {"start line", "header"}
  BY UnitIs, Numbers DEF TakeUnit, EndLine, AtLineUnit
<1>2. /\ InLine(s, c, EndsUpTo(s, c), lineBuffer[h], prev[h]) /\ NoBlank(EndsUpTo(s, c))
  BY <1>1 DEF ParserOf, LinesOf
<1>3. s # <<>> /\ ~Sound(s)
  <2>1. Len(s) \in Nat /\ c <= Len(s)
    BY Position
  <2> HIDE DEF s, c
  <2>2. c + 1 \in Int /\ 1 <= c + 1
    <3>1. c \in Nat
      BY <1>1
    <3> QED
      BY <3>1
  <2>3. s # <<>>
    BY <1>1, <2>2, HasEnd
  <2>4. Sound(s) => Len(lineBuffer[h]) < LineSize
    BY <1>1, <1>2, <2>1, LineFits
  <2> QED
    BY <2>3, <2>4
<1> QED
  BY <1>3 DEF Blamed

LEMMA StartLineCrash ==
  ASSUME ParserTyped, NEW h \in Handlers, BufferOf(h), ParserOf(h), ParseStartLine(h),
         Len(lineBuffer[h]) < 3
  PROVE  Blamed(h)
<1> DEFINE s == stream[h]
           c == Consumed(h)
<1>1. /\ c \in Nat /\ s \in Seq(Text) /\ at[h] = "start line read"
      /\ lineBuffer[h] \in Seq(Text) /\ Len(lineBuffer[h]) \in Nat
  BY Position, LenProperties DEF ParseStartLine, ParserTyped
<1>2. EndsUpTo(s, c) = {c} /\ LineRead(s, c, {c}, lineBuffer[h])
  BY <1>1 DEF ParserOf, LinesOf
<1>3. s # <<>>
  <2> HIDE DEF s, c
  <2>1. c \in LineEndsIn(s)
    BY <1>2 DEF EndsUpTo
  <2> QED
    BY <1>1, <2>1, LineMeansText
<1>4. ~Sound(s)
  <2> HIDE DEF s, c
  <2>1. Sound(s) => Len(lineBuffer[h]) >= 3
    BY <1>1, <1>2, FirstLine
  <2>2. Len(lineBuffer[h]) \in Nat
    BY <1>1
  <2> QED
    BY <2>1, <2>2
<1> QED
  BY <1>3, <1>4 DEF Blamed

LEMMA HeaderCrash ==
  ASSUME ParserTyped, NEW h \in Handlers, BufferOf(h), ParserOf(h), SkipHeader(h)
  PROVE  Blamed(h)
<1> DEFINE s == stream[h]
           c == Consumed(h)
           line == lineBuffer[h]
<1>1. /\ c \in Nat /\ s \in Seq(Text) /\ at[h] = "header read" /\ line # <<>>
      /\ \A i \in DOMAIN line : line[i] \notin WithEquals
  BY Position DEF SkipHeader, ParserTyped
<1>2. /\ c \in EndsUpTo(s, c) /\ EndsUpTo(s, c) # {c} /\ LineRead(s, c, EndsUpTo(s, c), line)
      /\ NoBlank(EndsUpTo(s, c) \ {c})
  BY <1>1 DEF ParserOf, LinesOf
<1>3. s # <<>>
  <2> HIDE DEF s, c, line
  <2>1. c \in LineEndsIn(s)
    BY <1>2 DEF EndsUpTo
  <2> QED
    BY <1>1, <2>1, LineMeansText
<1>4. ~Sound(s)
  <2> HIDE DEF s, c, line
  <2> QED
    BY <1>1, <1>2, HeaderLine
<1> QED
  BY <1>3, <1>4 DEF Blamed

\* A sound POST has a length that is a number and not 0, once the header is read.
LEMMA SoundPost ==
  ASSUME ParserTyped, NEW h \in Handlers, ParserOf(h), PostOf(h), Sound(stream[h]),
         at[h] \in {"body start", "body", "body read"}
  PROVE  /\ HasNumber(h) /\ ContentLength(h) > 0
         /\ \A j \in 1..ContentLength(h) :
              HeaderEnd(stream[h]) + j \in DOMAIN stream[h] =>
                stream[h][HeaderEnd(stream[h]) + j] \in WithEquals
<1> DEFINE s == stream[h]
           length == fields[h].contentLength
<1>1. s \in Seq(Text)
  BY Numbers
<1>2. s[1] = "POST"
  BY DEF ParserOf, LengthOf, PostOf
<1>3. LengthFrom(s, HeaderEnd(s), length)
  BY DEF ParserOf, LengthOf, LengthIn
<1>4. /\ length # <<>> /\ length[1] \in DOMAIN Numeral /\ Numeral[length[1]] > 0
      /\ \A j \in 1..Numeral[length[1]] :
           HeaderEnd(s) + j \in DOMAIN s => s[HeaderEnd(s) + j] \in WithEquals
  <2>1. Sound(s)
    OBVIOUS
  <2> HIDE DEF s, length
  <2> QED
    BY <1>1, <1>2, <1>3, <2>1, SoundLength
<1> QED
  BY <1>4 DEF HasNumber, ContentLength

LEMMA NumberCrash ==
  ASSUME ParserTyped, NEW h \in Handlers, BufferOf(h), ParserOf(h), PostOf(h), NoNumber(h)
  PROVE  Blamed(h)
<1> DEFINE s == stream[h]
           c == Consumed(h)
<1>1. /\ c \in Nat /\ s \in Seq(Text) /\ at[h] = "body start" /\ ~HasNumber(h)
  BY Position DEF NoNumber, ParserTyped
<1>2. ~Sound(s)
  BY <1>1, SoundPost
<1>3. IsHeaderEnd(s, c)
  BY <1>1 DEF ParserOf, BodyOf
<1>4. s # <<>>
  <2> HIDE DEF s, c
  <2>1. c \in LineEndsIn(s)
    BY <1>3 DEF IsHeaderEnd
  <2> QED
    BY <1>1, <2>1, LineMeansText
<1> QED
  BY <1>2, <1>4 DEF Blamed

LEMMA UnreadCrash ==
  ASSUME ParserTyped, NEW h \in Handlers, BufferOf(h), ParserOf(h), BodyUnread(h)
  PROVE  Blamed(h)
<1> DEFINE s == stream[h]
           c == Consumed(h)
<1>1. /\ c \in Nat /\ s \in Seq(Text) /\ at[h] = "body start" /\ bodyCut'[h] = TRUE
  BY Position DEF BodyUnread, ParserTyped
<1>2. IsHeaderEnd(s, c)
  BY <1>1 DEF ParserOf, BodyOf
<1>3. s # <<>>
  <2> HIDE DEF s, c
  <2>1. c \in LineEndsIn(s)
    BY <1>2 DEF IsHeaderEnd
  <2> QED
    BY <1>1, <2>1, LineMeansText
<1> QED
  BY <1>1, <1>3 DEF Blamed

LEMMA BodyLength ==
  ASSUME NEW s \in Seq(Text), NEW c \in Nat, c <= Len(s), NEW e \in 1..c, NEW body,
         BodyFrom(s, e, c, body)
  PROVE  /\ body \in Seq(Text) /\ Len(body) = c - e /\ HeaderEnd(s) = e
         /\ \A i \in 1..(c - e) : body[i] = s[e + i]
<1>1. e \in Nat /\ e <= c /\ c \in Int
  OBVIOUS
<1>2. HeaderEnd(s) = e /\ body = SubSeq(s, e + 1, c)
  BY HeaderEndIs DEF BodyFrom
<1>3. /\ body \in Seq(Text) /\ Len(body) = (IF e < c THEN c - e ELSE 0)
      /\ \A i \in 1..(c - e) : body[i] = s[e + i]
  BY <1>1, <1>2, Slice
<1>4. Len(body) = c - e
  BY <1>1, <1>3
<1> QED
  BY <1>2, <1>3, <1>4

LEMMA DataCrash ==
  ASSUME ParserTyped, NEW h \in Handlers, BufferOf(h), ParserOf(h), PostOf(h), TakeBodyUnit(h),
         ~(Len(data[h]) < ContentLength(h) + 2)
  PROVE  Blamed(h)
<1> DEFINE s == stream[h]
           c == Consumed(h)
           n == ContentLength(h)
<1>1. /\ c \in Nat /\ c + 1 <= Len(s) /\ s \in Seq(Text) /\ Len(s) \in Nat /\ at[h] = "body"
  BY UnitIs, Numbers DEF TakeBodyUnit
<1>2. PICK e \in 1..c : BodyFrom(s, e, c, data[h]) /\ (n > 0 => c - e < n)
  BY <1>1 DEF ParserOf, BodyOf
<1>3. HasNumber(h) /\ n \in Nat
  BY <1>1, LengthTyped DEF ParserOf, BodyOf
<1>4. Len(data[h]) = c - e
  <2> HIDE DEF s, c, n
  <2>1. c <= Len(s)
    BY <1>1
  <2> QED
    BY <1>1, <1>2, <2>1, BodyLength
<1>5. ~Sound(s)
  <2> SUFFICES ASSUME Sound(s)
               PROVE  FALSE
    OBVIOUS
  <2>1. n > 0
    BY <1>1, SoundPost
  <2>2. c - e < n /\ e \in Int
    BY <1>2, <2>1
  <2> HIDE DEF s, c, n
  <2>3. ~(c - e < n + 2)
    BY <1>4 DEF n
  <2> QED
    BY <1>1, <1>3, <2>2, <2>3
<1>6. s # <<>>
  <2> HIDE DEF s, c, n
  <2>1. c + 1 \in Int /\ 1 <= c + 1
    BY <1>1
  <2> QED
    BY <1>1, <2>1, HasEnd
<1> QED
  BY <1>5, <1>6 DEF Blamed

LEMMA BodyCrash ==
  ASSUME ParserTyped, NEW h \in Handlers, BufferOf(h), ParserOf(h), PostOf(h), ParseBody(h),
         data[h][Len(data[h])] \notin WithEquals
  PROVE  Blamed(h)
<1> DEFINE s == stream[h]
           c == Consumed(h)
           n == ContentLength(h)
<1>1. /\ c \in Nat /\ c <= Len(s) /\ s \in Seq(Text) /\ Len(s) \in Nat /\ at[h] = "body read"
      /\ DOMAIN s = 1..Len(s)
  BY Position DEF ParseBody
<1>2. PICK e \in 1..c : BodyFrom(s, e, c, data[h]) /\ n > 0 /\ c - e = n
  BY <1>1 DEF ParserOf, BodyOf
<1>3. HasNumber(h) /\ n \in Nat
  BY <1>1, LengthTyped DEF ParserOf, BodyOf
<1>4. Len(data[h]) = c - e /\ HeaderEnd(s) = e /\ \A i \in 1..(c - e) : data[h][i] = s[e + i]
  <2> HIDE DEF s, c, n
  <2>1. BodyFrom(s, e, c, data[h])
    BY <1>2
  <2>2. s \in Seq(Text) /\ c \in Nat /\ c <= Len(s)
    BY <1>1
  <2> QED
    BY <2>1, <2>2, BodyLength
<1>5. ~Sound(s)
  <2> SUFFICES ASSUME Sound(s)
               PROVE  FALSE
    OBVIOUS
  <2>1. \A j \in 1..n : HeaderEnd(s) + j \in DOMAIN s => s[HeaderEnd(s) + j] \in WithEquals
    BY <1>1, SoundPost
  <2> HIDE DEF s, c, n
  <2>2. n \in 1..n /\ e + n \in 1..Len(s) /\ n \in 1..(c - e)
    <3>1. c \in Nat /\ c <= Len(s) /\ Len(s) \in Nat /\ n \in Nat
      BY <1>1, <1>3
    <3>2. e \in 1..c /\ n > 0 /\ c - e = n
      BY <1>2
    <3> QED
      BY <3>1, <3>2
  <2>3. s[e + n] \in WithEquals
    BY <1>1, <1>4, <2>1, <2>2
  <2>4. data[h][n] = s[e + n]
    BY <1>4, <2>2
  <2>5. Len(data[h]) = n
    BY <1>2, <1>4
  <2> QED
    BY <2>3, <2>4, <2>5
<1>6. s # <<>>
  <2> HIDE DEF s, c, n
  <2>1. e \in LineEndsIn(s)
    BY <1>2 DEF BodyFrom, IsHeaderEnd
  <2> QED
    BY <1>1, <2>1, LineMeansText
<1> QED
  BY <1>5, <1>6 DEF Blamed

LEMMA ParseCrash ==
  ASSUME IInv, Parsers, NEW h \in Handlers, Parse(h), crash = "no", crash' \in CrashPlaces
  PROVE  Blamed(h)
<1>0. ParserTyped /\ BufferOf(h) /\ PostOf(h) /\ ParserOf(h)
  BY DEF IInv, Buffers, Answers, AnswerOf, Parsers
<1>1. crash' # "no" /\ crash' # "SocketClosed"
  BY DEF CrashPlaces
<1>2. ParseStep(h)
  BY DEF Parse
<1>3. CASE Recv(h) \/ RecvClosed(h) \/ RecvFails(h)
  BY <1>1, <1>3 DEF Recv, RecvClosed, RecvFails, Crash
<1>4. CASE TakeUnit(h) \/ EndLine(h)
  <2>1. ~(Len(lineBuffer[h]) < LineSize)
    BY <1>1, <1>4 DEF TakeUnit, EndLine, StoreInLine
  <2> QED
    BY <1>0, <1>4, <2>1, LineCrash
<1>5. CASE GiveUp(h) \/ StoreHeader(h) \/ EndHeader(h) \/ BeginBody(h)
  BY <1>1, <1>5 DEF GiveUp, StoreHeader, EndHeader, BeginBody
<1>6. CASE ParseStartLine(h)
  <2>1. Len(lineBuffer[h]) < 3
    BY <1>1, <1>6 DEF ParseStartLine
  <2> QED
    BY <1>0, <1>6, <2>1, StartLineCrash
<1>7. CASE SkipHeader(h)
  BY <1>0, <1>7, HeaderCrash
<1>8. CASE NoNumber(h)
  BY <1>0, <1>8, NumberCrash
<1>9. CASE BodyUnread(h)
  BY <1>0, <1>9, UnreadCrash
<1>10. CASE TakeBodyUnit(h)
  <2>1. ~(Len(data[h]) < ContentLength(h) + 2)
    BY <1>1, <1>10 DEF TakeBodyUnit
  <2> QED
    BY <1>0, <1>10, <2>1, DataCrash
<1>11. CASE ParseBody(h)
  <2>1. data[h][Len(data[h])] \notin WithEquals
    BY <1>1, <1>11 DEF ParseBody
  <2> QED
    BY <1>0, <1>11, <2>1, BodyCrash
<1> QED
  BY <1>2, <1>3, <1>4, <1>5, <1>6, <1>7, <1>8, <1>9, <1>10, <1>11 DEF ParseStep

\* No other step crashes where the parser does.
LEMMA OtherCrash ==
  ASSUME NEW h \in Handlers, StepOf(h), ~Parse(h), crash = "no"
  PROVE  crash' \notin CrashPlaces
<1>1. CASE PageStep(h)
  BY <1>1 DEF PageStep, Dispatch, Send, SendFails, SendKills, Stat, OpenFile, Crash, CrashPlaces
<1>2. CASE CgiStep(h)
  BY <1>2 DEF CgiStep, StartCgi, Pipe, Fork, CgiFails, CloseEnd, WriteInput, WriteKills,
              ReadOutput, EndRead, Overread, Wait, Crash, CrashPlaces
<1>3. CASE ChildStep(h)
  BY <1>3 DEF ChildStep, ChildCloses, ChildReads, ChildHasRead, ChildPrints, ChildExits, CrashPlaces
<1>4. CASE Finish(h) \/ Catch(h) \/ Return(h) \/ RemoveFile(h)
  BY <1>4 DEF Finish, Catch, Return, RemoveFile, CrashPlaces
<1> QED
  BY <1>1, <1>2, <1>3, <1>4 DEF StepOf

PInv == IInv /\ Parsers /\ SoundRequestSafe

LEMMA PInvStep ==
  ASSUME PInv, [Next]_vars
  PROVE  PInv'
<1>1. CASE UNCHANGED vars
  <2>1. IInv'
    BY <1>1, StepIInv DEF PInv
  <2>2. Parsers'
    <3> SUFFICES ASSUME NEW g \in Handlers
                 PROVE  ParserOf(g)'
      BY DEF Parsers
    <3>1. UNCHANGED <<parserVars, at>> /\ ParserOf(g)
      BY <1>1 DEF vars, PInv, Parsers
    <3>2. Consumed(g)' = Consumed(g)
      BY <3>1 DEF parserVars, bufferVars, Consumed, Received
    <3> QED
      BY <3>1, <3>2, ParserUntouched DEF parserVars
  <2>3. SoundRequestSafe'
    BY <1>1 DEF PInv, SoundRequestSafe, vars, parserVars
  <2> QED
    BY <2>1, <2>2, <2>3 DEF PInv
<1>2. CASE Next
  <2>1. PICK h \in Handlers : StepOf(h) /\ crash = "no"
    BY <1>2, NextIsStep
  <2>2. IInv'
    BY <1>2, StepIInv DEF PInv
  <2>3. Parsers'
    BY <2>1, ParsersKept DEF PInv
  <2>4. crash' \in CrashPlaces => Parse(h) /\ Blamed(h)
    BY <2>1, ParseCrash, OtherCrash DEF PInv
  <2>5. Parse(h) => stream' = stream
    BY DEF Parse, ParseStep, Recv, RecvClosed, RecvFails, TakeUnit, EndLine, GiveUp,
           ParseStartLine, StoreHeader, SkipHeader, EndHeader, NoNumber, BodyUnread, BeginBody,
           TakeBodyUnit, ParseBody, parserVars
  <2>6. SoundRequestSafe'
    BY <2>4, <2>5 DEF Blamed, SoundRequestSafe, CrashPlaces
  <2> QED
    BY <2>2, <2>3, <2>6 DEF PInv
<1> QED
  BY <1>1, <1>2

\* What the parser is in the middle of agrees with what the client sent, in every state of
\* every behaviour.
THEOREM ParserInvariant == Spec => []PInv
<1>1. Init => PInv
  <2>1. Init => SoundRequestSafe
    BY DEF Init, HttpDataInit, SoundRequestSafe
  <2> QED
    BY <2>1, InitIInv, InitParsers DEF PInv
<1>2. PInv /\ [Next]_vars => PInv'
  BY PInvStep
<1> QED
  BY <1>1, <1>2, PTL DEF Spec

-----------------------------------------------------------------------------
(* What the runs check, for every set of handlers and requests. *)

LEMMA LinesAreExact ==
  ASSUME ParserTyped, NEW h \in Handlers, BufferOf(h), LinesOf(h)
  PROVE  LET ends == lineEnds[h] \cup {0}
             last == LastOf(ends) IN
         /\ at[h] \in {"start line", "start line read", "header", "header read"} =>
              lineEnds[h] = {p \in LineEndsIn(stream[h]) : p <= Consumed(h)}
         /\ at[h] \in {"start line", "header"} =>
              lineBuffer[h] = SubSeq(stream[h], last + 1, Consumed(h))
         /\ at[h] \in {"start line read", "header read"} =>
              lineBuffer[h] = SubSeq(stream[h], LastOf(ends \ {last}) + 1, last - 2)
<1> DEFINE s == stream[h]
           c == Consumed(h)
           ends == lineEnds[h] \cup {0}
<1>0. c \in Nat /\ s \in Seq(Text)
  BY Position
<1>1. at[h] \in {"start line", "start line read", "header", "header read"} =>
        lineEnds[h] = EndsUpTo(s, c) /\ ends \subseteq Int
  <2>1. at[h] \in {"start line", "start line read", "header", "header read"} =>
          lineEnds[h] = EndsUpTo(s, c)
    BY DEF LinesOf
  <2>2. EndsUpTo(s, c) \cup {0} \subseteq Int
    <3> HIDE DEF s, c
    <3> QED
      BY <1>0, EndsTyped
  <2> QED
    BY <2>1, <2>2
<1>2. ASSUME at[h] \in {"start line", "header"}
      PROVE  lineBuffer[h] = SubSeq(s, LastOf(ends) + 1, c)
  <2>1. InLine(s, c, lineEnds[h], lineBuffer[h], prev[h])
    BY <1>2 DEF LinesOf
  <2>2. PICK m \in 0..c : IsLast(m, ends) /\ lineBuffer[h] = SubSeq(s, m + 1, c)
    BY <2>1 DEF InLine
  <2>3. LastOf(ends) = m
    BY <1>1, <1>2, <2>2, LastIs
  <2> QED
    BY <2>2, <2>3
<1>3. ASSUME at[h] \in {"start line read", "header read"}
      PROVE  lineBuffer[h] = SubSeq(s, LastOf(ends \ {LastOf(ends)}) + 1, LastOf(ends) - 2)
  <2>1. /\ LineRead(s, c, lineEnds[h], lineBuffer[h]) /\ c \in lineEnds[h]
        /\ lineEnds[h] = EndsUpTo(s, c)
    BY <1>3 DEF LinesOf
  <2>2. PICK m \in 0..(c - 1) : IsLast(m, ends \ {c}) /\ lineBuffer[h] = SubSeq(s, m + 1, c - 2)
    BY <2>1 DEF LineRead
  <2>3. ends \subseteq Int /\ ends \ {c} \subseteq Int
    BY <1>1, <1>3
  <2>4. IsLast(c, ends)
    <3>1. \A x \in lineEnds[h] : x <= c
      BY <2>1 DEF EndsUpTo
    <3> QED
      BY <1>0, <2>1, <3>1 DEF IsLast
  <2> HIDE DEF s, c, ends
  <2>5. LastOf(ends) = c /\ LastOf(ends \ {c}) = m
    BY <2>2, <2>3, <2>4, LastIs
  <2> QED
    BY <2>2, <2>5
<1> QED
  BY <1>1, <1>2, <1>3 DEF EndsUpTo

\* Where every parameter has its '=', the keys are the parameters, one by one.
LEMMA KeysAreUnits ==
  ASSUME NEW body \in Seq(Text), \A i \in DOMAIN body : body[i] \in WithEquals
  PROVE  Keys(body) = {<<body[i]>> : i \in DOMAIN body}
<1>0. Len(body) \in Nat /\ DOMAIN body = 1..Len(body)
  BY LenProperties
<1>1. ASSUME NEW i \in 1..Len(body)
      PROVE  SubSeq(body, i, i) = <<body[i]>>
  <2>0. i \in Nat /\ i - 1 \in Nat /\ i <= Len(body) /\ i \in Int
    BY <1>0
  <2>1. (i - 1) + 1 = i /\ i - (i - 1) = 1 /\ i - 1 < i
    BY <2>0
  <2> DEFINE t == SubSeq(body, (i - 1) + 1, i)
  <2>2. /\ t \in Seq(Text) /\ Len(t) = (IF i - 1 < i THEN i - (i - 1) ELSE 0)
        /\ \A k \in 1..(i - (i - 1)) : t[k] = body[(i - 1) + k]
    BY <2>0, Slice
  <2>3. Len(t) = 1 /\ t[1] = body[i]
    <3> HIDE DEF t
    <3>1. Len(t) = 1
      BY <2>0, <2>1, <2>2
    <3>2. 1 \in 1..(i - (i - 1)) /\ (i - 1) + 1 = i
      BY <2>0
    <3> QED
      BY <2>2, <3>1, <3>2
  <2>4. body[i] \in Text
    BY <1>0, ElementOfSeq
  <2>5. <<body[i]>> \in Seq(Text) /\ Len(<<body[i]>>) = 1 /\ <<body[i]>>[1] = body[i]
    BY <2>4
  <2>6. \A k \in 1..1 : t[k] = <<body[i]>>[k]
    BY <2>3, <2>5
  <2> HIDE DEF t
  <2>7. t = <<body[i]>>
    BY <2>2, <2>3, <2>5, <2>6, SeqEqual
  <2> QED
    BY <2>1, <2>7 DEF t
<1>2. ASSUME NEW i \in 1..Len(body), NEW j \in 1..Len(body)
      PROVE  IsKey(body, i, j) <=> i = j
  <2>1. ASSUME IsKey(body, i, j), i # j
        PROVE  FALSE
    <3>1. i <= j /\ \A k \in i..(j - 1) : body[k] \notin WithEquals
      BY <2>1 DEF IsKey
    <3>2. i \in i..(j - 1)
      BY <1>0, <2>1, <3>1
    <3> QED
      BY <1>0, <3>1, <3>2
  <2>2. ASSUME i = j
        PROVE  IsKey(body, i, j)
    <3>1. i..(j - 1) = {} /\ i <= j
      BY <1>0, <2>2
    <3> QED
      BY <1>0, <3>1 DEF IsKey
  <2> QED
    BY <2>1, <2>2
<1>3. ASSUME NEW k \in Keys(body)
      PROVE  k \in {<<body[i]>> : i \in DOMAIN body}
  <2>1. PICK q \in (1..Len(body)) \X (1..Len(body)) :
          IsKey(body, q[1], q[2]) /\ k = SubSeq(body, q[1], q[2])
    BY <1>3 DEF Keys
  <2>2. q[1] \in 1..Len(body) /\ q[2] = q[1]
    BY <1>2, <2>1
  <2> QED
    BY <1>0, <1>1, <2>1, <2>2
<1>4. ASSUME NEW i \in DOMAIN body
      PROVE  <<body[i]>> \in Keys(body)
  <2>1. <<i, i>> \in (1..Len(body)) \X (1..Len(body)) /\ IsKey(body, i, i)
    BY <1>0, <1>2
  <2>2. <<body[i]>> = SubSeq(body, <<i, i>>[1], <<i, i>>[2])
    BY <1>0, <1>1
  <2> QED
    BY <2>1, <2>2 DEF Keys
<1> QED
  BY <1>3, <1>4

\* A line is what lies between two CRLF, wherever recv cut the bytes, and a body that was
\* read gives the keys of exactly as many units as Content-Length says (parseOneLine and
\* parseBodyParamData).
THEOREM LinesAndBodiesAsSent == Spec => []ReadAsSent
<1>1. PInv => ReadAsSent
  <2> SUFFICES ASSUME PInv
               PROVE  LinesExact /\ BodyRead
    BY DEF ReadAsSent
  <2>0. ParserTyped /\ Buffers /\ Parsers
    BY DEF PInv, IInv
  <2>1. LinesExact
    BY <2>0, LinesAreExact DEF LinesExact, Buffers, Parsers, ParserOf
  <2>2. ASSUME NEW h \in Handlers, at[h] = "parsed", fields[h].method = "POST",
               ContentLength(h) > 0, ~bodyCut[h],
               \A i \in DOMAIN SubSeq(stream[h], HeaderEnd(stream[h]) + 1,
                                      HeaderEnd(stream[h]) + ContentLength(h)) :
                 SubSeq(stream[h], HeaderEnd(stream[h]) + 1,
                        HeaderEnd(stream[h]) + ContentLength(h))[i] \in WithEquals
        PROVE  fields[h].params =
                 {<<SubSeq(stream[h], HeaderEnd(stream[h]) + 1,
                           HeaderEnd(stream[h]) + ContentLength(h))[i]>> :
                    i \in DOMAIN SubSeq(stream[h], HeaderEnd(stream[h]) + 1,
                                        HeaderEnd(stream[h]) + ContentLength(h))}
    <3> DEFINE s == stream[h]
               c == Consumed(h)
               n == ContentLength(h)
               body == SubSeq(s, HeaderEnd(s) + 1, HeaderEnd(s) + n)
    <3>1. BodyOf(h) /\ BufferOf(h)
      BY <2>0 DEF Parsers, ParserOf, Buffers
    <3>2. PICK e \in 1..c : BodyFrom(s, e, c, data[h]) /\ c - e = n /\ fields[h].params = Keys(data[h])
      BY <2>2, <3>1 DEF BodyOf
    <3>3. c \in Nat /\ c <= Len(s) /\ s \in Seq(Text)
      BY <2>0, <3>1, Position
    <3>4. data[h] \in Seq(Text) /\ HeaderEnd(s) = e /\ data[h] = SubSeq(s, e + 1, c)
      <4> HIDE DEF s, c, n
      <4>1. BodyFrom(s, e, c, data[h])
        BY <3>2
      <4> QED
        BY <3>3, <4>1, BodyLength DEF BodyFrom
    <3>5. HeaderEnd(s) + n = c
      <4>1. e \in Int /\ c \in Int
        BY <3>3
      <4> QED
        BY <3>2, <3>4, <4>1
    <3>6. body = data[h]
      BY <3>4, <3>5
    <3>7. \A i \in DOMAIN body : body[i] \in WithEquals
      BY <2>2
    <3> HIDE DEF body
    <3>8. Keys(body) = {<<body[i]>> : i \in DOMAIN body}
      BY <3>4, <3>6, <3>7, KeysAreUnits
    <3> QED
      BY <3>2, <3>6, <3>8 DEF body
  <2>3. BodyRead
    BY <2>2 DEF BodyRead
  <2> QED
    BY <2>1, <2>3
<1> QED
  BY <1>1, ParserInvariant, PTL

\* An access out of bounds or a SIGPIPE brings the server down only for a request that is
\* not sound or whose body was cut off (the parser), for a program that ends before it has
\* read all its parameters or prints a page, or for a file that is not html (Responser).
THEOREM SoundRequestsAreSafe == Spec => []DiesOnlyOf
<1>1. PInv => DiesOnlyOf
  BY DEF PInv, IInv, DiesOnlyOf
<1> QED
  BY <1>1, ParserInvariant, PTL

\* Parameters in a url never start a program, and no connection is kept for a header
\* that is written with a colon.
THEOREM AskingInVain == Spec => []AskedInVain
<1>1. PInv => AskedInVain
  BY DEF PInv, IInv, Answers, AnswerOf, PostOf, CgiOnlyAfterPost, Parsers, ParserOf, KeptOf,
         KeptByEquals, AskedInVain
<1> QED
  BY <1>1, ParserInvariant, PTL

=============================================================================
