-------------------------- MODULE AsyncLogerProofs --------------------------
(***************************************************************************)
(* Proofs about the asynchronous logger, for every number and size of the  *)
(* buffers and every number of lines.                                      *)
(*                                                                         *)
(* Base is the inductive invariant.  Its heart is Unique, which says of    *)
(* the places of the unique_ptrs what BuffersConserved says, in a form in  *)
(* which a step that moves one pointer disturbs one or two conjuncts, and  *)
(* Control, which ties the background thread's place in its code to what   *)
(* it has collected: a null pointer is met at once, and only after buffers *)
(* were destroyed.  On Base rest Kept (where the accepted lines are), Pair *)
(* (how many buffers the background thread collects), GivenBack (what the  *)
(* returned buffers hold, and when a line overflows), Flushed (what is     *)
(* left to collect after the round the destructor waits for) and Order     *)
(* (the lines get younger from the back of writeQueue to curBuffer).       *)
(***************************************************************************)
EXTENDS AsyncLoger, TLAPS, SequenceTheorems, FiniteSetTheorems

-----------------------------------------------------------------------------
(* Sequences used as stacks and queues. *)

\* No buffer occurs twice.
Injective(q) == \A i, j \in DOMAIN q : q[i] = q[j] /\ q[i] # Null => i = j

LEMMA ElementsTyped ==
  ASSUME NEW S, NEW q \in Seq(S)
  PROVE  ToSet(q) \subseteq S
BY LenProperties, ElementOfSeq DEF ToSet

LEMMA FrontIsRest ==
  ASSUME NEW S, NEW q \in Seq(S), q # <<>>
  PROVE  /\ Front(q) \in Seq(S) /\ Last(q) \in S
         /\ Last(q) = q[Len(q)] /\ Len(q) \in DOMAIN q
         /\ DOMAIN Front(q) = DOMAIN q \ {Len(q)}
         /\ \A i \in DOMAIN Front(q) : Front(q)[i] = q[i]
<1>1. Len(q) \in Nat \ {0} /\ DOMAIN q = 1..Len(q)
  BY EmptySeq, LenProperties
<1>2. Last(q) = q[Len(q)] /\ q[Len(q)] \in S
  BY <1>1, ElementOfSeq DEF Last
<1>3. /\ Front(q) \in Seq(S)
      /\ Len(Front(q)) = Len(q) - 1
      /\ \A i \in 1..(Len(q) - 1) : Front(q)[i] = q[i]
  BY <1>1, SubSeqProperties DEF Front
<1>4. DOMAIN Front(q) = 1..(Len(q) - 1)
  BY <1>3, LenProperties
<1> QED
  BY <1>1, <1>2, <1>3, <1>4

\* What a pop takes is gone from the rest.
LEMMA PopTakes ==
  ASSUME NEW S, NEW q \in Seq(S), q # <<>>, Injective(q)
  PROVE  /\ Front(q) \in Seq(S) /\ Last(q) \in S /\ Last(q) \in ToSet(q)
         /\ Injective(Front(q))
         /\ ToSet(Front(q)) \subseteq ToSet(q)
         /\ ToSet(q) = ToSet(Front(q)) \cup {Last(q)}
         /\ Last(q) # Null => Last(q) \notin ToSet(Front(q))
<1>1. /\ Front(q) \in Seq(S) /\ Last(q) \in S
      /\ Last(q) = q[Len(q)] /\ Len(q) \in DOMAIN q
      /\ DOMAIN Front(q) = DOMAIN q \ {Len(q)}
      /\ \A i \in DOMAIN Front(q) : Front(q)[i] = q[i]
  BY FrontIsRest
<1>2. Injective(Front(q))
  BY <1>1 DEF Injective
<1>3. Last(q) \in ToSet(q) /\ ToSet(Front(q)) \subseteq ToSet(q)
  BY <1>1 DEF ToSet
<1>4. ToSet(q) \subseteq ToSet(Front(q)) \cup {Last(q)}
  BY <1>1 DEF ToSet
<1>5. Last(q) # Null => Last(q) \notin ToSet(Front(q))
  BY <1>1 DEF ToSet, Injective
<1> QED
  BY <1>1, <1>2, <1>3, <1>4, <1>5

LEMMA PushAdds ==
  ASSUME NEW S, NEW q \in Seq(S), NEW e \in S
  PROVE  /\ Append(q, e) \in Seq(S) /\ Append(q, e) # <<>>
         /\ DOMAIN Append(q, e) = DOMAIN q \cup {Len(q) + 1}
         /\ Len(q) + 1 \notin DOMAIN q
         /\ Append(q, e)[Len(q) + 1] = e
         /\ \A i \in DOMAIN q : i < Len(q) + 1 /\ Append(q, e)[i] = q[i]
         /\ ToSet(Append(q, e)) = ToSet(q) \cup {e}
         /\ Injective(q) /\ e \notin ToSet(q) => Injective(Append(q, e))
<1>1. Len(q) \in Nat /\ DOMAIN q = 1..Len(q)
  BY LenProperties
<1>2. /\ Append(q, e) \in Seq(S) /\ Len(Append(q, e)) = Len(q) + 1
      /\ \A i \in 1..Len(q) : Append(q, e)[i] = q[i]
      /\ Append(q, e)[Len(q) + 1] = e
  BY AppendProperties
<1>3. DOMAIN Append(q, e) = 1..(Len(q) + 1)
  BY <1>2, LenProperties
<1>4. /\ DOMAIN Append(q, e) = DOMAIN q \cup {Len(q) + 1}
      /\ Len(q) + 1 \notin DOMAIN q
      /\ \A i \in DOMAIN q : i < Len(q) + 1 /\ Append(q, e)[i] = q[i]
  BY <1>1, <1>2, <1>3
<1>5. ToSet(Append(q, e)) = ToSet(q) \cup {e}
  BY <1>2, <1>4 DEF ToSet
<1>6. Append(q, e) # <<>>
  BY <1>1, <1>2, EmptySeq
<1>7. Injective(q) /\ e \notin ToSet(q) => Injective(Append(q, e))
  BY <1>2, <1>4 DEF ToSet, Injective
<1> QED
  BY <1>2, <1>4, <1>5, <1>6, <1>7

LEMMA ConcatJoins ==
  ASSUME NEW S, NEW s \in Seq(S), NEW t \in Seq(S)
  PROVE  /\ s \o t \in Seq(S)
         /\ ToSet(s \o t) = ToSet(s) \cup ToSet(t)
         /\ IsPrefix(s, s \o t)
         /\ SubSeq(s \o t, Len(s) + 1, Len(s \o t)) = t
<1> DEFINE st == s \o t
<1>1. /\ Len(s) \in Nat /\ DOMAIN s = 1..Len(s)
      /\ Len(t) \in Nat /\ DOMAIN t = 1..Len(t)
  BY LenProperties
<1>2. /\ st \in Seq(S) /\ Len(st) = Len(s) + Len(t)
      /\ \A i \in 1..Len(s) : st[i] = s[i]
      /\ \A i \in (Len(s) + 1)..(Len(s) + Len(t)) : st[i] = t[i - Len(s)]
  BY ConcatProperties
<1>3. DOMAIN st = 1..(Len(s) + Len(t))
  BY <1>2, LenProperties
<1> HIDE DEF st
<1>4. \A i \in 1..Len(t) : st[Len(s) + i] = t[i]
  <2>1. \A i \in 1..Len(t) : /\ Len(s) + i \in (Len(s) + 1)..(Len(s) + Len(t))
                             /\ (Len(s) + i) - Len(s) = i
    BY <1>1
  <2> QED
    BY <1>2, <2>1
<1>5. ToSet(st) \subseteq ToSet(s) \cup ToSet(t)
  <2> SUFFICES ASSUME NEW i \in DOMAIN st
               PROVE  st[i] \in ToSet(s) \cup ToSet(t)
    BY DEF ToSet
  <2>1. CASE i \in 1..Len(s)
    BY <2>1, <1>1, <1>2 DEF ToSet
  <2>2. CASE i \notin 1..Len(s)
    <3>1. i \in (Len(s) + 1)..(Len(s) + Len(t)) /\ i - Len(s) \in 1..Len(t)
      BY <2>2, <1>1, <1>3
    <3> QED
      BY <3>1, <1>1, <1>2 DEF ToSet
  <2> QED
    BY <2>1, <2>2
<1>6. ToSet(s) \subseteq ToSet(st)
  BY <1>1, <1>2, <1>3 DEF ToSet
<1>7. ToSet(t) \subseteq ToSet(st)
  <2>1. \A i \in 1..Len(t) : Len(s) + i \in DOMAIN st
    BY <1>1, <1>3
  <2> QED
    BY <2>1, <1>1, <1>4 DEF ToSet
<1>8. IsPrefix(s, st)
  <2>1. /\ SubSeq(s, 1, Len(s)) = s
    BY SubSeqFull
  <2>2. /\ SubSeq(st, 1, Len(s)) \in Seq(S)
        /\ Len(SubSeq(st, 1, Len(s))) = Len(s)
        /\ \A i \in 1..Len(s) : SubSeq(st, 1, Len(s))[i] = st[i]
    BY <1>1, <1>2, SubSeqProperties
  <2>3. SubSeq(st, 1, Len(s)) = s
    BY <2>2, <1>1, <1>2, SeqEqual
  <2>4. Len(s) <= Len(st)
    BY <1>1, <1>2
  <2> QED
    BY <2>1, <2>3, <2>4 DEF IsPrefix
<1>9. SubSeq(st, Len(s) + 1, Len(st)) = t
  <2>1. /\ SubSeq(st, Len(s) + 1, Len(st)) \in Seq(S)
        /\ Len(SubSeq(st, Len(s) + 1, Len(st))) = Len(t)
        /\ \A i \in 1..Len(t) : SubSeq(st, Len(s) + 1, Len(st))[i] = st[Len(s) + i]
    BY <1>1, <1>2, SubSeqProperties
  <2> QED
    BY <2>1, <1>4, SeqEqual
<1> QED
  BY <1>2, <1>5, <1>6, <1>7, <1>8, <1>9 DEF st

-----------------------------------------------------------------------------
(* The inductive invariant. *)

\* Two sets have nothing in common but 0: a null pointer, or junk.
Disjoint(A, B) == A \cap B \subseteq {Null}

\* Where the background thread is, and what it has collected.
Control ==
  /\ bgPc \in {"while", "wait", "exited"} => writeQueue = <<>>
  /\ bgPc = "return" => writeQueue # <<>> /\ Last(writeQueue) # Null
  /\ running <=> stoppedAt = "not yet"
  /\ Null \in ToSet(writeQueue) => bgPc = "write" /\ Last(writeQueue) = Null
  /\ destroyed # {} => Null \in ToSet(writeQueue)

\* One pointer to a buffer, or none when it is destroyed.
Unique ==
  /\ Injective(emptyBuffers)
  /\ Injective(toWriteBuffers)
  /\ Injective(writeQueue)
  /\ Disjoint({curBuffer}, ToSet(emptyBuffers))
  /\ Disjoint({curBuffer}, ToSet(toWriteBuffers))
  /\ Disjoint({curBuffer}, ToSet(writeQueue))
  /\ Disjoint(ToSet(emptyBuffers), ToSet(toWriteBuffers))
  /\ Disjoint(ToSet(emptyBuffers), ToSet(writeQueue))
  /\ Disjoint(ToSet(toWriteBuffers), ToSet(writeQueue))
  /\ Disjoint(destroyed, {curBuffer} \cup ToSet(emptyBuffers)
                           \cup ToSet(toWriteBuffers) \cup ToSet(writeQueue))
  /\ Buffers \subseteq {curBuffer} \cup ToSet(emptyBuffers)
                         \cup ToSet(toWriteBuffers) \cup ToSet(writeQueue) \cup destroyed

\* A line that was logged is in one place only, and none is from the future.
Lines ==
  /\ ToSet(logFile) \subseteq 0..submitted
  /\ \A b \in Buffers : ToSet(text[b]) \subseteq 0..submitted
  /\ \A b \in Buffers : Disjoint(ToSet(logFile), ToSet(text[b]))
  /\ \A a, b \in Buffers : a # b => Disjoint(ToSet(text[a]), ToSet(text[b]))

Base == TypeOK /\ Control /\ Unique /\ Lines

-----------------------------------------------------------------------------
(* Type correctness. *)

LEMMA BufferIsNotNull == Null \notin Buffers
BY DEF Buffers, Null

LEMMA SubmittedIsNat == TypeOK => submitted \in Nat
<1>1. TypeOK => submitted \in 0..MaxLines
  BY DEF TypeOK
<1> QED
  BY <1>1, AsyncLogerAssumption

LEMMA InitTypes == Init => TypeOK
<1> SUFFICES ASSUME Init PROVE TypeOK
  OBVIOUS
<1>1. \A b \in Buffers : text[b] \in Seq(0..MaxLines)
  <2> TAKE b \in Buffers
  <2>1. PICK n \in FreshEnds : text[b] = [i \in 1..n |-> Junk]
    BY DEF Init
  <2> QED
    BY <2>1, AsyncLogerAssumption DEF Junk
<1>2. text \in [Buffers -> Seq(0..MaxLines)]
  BY <1>1 DEF Init
<1>3. NumBuffers \in Buffers /\ \A i \in 1..(NumBuffers - 1) : i \in Buffers
  BY AsyncLogerAssumption DEF Buffers
<1>4. emptyBuffers \in Seq(Buffers)
  <2>1. NumBuffers - 1 \in Nat
    BY AsyncLogerAssumption
  <2>2. [i \in 1..(NumBuffers - 1) |-> i] \in Seq(Buffers)
    BY <1>3, <2>1
  <2> QED
    BY <2>2 DEF Init
<1>5. submitted \in 0..MaxLines /\ logFile \in Seq(0..MaxLines)
  <2>1. 0 \in 0..MaxLines /\ <<>> \in Seq(0..MaxLines)
    BY AsyncLogerAssumption, EmptySeq
  <2> QED
    BY <2>1 DEF Init
<1>6. /\ curBuffer = NumBuffers /\ toWriteBuffers = <<>> /\ writeQueue = <<>>
      /\ size \in Sizes /\ running = TRUE /\ bgPc = "while" /\ aborted = "no"
      /\ refused = {} /\ destroyed = {} /\ faults = {} /\ stoppedAt = "not yet"
  BY DEF Init
<1>7. /\ toWriteBuffers \in Seq(Buffers) /\ writeQueue \in Seq(Buffers \cup {Null})
      /\ curBuffer \in Buffers \cup {Null}
  BY <1>3, <1>6, EmptySeq
<1> QED
  BY <1>2, <1>4, <1>5, <1>6, <1>7 DEF TypeOK

\* What Collect leaves in writeQueue.
LEMMA DrainedIs ==
  ASSUME TypeOK, Injective(toWriteBuffers)
  PROVE  /\ Drained \in Seq(Buffers \cup {Null})
         /\ Injective(Drained)
         /\ ToSet(Drained) \ {Null} \subseteq ToSet(toWriteBuffers) \ ToSet(Front(toWriteBuffers))
         /\ ToSet(toWriteBuffers) \subseteq ToSet(Drained) \cup ToSet(Front(toWriteBuffers))
         /\ ToSet(Front(toWriteBuffers)) \subseteq ToSet(toWriteBuffers)
         /\ Drained = <<>> <=> toWriteBuffers = <<>>
         /\ Len(Drained) = Len(toWriteBuffers)
         /\ Null \in ToSet(Drained) => Drained[Len(Drained)] = Null
         /\ Null \in ToSet(Drained) <=> Len(toWriteBuffers) >= 2
         /\ ToSet(Front(toWriteBuffers)) # {} => Len(toWriteBuffers) >= 2
<1> DEFINE q == toWriteBuffers
<1>1. /\ q \in Seq(Buffers) /\ Len(q) \in Nat /\ DOMAIN q = 1..Len(q)
  BY LenProperties DEF TypeOK
<1> HIDE DEF q
<1>2. Drained = [i \in 1..Len(q) |-> IF i = 1 THEN Last(q) ELSE Null]
  BY DEF Drained, q
<1>3. CASE q = <<>>
  <2>1. Len(q) = 0 /\ Drained = <<>> /\ ToSet(q) = {}
    BY <1>2, <1>3 DEF ToSet
  <2>2. Front(q) = <<>>
    BY <1>3, SubSeqEmpty DEF Front
  <2>3. ToSet(Front(q)) = {} /\ ToSet(Drained) = {} /\ Injective(Drained)
    BY <2>1, <2>2 DEF ToSet, Injective
  <2>4. Drained \in Seq(Buffers \cup {Null}) /\ Len(Drained) = 0
    BY <2>1
  <2> QED
    BY <2>1, <2>3, <2>4, <1>3 DEF q
<1>4. CASE q # <<>>
  <2>1. /\ Last(q) \in Buffers /\ Last(q) # Null
        /\ ToSet(Front(q)) \subseteq ToSet(q)
        /\ ToSet(q) = ToSet(Front(q)) \cup {Last(q)}
        /\ Last(q) \notin ToSet(Front(q))
    BY <1>1, <1>4, PopTakes, BufferIsNotNull DEF q
  <2>2. Len(q) \in Nat /\ Len(q) # 0
    BY <1>1, <1>4, EmptySeq
  <2>3. Drained \in Seq(Buffers \cup {Null})
    BY <1>2, <2>1, <2>2
  <2>4. /\ DOMAIN Drained = 1..Len(q) /\ Len(Drained) = Len(q)
        /\ Drained[1] = Last(q)
        /\ \A i \in 1..Len(q) : i # 1 => Drained[i] = Null
    BY <1>2, <2>2
  <2>5. Drained # <<>>
    BY <2>4, <2>2, EmptySeq
  <2>6. Injective(Drained)
    BY <2>1, <2>4 DEF Injective
  <2>7. ToSet(Drained) \ {Null} \subseteq {Last(q)} /\ Last(q) \in ToSet(Drained)
    BY <2>2, <2>4 DEF ToSet
  <2>8. Null \in ToSet(Drained) <=> Len(q) >= 2
    <3>1. ASSUME Null \in ToSet(Drained) PROVE Len(q) >= 2
      <4>1. PICK i \in 1..Len(q) : Drained[i] = Null
        BY <3>1, <2>4 DEF ToSet
      <4>2. i # 1
        BY <4>1, <2>1, <2>4
      <4> QED
        BY <4>2, <2>2
    <3>2. ASSUME Len(q) >= 2 PROVE Null \in ToSet(Drained)
      <4>1. 2 \in DOMAIN Drained /\ Drained[2] = Null
        BY <3>2, <2>2, <2>4
      <4> QED
        BY <4>1 DEF ToSet
    <3> QED
      BY <3>1, <3>2
  <2>9. Len(q) >= 2 => Drained[Len(Drained)] = Null
    <3>1. \A n \in Nat : n >= 2 => n \in 1..n /\ n # 1
      OBVIOUS
    <3> QED
      BY <3>1, <2>2, <2>4
  <2>10. ToSet(Front(q)) # {} => Len(q) >= 2
    <3>1. /\ DOMAIN Front(q) = DOMAIN q \ {Len(q)}
      BY <1>1, <1>4, FrontIsRest
    <3>2. Len(q) = 1 => DOMAIN Front(q) = {}
      BY <3>1, <1>1
    <3>3. Len(q) = 1 => ToSet(Front(q)) = {}
      BY <3>2 DEF ToSet
    <3>4. \A n \in Nat : n # 0 /\ n # 1 => n >= 2
      OBVIOUS
    <3> QED
      BY <3>3, <3>4, <2>2
  <2> QED
    BY <2>1, <2>3, <2>4, <2>5, <2>6, <2>7, <2>8, <2>9, <2>10, <1>4 DEF q
<1> QED
  BY <1>3, <1>4

\* What the conjuncts of TypeOK say of the sequences.
LEMMA CollectedIs ==
  ASSUME TypeOK, Unique
  PROVE  /\ Current \o Drained \in Seq(Buffers \cup {Null})
         /\ Injective(Current \o Drained)
         /\ ToSet(Current \o Drained) \ {Null}
              \subseteq {curBuffer} \cup (ToSet(toWriteBuffers) \ ToSet(Front(toWriteBuffers)))
         /\ {curBuffer} \cup ToSet(toWriteBuffers)
              \subseteq ToSet(Current \o Drained) \cup ToSet(Front(toWriteBuffers)) \cup {Null}
         /\ Null \in ToSet(Current \o Drained) <=> Len(toWriteBuffers) >= 2
         /\ Null \in ToSet(Current \o Drained) => Last(Current \o Drained) = Null
<1> DEFINE d == Drained
<1>1. /\ d \in Seq(Buffers \cup {Null})
      /\ Injective(d)
      /\ ToSet(d) \ {Null} \subseteq ToSet(toWriteBuffers) \ ToSet(Front(toWriteBuffers))
      /\ ToSet(toWriteBuffers) \subseteq ToSet(d) \cup ToSet(Front(toWriteBuffers))
      /\ Null \in ToSet(d) => d[Len(d)] = Null
      /\ Null \in ToSet(d) <=> Len(toWriteBuffers) >= 2
  BY DrainedIs DEF Unique
<1>2. Len(d) \in Nat /\ DOMAIN d = 1..Len(d)
  BY <1>1, LenProperties
<1> HIDE DEF d
<1>3. CASE curBuffer = Null
  <2>1. Current \o d = d
    BY <1>3, <1>1, ConcatEmptySeq DEF Current
  <2> QED
    BY <2>1, <1>1, <1>3 DEF Last, d
<1>4. CASE curBuffer # Null
  <2>1. Current = <<curBuffer>> /\ curBuffer \in Buffers
    BY <1>4 DEF Current, TypeOK
  <2>2. /\ Current \in Seq(Buffers \cup {Null}) /\ Len(Current) = 1
        /\ Current[1] = curBuffer /\ ToSet(Current) = {curBuffer}
    BY <2>1 DEF ToSet
  <2> DEFINE cd == Current \o d
  <2>3. /\ cd \in Seq(Buffers \cup {Null}) /\ Len(cd) = 1 + Len(d)
        /\ \A i \in 1..(1 + Len(d)) : cd[i] = IF i <= 1 THEN curBuffer ELSE d[i - 1]
    BY <2>1, <2>2, <1>1, ConcatProperties
  <2>4. ToSet(cd) = {curBuffer} \cup ToSet(d)
    BY <2>2, <1>1, ConcatJoins
  <2>5. DOMAIN cd = 1..(1 + Len(d))
    BY <2>3, LenProperties
  <2>6. \A i \in DOMAIN cd : \/ i = 1 /\ cd[i] = curBuffer
                             \/ i - 1 \in DOMAIN d /\ cd[i] = d[i - 1]
    <3> TAKE i \in DOMAIN cd
    <3> HIDE DEF cd
    <3>1. i \in 1..(1 + Len(d))
      BY <2>5
    <3>2. CASE i = 1
      BY <3>1, <3>2, <2>3
    <3>3. CASE i # 1
      <4>1. ~(i <= 1) /\ i - 1 \in 1..Len(d)
        BY <3>1, <3>3, <1>2
      <4> QED
        BY <4>1, <3>1, <2>3, <1>2
    <3> QED
      BY <3>2, <3>3
  <2> HIDE DEF cd
  <2>7. curBuffer \notin ToSet(d)
    BY <1>1, <2>1, <1>4 DEF Unique, Disjoint
  <2>8. Injective(cd)
    <3> SUFFICES ASSUME NEW i \in DOMAIN cd, NEW j \in DOMAIN cd,
                        cd[i] = cd[j], cd[i] # Null
                 PROVE  i = j
      BY DEF Injective
    <3>1. CASE i = 1 /\ j = 1
      BY <3>1
    <3>2. CASE i - 1 \in DOMAIN d /\ cd[i] = d[i - 1] /\ j - 1 \in DOMAIN d /\ cd[j] = d[j - 1]
      <4>1. i - 1 = j - 1
        BY <3>2, <1>1 DEF Injective
      <4>2. i \in Int /\ j \in Int
        BY <2>5
      <4> QED
        BY <4>1, <4>2
    <3> QED
      BY <3>1, <3>2, <2>6, <2>7 DEF ToSet
  <2>9. Null \in ToSet(cd) => cd[Len(cd)] = Null
    <3> SUFFICES ASSUME Null \in ToSet(cd) PROVE cd[Len(cd)] = Null
      OBVIOUS
    <3>1. Null \in ToSet(d) /\ d[Len(d)] = Null
      BY <2>4, <1>4, <1>1
    <3>2. Len(d) # 0
      BY <3>1, <1>2 DEF ToSet
    <3>3. 1 + Len(d) \in 1..(1 + Len(d)) /\ ~(1 + Len(d) <= 1) /\ (1 + Len(d)) - 1 = Len(d)
      BY <3>2, <1>2
    <3> QED
      BY <3>1, <3>3, <2>3
  <2> QED
    BY <2>3, <2>4, <2>8, <2>9, <1>1, <1>4 DEF Last, cd, d
<1> QED
  BY <1>3, <1>4

\* The steps of the logger.
LEMMA StepCases ==
  ASSUME [Next]_vars
  PROVE  \/ LogRefused /\ LogInfo
         \/ LogAppend /\ LogInfo
         \/ LogSwap /\ LogInfo
         \/ Stop \/ LoopTest \/ Collect
         \/ WriteOut \/ WriteNull \/ ReturnBuffer \/ RoundDone
         \/ UNCHANGED vars
BY DEF Next, Step, LogInfo, BackgroundStep

\* An appended line leaves the other buffers alone.
LEMMA AppendLineIs ==
  ASSUME TypeOK, submitted < MaxLines, NEW b \in Buffers, AppendLine(b)
  PROVE  /\ text' \in [Buffers -> Seq(0..MaxLines)]
         /\ text'[b] = Append(text[b], submitted + 1)
         /\ \A a \in Buffers : a # b => text'[a] = text[a]
         /\ ToSet(text'[b]) = ToSet(text[b]) \cup {submitted + 1}
         /\ submitted + 1 \in 1..MaxLines
<1> DEFINE e == submitted + 1
<1>1. e \in 1..MaxLines /\ e \in 0..MaxLines
  <2>1. submitted \in 0..MaxLines /\ MaxLines \in Nat
    BY AsyncLogerAssumption DEF TypeOK
  <2> QED
    BY <2>1
<1>2. text[b] \in Seq(0..MaxLines) /\ text \in [Buffers -> Seq(0..MaxLines)]
  BY DEF TypeOK
<1>4. text' = [text EXCEPT ![b] = Append(text[b], e)]
  BY DEF AppendLine
<1> HIDE DEF e
<1>3. /\ Append(text[b], e) \in Seq(0..MaxLines)
      /\ ToSet(Append(text[b], e)) = ToSet(text[b]) \cup {e}
  <2> DEFINE S == 0..MaxLines
             s == text[b]
  <2>1. s \in Seq(S) /\ e \in S
    BY <1>1, <1>2
  <2> HIDE DEF S, s
  <2>2. Append(s, e) \in Seq(S) /\ ToSet(Append(s, e)) = ToSet(s) \cup {e}
    BY <2>1, PushAdds
  <2> QED
    BY <2>2 DEF S, s
<1>5. text' \in [Buffers -> Seq(0..MaxLines)]
  BY <1>2, <1>3, <1>4
<1>6. text'[b] = Append(text[b], e)
  BY <1>2, <1>4
<1>7. \A a \in Buffers : a # b => text'[a] = text[a]
  BY <1>2, <1>4
<1> QED
  BY <1>1, <1>3, <1>5, <1>6, <1>7 DEF e

\* So does a buffer that is emptied.
LEMMA WrittenIs ==
  ASSUME TypeOK, NEW b \in Buffers, Written(b)
  PROVE  /\ text' \in [Buffers -> Seq(0..MaxLines)]
         /\ text'[b] = <<>> /\ ToSet(text'[b]) = {}
         /\ \A a \in Buffers : a # b => text'[a] = text[a]
<1>1. text \in [Buffers -> Seq(0..MaxLines)] /\ <<>> \in Seq(0..MaxLines)
  BY EmptySeq DEF TypeOK
<1>2. text' \in [Buffers -> Seq(0..MaxLines)] /\ text'[b] = <<>>
      /\ \A a \in Buffers : a # b => text'[a] = text[a]
  BY <1>1 DEF Written
<1> QED
  BY <1>2 DEF ToSet

\* A prefix of a buffer's text.
LEMMA CutIs ==
  ASSUME NEW S, NEW s \in Seq(S), NEW n \in 0..(Len(s) - 1)
  PROVE  /\ SubSeq(s, 1, n) \in Seq(S)
         /\ ToSet(SubSeq(s, 1, n)) \subseteq ToSet(s)
         /\ \A i \in DOMAIN SubSeq(s, 1, n) : i \in DOMAIN s /\ SubSeq(s, 1, n)[i] = s[i]
<1>1. Len(s) \in Nat /\ DOMAIN s = 1..Len(s) /\ n \in Int /\ 0 <= n /\ n <= Len(s) - 1
  BY LenProperties
<1>2. \A i \in 1..n : i \in DOMAIN s /\ s[i] \in S /\ (1 + i) - 1 = i
  BY <1>1, ElementOfSeq
<1>3. /\ SubSeq(s, 1, n) \in Seq(S)
      /\ Len(SubSeq(s, 1, n)) = n
      /\ \A i \in 1..n : SubSeq(s, 1, n)[i] = s[i]
  BY <1>1, <1>2, SubSeqProperties
<1>4. DOMAIN SubSeq(s, 1, n) = 1..n
  BY <1>3, LenProperties
<1> QED
  BY <1>2, <1>3, <1>4 DEF ToSet

\* What a write adds to the file, and what it leaves.
LEMMA WriteOutIs ==
  ASSUME TypeOK, WriteOut
  PROVE  \E b \in Buffers, add \in Seq(0..MaxLines) :
           /\ b = Last(writeQueue) /\ writeQueue # <<>>
           /\ logFile' = logFile \o add
           /\ logFile' \in Seq(0..MaxLines)
           /\ ToSet(logFile') = ToSet(logFile) \cup ToSet(add)
           /\ text' \in [Buffers -> Seq(0..MaxLines)]
           /\ \A a \in Buffers : a # b => text'[a] = text[a]
           /\ \A i \in DOMAIN add : i \in DOMAIN text[b] /\ add[i] = text[b][i]
           /\ ToSet(add) \subseteq ToSet(text[b])
           /\ \/ add = text[b] /\ text'[b] = <<>> /\ faults' = faults
              \/ text'[b] = <<>> /\ faults' = faults \cup {"short"}
              \/ /\ add = <<>> /\ logFile' = logFile /\ text' = text
                 /\ faults' = faults \cup {"failed"}
<1> DEFINE b == Last(writeQueue)
<1>1. writeQueue # <<>> /\ b # Null /\ writeQueue \in Seq(Buffers \cup {Null})
  BY DEF WriteOut, TypeOK
<1>2. b \in Buffers
  <2>1. Last(writeQueue) \in Buffers \cup {Null}
    BY <1>1, FrontIsRest
  <2> QED
    BY <1>1, <2>1
<1>3. text[b] \in Seq(0..MaxLines) /\ logFile \in Seq(0..MaxLines)
  BY <1>2 DEF TypeOK
<1> DEFINE Added(add) ==
             /\ add \in Seq(0..MaxLines)
             /\ logFile' = logFile \o add
             /\ \A i \in DOMAIN add : i \in DOMAIN text[b] /\ add[i] = text[b][i]
             /\ ToSet(add) \subseteq ToSet(text[b])
           Left ==
             /\ text' \in [Buffers -> Seq(0..MaxLines)]
             /\ \A a \in Buffers : a # b => text'[a] = text[a]
           Outcome(add) ==
             \/ add = text[b] /\ text'[b] = <<>> /\ faults' = faults
             \/ text'[b] = <<>> /\ faults' = faults \cup {"short"}
             \/ /\ add = <<>> /\ logFile' = logFile /\ text' = text
                /\ faults' = faults \cup {"failed"}
<1>7. SUFFICES \E add : Added(add) /\ Left /\ Outcome(add)
  <2>1. PICK add : Added(add) /\ Left /\ Outcome(add)
    BY <1>7
  <2>2. add \in Seq(0..MaxLines) /\ logFile' = logFile \o add
    BY <2>1
  <2>3. /\ logFile' \in Seq(0..MaxLines)
        /\ ToSet(logFile') = ToSet(logFile) \cup ToSet(add)
    BY <2>2, <1>3, ConcatJoins
  <2>4. b = Last(writeQueue) /\ writeQueue # <<>>
    BY <1>1
  <2> HIDE DEF b
  <2> QED
    BY <2>1, <2>2, <2>3, <2>4, <1>2
<1> HIDE DEF b
<1>4. CASE logFile' = logFile \o text[b] /\ Written(b) /\ faults' = faults
  <2>1. Added(text[b])
    BY <1>3, <1>4
  <2>2. Left /\ Outcome(text[b])
    BY <1>2, <1>4, WrittenIs
  <2> QED
    BY <2>1, <2>2
<1>5. CASE /\ \E n \in 0..(Len(text[b]) - 1) : logFile' = logFile \o SubSeq(text[b], 1, n)
           /\ Written(b) /\ faults' = faults \cup {"short"}
  <2>1. PICK n \in 0..(Len(text[b]) - 1) : logFile' = logFile \o SubSeq(text[b], 1, n)
    BY <1>5
  <2> DEFINE add == SubSeq(text[b], 1, n)
  <2>2. /\ add \in Seq(0..MaxLines) /\ ToSet(add) \subseteq ToSet(text[b])
        /\ \A i \in DOMAIN add : i \in DOMAIN text[b] /\ add[i] = text[b][i]
    <3> DEFINE S == 0..MaxLines
               s == text[b]
    <3>1. s \in Seq(S) /\ n \in 0..(Len(s) - 1)
      BY <1>3
    <3> HIDE DEF S, s
    <3>2. /\ SubSeq(s, 1, n) \in Seq(S)
          /\ ToSet(SubSeq(s, 1, n)) \subseteq ToSet(s)
          /\ \A i \in DOMAIN SubSeq(s, 1, n) : i \in DOMAIN s /\ SubSeq(s, 1, n)[i] = s[i]
      BY <3>1, CutIs
    <3> QED
      BY <3>2 DEF S, s
  <2>3. Added(add)
    BY <2>1, <2>2
  <2>4. Left /\ Outcome(add)
    BY <1>2, <1>5, WrittenIs
  <2> QED
    BY <2>3, <2>4
<1>6. CASE faults' = faults \cup {"failed"} /\ logFile' = logFile /\ text' = text
  <2>1. logFile' = logFile \o <<>> /\ <<>> \in Seq(0..MaxLines)
    BY <1>3, <1>6, ConcatEmptySeq, EmptySeq
  <2>2. ToSet(<<>>) = {} /\ DOMAIN <<>> = {}
    BY DEF ToSet
  <2>3. Added(<<>>)
    BY <2>1, <2>2
  <2>4. Left /\ Outcome(<<>>)
    BY <1>6 DEF TypeOK
  <2> QED
    BY <2>3, <2>4
<1> QED
  BY <1>4, <1>5, <1>6 DEF WriteOut, b

\* Types of what a pop and a push leave.
LEMMA StacksTyped ==
  ASSUME TypeOK, Control
  PROVE  /\ emptyBuffers # <<>> => /\ Front(emptyBuffers) \in Seq(Buffers)
                                   /\ Last(emptyBuffers) \in Buffers
         /\ curBuffer # Null => Append(toWriteBuffers, curBuffer) \in Seq(Buffers)
         /\ bgPc = "return" => /\ writeQueue # <<>>
                               /\ Last(writeQueue) \in Buffers
                               /\ Front(writeQueue) \in Seq(Buffers \cup {Null})
                               /\ Append(emptyBuffers, Last(writeQueue)) \in Seq(Buffers)
<1>1. emptyBuffers \in Seq(Buffers) /\ toWriteBuffers \in Seq(Buffers)
      /\ writeQueue \in Seq(Buffers \cup {Null}) /\ curBuffer \in Buffers \cup {Null}
  BY DEF TypeOK
<1>2. emptyBuffers # <<>> => Front(emptyBuffers) \in Seq(Buffers) /\ Last(emptyBuffers) \in Buffers
  BY <1>1, FrontIsRest
<1>3. curBuffer # Null => Append(toWriteBuffers, curBuffer) \in Seq(Buffers)
  BY <1>1, PushAdds
<1>4. ASSUME bgPc = "return"
      PROVE  /\ writeQueue # <<>>
             /\ Last(writeQueue) \in Buffers
             /\ Front(writeQueue) \in Seq(Buffers \cup {Null})
  <2>1. writeQueue # <<>> /\ Last(writeQueue) # Null
    BY <1>4 DEF Control
  <2>2. Last(writeQueue) \in Buffers \cup {Null} /\ Front(writeQueue) \in Seq(Buffers \cup {Null})
    BY <1>1, <2>1, FrontIsRest
  <2> QED
    BY <2>1, <2>2
<1>5. bgPc = "return" => Append(emptyBuffers, Last(writeQueue)) \in Seq(Buffers)
  BY <1>1, <1>4, PushAdds
<1> QED
  BY <1>2, <1>3, <1>4, <1>5

LEMMA TypesKept ==
  ASSUME TypeOK, Control, Unique, [Next]_vars
  PROVE  TypeOK'
<1>1. CASE LogInfo
  <2>1. /\ submitted < MaxLines /\ submitted' = submitted + 1
        /\ UNCHANGED <<writeQueue, size, running, bgPc, logFile, destroyed, faults, stoppedAt>>
    BY <1>1 DEF LogInfo
  <2>2. submitted + 1 \in 1..MaxLines /\ submitted + 1 \in 0..MaxLines
    <3>1. submitted \in 0..MaxLines /\ MaxLines \in Nat
      BY AsyncLogerAssumption DEF TypeOK
    <3> QED
      BY <3>1, <2>1
  <2>3. Refuse => refused' \subseteq 1..MaxLines
    BY <2>2 DEF Refuse, TypeOK
  <2>4. \A b \in Buffers : AppendLine(b) =>
          /\ text' \in [Buffers -> Seq(0..MaxLines)]
          /\ aborted' \in {"no", "overflow", "null buffer"}
    <3>1. \A b \in Buffers : AppendLine(b) => text' \in [Buffers -> Seq(0..MaxLines)]
      BY <2>1, AppendLineIs
    <3>2. \A b \in Buffers : AppendLine(b) => aborted' \in {"no", "overflow", "null buffer"}
      BY DEF AppendLine, TypeOK
    <3> QED
      BY <3>1, <3>2
  <2>5. /\ curBuffer' \in Buffers \cup {Null}
        /\ emptyBuffers' \in Seq(Buffers)
        /\ toWriteBuffers' \in Seq(Buffers)
        /\ text' \in [Buffers -> Seq(0..MaxLines)]
        /\ aborted' \in {"no", "overflow", "null buffer"}
        /\ refused' \subseteq 1..MaxLines
    <3>1. CASE LogRefused
      BY <3>1, <2>3 DEF LogRefused, TypeOK, bufferVars
    <3>2. CASE LogAppend
      BY <3>2, <2>4 DEF LogAppend, TypeOK, bufferVars
    <3>3. CASE LogSwap
      BY <3>3, <2>3, <2>4, StacksTyped DEF LogSwap, TypeOK
    <3> QED
      BY <1>1, <3>1, <3>2, <3>3 DEF LogInfo
  <2> QED
    BY <2>1, <2>2, <2>5 DEF TypeOK
<1>2. CASE Stop
  BY <1>2 DEF Stop, TypeOK, bufferVars
<1>3. CASE LoopTest
  BY <1>3 DEF LoopTest, TypeOK, bufferVars, historyVars
<1>4. CASE Collect
  <2>1. writeQueue' \in Seq(Buffers \cup {Null})
    BY <1>4, CollectedIs DEF Collect
  <2>2. curBuffer' \in Buffers \cup {Null} /\ emptyBuffers' \in Seq(Buffers)
    BY <1>4, StacksTyped DEF Collect, ReplaceCurrent, TypeOK
  <2>3. toWriteBuffers' \in Seq(Buffers)
    BY <1>4, EmptySeq DEF Collect, DrainQueue
  <2>4. destroyed' \subseteq Buffers
    <3>1. ToSet(toWriteBuffers) \subseteq Buffers
      BY ElementsTyped DEF TypeOK
    <3>2. ToSet(Front(toWriteBuffers)) \subseteq Buffers
      BY <3>1, DrainedIs DEF Unique
    <3> QED
      BY <1>4, <3>2 DEF Collect, DrainQueue, TypeOK
  <2> QED
    BY <1>4, <2>1, <2>2, <2>3, <2>4 DEF Collect, TypeOK
<1>5. CASE WriteOut
  <2>1. /\ text' \in [Buffers -> Seq(0..MaxLines)]
        /\ logFile' \in Seq(0..MaxLines)
        /\ faults' \in {faults, faults \cup {"short"}, faults \cup {"failed"}}
    BY <1>5, WriteOutIs
  <2>2. bgPc' = "return"
        /\ UNCHANGED <<bufferVars, writeQueue, size, running, aborted,
                       submitted, refused, destroyed, stoppedAt>>
    BY <1>5 DEF WriteOut
  <2> QED
    BY <2>1, <2>2 DEF TypeOK, bufferVars
<1>6. CASE WriteNull
  BY <1>6 DEF WriteNull, TypeOK, bufferVars, historyVars
<1>7. CASE ReturnBuffer
  BY <1>7, StacksTyped DEF ReturnBuffer, TypeOK, historyVars
<1>8. CASE RoundDone
  BY <1>8 DEF RoundDone, TypeOK, bufferVars, historyVars
<1>9. CASE UNCHANGED vars
  BY <1>9 DEF vars, TypeOK, bufferVars, historyVars
<1> QED
  BY <1>1, <1>2, <1>3, <1>4, <1>5, <1>6, <1>7, <1>8, <1>9, StepCases

\* The buffer that was written leaves the end of writeQueue.
LEMMA ReturnedIs ==
  ASSUME TypeOK, Control, Unique, ReturnBuffer
  PROVE  LET b == Last(writeQueue) IN
         /\ b \in Buffers /\ b \in ToSet(writeQueue)
         /\ ToSet(writeQueue') = ToSet(writeQueue) \ {b}
         /\ ToSet(emptyBuffers') = ToSet(emptyBuffers) \cup {b}
         /\ Injective(writeQueue') /\ Injective(emptyBuffers')
         /\ Null \notin ToSet(writeQueue)
<1> DEFINE b == Last(writeQueue)
<1>1. bgPc = "return" /\ emptyBuffers' = Append(emptyBuffers, b) /\ writeQueue' = Front(writeQueue)
  BY DEF ReturnBuffer
<1>2. writeQueue # <<>> /\ b # Null /\ Null \notin ToSet(writeQueue)
  BY <1>1 DEF Control
<1>3. /\ writeQueue \in Seq(Buffers \cup {Null}) /\ emptyBuffers \in Seq(Buffers)
      /\ Injective(writeQueue) /\ Injective(emptyBuffers)
  BY DEF TypeOK, Unique
<1>4. /\ b \in Buffers \cup {Null} /\ b \in ToSet(writeQueue)
      /\ Injective(Front(writeQueue))
      /\ ToSet(writeQueue) = ToSet(Front(writeQueue)) \cup {b}
      /\ b \notin ToSet(Front(writeQueue))
  BY <1>2, <1>3, PopTakes
<1>5. b \notin ToSet(emptyBuffers) /\ b \in Buffers
  BY <1>2, <1>4 DEF Unique, Disjoint
<1> HIDE DEF b
<1>6. /\ ToSet(Append(emptyBuffers, b)) = ToSet(emptyBuffers) \cup {b}
      /\ Injective(Append(emptyBuffers, b))
  BY <1>3, <1>5, PushAdds
<1> QED
  BY <1>1, <1>2, <1>4, <1>5, <1>6 DEF b

LEMMA ControlKept ==
  ASSUME TypeOK, Control, Unique, [Next]_vars
  PROVE  Control'
<1>1. CASE LogInfo
  BY <1>1 DEF LogInfo, Control
<1>2. CASE Stop
  <2>1. /\ running' = FALSE /\ stoppedAt' = bgPc /\ bgPc # "not yet"
        /\ UNCHANGED <<writeQueue, bgPc, destroyed>>
    BY <1>2 DEF Stop, TypeOK
  <2> QED
    BY <2>1 DEF Control
<1>3. CASE LoopTest
  BY <1>3 DEF LoopTest, Control, bufferVars, historyVars, ToSet
<1>4. CASE Collect
  <2>1. bgPc = "wait" /\ writeQueue = <<>> /\ Null \notin ToSet(writeQueue)
    BY <1>4 DEF Collect, WaitEnds, Control
  <2>2. destroyed = {}
    BY <2>1 DEF Control
  <2>3. Null \in ToSet(writeQueue') <=> Len(toWriteBuffers) >= 2
    BY <1>4, CollectedIs DEF Collect
  <2>4. Null \in ToSet(writeQueue') => Last(writeQueue') = Null
    BY <1>4, CollectedIs DEF Collect
  <2>5. destroyed' # {} => Null \in ToSet(writeQueue')
    BY <1>4, <2>2, <2>3, DrainedIs DEF Collect, DrainQueue, Unique
  <2> QED
    BY <1>4, <2>4, <2>5 DEF Collect, Control
<1>5. CASE WriteOut
  BY <1>5 DEF WriteOut, Control
<1>6. CASE WriteNull
  BY <1>6 DEF WriteNull, Control, bufferVars, historyVars
<1>7. CASE ReturnBuffer
  <2>1. Null \notin ToSet(writeQueue) /\ Null \notin ToSet(writeQueue')
    BY <1>7, ReturnedIs
  <2> QED
    BY <1>7, <2>1 DEF ReturnBuffer, Control, historyVars
<1>8. CASE RoundDone
  <2>1. ToSet(<<>>) = {}
    BY DEF ToSet
  <2>2. Null \notin ToSet(writeQueue)
    BY <1>8, <2>1 DEF RoundDone
  <2> QED
    BY <1>8, <2>2 DEF RoundDone, Control, bufferVars, historyVars
<1>9. CASE UNCHANGED vars
  BY <1>9 DEF vars, Control, bufferVars, historyVars
<1> QED
  BY <1>1, <1>2, <1>3, <1>4, <1>5, <1>6, <1>7, <1>8, <1>9, StepCases

\* The places after a step, as sets of buffers.
LEMMA SwapIs ==
  ASSUME TypeOK, Unique, LogSwap
  PROVE  /\ curBuffer # Null /\ curBuffer \in Buffers
         /\ ToSet(toWriteBuffers') = ToSet(toWriteBuffers) \cup {curBuffer}
         /\ Injective(toWriteBuffers') /\ Injective(emptyBuffers')
         /\ \/ /\ emptyBuffers # <<>>
               /\ curBuffer' = Last(emptyBuffers) /\ curBuffer' \in Buffers
               /\ curBuffer' \in ToSet(emptyBuffers) /\ curBuffer' # Null
               /\ ToSet(emptyBuffers') = ToSet(emptyBuffers) \ {curBuffer'}
               /\ AppendLine(curBuffer') /\ refused' = refused
            \/ /\ emptyBuffers = <<>> /\ curBuffer' = Null /\ Refuse
               /\ UNCHANGED <<emptyBuffers, text, aborted>>
<1>1. /\ curBuffer # Null /\ curBuffer \in Buffers
      /\ toWriteBuffers' = Append(toWriteBuffers, curBuffer)
  BY DEF LogSwap, TypeOK
<1>2. /\ toWriteBuffers \in Seq(Buffers) /\ Injective(toWriteBuffers)
      /\ emptyBuffers \in Seq(Buffers) /\ Injective(emptyBuffers)
      /\ curBuffer \notin ToSet(toWriteBuffers)
  BY <1>1 DEF TypeOK, Unique, Disjoint
<1>3. /\ ToSet(toWriteBuffers') = ToSet(toWriteBuffers) \cup {curBuffer}
      /\ Injective(toWriteBuffers')
  BY <1>1, <1>2, PushAdds
<1>4. CASE /\ emptyBuffers # <<>>
           /\ curBuffer' = Last(emptyBuffers)
           /\ emptyBuffers' = Front(emptyBuffers)
           /\ AppendLine(Last(emptyBuffers))
           /\ UNCHANGED refused
  <2>1. /\ Last(emptyBuffers) \in Buffers /\ Last(emptyBuffers) \in ToSet(emptyBuffers)
        /\ Injective(Front(emptyBuffers))
        /\ ToSet(emptyBuffers) = ToSet(Front(emptyBuffers)) \cup {Last(emptyBuffers)}
        /\ Last(emptyBuffers) # Null => Last(emptyBuffers) \notin ToSet(Front(emptyBuffers))
    BY <1>2, <1>4, PopTakes
  <2>2. Last(emptyBuffers) # Null
    BY <2>1, BufferIsNotNull
  <2> QED
    BY <1>1, <1>3, <1>4, <2>1, <2>2
<1>5. CASE /\ emptyBuffers = <<>>
           /\ curBuffer' = Null
           /\ Refuse
           /\ UNCHANGED <<emptyBuffers, text, aborted>>
  BY <1>1, <1>2, <1>3, <1>5
<1> QED
  BY <1>4, <1>5 DEF LogSwap

LEMMA ReplaceIs ==
  ASSUME TypeOK, Unique, ReplaceCurrent
  PROVE  /\ Injective(emptyBuffers')
         /\ \/ /\ curBuffer # Null /\ emptyBuffers # <<>>
               /\ curBuffer' = Last(emptyBuffers)
               /\ curBuffer' \in ToSet(emptyBuffers) /\ curBuffer' # Null
               /\ ToSet(emptyBuffers') = ToSet(emptyBuffers) \ {curBuffer'}
            \/ /\ curBuffer = Null \/ emptyBuffers = <<>>
               /\ curBuffer' = Null /\ UNCHANGED emptyBuffers
<1>1. emptyBuffers \in Seq(Buffers) /\ Injective(emptyBuffers)
  BY DEF TypeOK, Unique
<1>2. CASE curBuffer # Null /\ emptyBuffers # <<>>
  <2>1. /\ Last(emptyBuffers) \in Buffers /\ Last(emptyBuffers) \in ToSet(emptyBuffers)
        /\ Injective(Front(emptyBuffers))
        /\ ToSet(emptyBuffers) = ToSet(Front(emptyBuffers)) \cup {Last(emptyBuffers)}
        /\ Last(emptyBuffers) # Null => Last(emptyBuffers) \notin ToSet(Front(emptyBuffers))
    BY <1>1, <1>2, PopTakes
  <2>2. Last(emptyBuffers) # Null
    BY <2>1, BufferIsNotNull
  <2>3. curBuffer' = Last(emptyBuffers) /\ emptyBuffers' = Front(emptyBuffers)
    BY <1>2 DEF ReplaceCurrent
  <2> QED
    BY <1>2, <2>1, <2>2, <2>3
<1>3. CASE ~(curBuffer # Null /\ emptyBuffers # <<>>)
  BY <1>1, <1>3 DEF ReplaceCurrent
<1> QED
  BY <1>2, <1>3

LEMMA UniqueKept ==
  ASSUME TypeOK, Control, Unique, [Next]_vars
  PROVE  Unique'
<1> DEFINE E == ToSet(emptyBuffers)
           T == ToSet(toWriteBuffers)
           W == ToSet(writeQueue)
<1>1. CASE UNCHANGED <<bufferVars, writeQueue, destroyed>>
  BY <1>1 DEF Unique, bufferVars
<1>2. CASE LogSwap /\ LogInfo
  <2>1. UNCHANGED <<writeQueue, destroyed>>
    BY <1>2 DEF LogInfo
  <2>2. /\ Injective(toWriteBuffers') /\ Injective(emptyBuffers') /\ Injective(writeQueue')
    BY <1>2, <2>1, SwapIs DEF Unique
  <2>3. /\ curBuffer # Null /\ T' = T \cup {curBuffer}
        /\ \/ curBuffer' \in E /\ E' = E \ {curBuffer'} /\ curBuffer' # Null
           \/ curBuffer' = Null /\ E' = E
    BY <1>2, SwapIs
  <2> HIDE DEF E, T, W
  <2>4. UNCHANGED <<W, destroyed>>
    BY <2>1 DEF W
  <2> QED
    BY <2>2, <2>3, <2>4 DEF Unique, Disjoint, E, T, W
<1>3. CASE Collect
  <2>1. /\ writeQueue' = Current \o Drained /\ ReplaceCurrent /\ DrainQueue
        /\ bgPc = "wait" /\ writeQueue = <<>>
    BY <1>3 DEF Collect, WaitEnds, Control
  <2> DEFINE F == ToSet(Front(toWriteBuffers))
  <2>2. /\ Injective(emptyBuffers') /\ Injective(writeQueue')
        /\ \/ curBuffer' \in E /\ E' = E \ {curBuffer'} /\ curBuffer' # Null
           \/ curBuffer' = Null /\ E' = E
    BY <2>1, ReplaceIs, CollectedIs
  <2>3. /\ W' \ {Null} \subseteq {curBuffer} \cup (T \ F)
        /\ {curBuffer} \cup T \subseteq W' \cup F \cup {Null}
    BY <2>1, CollectedIs
  <2>4. F \subseteq T
    BY DrainedIs DEF Unique
  <2>5. destroyed' = destroyed \cup F /\ toWriteBuffers' = <<>>
    BY <2>1 DEF DrainQueue
  <2>6. T' = {} /\ W = {} /\ Injective(toWriteBuffers')
    BY <2>1, <2>5 DEF ToSet, Injective
  <2> HIDE DEF E, T, W, F
  <2>7. /\ Disjoint({curBuffer}, E) /\ Disjoint({curBuffer}, T) /\ Disjoint(E, T)
        /\ Disjoint(destroyed, {curBuffer} \cup E \cup T \cup W)
        /\ Buffers \subseteq {curBuffer} \cup E \cup T \cup W \cup destroyed
    BY DEF Unique, E, T, W
  <2>8. /\ Disjoint({curBuffer'}, E') /\ Disjoint({curBuffer'}, T')
        /\ Disjoint({curBuffer'}, W') /\ Disjoint(E', T')
        /\ Disjoint(E', W') /\ Disjoint(T', W')
    BY <2>2, <2>3, <2>6, <2>7 DEF Disjoint
  <2>9. Disjoint(destroyed', {curBuffer'} \cup E' \cup T' \cup W')
    <3>1. Disjoint(F, {curBuffer} \cup E) /\ Disjoint(F, W')
      BY <2>3, <2>4, <2>7 DEF Disjoint
    <3>2. {curBuffer'} \cup E' \cup T' \subseteq E \cup {Null}
      BY <2>2, <2>6
    <3>3. Disjoint(destroyed, W')
      BY <2>3, <2>7 DEF Disjoint
    <3> QED
      BY <2>5, <2>7, <3>1, <3>2, <3>3 DEF Disjoint
  <2>10. Buffers \subseteq {curBuffer'} \cup E' \cup T' \cup W' \cup destroyed'
    <3>1. E \subseteq {curBuffer'} \cup E'
      BY <2>2
    <3> QED
      BY <2>3, <2>5, <2>6, <2>7, <3>1, BufferIsNotNull
  <2> QED
    BY <2>2, <2>6, <2>8, <2>9, <2>10 DEF Unique, E, T, W
<1>4. CASE ReturnBuffer
  <2> DEFINE b == Last(writeQueue)
  <2>1. /\ b \in W /\ W' = W \ {b} /\ E' = E \cup {b}
        /\ Injective(writeQueue') /\ Injective(emptyBuffers')
        /\ b \in Buffers
    BY <1>4, ReturnedIs
  <2>2. UNCHANGED <<curBuffer, toWriteBuffers, destroyed>>
    BY <1>4 DEF ReturnBuffer, historyVars
  <2>3. b # Null
    BY <2>1, BufferIsNotNull
  <2> HIDE DEF E, W, b
  <2> QED
    BY <2>1, <2>2, <2>3 DEF Unique, Disjoint, E, W
<1>5. CASE LogRefused /\ LogInfo
  BY <1>1, <1>5 DEF LogRefused, LogInfo
<1>6. CASE LogAppend /\ LogInfo
  BY <1>1, <1>6 DEF LogAppend, LogInfo
<1>7. CASE Stop \/ LoopTest \/ WriteOut \/ WriteNull \/ RoundDone \/ UNCHANGED vars
  BY <1>1, <1>7 DEF Stop, LoopTest, WriteOut, WriteNull, RoundDone, vars, historyVars
<1> QED
  BY <1>2, <1>3, <1>4, <1>5, <1>6, <1>7, StepCases

LEMMA LinesKept ==
  ASSUME Base, [Next]_vars, Unique'
  PROVE  Lines'
<1>0. TypeOK /\ Control /\ Unique /\ Lines
  BY DEF Base
<1>1. CASE UNCHANGED <<logFile, text, submitted>>
  BY <1>1, <1>0 DEF Lines
<1>2. submitted \in Nat
  BY <1>0, SubmittedIsNat
<1>3. ASSUME LogInfo, NEW b \in Buffers, AppendLine(b)
      PROVE  Lines'
  <2>1. submitted < MaxLines /\ submitted' = submitted + 1 /\ UNCHANGED logFile
    BY <1>3 DEF LogInfo
  <2>2. /\ \A a \in Buffers : a # b => text'[a] = text[a]
        /\ ToSet(text'[b]) = ToSet(text[b]) \cup {submitted + 1}
    BY <1>0, <1>3, <2>1, AppendLineIs
  <2>3. 0..submitted \subseteq 0..submitted' /\ submitted + 1 \in 0..submitted'
        /\ submitted + 1 \notin 0..submitted
    BY <1>2, <2>1
  <2>4. \A a \in Buffers : /\ ToSet(text'[a]) \subseteq ToSet(text[a]) \cup {submitted + 1}
                           /\ a # b => ToSet(text'[a]) = ToSet(text[a])
                           /\ ToSet(text[a]) \subseteq 0..submitted
    BY <1>0, <2>2 DEF Lines
  <2>5. ToSet(logFile') \subseteq 0..submitted /\ ToSet(logFile') = ToSet(logFile)
    BY <1>0, <2>1 DEF Lines
  <2>6. \A a \in Buffers : /\ ToSet(text'[a]) \subseteq 0..submitted'
                           /\ Disjoint(ToSet(logFile'), ToSet(text'[a]))
    BY <1>0, <2>3, <2>4, <2>5 DEF Lines, Disjoint
  <2>7. \A a, c \in Buffers : a # c => Disjoint(ToSet(text'[a]), ToSet(text'[c]))
    <3> SUFFICES ASSUME NEW a \in Buffers, NEW c \in Buffers, a # c
                 PROVE  Disjoint(ToSet(text'[a]), ToSet(text'[c]))
      OBVIOUS
    <3>1. Disjoint(ToSet(text[a]), ToSet(text[c]))
      BY <1>0 DEF Lines
    <3>2. a # b \/ c # b
      OBVIOUS
    <3> QED
      BY <2>3, <2>4, <3>1, <3>2 DEF Disjoint
  <2> QED
    BY <2>3, <2>5, <2>6, <2>7 DEF Lines
<1>4. CASE (LogRefused /\ LogInfo) \/ (LogSwap /\ LogInfo /\ text' = text)
  <2>1. submitted' = submitted + 1 /\ UNCHANGED <<logFile, text>>
    BY <1>4 DEF LogRefused, LogInfo
  <2>2. 0..submitted \subseteq 0..submitted'
    BY <1>2, <2>1
  <2> QED
    BY <1>0, <2>1, <2>2 DEF Lines
<1>5. CASE WriteOut
  <2>1. PICK b \in Buffers, add \in Seq(0..MaxLines) :
           /\ ToSet(logFile') = ToSet(logFile) \cup ToSet(add)
           /\ \A a \in Buffers : a # b => text'[a] = text[a]
           /\ ToSet(add) \subseteq ToSet(text[b])
           /\ \/ text'[b] = <<>>
              \/ logFile' = logFile /\ text' = text
    BY <1>0, <1>5, WriteOutIs
  <2>2. submitted' = submitted
    BY <1>5 DEF WriteOut
  <2>3. CASE logFile' = logFile /\ text' = text
    BY <1>1, <2>2, <2>3
  <2>4. CASE text'[b] = <<>>
    <3>1. ToSet(text'[b]) = {}
      BY <2>4 DEF ToSet
    <3>2. \A a \in Buffers : \/ ToSet(text'[a]) = {}
                             \/ a # b /\ ToSet(text'[a]) = ToSet(text[a])
      BY <2>1, <3>1
    <3>3. ToSet(logFile') \subseteq 0..submitted
      BY <1>0, <2>1 DEF Lines
    <3>4. \A a \in Buffers : /\ ToSet(text'[a]) \subseteq 0..submitted
                             /\ Disjoint(ToSet(logFile'), ToSet(text'[a]))
      BY <1>0, <2>1, <3>2 DEF Lines, Disjoint
    <3>5. \A a, c \in Buffers : a # c => Disjoint(ToSet(text'[a]), ToSet(text'[c]))
      BY <1>0, <3>2 DEF Lines, Disjoint
    <3> QED
      BY <2>2, <3>3, <3>4, <3>5 DEF Lines
  <2> QED
    BY <2>1, <2>3, <2>4
<1>6. CASE LogAppend /\ LogInfo
  <2>1. curBuffer \in Buffers /\ AppendLine(curBuffer)
    BY <1>0, <1>6 DEF LogAppend, TypeOK
  <2> QED
    BY <1>3, <1>6, <2>1
<1>7. CASE LogSwap /\ LogInfo
  <2>1. \/ curBuffer' \in Buffers /\ AppendLine(curBuffer')
        \/ text' = text
    BY <1>0, <1>7, SwapIs
  <2>2. CASE text' = text
    BY <1>4, <1>7, <2>2
  <2>3. CASE \E b \in Buffers : AppendLine(b)
    BY <1>3, <1>7, <2>3
  <2> QED
    BY <2>1, <2>2, <2>3
<1>8. CASE Stop \/ LoopTest \/ Collect \/ WriteNull \/ ReturnBuffer \/ RoundDone \/ UNCHANGED vars
  BY <1>1, <1>8 DEF Stop, LoopTest, Collect, WriteNull, ReturnBuffer, RoundDone, vars, historyVars
<1> QED
  BY <1>4, <1>5, <1>6, <1>7, <1>8, StepCases

LEMMA InitBase == Init => Base
<1> SUFFICES ASSUME Init PROVE Base
  OBVIOUS
<1>1. TypeOK
  BY InitTypes
<1>2. /\ curBuffer = NumBuffers /\ toWriteBuffers = <<>> /\ writeQueue = <<>>
      /\ running = TRUE /\ bgPc = "while" /\ logFile = <<>> /\ submitted = 0
      /\ destroyed = {} /\ stoppedAt = "not yet"
  BY DEF Init
<1>3. emptyBuffers = [i \in 1..(NumBuffers - 1) |-> i]
  BY DEF Init
<1>4. ToSet(<<>>) = {} /\ Injective(<<>>)
  BY DEF ToSet, Injective
<1>5. Control
  BY <1>2, <1>4 DEF Control
<1>6. /\ ToSet(emptyBuffers) = 1..(NumBuffers - 1)
      /\ Injective(emptyBuffers)
  BY <1>3 DEF ToSet, Injective
<1>7. /\ {NumBuffers} \cap 1..(NumBuffers - 1) = {}
      /\ Buffers = 1..(NumBuffers - 1) \cup {NumBuffers}
  BY AsyncLogerAssumption DEF Buffers
<1>8. Unique
  BY <1>2, <1>4, <1>6, <1>7 DEF Unique, Disjoint
<1>9. \A b \in Buffers : ToSet(text[b]) \subseteq {0}
  <2> TAKE b \in Buffers
  <2>1. PICK n \in FreshEnds : text[b] = [i \in 1..n |-> 0]
    BY DEF Init, Junk
  <2> QED
    BY <2>1 DEF ToSet
<1>10. Lines
  <2>1. 0..submitted = {0}
    <3>1. 0..0 = {0}
      OBVIOUS
    <3> QED
      BY <1>2, <3>1
  <2> QED
    BY <1>2, <1>4, <1>9, <2>1 DEF Lines, Disjoint, Null
<1> QED
  BY <1>1, <1>5, <1>8, <1>10 DEF Base

LEMMA BaseKept ==
  ASSUME Base, [Next]_vars
  PROVE  Base'
<1>1. TypeOK /\ Control /\ Unique
  BY DEF Base
<1>2. TypeOK' /\ Control' /\ Unique'
  BY <1>1, TypesKept, ControlKept, UniqueKept
<1>3. Lines'
  BY <1>2, LinesKept
<1> QED
  BY <1>2, <1>3 DEF Base

LEMMA AlwaysBase == Spec => []Base
BY InitBase, BaseKept, PTL DEF Spec

\* The variables of AsyncLoger.cpp and AsyncLoger.h keep their types, whatever Buffer's
\* constructor leaves in bufferSize and end, and the moved-from pointers are
\* the only null ones.
THEOREM LoggerTypeCorrect == Spec => []TypeOK
<1>1. Base => TypeOK
  BY DEF Base
<1> QED
  BY <1>1, AlwaysBase, PTL

\* A buffer that was not destroyed is reachable through exactly one pointer of
\* curBuffer, emptyBuffers, toWriteBuffers and writeQueue, and a destroyed one
\* through none: no caller of logInfo reaches the buffer that writeToFile reads
\* without the mutex.
THEOREM BuffersNeverShared == Spec => []BuffersConserved
<1>1. Base => BuffersConserved
  <2> SUFFICES ASSUME Base PROVE BuffersConserved
    OBVIOUS
  <2>1. TypeOK /\ Unique
    BY DEF Base
  <2>2. /\ DOMAIN Pointers = {"current", "empty", "full", "writing"}
        /\ Pointers["current"] = Current /\ Pointers["empty"] = emptyBuffers
        /\ Pointers["full"] = toWriteBuffers /\ Pointers["writing"] = writeQueue
    BY DEF Pointers
  <2>3. /\ Injective(Current) /\ ToSet(Current) = {curBuffer} \ {Null}
    BY DEF Current, Injective, ToSet
  <2>4. \A v \in DOMAIN Pointers : Injective(Pointers[v])
    BY <2>1, <2>2, <2>3 DEF Unique
  <2>5. \A v, w \in DOMAIN Pointers :
          v # w => Disjoint(ToSet(Pointers[v]), ToSet(Pointers[w]))
    <3> DEFINE C == ToSet(Current)
               E == ToSet(emptyBuffers)
               T == ToSet(toWriteBuffers)
               W == ToSet(writeQueue)
    <3>1. /\ Disjoint(C, E) /\ Disjoint(C, T) /\ Disjoint(C, W)
          /\ Disjoint(E, T) /\ Disjoint(E, W) /\ Disjoint(T, W)
      BY <2>1, <2>3 DEF Unique, Disjoint
    <3> HIDE DEF C, E, T, W
    <3>2. /\ Disjoint(E, C) /\ Disjoint(T, C) /\ Disjoint(W, C)
          /\ Disjoint(T, E) /\ Disjoint(W, E) /\ Disjoint(W, T)
      BY <3>1 DEF Disjoint
    <3> QED
      BY <3>1, <3>2, <2>2 DEF C, E, T, W
  <2>6. \A v, w \in DOMAIN Pointers :
          \A i \in DOMAIN Pointers[v], j \in DOMAIN Pointers[w] :
            Pointers[v][i] = Pointers[w][j] /\ Pointers[v][i] # Null => v = w /\ i = j
    BY <2>4, <2>5 DEF Injective, Disjoint, ToSet
  <2>7. UNION {ToSet(Pointers[v]) : v \in DOMAIN Pointers}
          = ToSet(Current) \cup ToSet(emptyBuffers)
              \cup ToSet(toWriteBuffers) \cup ToSet(writeQueue)
    <3>1. UNION {ToSet(Pointers[v]) : v \in DOMAIN Pointers}
            = ToSet(Pointers["current"]) \cup ToSet(Pointers["empty"])
                \cup ToSet(Pointers["full"]) \cup ToSet(Pointers["writing"])
      BY <2>2
    <3> QED
      BY <3>1, <2>2
  <2>8. /\ ToSet(emptyBuffers) \subseteq Buffers /\ ToSet(toWriteBuffers) \subseteq Buffers
        /\ ToSet(writeQueue) \subseteq Buffers \cup {Null} /\ curBuffer \in Buffers \cup {Null}
    BY <2>1, ElementsTyped DEF TypeOK
  <2>9. (ToSet(Current) \cup ToSet(emptyBuffers)
          \cup ToSet(toWriteBuffers) \cup ToSet(writeQueue)) \ {Null} = Buffers \ destroyed
    <3> DEFINE E == ToSet(emptyBuffers)
               T == ToSet(toWriteBuffers)
               W == ToSet(writeQueue)
    <3>1. /\ Disjoint(destroyed, {curBuffer} \cup E \cup T \cup W)
          /\ Buffers \subseteq {curBuffer} \cup E \cup T \cup W \cup destroyed
      BY <2>1 DEF Unique
    <3> HIDE DEF E, T, W
    <3>2. (({curBuffer} \ {Null}) \cup E \cup T \cup W) \ {Null} = Buffers \ destroyed
      BY <3>1, <2>8, BufferIsNotNull DEF Disjoint, E, T, W
    <3> QED
      BY <3>2, <2>3, <2>8, BufferIsNotNull DEF E, T, W
  <2> QED
    <3>1. (UNION {ToSet(Pointers[v]) : v \in DOMAIN Pointers}) \ {Null} = Buffers \ destroyed
      BY ONLY <2>7, <2>9
    <3> QED
      BY ONLY <2>6, <3>1 DEF BuffersConserved
<1> QED
  BY <1>1, AlwaysBase, PTL

-----------------------------------------------------------------------------
(* No line is lost. *)

\* Where the lines that were accepted are.
Kept ==
  faults = {} => \A k \in 1..MaxLines : Stored(k) =>
    \/ k \in ToSet(logFile)
    \/ \E b \in Buffers : k \in ToSet(text[b])

LEMMA KeptKept ==
  ASSUME Base, Kept, [Next]_vars
  PROVE  Kept'
<1>0. TypeOK /\ Unique
  BY DEF Base
<1>1. submitted \in Int
  BY <1>0, SubmittedIsNat
<1>2. CASE UNCHANGED <<faults, submitted, refused, logFile, text>>
  BY <1>2 DEF Kept, Stored
<1>3. ASSUME LogInfo, Refuse, text' = text
      PROVE  Kept'
  <2>1. /\ submitted' = submitted + 1 /\ UNCHANGED <<logFile, faults>>
        /\ refused' = refused \cup {submitted + 1}
    BY <1>3 DEF LogInfo, Refuse
  <2>2. \A k \in 1..MaxLines : Stored(k)' => Stored(k)
    BY <1>1, <2>1 DEF Stored
  <2> QED
    BY <1>3, <2>1, <2>2 DEF Kept
<1>4. ASSUME LogInfo, NEW b \in Buffers, AppendLine(b), refused' = refused
      PROVE  Kept'
  <2>1. /\ submitted' = submitted + 1 /\ UNCHANGED <<logFile, faults>>
        /\ submitted < MaxLines
    BY <1>4 DEF LogInfo
  <2>2. /\ \A a \in Buffers : a # b => text'[a] = text[a]
        /\ ToSet(text'[b]) = ToSet(text[b]) \cup {submitted + 1}
    BY <1>0, <1>4, <2>1, AppendLineIs
  <2>3. \A k \in 1..MaxLines : Stored(k)' => Stored(k) \/ k = submitted + 1
    BY <1>1, <1>4, <2>1 DEF Stored
  <2>4. \A a \in Buffers : ToSet(text[a]) \subseteq ToSet(text'[a])
    BY <2>2
  <2> QED
    BY <2>1, <2>2, <2>3, <2>4 DEF Kept
<1>5. CASE WriteOut
  <2>1. PICK b \in Buffers, add \in Seq(0..MaxLines) :
           /\ ToSet(logFile') = ToSet(logFile) \cup ToSet(add)
           /\ \A a \in Buffers : a # b => text'[a] = text[a]
           /\ \/ add = text[b] /\ faults' = faults
              \/ faults' = faults \cup {"short"}
              \/ faults' = faults \cup {"failed"}
    BY <1>0, <1>5, WriteOutIs
  <2>2. UNCHANGED <<submitted, refused>>
    BY <1>5 DEF WriteOut
  <2>3. faults' = {} => faults = {} /\ add = text[b]
    BY <2>1
  <2>4. \A k : Stored(k)' = Stored(k)
    BY <2>2 DEF Stored
  <2> QED
    BY <2>1, <2>3, <2>4 DEF Kept
<1>6. CASE LogRefused /\ LogInfo
  BY <1>3, <1>6 DEF LogRefused
<1>7. CASE LogAppend /\ LogInfo
  BY <1>4, <1>7, <1>0 DEF LogAppend, TypeOK
<1>8. CASE LogSwap /\ LogInfo
  <2>1. \/ curBuffer' \in Buffers /\ AppendLine(curBuffer') /\ refused' = refused
        \/ Refuse /\ text' = text
    BY <1>0, <1>8, SwapIs
  <2>2. CASE \E b \in Buffers : AppendLine(b) /\ refused' = refused
    BY <1>4, <1>8, <2>2
  <2> QED
    BY <1>3, <1>8, <2>1, <2>2
<1>9. CASE Stop \/ LoopTest \/ Collect \/ WriteNull \/ ReturnBuffer \/ RoundDone \/ UNCHANGED vars
  BY <1>2, <1>9 DEF Stop, LoopTest, Collect, WriteNull, ReturnBuffer, RoundDone, vars, historyVars
<1> QED
  BY <1>5, <1>6, <1>7, <1>8, <1>9, StepCases

LEMMA AlwaysKept == Spec => []Kept
<1>1. Init => Kept
  <2>1. Init => submitted = 0
    BY DEF Init
  <2> QED
    BY <2>1 DEF Kept, Stored
<1> QED
  BY <1>1, AlwaysBase, KeptKept, PTL DEF Spec

-----------------------------------------------------------------------------
(* When a line is refused. *)

\* The background thread collects two buffers at most, unless it is lost.
Pair ==
  Null \notin ToSet(writeQueue) =>
    \E x, y \in Buffers : ToSet(writeQueue) \subseteq {x, y}

\* A queue of at most one buffer.
LEMMA AtMostOneQueued ==
  ASSUME TypeOK, ~(Len(toWriteBuffers) >= 2)
  PROVE  \E x \in Buffers : ToSet(toWriteBuffers) \subseteq {x}
<1> DEFINE n == Len(toWriteBuffers)
<1>1. /\ toWriteBuffers \in Seq(Buffers) /\ n \in Nat /\ DOMAIN toWriteBuffers = 1..n
  BY LenProperties DEF TypeOK
<1>2. n = 0 \/ n = 1
  <2>1. ~(n >= 2)
    OBVIOUS
  <2> HIDE DEF n
  <2> QED
    BY <1>1, <2>1
<1> HIDE DEF n
<1>3. CASE n = 0
  <2>1. 1..n = {} /\ 1 \in Buffers
    BY <1>3, AsyncLogerAssumption DEF Buffers
  <2> QED
    BY <1>1, <2>1 DEF ToSet
<1>4. CASE n = 1
  <2>1. 1..n = {1} /\ 1 \in 1..n
    BY <1>4
  <2>2. toWriteBuffers[1] \in Buffers
    BY <1>1, <2>1, ElementOfSeq DEF n
  <2> QED
    BY <1>1, <2>1, <2>2 DEF ToSet
<1> QED
  BY <1>2, <1>3, <1>4

LEMMA PairKept ==
  ASSUME Base, Pair, [Next]_vars
  PROVE  Pair'
<1>0. TypeOK /\ Control /\ Unique
  BY DEF Base
<1>1. CASE UNCHANGED writeQueue
  BY <1>1 DEF Pair
<1>2. CASE Collect
  <2>1. /\ ToSet(writeQueue') \ {Null} \subseteq {curBuffer} \cup ToSet(toWriteBuffers)
        /\ Null \in ToSet(writeQueue') <=> Len(toWriteBuffers) >= 2
    BY <1>0, <1>2, CollectedIs DEF Collect
  <2>2. SUFFICES ASSUME Null \notin ToSet(writeQueue')
                 PROVE  \E x, y \in Buffers : ToSet(writeQueue') \subseteq {x, y}
    BY DEF Pair
  <2>3. PICK x \in Buffers : ToSet(toWriteBuffers) \subseteq {x}
    BY <1>0, <2>1, <2>2, AtMostOneQueued
  <2>4. curBuffer \in Buffers \/ curBuffer = Null
    BY <1>0 DEF TypeOK
  <2> QED
    BY <2>1, <2>2, <2>3, <2>4
<1>3. CASE ReturnBuffer
  <2>1. /\ ToSet(writeQueue') \subseteq ToSet(writeQueue)
        /\ Null \notin ToSet(writeQueue)
    BY <1>0, <1>3, ReturnedIs
  <2> QED
    BY <2>1 DEF Pair
<1> QED
  BY <1>1, <1>2, <1>3, StepCases
     DEF LogInfo, Stop, LoopTest, WriteOut, WriteNull, RoundDone, vars

LEMMA DoomedKept ==
  ASSUME NumBuffers >= 4, Base, Pair, RefusesOnlyWhenDoomed, [Next]_vars
  PROVE  RefusesOnlyWhenDoomed'
<1>0. TypeOK /\ Control /\ Unique
  BY DEF Base
<1>1. CASE UNCHANGED <<curBuffer, toWriteBuffers, writeQueue>>
  BY <1>1 DEF RefusesOnlyWhenDoomed
<1>2. 1 \in Buffers /\ 2 \in Buffers /\ 3 \in Buffers /\ 4 \in Buffers
  BY AsyncLogerAssumption DEF Buffers
<1>3. ToSet(<<>>) = {}
  BY DEF ToSet
<1>4. Buffers \subseteq {curBuffer} \cup ToSet(emptyBuffers) \cup ToSet(toWriteBuffers)
                          \cup ToSet(writeQueue) \cup destroyed
  BY <1>0 DEF Unique
<1>5. Null \notin ToSet(writeQueue) => destroyed = {}
  BY <1>0 DEF Control
<1>6. CASE LogSwap /\ LogInfo
  <2> SUFFICES ASSUME curBuffer' = Null, Null \notin ToSet(writeQueue)
               PROVE  Len(toWriteBuffers') >= 2
    BY <1>6 DEF RefusesOnlyWhenDoomed, LogInfo
  <2>1. emptyBuffers = <<>>
    BY <1>0, <1>6, SwapIs
  <2>2. PICK x, y \in Buffers : ToSet(writeQueue) \subseteq {x, y}
    BY DEF Pair
  <2>3. ToSet(toWriteBuffers) # {}
    <3> SUFFICES ASSUME ToSet(toWriteBuffers) = {} PROVE FALSE
      OBVIOUS
    <3>1. Buffers \subseteq {curBuffer, x, y}
      BY <1>3, <1>4, <1>5, <2>1, <2>2
    <3> QED
      BY <1>2, <3>1
  <2>4. /\ toWriteBuffers \in Seq(Buffers) /\ curBuffer \in Buffers
        /\ toWriteBuffers' = Append(toWriteBuffers, curBuffer)
    BY <1>0, <1>6 DEF LogSwap, TypeOK
  <2>5. Len(toWriteBuffers) \in Nat /\ Len(toWriteBuffers) # 0
    BY <2>3, <2>4, <1>3, EmptySeq, LenProperties
  <2>6. Len(toWriteBuffers') = Len(toWriteBuffers) + 1
    BY <2>4, AppendProperties
  <2> QED
    BY <2>5, <2>6
<1>7. CASE Collect
  <2> SUFFICES ASSUME curBuffer' = Null, ~(Len(toWriteBuffers) >= 2)
               PROVE  FALSE
    BY <1>0, <1>7, CollectedIs DEF RefusesOnlyWhenDoomed, Collect
  <2>1. writeQueue = <<>> /\ ToSet(writeQueue) = {}
    BY <1>0, <1>3, <1>7 DEF Collect, WaitEnds, Control
  <2>2. curBuffer # Null
    BY <2>1 DEF RefusesOnlyWhenDoomed
  <2>3. emptyBuffers = <<>>
    BY <1>0, <1>7, <2>2, ReplaceIs DEF Collect
  <2>4. PICK x \in Buffers : ToSet(toWriteBuffers) \subseteq {x}
    BY <1>0, AtMostOneQueued
  <2>5. Buffers \subseteq {curBuffer, x}
    BY <1>3, <1>4, <1>5, <2>1, <2>3, <2>4
  <2> QED
    BY <1>2, <2>5
<1>8. CASE ReturnBuffer
  BY <1>0, <1>8, ReturnedIs DEF ReturnBuffer, RefusesOnlyWhenDoomed
<1>9. CASE LogRefused /\ LogInfo
  BY <1>1, <1>9 DEF LogRefused, LogInfo, bufferVars
<1>10. CASE LogAppend /\ LogInfo
  BY <1>1, <1>10 DEF LogAppend, LogInfo, bufferVars
<1>11. CASE Stop \/ LoopTest \/ WriteOut \/ WriteNull \/ RoundDone \/ UNCHANGED vars
  BY <1>1, <1>11 DEF Stop, LoopTest, WriteOut, WriteNull, RoundDone, vars, bufferVars
<1> QED
  BY <1>6, <1>7, <1>8, <1>9, <1>10, <1>11, StepCases

\* With the four buffers of AsyncLoger's constructor, or more, logInfo finds no
\* current buffer only when two are queued or the background thread has already
\* collected a null pointer: a logger that works refuses no line.
THEOREM FourBuffersSuffice == NumBuffers >= 4 => (Spec => []RefusesOnlyWhenDoomed)
<1> SUFFICES ASSUME NumBuffers >= 4 PROVE Spec => []RefusesOnlyWhenDoomed
  OBVIOUS
<1>1. Init => Pair /\ RefusesOnlyWhenDoomed
  <2> SUFFICES ASSUME Init PROVE Pair /\ RefusesOnlyWhenDoomed
    OBVIOUS
  <2>1. writeQueue = <<>> /\ curBuffer = NumBuffers /\ NumBuffers \in Buffers
    <3>1. NumBuffers \in Buffers
      BY AsyncLogerAssumption DEF Buffers
    <3> QED
      BY <3>1 DEF Init
  <2>2. ToSet(writeQueue) = {}
    BY <2>1 DEF ToSet
  <2> QED
    BY <2>1, <2>2, BufferIsNotNull DEF Pair, RefusesOnlyWhenDoomed
<1>2. Base /\ Pair /\ RefusesOnlyWhenDoomed /\ [Next]_vars => Pair' /\ RefusesOnlyWhenDoomed'
  BY PairKept, DoomedKept
<1> QED
  BY <1>1, <1>2, AlwaysBase, PTL DEF Spec

-----------------------------------------------------------------------------
(* What the buffers that were given back hold. *)

Clean(b) == ToSet(text[b]) \subseteq {Junk}

GivenBack ==
  "failed" \notin faults =>
    /\ \A b \in ToSet(emptyBuffers) : Clean(b)
    /\ bgPc = "return" => text[Last(writeQueue)] = <<>>

LEMMA InitGivenBack == Init => GivenBack
<1> SUFFICES ASSUME Init, NEW b \in ToSet(emptyBuffers)
             PROVE  Clean(b)
  BY DEF Init, GivenBack
<1>1. b \in Buffers
  BY InitTypes, ElementsTyped DEF TypeOK
<1>2. PICK n \in FreshEnds : text[b] = [i \in 1..n |-> Junk]
  BY <1>1 DEF Init
<1> QED
  BY <1>2 DEF Clean, ToSet

LEMMA FrontOfAppend ==
  ASSUME NEW S, NEW q \in Seq(S), NEW e \in S
  PROVE  Front(Append(q, e)) = q
<1>1. /\ Append(q, e) \in Seq(S) /\ Len(Append(q, e)) = Len(q) + 1
      /\ \A i \in 1..Len(q) : Append(q, e)[i] = q[i]
      /\ Len(q) \in Nat
  BY AppendProperties, LenProperties
<1>2. /\ SubSeq(Append(q, e), 1, Len(q)) \in Seq(S)
      /\ Len(SubSeq(Append(q, e), 1, Len(q))) = Len(q)
      /\ \A i \in 1..Len(q) : SubSeq(Append(q, e), 1, Len(q))[i] = Append(q, e)[i]
  BY <1>1, SubSeqProperties
<1>3. SubSeq(Append(q, e), 1, Len(q)) = q
  BY <1>1, <1>2, SeqEqual
<1>4. Len(Append(q, e)) - 1 = Len(q)
  BY <1>1
<1> QED
  BY <1>3, <1>4 DEF Front

LEMMA GivenBackKept ==
  ASSUME Base, GivenBack, [Next]_vars
  PROVE  GivenBack'
<1>0. TypeOK /\ Control /\ Unique
  BY DEF Base
<1>1. CASE UNCHANGED <<faults, emptyBuffers, text, size, writeQueue>> /\ bgPc' # "return"
  BY <1>1 DEF GivenBack, Clean
<1> SUFFICES ASSUME "failed" \notin faults'
             PROVE  /\ \A a \in ToSet(emptyBuffers') : Clean(a)'
                    /\ bgPc' = "return" => text'[Last(writeQueue')] = <<>>
  BY DEF GivenBack, Clean
<1>2. ASSUME LogInfo, NEW b \in Buffers, AppendLine(b), b \notin ToSet(emptyBuffers'),
             b \notin ToSet(writeQueue), ToSet(emptyBuffers') \subseteq ToSet(emptyBuffers)
      PROVE  GivenBack'
  <2>1. submitted < MaxLines /\ UNCHANGED <<writeQueue, size, bgPc, faults>>
    BY <1>2 DEF LogInfo
  <2>2. \A a \in Buffers : a # b => text'[a] = text[a]
    BY <1>0, <1>2, <2>1, AppendLineIs
  <2>3. ToSet(emptyBuffers) \subseteq Buffers
    BY <1>0, ElementsTyped DEF TypeOK
  <2>4. bgPc = "return" => Last(writeQueue) \in ToSet(writeQueue) \cap Buffers
    <3>1. bgPc = "return" => writeQueue # <<>> /\ Last(writeQueue) \in Buffers
      BY <1>0, StacksTyped
    <3>2. writeQueue \in Seq(Buffers \cup {Null})
      BY <1>0 DEF TypeOK
    <3> QED
      BY <3>1, <3>2, FrontIsRest DEF ToSet
  <2> QED
    BY <1>2, <2>1, <2>2, <2>3, <2>4 DEF GivenBack, Clean
<1>3. CASE LogAppend /\ LogInfo
  <2>1. /\ curBuffer \in Buffers /\ AppendLine(curBuffer) /\ AppendAvailable(curBuffer)
        /\ emptyBuffers' = emptyBuffers
    BY <1>0, <1>3 DEF LogAppend, TypeOK, bufferVars
  <2>2. curBuffer \notin ToSet(emptyBuffers) /\ curBuffer \notin ToSet(writeQueue)
    BY <1>0, <2>1, BufferIsNotNull DEF Unique, Disjoint
  <2>3. GivenBack'
    BY <1>2, <1>3, <2>1, <2>2
  <2> QED
    BY <2>3 DEF GivenBack
<1>4. CASE LogSwap /\ LogInfo
  <2>1. CASE /\ emptyBuffers # <<>>
             /\ curBuffer' \in Buffers /\ curBuffer' \in ToSet(emptyBuffers)
             /\ curBuffer' # Null
             /\ ToSet(emptyBuffers') = ToSet(emptyBuffers) \ {curBuffer'}
             /\ AppendLine(curBuffer')
    <3>1. curBuffer' \notin ToSet(writeQueue)
      BY <1>0, <2>1 DEF Unique, Disjoint
    <3>2. GivenBack'
      BY <1>2, <1>4, <2>1, <3>1
    <3> QED
      BY <3>2 DEF GivenBack
  <2>2. CASE UNCHANGED <<emptyBuffers, text, aborted>>
    <3>1. GivenBack'
      BY <1>4, <2>2 DEF LogInfo, GivenBack, Clean
    <3> QED
      BY <3>1 DEF GivenBack
  <2> QED
    BY <1>0, <1>4, <2>1, <2>2, SwapIs
<1>5. CASE LogRefused /\ LogInfo
  <2>1. GivenBack'
    BY <1>5 DEF LogRefused, LogInfo, bufferVars, GivenBack, Clean
  <2> QED
    BY <2>1 DEF GivenBack
<1>6. CASE Collect
  <2>1. ToSet(emptyBuffers') \subseteq ToSet(emptyBuffers)
    BY <1>0, <1>6, ReplaceIs DEF Collect
  <2>2. bgPc' = "write" /\ UNCHANGED <<faults, text, size, aborted>>
    BY <1>6 DEF Collect
  <2> QED
    BY <2>1, <2>2 DEF GivenBack, Clean
<1>7. CASE WriteOut
  <2>1. PICK b \in Buffers :
           /\ b = Last(writeQueue) /\ writeQueue # <<>>
           /\ \A a \in Buffers : a # b => text'[a] = text[a]
           /\ \/ text'[b] = <<>> /\ faults' = faults
              \/ text'[b] = <<>> /\ faults' = faults \cup {"short"}
              \/ faults' = faults \cup {"failed"}
    BY <1>0, <1>7, WriteOutIs
  <2>2. text'[b] = <<>> /\ "failed" \notin faults
    BY <2>1
  <2>3. UNCHANGED <<emptyBuffers, writeQueue, size, aborted>>
    BY <1>7 DEF WriteOut, bufferVars
  <2>4. ToSet(emptyBuffers) \subseteq Buffers
    BY <1>0, ElementsTyped DEF TypeOK
  <2>5. b \in ToSet(writeQueue)
    <3>1. writeQueue \in Seq(Buffers \cup {Null})
      BY <1>0 DEF TypeOK
    <3> QED
      BY <2>1, <3>1, FrontIsRest DEF ToSet
  <2>6. b \notin ToSet(emptyBuffers)
    BY <1>0, <2>5, BufferIsNotNull DEF Unique, Disjoint
  <2>7. \A a \in ToSet(emptyBuffers') : a \in ToSet(emptyBuffers) /\ text'[a] = text[a]
    BY <2>1, <2>3, <2>4, <2>6
  <2> QED
    BY <2>1, <2>2, <2>3, <2>7 DEF GivenBack, Clean
<1>8. CASE WriteNull
  BY <1>8 DEF WriteNull, GivenBack, Clean, bufferVars, historyVars
<1>9. CASE ReturnBuffer
  <2> DEFINE b == Last(writeQueue)
  <2>1. /\ bgPc = "return" /\ bgPc' = "write"
        /\ UNCHANGED <<text, size, aborted, faults>>
    BY <1>9 DEF ReturnBuffer, historyVars
  <2>2. b \in Buffers /\ ToSet(emptyBuffers') = ToSet(emptyBuffers) \cup {b}
    BY <1>0, <1>9, ReturnedIs
  <2>3. text[b] = <<>>
    BY <2>1 DEF GivenBack
  <2>4. ToSet(text[b]) = {} /\ Len(text[b]) = 0
    BY <2>3 DEF ToSet
  <2> HIDE DEF b
  <2> QED
    BY <2>1, <2>2, <2>4 DEF GivenBack, Clean
<1>10. CASE LoopTest \/ RoundDone
  <2>1. GivenBack'
    BY <1>1, <1>10 DEF LoopTest, RoundDone, bufferVars, historyVars
  <2> QED
    BY <2>1 DEF GivenBack
<1>11. CASE Stop \/ UNCHANGED vars
  <2>1. UNCHANGED <<faults, emptyBuffers, text, size, writeQueue, aborted, bgPc>>
    BY <1>11 DEF Stop, vars, bufferVars, historyVars
  <2> QED
    BY <2>1 DEF GivenBack, Clean
<1> QED
  BY <1>3, <1>4, <1>5, <1>6, <1>7, <1>8, <1>9, <1>10, <1>11, StepCases

LEMMA AlwaysGivenBack == Spec => []GivenBack
BY InitGivenBack, GivenBackKept, AlwaysBase, PTL DEF Spec

LEMMA CauseKept ==
  ASSUME Base, GivenBack, OverflowHasCause, [Next]_vars
  PROVE  OverflowHasCause'
<1>0. TypeOK /\ Unique
  BY DEF Base
<1>1. CASE UNCHANGED vars
  BY <1>1 DEF vars, bufferVars, historyVars, OverflowHasCause, NeverHadRoom
<1>2. CASE Next
  <2> SUFFICES ASSUME aborted' = "overflow", "failed" \notin faults'
               PROVE  NeverHadRoom(curBuffer)'
    BY DEF OverflowHasCause
  <2>1. aborted = "no"
    BY <1>2 DEF Next
  <2>2. CASE LogSwap /\ LogInfo
    <3> DEFINE b == curBuffer'
    <3>1. /\ b \in Buffers /\ b \in ToSet(emptyBuffers) /\ AppendLine(b)
      BY <1>0, <2>1, <2>2, SwapIs
    <3>2. submitted < MaxLines /\ UNCHANGED <<size, faults>>
      BY <2>2 DEF LogInfo
    <3> HIDE DEF b
    <3>3. ~AppendAvailable(b)
      BY <2>1, <3>1 DEF AppendLine
    <3>4. text'[b] = Append(text[b], submitted + 1) /\ text[b] \in Seq(0..MaxLines)
      BY <1>0, <3>1 DEF AppendLine, TypeOK
    <3>5. submitted + 1 \in 0..MaxLines
      BY <1>0, <3>2, SubmittedIsNat, AsyncLogerAssumption
    <3>6. Front(text'[b]) = text[b]
      BY <3>4, <3>5, FrontOfAppend
    <3>7. size[b] \in Nat /\ Len(text[b]) \in Nat
      BY <1>0, <3>1, <3>4, AsyncLogerAssumption, LenProperties DEF TypeOK, Buffers
    <3>8. Len(text[b]) >= size[b]
      BY <3>3, <3>7 DEF AppendAvailable
    <3>9. ToSet(text[b]) \subseteq {Junk}
      BY <3>1, <3>2 DEF GivenBack, Clean
    <3> QED
      BY <3>2, <3>6, <3>8, <3>9 DEF NeverHadRoom, b
  <2>3. CASE LogAppend /\ LogInfo
    BY <2>1, <2>3 DEF LogAppend, AppendLine
  <2>4. CASE (LogRefused /\ LogInfo) \/ Stop \/ LoopTest \/ Collect \/ WriteOut
             \/ WriteNull \/ ReturnBuffer \/ RoundDone
    BY <2>1, <2>4 DEF LogRefused, Stop, LoopTest, Collect, WriteOut, WriteNull,
                      ReturnBuffer, RoundDone
  <2> QED
    BY <1>2, <2>2, <2>3, <2>4 DEF Next, Step, BackgroundStep, LogInfo
<1> QED
  BY <1>1, <1>2

\* logInfo does not test the room of the buffer it takes from the stack, and the
\* constructor sets neither its size nor its end.  A line goes past the end of a
\* buffer, whatever these are, only if a write has failed or if not even the
\* first line fits in that buffer: a write that is cut short empties its buffer,
\* too.
THEOREM OverflowOnlyForCause == Spec => []OverflowHasCause
<1>1. Init => OverflowHasCause
  BY DEF Init, OverflowHasCause
<1> QED
  BY <1>1, CauseKept, AlwaysBase, AlwaysGivenBack, PTL DEF Spec

-----------------------------------------------------------------------------
(* No line is lost. *)

LEMMA NoneLost == Base /\ Kept /\ GivenBack => NoLineLost
<1> SUFFICES ASSUME Base, Kept, GivenBack PROVE NoLineLost
  OBVIOUS
<1>0. TypeOK /\ Control /\ Unique /\ Lines
  BY DEF Base
<1>1. \A k \in ToSet(logFile) \ {Junk} : \A b \in Buffers : k \notin ToSet(text[b])
  BY <1>0 DEF Lines, Disjoint, Null, Junk
<1>2. ASSUME faults = {}, NEW k \in 1..MaxLines, NEW b \in Buffers, k \in ToSet(text[b])
      PROVE  b \in Unwritten \/ LostWithItsBuffer(k)
  <2>1. "failed" \notin faults /\ k # Junk
    BY <1>2, AsyncLogerAssumption DEF Junk
  <2>2. b \notin ToSet(emptyBuffers)
    BY <1>2, <2>1 DEF GivenBack, Clean
  <2>3. b \in Unwritten \/ b \in destroyed
    BY <1>0, <2>2, BufferIsNotNull DEF Unique, Unwritten
  <2> QED
    BY <1>0, <1>2, <2>3 DEF Control, LostWithItsBuffer
<1> QED
  BY <1>1, <1>2 DEF Kept, NoLineLost

\* A line that logInfo accepted is, as long as write has no fault, in the file or
\* in a buffer that threadFun still has to write, unless it was in one that
\* pop() destroyed: then a null pointer is queued, which ends the writer.  And
\* it is in one place only: writeToFile stores no line twice.
THEOREM LinesNeverLost == Spec => []NoLineLost
BY NoneLost, AlwaysBase, AlwaysKept, AlwaysGivenBack, PTL

\* After the round that the destructor waits for, nothing is left to collect.
Flushed ==
  "failed" \notin faults /\ stoppedAt = "wait" /\ bgPc # "wait" =>
    toWriteBuffers = <<>> /\ (curBuffer # Null => Clean(curBuffer))

LEMMA FlushedKept ==
  ASSUME Base, GivenBack, Flushed, [Next]_vars
  PROVE  Flushed'
<1>0. TypeOK /\ Control /\ Unique
  BY DEF Base
<1> SUFFICES ASSUME "failed" \notin faults', stoppedAt' = "wait", bgPc' # "wait"
             PROVE  /\ toWriteBuffers' = <<>>
                    /\ curBuffer' # Null => ToSet(text'[curBuffer']) \subseteq {Junk}
  BY DEF Flushed, Clean
<1>1. CASE UNCHANGED <<faults, stoppedAt, bgPc, toWriteBuffers, curBuffer, text>>
  BY <1>1 DEF Flushed, Clean
<1>2. CASE LogInfo
  BY <1>2 DEF LogInfo
<1>3. CASE Stop
  BY <1>3 DEF Stop
<1>4. CASE LoopTest
  <2>1. bgPc = "while" /\ UNCHANGED <<faults, stoppedAt, toWriteBuffers, curBuffer, text>>
    BY <1>4 DEF LoopTest, bufferVars, historyVars
  <2> QED
    BY <2>1 DEF Flushed, Clean
<1>5. CASE Collect
  <2>1. toWriteBuffers' = <<>> /\ UNCHANGED <<text, faults>>
    BY <1>5 DEF Collect, DrainQueue
  <2>2. curBuffer' # Null => curBuffer' \in ToSet(emptyBuffers)
    BY <1>0, <1>5, ReplaceIs DEF Collect
  <2> QED
    BY <2>1, <2>2 DEF GivenBack, Clean
<1>6. CASE WriteOut
  <2>1. PICK b \in Buffers :
           /\ \A a \in Buffers : a # b => text'[a] = text[a]
           /\ text'[b] = <<>> \/ text' = text
           /\ faults \subseteq faults'
    BY <1>0, <1>6, WriteOutIs
  <2>2. bgPc = "write" /\ UNCHANGED <<curBuffer, toWriteBuffers, stoppedAt>>
    BY <1>6 DEF WriteOut, bufferVars
  <2>3. toWriteBuffers = <<>> /\ (curBuffer # Null => ToSet(text[curBuffer]) \subseteq {Junk})
    BY <2>1, <2>2 DEF Flushed, Clean
  <2>4. curBuffer # Null => curBuffer \in Buffers
    BY <1>0 DEF TypeOK
  <2>5. ToSet(<<>>) = {}
    BY DEF ToSet
  <2> QED
    BY <2>1, <2>2, <2>3, <2>4, <2>5
<1>7. CASE WriteNull
  BY <1>1, <1>7 DEF WriteNull, bufferVars, historyVars
<1>8. CASE ReturnBuffer
  BY <1>8 DEF ReturnBuffer, Flushed, Clean, historyVars
<1>9. CASE RoundDone
  BY <1>9 DEF RoundDone, Flushed, Clean, bufferVars, historyVars
<1>10. CASE UNCHANGED vars
  BY <1>1, <1>10 DEF vars, bufferVars, historyVars
<1> QED
  BY <1>2, <1>3, <1>4, <1>5, <1>6, <1>7, <1>8, <1>9, <1>10, StepCases

\* A destructor that finds the background thread waiting loses no line that
\* logInfo accepted, if no write has a fault: threadFun tests running only
\* after it has collected and written once more.
THEOREM WaitingWriterFlushes == Spec => []StopFlushes
<1>1. Init => Flushed
  BY DEF Init, Flushed
<1>2. Base /\ Kept /\ GivenBack /\ Flushed => StopFlushes
  <2> SUFFICES ASSUME Base, Kept, GivenBack, Flushed,
                      bgPc = "exited", stoppedAt = "wait", faults = {},
                      NEW k \in 1..MaxLines, Stored(k)
               PROVE  k \in ToSet(logFile)
    BY DEF StopFlushes
  <2>1. TypeOK /\ Control /\ Unique
    BY DEF Base
  <2>2. ToSet(writeQueue) = {}
    BY <2>1 DEF Control, ToSet
  <2>3. destroyed = {}
    BY <2>1, <2>2 DEF Control
  <2>4. toWriteBuffers = <<>> /\ (curBuffer # Null => Clean(curBuffer))
    BY DEF Flushed
  <2>5. \A b \in ToSet(emptyBuffers) : Clean(b)
    BY DEF GivenBack
  <2>6. ToSet(toWriteBuffers) = {}
    BY <2>4 DEF ToSet
  <2>7. Buffers \subseteq {curBuffer} \cup ToSet(emptyBuffers)
    BY <2>1, <2>2, <2>3, <2>6 DEF Unique
  <2>8. \A b \in Buffers : Clean(b)
    BY <2>4, <2>5, <2>7, BufferIsNotNull
  <2>9. \A b \in Buffers : k \notin ToSet(text[b])
    BY <2>8 DEF Clean, Junk
  <2> QED
    BY <2>9 DEF Kept
<1> QED
  BY <1>1, <1>2, FlushedKept, AlwaysBase, AlwaysKept, AlwaysGivenBack, PTL DEF Spec

-----------------------------------------------------------------------------
(* The logger implements the abstract file. *)

Increasing(s) == \A i, j \in DOMAIN s : i < j => s[i] < s[j]

\* Every line of a was logged before every line of b.
Before(a, b) == \A x \in ToSet(text[a]), y \in ToSet(text[b]) : x < y

\* The buffers by age: writeQueue from its back, toWriteBuffers, curBuffer.
Order ==
  Mode # "broken" =>
    /\ \A b \in Buffers : Increasing(text[b]) /\ Junk \notin ToSet(text[b])
    /\ \A i, j \in DOMAIN writeQueue :
         i < j /\ writeQueue[i] # Null /\ writeQueue[j] # Null =>
           Before(writeQueue[j], writeQueue[i])
    /\ \A a \in ToSet(writeQueue) \ {Null}, b \in ToSet(toWriteBuffers) : Before(a, b)
    /\ curBuffer # Null =>
         \A a \in (ToSet(writeQueue) \ {Null}) \cup ToSet(toWriteBuffers) :
           Before(a, curBuffer)

\* A new line is younger than all others.
LEMMA AppendKeepsOrder ==
  ASSUME Base, NEW b \in Buffers, AppendLine(b), submitted < MaxLines,
         \A a \in Buffers : Increasing(text[a]) /\ Junk \notin ToSet(text[a])
  PROVE  /\ \A a \in Buffers : Increasing(text'[a]) /\ Junk \notin ToSet(text'[a])
         /\ \A a, c \in Buffers : a # b /\ c # b /\ Before(a, c) => Before(a, c)'
         /\ \A a \in Buffers : a # b /\ Before(a, b) => Before(a, b)'
<1> DEFINE e == submitted + 1
           s == text[b]
<1>0. TypeOK /\ Lines /\ submitted \in Nat
  BY SubmittedIsNat DEF Base
<1>1. /\ text'[b] = Append(s, e)
      /\ \A a \in Buffers : a # b => text'[a] = text[a]
      /\ ToSet(text'[b]) = ToSet(s) \cup {e}
  BY <1>0, AppendLineIs
<1>2. s \in Seq(0..MaxLines) /\ e \in 1..MaxLines /\ e \in 0..MaxLines
  <2>1. s \in Seq(0..MaxLines) /\ MaxLines \in Nat
    BY <1>0, AsyncLogerAssumption DEF TypeOK
  <2> QED
    BY <1>0, <2>1
<1>3. \A x \in ToSet(s) : x < e
  <2>1. ToSet(s) \subseteq 0..submitted
    BY <1>0 DEF Lines
  <2> QED
    BY <1>0, <2>1
<1>4. \A a \in Buffers : ToSet(text[a]) \subseteq 0..submitted
  BY <1>0 DEF Lines
<1>5. \A a \in Buffers : \A x \in ToSet(text[a]) : x < e
  BY <1>0, <1>4
<1> HIDE DEF e, s
<1>6. /\ DOMAIN Append(s, e) = DOMAIN s \cup {Len(s) + 1}
      /\ Append(s, e)[Len(s) + 1] = e
      /\ \A i \in DOMAIN s : i < Len(s) + 1 /\ Append(s, e)[i] = s[i]
  <2> DEFINE S == 0..MaxLines
  <2>1. s \in Seq(S) /\ e \in S
    BY <1>2
  <2> HIDE DEF S
  <2> QED
    BY <2>1, PushAdds
<1>7. Increasing(text'[b])
  <2> SUFFICES ASSUME NEW i \in DOMAIN text'[b], NEW j \in DOMAIN text'[b], i < j
               PROVE  text'[b][i] < text'[b][j]
    BY DEF Increasing
  <2>1. DOMAIN s = 1..Len(s) /\ Len(s) \in Nat
    BY <1>2, LenProperties
  <2>2. i \in DOMAIN s
    BY <1>1, <1>6, <2>1
  <2>3. CASE j \in DOMAIN s
    <3>1. s[i] < s[j]
      BY <2>2, <2>3 DEF Increasing, s
    <3> QED
      BY <1>1, <1>6, <2>2, <2>3, <3>1
  <2>4. CASE j = Len(s) + 1
    <3>1. s[i] < e
      BY <1>3, <2>2 DEF ToSet
    <3> QED
      BY <1>1, <1>6, <2>2, <2>4, <3>1
  <2> QED
    BY <1>1, <1>6, <2>3, <2>4
<1>8. Junk \notin ToSet(text'[b])
  BY <1>1, <1>2 DEF Junk, s
<1>9. \A a, c \in Buffers : a # b /\ c # b /\ Before(a, c) =>
        \A x \in ToSet(text'[a]), y \in ToSet(text'[c]) : x < y
  BY <1>1 DEF Before
<1>10. \A a \in Buffers : a # b /\ Before(a, b) =>
        \A x \in ToSet(text'[a]), y \in ToSet(text'[b]) : x < y
  BY <1>1, <1>5 DEF Before, s
<1> QED
  BY <1>1, <1>7, <1>8, <1>9, <1>10 DEF Before

\* Once broken, for good.
LEMMA BrokenStays ==
  ASSUME Base, [Next]_vars
  PROVE  Mode = "broken" => Mode' = "broken"
<1>0. TypeOK
  BY DEF Base
<1>1. faults \subseteq faults'
  BY <1>0, StepCases, WriteOutIs
     DEF LogInfo, Stop, LoopTest, Collect, WriteNull, ReturnBuffer, RoundDone,
         vars, historyVars
<1>2. destroyed \subseteq destroyed'
  BY StepCases
     DEF LogInfo, Stop, LoopTest, Collect, DrainQueue, WriteOut, WriteNull,
         ReturnBuffer, RoundDone, vars, historyVars
<1> QED
  BY <1>1, <1>2 DEF Mode

\* What was given back is empty.
LEMMA GivenBackEmpty ==
  ASSUME Base, GivenBack, Order, Mode # "broken"
  PROVE  \A b \in ToSet(emptyBuffers) : ToSet(text[b]) = {}
<1>1. "failed" \notin faults
  BY DEF Mode
<1>2. ToSet(emptyBuffers) \subseteq Buffers
  BY ElementsTyped DEF Base, TypeOK
<1> QED
  BY <1>1, <1>2 DEF GivenBack, Clean, Order

\* Two collected buffers: the current one below the queued one.
LEMMA CollectedOrder ==
  ASSUME TypeOK, Unique, ~(Len(toWriteBuffers) >= 2),
         NEW i \in DOMAIN (Current \o Drained), NEW j \in DOMAIN (Current \o Drained), i < j
  PROVE  /\ (Current \o Drained)[i] = curBuffer /\ curBuffer # Null
         /\ (Current \o Drained)[j] \in ToSet(Drained)
<1> DEFINE d == Drained
           n == Len(toWriteBuffers)
<1>1. d \in Seq(Buffers \cup {Null}) /\ Len(d) = n
  BY DrainedIs DEF Unique
<1>2. n \in Nat
  BY LenProperties DEF TypeOK
<1>3. n = 0 \/ n = 1
  <2>1. ~(n >= 2)
    OBVIOUS
  <2> HIDE DEF n
  <2> QED
    BY <1>2, <2>1
<1>4. DOMAIN d = 1..n
  BY <1>1, LenProperties
<1> HIDE DEF d, n
<1>5. CASE curBuffer = Null
  <2>1. Current \o d = d
    BY <1>1, <1>5, ConcatEmptySeq DEF Current
  <2>2. i \in 1..n /\ j \in 1..n
    BY <1>4, <2>1 DEF d
  <2> QED
    BY <1>3, <2>2
<1>6. CASE curBuffer # Null
  <2>1. Current = <<curBuffer>> /\ curBuffer \in Buffers
    BY <1>6 DEF Current, TypeOK
  <2>2. Current \in Seq(Buffers \cup {Null}) /\ Len(Current) = 1 /\ Current[1] = curBuffer
    BY <2>1
  <2> DEFINE cd == Current \o d
  <2>3. /\ cd \in Seq(Buffers \cup {Null}) /\ Len(cd) = 1 + n
        /\ \A k \in 1..(1 + n) : cd[k] = IF k <= 1 THEN curBuffer ELSE d[k - 1]
    <3>1. /\ cd \in Seq(Buffers \cup {Null}) /\ Len(cd) = 1 + Len(d)
          /\ \A k \in 1..(1 + Len(d)) : cd[k] = IF k <= 1 THEN curBuffer ELSE d[k - 1]
      BY <1>1, <2>1, <2>2, ConcatProperties
    <3> QED
      BY <3>1, <1>1
  <2>4. i \in 1..(1 + n) /\ j \in 1..(1 + n)
    BY <2>3, LenProperties DEF d
  <2>5. i = 1 /\ j = 2 /\ n = 1
    BY <1>3, <2>4
  <2>6. cd[1] = curBuffer /\ cd[2] = d[1]
    <3>1. 1 \in 1..(1 + n) /\ 2 \in 1..(1 + n) /\ 1 <= 1 /\ ~(2 <= 1) /\ 2 - 1 = 1
      BY <2>5
    <3> HIDE DEF cd
    <3> QED
      BY <2>3, <3>1
  <2>7. d[1] \in ToSet(d)
    BY <1>4, <2>5 DEF ToSet
  <2> QED
    BY <1>6, <2>5, <2>6, <2>7 DEF d
<1> QED
  BY <1>5, <1>6

LEMMA OrderKept ==
  ASSUME Base, GivenBack, Order, [Next]_vars
  PROVE  Order'
<1>0. TypeOK /\ Control /\ Unique /\ Lines
  BY DEF Base
<1> SUFFICES ASSUME Mode' # "broken" PROVE Order'
  BY DEF Order
<1>1. Mode # "broken"
  BY BrokenStays
<1>2. /\ \A b \in Buffers : Increasing(text[b]) /\ Junk \notin ToSet(text[b])
      /\ \A i, j \in DOMAIN writeQueue :
           i < j /\ writeQueue[i] # Null /\ writeQueue[j] # Null =>
             Before(writeQueue[j], writeQueue[i])
      /\ \A a \in ToSet(writeQueue) \ {Null}, b \in ToSet(toWriteBuffers) : Before(a, b)
      /\ curBuffer # Null =>
           \A a \in (ToSet(writeQueue) \ {Null}) \cup ToSet(toWriteBuffers) :
             Before(a, curBuffer)
  BY <1>1 DEF Order
<1>3. /\ ToSet(writeQueue) \ {Null} \subseteq Buffers
      /\ ToSet(toWriteBuffers) \subseteq Buffers /\ ToSet(emptyBuffers) \subseteq Buffers
  BY <1>0, ElementsTyped DEF TypeOK
<1>4. \A b \in ToSet(emptyBuffers) : ToSet(text[b]) = {}
  BY <1>1, GivenBackEmpty
<1>5. CASE UNCHANGED <<curBuffer, toWriteBuffers, writeQueue, text>>
  BY <1>2, <1>5 DEF Order, Before
<1>6. CASE LogAppend /\ LogInfo
  <2>1. /\ curBuffer \in Buffers /\ curBuffer # Null /\ AppendLine(curBuffer)
        /\ submitted < MaxLines
        /\ UNCHANGED <<curBuffer, toWriteBuffers, writeQueue>>
    BY <1>0, <1>6 DEF LogAppend, LogInfo, TypeOK, bufferVars
  <2>2. /\ curBuffer \notin ToSet(toWriteBuffers) /\ curBuffer \notin ToSet(writeQueue)
    BY <1>0, <2>1 DEF Unique, Disjoint
  <2>3. /\ \A a \in Buffers : Increasing(text'[a]) /\ Junk \notin ToSet(text'[a])
        /\ \A a, c \in Buffers : a # curBuffer /\ c # curBuffer /\ Before(a, c) => Before(a, c)'
        /\ \A a, c \in Buffers : c = curBuffer /\ a # c /\ Before(a, c) => Before(a, c)'
    BY <1>2, <2>1, AppendKeepsOrder
  <2>4. \A i \in DOMAIN writeQueue : writeQueue[i] \in ToSet(writeQueue)
    BY DEF ToSet
  <2>5. \A i, j \in DOMAIN writeQueue :
          \A a, b \in Buffers :
            i < j /\ writeQueue[i] = a /\ writeQueue[j] = b => Before(b, a)'
    BY <1>2, <2>2, <2>3, <2>4, BufferIsNotNull
  <2>6. \A a \in ToSet(writeQueue) \ {Null}, b \in ToSet(toWriteBuffers) : Before(a, b)'
    BY <1>2, <1>3, <2>2, <2>3
  <2>7. \A a \in (ToSet(writeQueue) \ {Null}) \cup ToSet(toWriteBuffers), c \in Buffers :
          c = curBuffer => Before(a, c)'
    BY <1>2, <1>3, <2>1, <2>2, <2>3
  <2> QED
    BY <1>3, <2>1, <2>3, <2>4, <2>5, <2>6, <2>7 DEF Order, Before
<1>7. CASE LogSwap /\ LogInfo
  <2>1. /\ curBuffer \in Buffers /\ curBuffer # Null
        /\ ToSet(toWriteBuffers') = ToSet(toWriteBuffers) \cup {curBuffer}
        /\ writeQueue' = writeQueue /\ submitted < MaxLines
    BY <1>0, <1>7, SwapIs DEF LogInfo
  <2>2. \A a \in ToSet(writeQueue) \ {Null}, b \in ToSet(toWriteBuffers') : Before(a, b)
    BY <1>2, <2>1
  <2>3. CASE curBuffer' = Null /\ text' = text
    BY <1>2, <2>1, <2>2, <2>3 DEF Order, Before
  <2>4. CASE /\ curBuffer' \in Buffers /\ curBuffer' \in ToSet(emptyBuffers)
             /\ curBuffer' # Null /\ AppendLine(curBuffer')
    <3>1. PICK e \in Buffers : /\ e = curBuffer' /\ e \in ToSet(emptyBuffers)
                               /\ e # Null /\ AppendLine(e)
      BY <2>4
    <3>2. /\ e \notin ToSet(toWriteBuffers') /\ e \notin ToSet(writeQueue)
      BY <1>0, <2>1, <3>1 DEF Unique, Disjoint
    <3>3. /\ \A a \in Buffers : Increasing(text'[a]) /\ Junk \notin ToSet(text'[a])
          /\ \A a, c \in Buffers : a # e /\ c # e /\ Before(a, c) => Before(a, c)'
          /\ \A a \in Buffers : a # e /\ Before(a, e) => Before(a, e)'
      BY <1>2, <2>1, <3>1, AppendKeepsOrder
    <3>4. \A a \in Buffers : Before(a, e)
      BY <1>4, <3>1 DEF Before
    <3>5. \A i \in DOMAIN writeQueue : writeQueue[i] \in ToSet(writeQueue)
      BY DEF ToSet
    <3>6. ToSet(toWriteBuffers') \subseteq Buffers
      BY <1>3, <2>1
    <3>7. \A i, j \in DOMAIN writeQueue :
            \A a, b \in Buffers :
              i < j /\ writeQueue[i] = a /\ writeQueue[j] = b => Before(b, a)'
      BY <1>2, <3>2, <3>3, <3>5, BufferIsNotNull
    <3>8. \A a \in ToSet(writeQueue) \ {Null}, b \in ToSet(toWriteBuffers') : Before(a, b)'
      BY <1>3, <2>2, <3>2, <3>3, <3>6
    <3>9. \A a \in (ToSet(writeQueue) \ {Null}) \cup ToSet(toWriteBuffers') : Before(a, e)'
      BY <1>3, <3>2, <3>3, <3>4, <3>6
    <3> QED
      BY <1>3, <2>1, <3>1, <3>3, <3>5, <3>7, <3>8, <3>9 DEF Order, Before
  <2> QED
    BY <1>0, <1>7, <2>3, <2>4, SwapIs
<1>8. CASE Collect
  <2>1. /\ writeQueue' = Current \o Drained /\ ReplaceCurrent /\ DrainQueue
        /\ text' = text
    BY <1>8 DEF Collect
  <2>2. destroyed' = {}
    BY DEF Mode
  <2>3. ToSet(Front(toWriteBuffers)) = {}
    BY <2>1, <2>2 DEF DrainQueue
  <2>4. ~(Len(toWriteBuffers) >= 2)
    <3> SUFFICES ASSUME Len(toWriteBuffers) >= 2 PROVE FALSE
      OBVIOUS
    <3>1. toWriteBuffers \in Seq(Buffers) /\ Len(toWriteBuffers) \in Nat
          /\ DOMAIN toWriteBuffers = 1..Len(toWriteBuffers)
      BY <1>0, LenProperties DEF TypeOK
    <3>2. toWriteBuffers # <<>>
      BY EmptySeq
    <3>3. DOMAIN Front(toWriteBuffers) = DOMAIN toWriteBuffers \ {Len(toWriteBuffers)}
      BY <3>1, <3>2, FrontIsRest
    <3>4. 1 \in DOMAIN Front(toWriteBuffers)
      BY <3>1, <3>3
    <3> QED
      BY <2>3, <3>4 DEF ToSet
  <2>5. \A i, j \in DOMAIN writeQueue' : i < j =>
          /\ writeQueue'[i] = curBuffer /\ curBuffer # Null
          /\ writeQueue'[j] \in ToSet(Drained)
    BY <1>0, <2>1, <2>4, CollectedOrder
  <2>6. ToSet(Drained) \ {Null} \subseteq ToSet(toWriteBuffers)
    BY <1>0, DrainedIs DEF Unique
  <2>7. \A i, j \in DOMAIN writeQueue' :
          i < j /\ writeQueue'[i] # Null /\ writeQueue'[j] # Null =>
            Before(writeQueue'[j], writeQueue'[i])
    BY <1>2, <2>5, <2>6
  <2>8. ToSet(toWriteBuffers') = {}
    BY <2>1 DEF DrainQueue, ToSet
  <2>9. curBuffer' # Null => ToSet(text[curBuffer']) = {}
    BY <1>0, <1>4, <2>1, ReplaceIs
  <2> QED
    BY <1>2, <2>1, <2>7, <2>8, <2>9 DEF Order, Before
<1>9. CASE WriteOut
  <2>1. PICK b \in Buffers :
           /\ \A a \in Buffers : a # b => text'[a] = text[a]
           /\ text'[b] = <<>> \/ text' = text
    BY <1>0, <1>9, WriteOutIs
  <2>2. UNCHANGED <<curBuffer, toWriteBuffers, writeQueue>>
    BY <1>9 DEF WriteOut, bufferVars
  <2>3. CASE text'[b] = <<>>
    <3>1. ToSet(<<>>) = {} /\ Increasing(<<>>)
      BY DEF ToSet, Increasing
    <3>2. \A a \in Buffers : /\ ToSet(text'[a]) \subseteq ToSet(text[a])
                             /\ Increasing(text'[a])
      BY <1>2, <2>1, <2>3, <3>1
    <3>3. \A a, c \in Buffers : Before(a, c) => Before(a, c)'
      BY <3>2 DEF Before
    <3>4. \A i \in DOMAIN writeQueue : writeQueue[i] # Null => writeQueue[i] \in Buffers
      BY <1>3 DEF ToSet
    <3>5. \A i, j \in DOMAIN writeQueue :
            \A a, c \in Buffers :
              i < j /\ writeQueue[i] = a /\ writeQueue[j] = c => Before(c, a)'
      BY <1>2, <3>3, BufferIsNotNull
    <3>6. \A a \in ToSet(writeQueue) \ {Null}, c \in ToSet(toWriteBuffers) : Before(a, c)'
      BY <1>2, <1>3, <3>3
    <3>7. \A a \in (ToSet(writeQueue) \ {Null}) \cup ToSet(toWriteBuffers), c \in Buffers :
            c = curBuffer => Before(a, c)'
      BY <1>2, <1>3, <3>3, BufferIsNotNull
    <3>8. curBuffer # Null => curBuffer \in Buffers
      BY <1>0 DEF TypeOK
    <3> QED
      BY <1>2, <2>2, <3>2, <3>4, <3>5, <3>6, <3>7, <3>8 DEF Order, Before
  <2> QED
    BY <1>5, <2>1, <2>2, <2>3
<1>10. CASE ReturnBuffer
  <2>1. /\ writeQueue' = Front(writeQueue) /\ bgPc = "return"
        /\ UNCHANGED <<curBuffer, toWriteBuffers, text>>
    BY <1>10 DEF ReturnBuffer
  <2>2. ToSet(writeQueue') \subseteq ToSet(writeQueue)
    BY <1>0, <1>10, ReturnedIs
  <2>3. /\ DOMAIN writeQueue' \subseteq DOMAIN writeQueue
        /\ \A i \in DOMAIN writeQueue' : writeQueue'[i] = writeQueue[i]
    <3>1. writeQueue # <<>> /\ writeQueue \in Seq(Buffers \cup {Null})
      BY <1>0, <2>1 DEF Control, TypeOK
    <3>2. /\ DOMAIN Front(writeQueue) = DOMAIN writeQueue \ {Len(writeQueue)}
          /\ \A i \in DOMAIN Front(writeQueue) : Front(writeQueue)[i] = writeQueue[i]
      BY <3>1, FrontIsRest
    <3> QED
      BY <2>1, <3>2
  <2> QED
    BY <1>2, <2>1, <2>2, <2>3 DEF Order, Before
<1>11. CASE (LogRefused /\ LogInfo) \/ Stop \/ LoopTest \/ WriteNull \/ RoundDone \/ UNCHANGED vars
  BY <1>5, <1>11
     DEF LogRefused, LogInfo, Stop, LoopTest, WriteNull, RoundDone, vars, bufferVars
<1> QED
  BY <1>6, <1>7, <1>8, <1>9, <1>10, <1>11, StepCases

\* LogFile.tla has the operators of SequencesExt under names of its own.
LEMMA SameOperators ==
  ASSUME NEW s, NEW t
  PROVE  /\ LogToFile!IsPrefix(s, t) <=> IsPrefix(s, t)
         /\ LogToFile!ToSet(s) = ToSet(s)
BY DEF LogToFile!IsPrefix, IsPrefix, LogToFile!ToSet, ToSet

\* The lines of the oldest buffer are the oldest.
LEMMA OldestLeaves ==
  ASSUME Base, GivenBack, Order, Mode # "broken", writeQueue # <<>>,
         NEW b \in Buffers, b = Last(writeQueue)
  PROVE  \A a \in Buffers : a # b => Before(b, a)
<1>0. TypeOK /\ Control /\ Unique
  BY DEF Base
<1>1. destroyed = {}
  BY DEF Mode
<1>2. /\ writeQueue \in Seq(Buffers \cup {Null}) /\ b # Null
  BY <1>0, BufferIsNotNull DEF TypeOK
<1>3. /\ b = writeQueue[Len(writeQueue)] /\ Len(writeQueue) \in DOMAIN writeQueue
      /\ DOMAIN writeQueue = 1..Len(writeQueue) /\ Len(writeQueue) \in Nat
  BY <1>2, FrontIsRest, LenProperties
<1>4. b \in ToSet(writeQueue) \ {Null}
  BY <1>2, <1>3 DEF ToSet
<1> SUFFICES ASSUME NEW a \in Buffers, a # b PROVE Before(b, a)
  OBVIOUS
<1>5. a \in {curBuffer} \cup ToSet(emptyBuffers) \cup ToSet(toWriteBuffers) \cup ToSet(writeQueue)
  BY <1>0, <1>1 DEF Unique
<1>6. CASE a = curBuffer
  BY <1>4, <1>6, BufferIsNotNull DEF Order
<1>7. CASE a \in ToSet(emptyBuffers)
  BY <1>7, GivenBackEmpty DEF Before
<1>8. CASE a \in ToSet(toWriteBuffers)
  BY <1>4, <1>8 DEF Order
<1>9. CASE a \in ToSet(writeQueue)
  <2>1. PICK i \in DOMAIN writeQueue : writeQueue[i] = a
    BY <1>9 DEF ToSet
  <2>2. i < Len(writeQueue)
    BY <1>3, <2>1
  <2> QED
    BY <1>2, <1>3, <2>1, <2>2, BufferIsNotNull DEF Order
<1> QED
  BY <1>5, <1>6, <1>7, <1>8, <1>9

\* A write is a step of the abstract file.
LEMMA WriteOutRefines ==
  ASSUME Base, GivenBack, Order, WriteOut, [Next]_vars
  PROVE  LogToFile!Next
<1>0. TypeOK /\ Lines
  BY DEF Base
<1>1. PICK b \in Buffers, add \in Seq(0..MaxLines) :
           /\ b = Last(writeQueue) /\ writeQueue # <<>>
           /\ logFile' = logFile \o add
           /\ \A a \in Buffers : a # b => text'[a] = text[a]
           /\ \A i \in DOMAIN add : i \in DOMAIN text[b] /\ add[i] = text[b][i]
           /\ ToSet(add) \subseteq ToSet(text[b])
           /\ \/ add = text[b] /\ text'[b] = <<>> /\ faults' = faults
              \/ text'[b] = <<>> /\ faults' = faults \cup {"short"}
              \/ /\ add = <<>> /\ logFile' = logFile /\ text' = text
                 /\ faults' = faults \cup {"failed"}
  BY <1>0, WriteOutIs
<1>2. UNCHANGED <<submitted, destroyed>>
  BY DEF WriteOut
<1>3. /\ IsPrefix(logFile, logFile')
      /\ LogToFile!Added = add
  <2> DEFINE S == 0..MaxLines
  <2>1. logFile \in Seq(S) /\ add \in Seq(S)
    BY <1>0 DEF TypeOK
  <2> HIDE DEF S
  <2>2. /\ IsPrefix(logFile, logFile \o add)
        /\ SubSeq(logFile \o add, Len(logFile) + 1, Len(logFile \o add)) = add
    BY <2>1, ConcatJoins
  <2> QED
    BY <1>1, <2>2 DEF LogToFile!Added
<1>4. CASE Mode' = "broken"
  BY <1>3, <1>4, SameOperators DEF LogToFile!Next, LogToFile!Broken
<1>5. CASE Mode' # "broken"
  <2>1. Mode # "broken"
    BY <1>5, BrokenStays
  <2>2. /\ "failed" \notin faults' /\ destroyed' = {}
    BY <1>5 DEF Mode
  <2>3. text'[b] = <<>> /\ ToSet(text'[b]) = {}
    BY <1>1, <2>2 DEF ToSet
  <2>4. /\ \A a \in Buffers : Junk \notin ToSet(text[a])
        /\ Increasing(text[b])
    BY <2>1 DEF Order
  <2>5. \A a \in Buffers : a # b => ToSet(text[a]) \cap ToSet(text[b]) = {}
    BY <1>0, <2>4 DEF Lines, Disjoint, Null, Junk
  <2> DEFINE lines == ToSet(text[b])
  <2>6. lines \in SUBSET InMemory
    BY DEF InMemory
  <2>7. InMemory' = InMemory \ lines
    <3>1. \A a \in Buffers : \/ a = b /\ ToSet(text'[a]) = {}
                             \/ a # b /\ ToSet(text'[a]) = ToSet(text[a])
      BY <1>1, <2>3
    <3>2. InMemory' = UNION {ToSet(text'[a]) : a \in Buffers}
      BY DEF InMemory, Buffers
    <3> QED
      BY <2>5, <3>1, <3>2 DEF InMemory
  <2>8. \A k \in lines, l \in InMemory \ lines : k < l
    <3> SUFFICES ASSUME NEW k \in lines, NEW l \in InMemory \ lines PROVE k < l
      OBVIOUS
    <3>1. PICK a \in Buffers : l \in ToSet(text[a])
      BY DEF InMemory
    <3>2. a # b
      BY <3>1
    <3>3. Before(b, a)
      BY <1>1, <2>1, <3>2, OldestLeaves
    <3> QED
      BY <3>1, <3>3 DEF Before
  <2>9. \A i, j \in DOMAIN LogToFile!Added : i < j => LogToFile!Added[i] < LogToFile!Added[j]
    BY <1>1, <1>3, <2>4 DEF Increasing
  <2>10. LogToFile!Leave(lines)
    <3>1. LogToFile!AppendInOrder
      BY <1>3, <2>9, SameOperators DEF LogToFile!AppendInOrder
    <3> HIDE DEF lines
    <3> QED
      BY <1>2, <2>1, <2>7, <2>8, <3>1 DEF LogToFile!Leave
  <2>11. CASE add = text[b] /\ faults' = faults
    <3>1. Mode' = Mode /\ LogToFile!ToSet(LogToFile!Added) = lines
      BY <1>2, <1>3, <2>11, SameOperators DEF Mode
    <3> HIDE DEF lines
    <3>2. LogToFile!Write
      BY <2>6, <2>10, <3>1 DEF LogToFile!Write
    <3> QED
      BY <3>2 DEF LogToFile!Next
  <2>12. CASE faults' = faults \cup {"short"}
    <3>1. Mode' = "cut" /\ LogToFile!ToSet(LogToFile!Added) \subseteq lines
      BY <1>1, <1>3, <2>2, <2>12, SameOperators DEF Mode
    <3> HIDE DEF lines
    <3>2. LogToFile!CutShort
      BY <2>6, <2>10, <3>1 DEF LogToFile!CutShort
    <3> QED
      BY <3>2 DEF LogToFile!Next
  <2> QED
    BY <1>1, <2>2, <2>11, <2>12
<1> QED
  BY <1>4, <1>5

\* So is a call of logInfo.
LEMMA LogInfoRefines ==
  ASSUME Base, LogInfo
  PROVE  LogToFile!Next
<1>0. TypeOK /\ Unique
  BY DEF Base
<1>1. /\ submitted' = submitted + 1 /\ submitted < MaxLines
      /\ UNCHANGED <<logFile, faults, destroyed>>
  BY DEF LogInfo
<1>2. Mode' = Mode
  BY <1>1 DEF Mode
<1>3. IsPrefix(logFile, logFile')
  BY <1>1 DEF IsPrefix
<1>4. CASE Mode = "broken"
  <2>1. logFile' = logFile
    BY <1>1
  <2>2. IsPrefix(logFile, logFile)
    <3>1. logFile \in Seq(0..MaxLines)
      BY <1>0 DEF TypeOK
    <3>2. Len(logFile) <= Len(logFile)
      BY <3>1, LenProperties
    <3> QED
      BY <3>2 DEF IsPrefix
  <2> QED
    BY <1>2, <1>4, <2>1, <2>2, SameOperators DEF LogToFile!Next, LogToFile!Broken
<1>5. \/ text' = text
      \/ \E b \in Buffers : AppendLine(b)
  <2>1. CASE LogRefused
    BY <2>1 DEF LogRefused
  <2>2. CASE LogAppend
    BY <1>0, <2>2 DEF LogAppend, TypeOK
  <2>3. CASE LogSwap
    BY <1>0, <2>3, SwapIs
  <2> QED
    BY <2>1, <2>2, <2>3 DEF LogInfo
<1>6. InMemory' = UNION {ToSet(text'[a]) : a \in Buffers}
  BY DEF InMemory, Buffers
<1>7. InMemory' = InMemory \/ InMemory' = InMemory \cup {submitted + 1}
  <2>1. CASE text' = text
    BY <1>6, <2>1 DEF InMemory
  <2>2. ASSUME NEW b \in Buffers, AppendLine(b)
        PROVE  InMemory' = InMemory \cup {submitted + 1}
    <3>1. /\ \A a \in Buffers : a # b => text'[a] = text[a]
          /\ ToSet(text'[b]) = ToSet(text[b]) \cup {submitted + 1}
      BY <1>0, <1>1, <2>2, AppendLineIs
    <3>2. \A a \in Buffers : \/ a = b /\ ToSet(text'[a]) = ToSet(text[a]) \cup {submitted + 1}
                             \/ a # b /\ ToSet(text'[a]) = ToSet(text[a])
      BY <3>1
    <3> QED
      BY <1>6, <3>2 DEF InMemory
  <2> QED
    BY <1>5, <2>1, <2>2
<1>8. CASE Mode # "broken"
  BY <1>1, <1>2, <1>7, <1>8 DEF LogToFile!Next, LogToFile!Log
<1> QED
  BY <1>4, <1>8

LEMMA FileStep ==
  ASSUME Base, GivenBack, Order, [Next]_vars
  PROVE  [LogToFile!Next]_(LogToFile!logFileVars)
<1>1. CASE UNCHANGED <<faults, destroyed, submitted, text, logFile>>
  <2>1. UNCHANGED <<Mode, InMemory>>
    BY <1>1 DEF Mode, InMemory
  <2> QED
    BY <1>1, <2>1 DEF LogToFile!logFileVars
<1>2. CASE LogInfo
  BY <1>2, LogInfoRefines
<1>3. CASE WriteOut
  BY <1>3, WriteOutRefines
<1>4. CASE Collect
  <2>1. /\ UNCHANGED <<faults, submitted, text, logFile>>
    BY <1>4 DEF Collect
  <2>2. CASE destroyed' = {}
    <3>1. destroyed = {}
      BY <1>4, <2>2 DEF Collect, DrainQueue
    <3> QED
      BY <1>1, <2>1, <2>2, <3>1
  <2>3. CASE destroyed' # {}
    <3>1. Mode' = "broken"
      BY <2>3 DEF Mode
    <3>2. logFile \in Seq(0..MaxLines)
      BY DEF Base, TypeOK
    <3>3. Len(logFile) <= Len(logFile)
      BY <3>2, LenProperties
    <3>4. IsPrefix(logFile, logFile)
      BY <3>3 DEF IsPrefix
    <3> QED
      BY <2>1, <3>1, <3>4, SameOperators DEF LogToFile!Next, LogToFile!Broken
  <2> QED
    BY <2>2, <2>3
<1>5. CASE Stop \/ LoopTest \/ WriteNull \/ ReturnBuffer \/ RoundDone \/ UNCHANGED vars
  BY <1>1, <1>5 DEF Stop, LoopTest, WriteNull, ReturnBuffer, RoundDone, vars, historyVars
<1> QED
  BY <1>2, <1>3, <1>4, <1>5, StepCases

LEMMA InitOrder == FreshEnds = {0} /\ Init => Order /\ LogToFile!Init
<1> SUFFICES ASSUME FreshEnds = {0}, Init PROVE Order /\ LogToFile!Init
  OBVIOUS
<1>1. \A b \in Buffers : text[b] = <<>>
  <2> TAKE b \in Buffers
  <2>1. text[b] = [i \in 1..0 |-> Junk]
    BY DEF Init
  <2> QED
    BY <2>1
<1>2. ToSet(<<>>) = {} /\ Increasing(<<>>) /\ DOMAIN <<>> = {}
  BY DEF ToSet, Increasing
<1>3. /\ toWriteBuffers = <<>> /\ writeQueue = <<>> /\ logFile = <<>> /\ submitted = 0
      /\ faults = {} /\ destroyed = {}
  BY DEF Init
<1>4. Order
  BY <1>1, <1>2, <1>3 DEF Order
<1>5. InMemory = {} /\ Mode = "whole"
  BY <1>1, <1>2, <1>3 DEF InMemory, Mode
<1> QED
  BY <1>3, <1>4, <1>5 DEF LogToFile!Init

\* A logger whose buffers begin empty, as the header means them to, appends the
\* lines it accepts to its file in the order in which they were logged, each once,
\* until a buffer is destroyed or a write fails: the stack writeQueue turns the
\* two queues it is filled from back into the order of the calls.
THEOREM LoggerWritesInOrder == FreshEnds = {0} => (Spec => ImplementsLogFile)
<1> SUFFICES ASSUME FreshEnds = {0} PROVE Spec => ImplementsLogFile
  OBVIOUS
<1>1. Init => Order /\ LogToFile!Init
  BY InitOrder
<1>2. Base /\ GivenBack /\ Order /\ [Next]_vars => Order'
  BY OrderKept
<1>3. Base /\ GivenBack /\ Order /\ [Next]_vars => [LogToFile!Next]_(LogToFile!logFileVars)
  BY FileStep
<1> QED
  BY <1>1, <1>2, <1>3, AlwaysBase, AlwaysGivenBack, PTL
     DEF Spec, ImplementsLogFile, LogToFile!Spec

=============================================================================
