----------------------------- MODULE TimerProofs -----------------------------
(***************************************************************************)
(* Proofs about Timer.tla for every set of descriptors, every timeout and  *)
(* every limit, whoever calls and in whatever order.                       *)
(***************************************************************************)
EXTENDS Timer, TLAPS, FunctionTheorems, FiniteSetTheorems

-----------------------------------------------------------------------------
(* The inductive invariant. *)

\* A pos is given once.
PosUnique == \A m, n \in timeList : m.pos = n.pos => m = n

\* The node inserted last expires last: the clock never goes back.
ExpiryBounded == \A n \in timeList : n.expire <= now + Timeout

ListFinite == IsFiniteSet(timeList)

TInv ==
  /\ TimerTypeOK
  /\ ListFinite
  /\ PosUnique
  /\ ExpiryBounded
  /\ IteratorsValid
  /\ ListSorted
  /\ CountWithinMap
  /\ NeverPastTheEnd

USE TimerAssumption

LEMMA InitTInv == TimerInit => TInv
<1> SUFFICES ASSUME TimerInit PROVE TInv
  OBVIOUS
<1>1. TimerTypeOK
  BY DEF TimerInit, TimerTypeOK, Absent, End, Closed
<1>2. PosUnique /\ ExpiryBounded /\ IteratorsValid /\ ListSorted /\ NeverPastTheEnd
  BY DEF TimerInit, PosUnique, ExpiryBounded, IteratorsValid, ListSorted,
         NeverPastTheEnd
<1>3. ListFinite
  BY FS_EmptySet DEF TimerInit, ListFinite
<1>4. CountWithinMap
  <2>1. Mapped = {}
    BY DEF TimerInit, Mapped
  <2> QED
    BY <2>1, FS_EmptySet DEF TimerInit, CountWithinMap
<1> QED
  BY <1>1, <1>2, <1>3, <1>4 DEF TInv

LEMMA MappedFinite ==
  ASSUME TInv
  PROVE  IsFiniteSet(Mapped) /\ Cardinality(Mapped) \in Nat
<1>1. IsFiniteSet(Mapped)
  BY FS_Subset DEF Mapped
<1> QED
  BY <1>1, FS_CardinalityType

LEMMA StutterPreserves ==
  ASSUME TInv, UNCHANGED timerVars
  PROVE  TInv'
BY DEF timerVars, nodeVars, TInv, TimerTypeOK, Nodes, ListFinite, PosUnique,
       ExpiryBounded, IteratorsValid, ListSorted, CountWithinMap, Mapped,
       NeverPastTheEnd

-----------------------------------------------------------------------------
(* addfd *)

\* What the insertion of a node at the end of the list preserves.
LEMMA InsertPreserves ==
  ASSUME TInv, NEW f \in Fds, InsertNode(f), now' = now
  PROVE  /\ timeList' \subseteq Nodes'
         /\ hashMap' \in [Fds -> {Absent, End} \cup 1..inserts']
         /\ inserts' \in Nat
         /\ ListFinite' /\ PosUnique' /\ ExpiryBounded' /\ IteratorsValid' /\ ListSorted'
<1> DEFINE node == [pos |-> inserts + 1, fd |-> f, expire |-> now + Timeout]
<1>1. /\ inserts \in Nat /\ now \in Nat
      /\ inserts' = inserts + 1
      /\ timeList' = timeList \cup {node}
      /\ hashMap' = [hashMap EXCEPT ![f] = inserts + 1]
  BY DEF TInv, TimerTypeOK, InsertNode
<1>2. node \in Nodes'
  BY <1>1 DEF Nodes
<1>3. \A n \in timeList : /\ n \in Nodes'
                          /\ n.pos \in 1..inserts
                          /\ n.fd \in Fds
                          /\ n.expire \in Nat
                          /\ n.expire <= now + Timeout
  <2> TAKE n \in timeList
  <2>1. n \in [pos : 1..inserts, fd : Fds, expire : Nat]
    BY DEF TInv, TimerTypeOK, Nodes
  <2>2. n \in [pos : 1..(inserts + 1), fd : Fds, expire : Nat]
    BY <1>1, <2>1
  <2>3. n.expire <= now + Timeout
    BY DEF TInv, ExpiryBounded
  <2> QED
    BY <1>1, <2>1, <2>2, <2>3 DEF Nodes
<1>4. node.pos = inserts + 1 /\ node.fd = f /\ node.expire = now + Timeout
  OBVIOUS
<1> HIDE DEF node
<1>5. timeList' \subseteq Nodes'
  BY <1>1, <1>2, <1>3
<1>6. hashMap' \in [Fds -> {Absent, End} \cup 1..inserts']
  <2>1. hashMap \in [Fds -> {Absent, End} \cup 1..inserts]
    BY DEF TInv, TimerTypeOK
  <2>2. 1..inserts \subseteq 1..inserts' /\ inserts + 1 \in 1..inserts'
    BY <1>1
  <2> QED
    BY <1>1, <2>1, <2>2
<1>7. ListFinite'
  BY <1>1, FS_AddElement DEF TInv, ListFinite
<1>8. PosUnique'
  BY <1>1, <1>3, <1>4 DEF TInv, PosUnique
<1>9. ExpiryBounded'
  BY <1>1, <1>3, <1>4 DEF ExpiryBounded
<1>10. IteratorsValid'
  <2> SUFFICES ASSUME NEW g \in Fds, hashMap'[g] \notin {Absent, End}
               PROVE  \E n \in timeList' : n.pos = hashMap'[g] /\ n.fd = g
    BY DEF IteratorsValid, Absent, End
  <2>1. CASE g = f
    BY <1>1, <1>4, <2>1 DEF TInv, TimerTypeOK
  <2>2. CASE g # f
    BY <1>1, <2>2 DEF TInv, TimerTypeOK, IteratorsValid
  <2> QED
    BY <2>1, <2>2
<1>11. ListSorted'
  BY <1>1, <1>3, <1>4 DEF TInv, ListSorted
<1> QED
  BY <1>1, <1>5, <1>6, <1>7, <1>8, <1>9, <1>10, <1>11

LEMMA AddfdPreserves ==
  ASSUME TInv, NEW f \in Fds, Addfd(f)
  PROVE  TInv'
<1>1. CASE AddRefused(f)
  <2>1. UNCHANGED timerVars
    BY <1>1 DEF Addfd, AddRefused, timerVars, nodeVars
  <2> QED
    BY <2>1, StutterPreserves
<1>2. ASSUME AddNew(f) \/ AddAgain(f)
      PROVE  /\ InsertNode(f) /\ now' = now
             /\ epoll' \in [Fds -> {"none", "armed", "spent"}]
             /\ conn' = conn /\ aborted' = aborted
  BY <1>2 DEF Addfd, AddNew, AddAgain, AddFdToEpollOneshot, ResetOneshot, Added,
              TInv, TimerTypeOK
<1>3. CASE AddNew(f)
  <2>1. Mapped' = Mapped \cup {f} /\ f \notin Mapped
    <3>1. inserts + 1 # Absent
      <4>1. inserts \in Nat
        BY DEF TInv, TimerTypeOK
      <4> QED
        BY <4>1 DEF Absent
    <3>2. hashMap \in [Fds -> {Absent, End} \cup 1..inserts]
      BY DEF TInv, TimerTypeOK
    <3>3. hashMap' = [hashMap EXCEPT ![f] = inserts + 1] /\ hashMap[f] = Absent
      BY <1>3 DEF AddNew, InsertNode
    <3> QED
      BY <3>1, <3>2, <3>3 DEF Mapped
  <2>2. Cardinality(Mapped') = Cardinality(Mapped) + 1
    BY <2>1, MappedFinite, FS_AddElement
  <2>3. curSize' = curSize + 1 /\ curSize \in Int
    BY <1>3 DEF AddNew, TInv, TimerTypeOK
  <2>4. CountWithinMap'
    BY <2>2, <2>3, MappedFinite DEF CountWithinMap, TInv
  <2>5. TimerTypeOK'
    <3>1. /\ now' \in Nat /\ conn' \in [Fds -> Nat]
          /\ aborted' \in {"no", "erase", "sentinel", "peer closed"}
      BY <1>2, <1>3 DEF TInv, TimerTypeOK
    <3>2. epoll' \in [Fds -> {"none", "armed", "spent"}]
      BY <1>2, <1>3
    <3>3. /\ timeList' \subseteq Nodes'
          /\ hashMap' \in [Fds -> {Absent, End} \cup 1..inserts']
          /\ inserts' \in Nat
      BY <1>2, <1>3, InsertPreserves
    <3>4. curSize' \in Int
      BY <2>3
    <3> QED
      BY <3>1, <3>2, <3>3, <3>4 DEF TimerTypeOK
  <2>6. NeverPastTheEnd'
    BY <1>2, <1>3 DEF TInv, NeverPastTheEnd
  <2> QED
    BY <1>2, <1>3, <2>4, <2>5, <2>6, InsertPreserves DEF TInv
<1>4. CASE AddAgain(f)
  <2>1. Mapped' = Mapped /\ curSize' = curSize
    <3>1. inserts + 1 # Absent
      <4>1. inserts \in Nat
        BY DEF TInv, TimerTypeOK
      <4> QED
        BY <4>1 DEF Absent
    <3>2. hashMap \in [Fds -> {Absent, End} \cup 1..inserts]
      BY DEF TInv, TimerTypeOK
    <3>3. hashMap' = [hashMap EXCEPT ![f] = inserts + 1] /\ hashMap[f] # Absent
      BY <1>4 DEF AddAgain, InsertNode
    <3>4. Mapped' = Mapped
      BY <3>1, <3>2, <3>3 DEF Mapped
    <3> QED
      BY <1>4, <3>4 DEF AddAgain
  <2>2. CountWithinMap'
    BY <2>1 DEF CountWithinMap, TInv
  <2> QED
    BY <1>2, <1>4, <2>1, <2>2, InsertPreserves DEF TInv, TimerTypeOK, NeverPastTheEnd
<1> QED
  BY <1>1, <1>3, <1>4 DEF Addfd

-----------------------------------------------------------------------------
(* Removals: nothing that holds of the list's nodes is lost with some of them. *)

LEMMA RemovalPreserves ==
  ASSUME TInv, timeList' \subseteq timeList, now' = now, inserts' = inserts
  PROVE  /\ timeList' \subseteq Nodes'
         /\ ListFinite' /\ PosUnique' /\ ExpiryBounded' /\ ListSorted'
<1>1. ListFinite'
  BY FS_Subset DEF TInv, ListFinite
<1> QED
  BY <1>1 DEF TInv, TimerTypeOK, Nodes, PosUnique, ExpiryBounded, ListSorted

LEMMA EraseEndPreserves ==
  ASSUME TInv, NEW f \in Fds, EraseEnd(f)
  PROVE  TInv'
BY DEF EraseEnd, nodeVars, TInv, TimerTypeOK, Nodes, ListFinite, PosUnique,
       ExpiryBounded, IteratorsValid, ListSorted, CountWithinMap, Mapped,
       NeverPastTheEnd

\* The node that is erased is the descriptor's own, so the other iterators of
\* the map stay valid.
LEMMA EraseKeepsOthers ==
  ASSUME TInv, NEW f \in Fds, hashMap[f] \notin {Absent, End},
         timeList' = timeList \ NodeOf(f),
         hashMap' = [hashMap EXCEPT ![f] = hashMap'[f]],
         hashMap'[f] \in {Absent, End}
  PROVE  IteratorsValid'
<1> SUFFICES ASSUME NEW g \in Fds, hashMap'[g] \notin {Absent, End}
             PROVE  \E n \in timeList' : n.pos = hashMap'[g] /\ n.fd = g
  BY DEF IteratorsValid, Absent, End
<1>1. g # f /\ hashMap'[g] = hashMap[g]
  BY DEF TInv, TimerTypeOK
<1>2. PICK n \in timeList : n.pos = hashMap[g] /\ n.fd = g
  BY <1>1 DEF TInv, IteratorsValid
<1>3. PICK m \in timeList : m.pos = hashMap[f] /\ m.fd = f
  BY DEF TInv, IteratorsValid
<1>4. n \notin NodeOf(f)
  BY <1>1, <1>2, <1>3 DEF NodeOf, TInv, PosUnique
<1> QED
  BY <1>1, <1>2, <1>4

LEMMA DeleteFdPreserves ==
  ASSUME TInv, NEW f \in Fds, DeleteFd(f)
  PROVE  TInv'
<1>1. CASE Unknown(f)
  BY <1>1, StutterPreserves DEF Unknown
<1>2. CASE EraseEnd(f)
  BY <1>2, EraseEndPreserves
<1>3. CASE DeleteListed(f)
  <2> USE <1>3 DEF DeleteListed
  <2>1. IteratorsValid'
    <3>1. hashMap'[f] = Absent
      BY DEF TInv, TimerTypeOK
    <3> QED
      BY <3>1, EraseKeepsOthers
  <2>2. Mapped' = Mapped \ {f} /\ f \in Mapped
    BY DEF Mapped, TInv, TimerTypeOK
  <2>3. Cardinality(Mapped') = Cardinality(Mapped) - 1
    BY <2>2, MappedFinite, FS_RemoveElement
  <2>4. curSize' = curSize - 1 /\ curSize \in Int
    BY DEF TInv, TimerTypeOK
  <2>5. CountWithinMap'
    BY <2>3, <2>4, MappedFinite DEF CountWithinMap, TInv
  <2>6. TimerTypeOK'
    <3>1. timeList' \subseteq Nodes'
      BY RemovalPreserves
    <3>2. /\ hashMap' \in [Fds -> {Absent, End} \cup 1..inserts']
          /\ epoll' \in [Fds -> {"none", "armed", "spent"}]
      BY DEF TInv, TimerTypeOK
    <3>3. /\ now' \in Nat /\ inserts' \in Nat /\ conn' \in [Fds -> Nat]
          /\ aborted' \in {"no", "erase", "sentinel", "peer closed"}
      BY DEF TInv, TimerTypeOK
    <3>4. curSize' \in Int
      BY <2>4
    <3> QED
      BY <3>1, <3>2, <3>3, <3>4 DEF TimerTypeOK
  <2> QED
    BY <2>1, <2>5, <2>6, RemovalPreserves DEF TInv, NeverPastTheEnd
<1> QED
  BY <1>1, <1>2, <1>3 DEF DeleteFd

LEMMA ForbidenFdPreserves ==
  ASSUME TInv, NEW f \in Fds, ForbidenFd(f)
  PROVE  TInv'
<1>1. CASE Unknown(f)
  BY <1>1, DeleteFdPreserves DEF DeleteFd
<1>2. CASE EraseEnd(f)
  BY <1>2, EraseEndPreserves
<1>3. CASE ForbidListed(f)
  <2> USE <1>3 DEF ForbidListed
  <2>1. IteratorsValid'
    <3>1. hashMap'[f] = End
      BY DEF TInv, TimerTypeOK
    <3> QED
      BY <3>1, EraseKeepsOthers
  <2>2. Mapped' = Mapped
    <3>1. hashMap \in [Fds -> {Absent, End} \cup 1..inserts]
      BY DEF TInv, TimerTypeOK
    <3>2. End # Absent
      BY DEF End, Absent
    <3> QED
      BY <3>1, <3>2 DEF Mapped
  <2>3. CountWithinMap'
    BY <2>2 DEF CountWithinMap, TInv
  <2>4. TimerTypeOK'
    <3>1. timeList' \subseteq Nodes'
      BY RemovalPreserves
    <3>2. hashMap' \in [Fds -> {Absent, End} \cup 1..inserts']
      BY DEF TInv, TimerTypeOK
    <3> QED
      BY <3>1, <3>2 DEF TInv, TimerTypeOK
  <2> QED
    BY <2>1, <2>3, <2>4, RemovalPreserves DEF TInv, NeverPastTheEnd
<1> QED
  BY <1>1, <1>2, <1>3 DEF ForbidenFd

-----------------------------------------------------------------------------
(* deleteExpiredFd *)

\* n popped nodes belong to at most n descriptors.
LEMMA FdsOfCount ==
  ASSUME NEW S, IsFiniteSet(S)
  PROVE  /\ IsFiniteSet(FdsOf(S))
         /\ Cardinality(FdsOf(S)) <= Cardinality(S)
<1> DEFINE fdOf == [n \in S |-> n.fd]
<1>1. fdOf \in Surjection(S, FdsOf(S))
  BY DEF Surjection, FdsOf
<1> QED
  BY <1>1, FS_Surjection

LEMMA DisjointUnion ==
  ASSUME NEW S, NEW T, IsFiniteSet(S), IsFiniteSet(T), S \cap T = {}
  PROVE  /\ IsFiniteSet(S \cup T)
         /\ Cardinality(S \cup T) <= Cardinality(S) + Cardinality(T)
<1>1. /\ IsFiniteSet(S \cup T)
      /\ Cardinality(S \cup T) = Cardinality(S) + Cardinality(T) - Cardinality(S \cap T)
  BY FS_Union
<1>2. Cardinality(S \cap T) = 0
  BY FS_EmptySet
<1>3. Cardinality(S) \in Nat /\ Cardinality(T) \in Nat
  BY FS_CardinalityType
<1> QED
  BY <1>1, <1>2, <1>3

LEMMA DeleteExpiredPreserves ==
  ASSUME TInv, NEW t, DeleteExpiredFd(t)
  PROVE  TInv'
<1> DEFINE gone == Popped(t)
           lost == FdsOf(gone)
<1>1. /\ timeList' = timeList \ gone
      /\ hashMap' = [f \in Fds |-> IF f \in lost THEN Absent ELSE hashMap[f]]
      /\ epoll' = [f \in Fds |-> IF f \in lost THEN "none" ELSE epoll[f]]
      /\ conn' = [f \in Fds |-> IF f \in lost THEN Closed ELSE conn[f]]
      /\ curSize' = curSize - Cardinality(gone)
      /\ aborted' = IF SentinelExpires THEN "sentinel" ELSE aborted
      /\ now' = now /\ inserts' = inserts
  BY DEF DeleteExpiredFd
<1>2. gone \subseteq timeList
  BY DEF Popped
<1>3. IsFiniteSet(gone) /\ Cardinality(gone) \in Nat
  BY <1>2, FS_Subset, FS_CardinalityType DEF TInv, ListFinite
<1> HIDE DEF gone
<1>4. IsFiniteSet(lost) /\ Cardinality(lost) <= Cardinality(gone) /\ Cardinality(lost) \in Nat
  BY <1>3, FdsOfCount, FS_CardinalityType
<1>5. \A n \in gone : n.fd \in lost
  BY DEF FdsOf
<1> HIDE DEF lost
<1>6. IteratorsValid'
  BY <1>1, <1>5 DEF TInv, TimerTypeOK, IteratorsValid, Absent, End
<1>7. CountWithinMap'
  <2>1. Mapped' = Mapped \ lost
    BY <1>1 DEF Mapped
  <2>2. Mapped \subseteq Mapped' \cup lost
    BY <2>1
  <2>3. IsFiniteSet(Mapped') /\ Cardinality(Mapped') \in Nat
    BY <2>1, MappedFinite, FS_Subset, FS_CardinalityType
  <2>4. /\ IsFiniteSet(Mapped' \cup lost)
        /\ Cardinality(Mapped' \cup lost) <= Cardinality(Mapped') + Cardinality(lost)
    <3>1. Mapped' \cap lost = {}
      BY <2>1
    <3> QED
      BY <1>4, <2>3, <3>1, DisjointUnion
  <2>5. Cardinality(Mapped) <= Cardinality(Mapped' \cup lost)
    BY <2>2, <2>4, FS_Subset
  <2>6. Cardinality(Mapped' \cup lost) \in Nat
    BY <2>4, FS_CardinalityType
  <2>7. curSize <= Cardinality(Mapped) /\ curSize \in Int
    BY DEF TInv, CountWithinMap, TimerTypeOK
  <2> QED
    BY <1>1, <1>3, <1>4, <2>3, <2>4, <2>5, <2>6, <2>7, MappedFinite DEF CountWithinMap
<1>8. ~SentinelExpires
  <2> SUFFICES ASSUME SentinelExpires PROVE FALSE
    OBVIOUS
  <2>1. Mapped' = {}
    BY DEF SentinelExpires, Mapped
  <2>2. Cardinality(Mapped') = 0
    BY <2>1, FS_EmptySet
  <2>3. curSize' \in Int
    <3>1. curSize \in Int
      BY DEF TInv, TimerTypeOK
    <3>2. curSize' = curSize - Cardinality(gone)
      BY <1>1
    <3> QED
      BY <1>3, <3>1, <3>2
  <2> QED
    BY <1>7, <2>2, <2>3 DEF SentinelExpires, CountWithinMap
<1>9. TimerTypeOK'
  <2>1. timeList' \subseteq Nodes'
    BY <1>1, RemovalPreserves
  <2>2. /\ hashMap' \in [Fds -> {Absent, End} \cup 1..inserts']
        /\ epoll' \in [Fds -> {"none", "armed", "spent"}]
        /\ conn' \in [Fds -> Nat]
    BY <1>1 DEF TInv, TimerTypeOK, Closed
  <2>3. curSize' \in Int
    <3>1. curSize \in Int
      BY DEF TInv, TimerTypeOK
    <3>2. curSize' = curSize - Cardinality(gone)
      BY <1>1
    <3> QED
      BY <1>3, <3>1, <3>2
  <2> QED
    BY <1>1, <1>8, <2>1, <2>2, <2>3 DEF TInv, TimerTypeOK
<1>10. NeverPastTheEnd'
  BY <1>1, <1>8 DEF TInv, NeverPastTheEnd
<1> QED
  BY <1>1, <1>6, <1>7, <1>9, <1>10, RemovalPreserves DEF TInv

-----------------------------------------------------------------------------
(* The steps of the clock and the kernel. *)

LEMMA OutsidePreserves ==
  ASSUME TInv, UNCHANGED nodeVars, now' \in Nat, now' >= now,
         epoll' \in [Fds -> {"none", "armed", "spent"}],
         conn' \in [Fds -> Nat],
         aborted' = aborted
  PROVE  TInv'
<1>1. TimerTypeOK'
  BY DEF nodeVars, TInv, TimerTypeOK, Nodes
<1>2. ExpiryBounded'
  <2> SUFFICES ASSUME NEW n \in timeList PROVE n.expire <= now' + Timeout
    BY DEF nodeVars, ExpiryBounded
  <2>1. n.expire \in Nat /\ n.expire <= now + Timeout /\ now \in Nat
    BY DEF TInv, TimerTypeOK, Nodes, ExpiryBounded
  <2> QED
    BY <2>1
<1> QED
  BY <1>1, <1>2 DEF nodeVars, TInv, ListFinite, PosUnique, IteratorsValid,
     ListSorted, CountWithinMap, Mapped, NeverPastTheEnd

LEMMA TInductive == TInv /\ [TimerNext]_timerVars => TInv'
<1> SUFFICES ASSUME TInv, [TimerNext]_timerVars
             PROVE  TInv'
  OBVIOUS
<1>1. CASE Tick
  <2>1. /\ now \in Nat /\ now' = now + 1
        /\ epoll \in [Fds -> {"none", "armed", "spent"}]
        /\ conn \in [Fds -> Nat]
        /\ UNCHANGED <<nodeVars, epoll, conn, aborted>>
    BY <1>1 DEF Tick, TInv, TimerTypeOK
  <2> QED
    BY <2>1, OutsidePreserves
<1>2. ASSUME NEW t \in 0..now, DeleteExpiredFd(t)
      PROVE  TInv'
  BY <1>2, DeleteExpiredPreserves
<1>3. ASSUME NEW f \in Fds, Addfd(f)
      PROVE  TInv'
  BY <1>3, AddfdPreserves
<1>4. ASSUME NEW f \in Fds, DeleteFd(f) \/ ForbidenFd(f)
      PROVE  TInv'
  BY <1>4, DeleteFdPreserves, ForbidenFdPreserves
<1>5. ASSUME NEW f \in Fds, CloseFd(f) \/ OpenFd(f, 1) \/ Fire(f)
      PROVE  TInv'
  <2>1. /\ UNCHANGED <<now, nodeVars, aborted>>
        /\ now \in Nat
        /\ epoll' \in [Fds -> {"none", "armed", "spent"}]
        /\ conn' \in [Fds -> Nat]
    <3>1. /\ now \in Nat
          /\ epoll \in [Fds -> {"none", "armed", "spent"}]
          /\ conn \in [Fds -> Nat]
      BY DEF TInv, TimerTypeOK
    <3>2. CASE CloseFd(f)
      BY <3>1, <3>2 DEF CloseFd, Closed
    <3>3. CASE OpenFd(f, 1)
      BY <3>1, <3>3 DEF OpenFd
    <3>4. CASE Fire(f)
      BY <3>1, <3>4 DEF Fire
    <3> QED
      BY <1>5, <3>2, <3>3, <3>4
  <2>2. now' >= now /\ now' \in Nat
    BY <2>1
  <2> QED
    BY <2>1, <2>2, OutsidePreserves
<1>6. CASE UNCHANGED timerVars
  BY <1>6, StutterPreserves
<1> QED
  BY <1>1, <1>2, <1>3, <1>4, <1>5, <1>6 DEF TimerNext, AnyCall

LEMMA AlwaysTInv == TimerSpec => []TInv
BY InitTInv, TInductive, PTL DEF TimerSpec

-----------------------------------------------------------------------------
(* The theorems. *)

\* The timer's variables keep their types.
THEOREM TimerTypeCorrect == TimerSpec => []TimerTypeOK
<1>1. TInv => TimerTypeOK
  BY DEF TInv
<1> QED
  BY <1>1, AlwaysTInv, PTL

\* No call sequence makes the map hold an iterator to an erased node or to the
\* node of another descriptor.
THEOREM IteratorsAlwaysValid == TimerSpec => []IteratorsValid
<1>1. TInv => IteratorsValid
  BY DEF TInv
<1> QED
  BY <1>1, AlwaysTInv, PTL

\* The node at the front is always one that expires first.
THEOREM ListAlwaysSorted == TimerSpec => []ListSorted
<1>1. TInv => ListSorted
  BY DEF TInv
<1> QED
  BY <1>1, AlwaysTInv, PTL

\* curSize never exceeds the number of keys of the map.
THEOREM CountAlwaysWithinMap == TimerSpec => []CountWithinMap
<1>1. TInv => CountWithinMap
  BY DEF TInv
<1> QED
  BY <1>1, AlwaysTInv, PTL

\* The expiry loop never takes the empty list's sentinel for an expired node.
THEOREM LoopStopsAtTheEnd == TimerSpec => []NeverPastTheEnd
<1>1. TInv => NeverPastTheEnd
  BY DEF TInv
<1> QED
  BY <1>1, AlwaysTInv, PTL

==============================================================================
