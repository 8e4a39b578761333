-------------------------- MODULE ConnectionsProofs --------------------------
(***************************************************************************)
(* Proofs about Connections.tla for every set of descriptors, every number *)
(* of workers and sockets, every batch size and both accept loops.  The    *)
(* timer's part of the invariant, TInv, and what each of its operations    *)
(* does to it are in TimerProofs.tla.                                      *)
(***************************************************************************)
EXTENDS Connections, TimerProofs, SequenceTheorems

USE ConnectionsAssumption

-----------------------------------------------------------------------------
(* Helpers: the descriptor accept returns, and the two ends of a queue.    *)

\* Among the sets of the numbers up to k that T has, k in T, one is smallest.
LEMMA NatHasMinimum ==
  ASSUME NEW T, T \subseteq Nat, T # {}
  PROVE  \E x \in T : \A y \in T : x <= y
<1> DEFINE UpToIn(k) == T \cap (0..k)
           All == {UpToIn(k) : k \in T}
<1>1. All \subseteq FiniteSubsetsOf(Nat) /\ All # {}
  <2>1. ASSUME NEW k \in T PROVE UpToIn(k) \in FiniteSubsetsOf(Nat)
    <3>1. IsFiniteSet(0..k)
      BY FS_Interval
    <3>2. IsFiniteSet(UpToIn(k))
      BY <3>1, FS_Subset
    <3> QED
      BY <3>2 DEF FiniteSubsetsOf
  <2> QED
    BY <2>1
<1>2. PICK X \in All : \A Y \in All : ~ (<<Y, X>> \in StrictSubsetOrdering(Nat))
  <2>1. IsWellFoundedOn(StrictSubsetOrdering(Nat), FiniteSubsetsOf(Nat))
    BY FS_StrictSubsetOrderingWellFounded
  <2> HIDE DEF All
  <2> QED
    BY <1>1, <2>1, WFMin
<1>3. PICK x \in T : X = UpToIn(x)
  BY <1>2
<1>4. ASSUME NEW y \in T PROVE x <= y
  <2> SUFFICES ASSUME y < x PROVE FALSE
    OBVIOUS
  <2>1. UpToIn(y) \subseteq UpToIn(x) /\ x \in UpToIn(x) /\ x \notin UpToIn(y)
    OBVIOUS
  <2>2. UpToIn(y) \in All
    OBVIOUS
  <2>3. <<UpToIn(y), X>> \in StrictSubsetOrdering(Nat)
    BY <1>3, <2>1 DEF StrictSubsetOrdering
  <2> QED
    BY <1>2, <2>2, <2>3
<1> QED
  BY <1>4

LEMMA LowestFreeIsFree == FreeFds # {} => LowestFree \in FreeFds
<1>1. FreeFds \subseteq Nat
  BY DEF FreeFds, ClientFds
<1>2. FreeFds # {} => \E f \in FreeFds : \A g \in FreeFds : f <= g
  BY <1>1, NatHasMinimum
<1> QED
  BY <1>2 DEF LowestFree

LEMMA AppendIsLast ==
  ASSUME NEW S, NEW q \in Seq(S), NEW x \in S
  PROVE  /\ Append(q, x) \in Seq(S)
         /\ DOMAIN Append(q, x) = DOMAIN q \cup {Len(q) + 1}
         /\ \A i \in DOMAIN q : i # Len(q) + 1 /\ Append(q, x)[i] = q[i]
         /\ Append(q, x)[Len(q) + 1] = x
  OBVIOUS

LEMMA TailIsRest ==
  ASSUME NEW S, NEW q \in Seq(S), q # <<>>
  PROVE  /\ Tail(q) \in Seq(S)
         /\ Head(q) = q[1] /\ Head(q) \in S
         /\ 1 \in DOMAIN q
         /\ \A i \in DOMAIN Tail(q) : /\ i \in Nat \ {0} /\ i + 1 \in DOMAIN q
                                      /\ Tail(q)[i] = q[i + 1]
         /\ \A i \in DOMAIN q : i = 1 \/ (i - 1 \in DOMAIN Tail(q) /\ Tail(q)[i - 1] = q[i])
<1>1. /\ Len(q) \in Nat \ {0} /\ DOMAIN q = 1..Len(q)
      /\ Tail(q) \in Seq(S) /\ Len(Tail(q)) = Len(q) - 1
      /\ \A i \in 1..(Len(q) - 1) : Tail(q)[i] = q[i + 1]
      /\ Head(q) = q[1] /\ Head(q) \in S
  BY HeadTailProperties, LenProperties, EmptySeq
<1>2. DOMAIN Tail(q) = 1..(Len(q) - 1)
  BY <1>1, LenProperties
<1> QED
  BY <1>1, <1>2

-----------------------------------------------------------------------------
(* The first layer of the invariant: what holds whether or not an event was *)
(* handled stale.                                                           *)

\* What the reactor's place says of its batch and of the ticks it has read; and
\* only the handler of a client reaches "keep".
Control ==
  /\ mainPc \in {"forbid", "append", "tick", "expire"} => batch # <<>>
  /\ mainPc = "forbid" => Head(batch).src = "listen"
  /\ mainPc = "append" => Head(batch).src \in {"client", "listen"}
  /\ mainPc \notin {"tick", "expire"} => ticks = 0
  /\ mainPc = "expire" => ticks > 0
  /\ \A w \in Workers : wpc[w] = "keep" => job[w].fd \in ClientFds

\* Sockets are numbered as they are made; -1 is never open, the listening number
\* is never given to a client, and epoll knows open numbers only.
Numbers ==
  /\ sockets + backlog <= MaxSockets
  /\ \A f \in Fds : conn[f] <= sockets
  /\ conn[NoFd] = Closed
  /\ conn[ListenFd] \in {Closed, Listening}
  /\ \A f \in Fds : epoll[f] # "none" => conn[f] # Closed

\* A batch reports a client's descriptor at most once, with a socket that exists.
Events ==
  /\ \A i \in DOMAIN batch :
       /\ batch[i].src = "client" => /\ batch[i].fd \in ClientFds
                                     /\ batch[i].sock \in 1..sockets
       /\ batch[i].src = "listen" => batch[i].fd = ListenFd
  /\ \A i, j \in DOMAIN batch :
       /\ batch[i].src = "client" /\ batch[j].src = "client"
       /\ batch[i].fd = batch[j].fd
       => i = j

Base == TInv /\ TypeOK /\ AlarmChain /\ Control /\ Numbers /\ Events

LEMMA HeadOfBatch ==
  ASSUME TypeOK, batch # <<>>
  PROVE  /\ Head(batch) = batch[1] /\ 1 \in DOMAIN batch
         /\ Head(batch) \in [src : {"listen", "pipe", "client"}, fd : Fds, sock : Nat]
         /\ Head(batch).fd \in Fds /\ Head(batch).sock \in Nat
<1> DEFINE S == [src : {"listen", "pipe", "client"}, fd : Fds, sock : Nat]
<1>1. Head(batch) = batch[1] /\ 1 \in DOMAIN batch /\ Head(batch) \in S
  <2>1. batch \in Seq(S)
    BY DEF TypeOK
  <2> HIDE DEF S
  <2> QED
    BY <2>1, TailIsRest
<1> QED
  BY <1>1

LEMMA JobType ==
  ASSUME TypeOK, NEW w \in Workers
  PROVE  job[w].fd \in Fds /\ job[w].sock \in Nat
BY DEF TypeOK

LEMMA BaseTypes ==
  ASSUME Base
  PROVE  /\ TInv /\ TypeOK /\ now \in Nat
         /\ epoll \in [Fds -> {"none", "armed", "spent"}]
         /\ conn \in [Fds -> Nat]
         /\ sockets \in Nat \ {0} /\ sockets \in 1..MaxSockets
         /\ backlog \in Nat
         /\ batch \in Seq([src : {"listen", "pipe", "client"}, fd : Fds, sock : Nat])
         /\ workList \in Seq([fd : Fds, sock : Nat])
         /\ job \in [Workers -> [fd : Fds, sock : Nat]]
         /\ wpc \in [Workers -> {"idle", "serve", "keep", "delete", "close"}]
<1>1. TInv /\ TypeOK /\ TimerTypeOK
  BY DEF Base, TInv
<1>2. sockets \in 1..MaxSockets /\ backlog \in 0..MaxSockets
  BY <1>1 DEF TypeOK
<1>3. sockets \in Nat \ {0} /\ backlog \in Nat
  BY <1>2
<1>4. /\ now \in Nat
      /\ epoll \in [Fds -> {"none", "armed", "spent"}]
      /\ conn \in [Fds -> Nat]
  BY <1>1 DEF TimerTypeOK
<1> QED
  BY <1>1, <1>2, <1>3, <1>4 DEF TypeOK

LEMMA InitBase == Init => Base
<1> SUFFICES ASSUME Init PROVE Base
  OBVIOUS
<1>1. TInv
  <2>1. TimerInit
    BY DEF Init, TimerInit, Listening, Closed
  <2> QED
    BY <2>1, InitTInv
<1>2. TypeOK
  <2>1. TimerTypeOK
    BY <1>1 DEF TInv
  <2>2. batch = <<>> /\ workList = <<>>
    BY DEF Init
  <2>3. /\ batch \in Seq([src : {"listen", "pipe", "client"}, fd : Fds, sock : Nat])
        /\ workList \in Seq([fd : Fds, sock : Nat])
    BY <2>2
  <2>4. /\ backlog \in 0..MaxSockets /\ sockets \in 1..MaxSockets /\ cur \in 0..now
        /\ left \subseteq 1..MaxSockets
    BY DEF Init, Listening
  <2>5. /\ job \in [Workers -> [fd : Fds, sock : Nat]]
        /\ wpc \in [Workers -> {"idle", "serve", "keep", "delete", "close"}]
    BY DEF Init, NoTask, Closed
  <2> QED
    BY <2>1, <2>3, <2>4, <2>5 DEF Init, TypeOK
<1>3. AlarmChain /\ Control
  BY DEF Init, AlarmChain, Control
<1>4. Numbers
  BY DEF Init, Numbers, Listening, Closed
<1>5. Events
  BY DEF Init, Events
<1> QED
  BY <1>1, <1>2, <1>3, <1>4, <1>5 DEF Base

\* The steps that leave the timer's variables, and hence its invariant, alone.
TimerUntouched ==
  \/ Connect \/ AlarmFires \/ BatchDone \/ AcceptFails \/ AppendEvent
  \/ ReadPipe \/ TicksDone \/ SampleTime
  \/ \E w \in Workers : Fetch(w) \/ Serve(w) \/ ServeReturns(w)

LEMMA BaseKeepsTimer == Base /\ [Next]_vars => TInv'
<1> SUFFICES ASSUME Base, [Next]_vars PROVE TInv'
  OBVIOUS
<1>1. /\ TInv /\ TypeOK /\ now \in Nat
      /\ epoll \in [Fds -> {"none", "armed", "spent"}]
      /\ conn \in [Fds -> Nat] /\ sockets \in Nat
  BY BaseTypes
<1>2. CASE TimerUntouched \/ UNCHANGED vars
  <2>1. UNCHANGED timerVars
    BY <1>2 DEF TimerUntouched, vars, Connect, AlarmFires, BatchDone, AcceptFails,
       AppendEvent, ReadPipe, TicksDone, SampleTime, Fetch, Serve, ServeReturns
  <2> QED
    BY <1>1, <2>1, StutterPreserves
<1>3. CASE Clock
  <2>1. now' = now + 1 /\ UNCHANGED <<nodeVars, epoll, conn, aborted>>
    BY <1>3 DEF Clock, Tick
  <2> QED
    BY <1>1, <2>1, OutsidePreserves
<1>4. CASE EpollWait
  <2>1. /\ UNCHANGED <<now, nodeVars, conn, aborted>>
        /\ epoll' \in [Fds -> {"none", "armed", "spent"}]
    BY <1>1, <1>4 DEF EpollWait
  <2> QED
    BY <1>1, <2>1, OutsidePreserves
<1>5. CASE AcceptOne
  <2>1. UNCHANGED <<now, nodeVars, epoll, aborted>>
    BY <1>5 DEF AcceptOne
  <2>2. conn' = [conn EXCEPT ![LowestFree] = sockets + 1]
    BY <1>5 DEF AcceptOne
  <2>3. conn' \in [Fds -> Nat]
    <3>1. sockets + 1 \in Nat
      BY <1>1
    <3> QED
      BY <1>1, <2>2, <3>1, Zenon
  <2> QED
    BY <1>1, <2>1, <2>3, OutsidePreserves
<1>6. CASE Forbid
  <2>1. Head(batch).fd \in Fds
    BY <1>1, <1>6, HeadOfBatch DEF Base, Control, Forbid, AtEvent
  <2> QED
    BY <1>1, <1>6, <2>1, ForbidenFdPreserves DEF Forbid
<1>7. CASE ExpireAndRearm
  BY <1>1, <1>7, DeleteExpiredPreserves DEF ExpireAndRearm
<1>8. ASSUME NEW w \in Workers, Keep(w) PROVE TInv'
  BY <1>1, <1>8, JobType, AddfdPreserves DEF Keep
<1>9. ASSUME NEW w \in Workers, DeleteFailed(w) PROVE TInv'
  BY <1>1, <1>9, JobType, DeleteFdPreserves DEF DeleteFailed
<1>10. ASSUME NEW w \in Workers, Close(w) PROVE TInv'
  <2>1. /\ UNCHANGED <<now, nodeVars, aborted>>
        /\ conn' \in [Fds -> Nat]
        /\ epoll' \in [Fds -> {"none", "armed", "spent"}]
    BY <1>1, <1>10 DEF Close, CloseFd, Closed
  <2> QED
    BY <1>1, <2>1, OutsidePreserves
<1>11. ASSUME NEW w \in Workers, ServePeerClosed(w) PROVE TInv'
  BY <1>1, <1>11 DEF ServePeerClosed, nodeVars, TInv, TimerTypeOK, Nodes, ListFinite,
     PosUnique, ExpiryBounded, IteratorsValid, ListSorted, CountWithinMap, Mapped,
     NeverPastTheEnd
<1> QED
  BY <1>2, <1>3, <1>4, <1>5, <1>6, <1>7, <1>8, <1>9, <1>10, <1>11
     DEF TimerUntouched, Next, Step, MainStep, WorkerStep

LEMMA BaseKeepsControl == Base /\ [Next]_vars => AlarmChain' /\ Control'
<1> SUFFICES ASSUME Base, [Next]_vars PROVE AlarmChain' /\ Control'
  OBVIOUS
<1> USE DEF Base, AlarmChain, Control
<1>1. /\ pipe \in Nat /\ alarmSet \in BOOLEAN /\ ticks \in Nat
      /\ mainPc \in {"poll", "event", "forbid", "append", "tick", "expire"}
      /\ job \in [Workers -> [fd : Fds, sock : Nat]]
      /\ wpc \in [Workers -> {"idle", "serve", "keep", "delete", "close"}]
  BY DEF TypeOK
<1>2. CASE UNCHANGED vars \/ Connect \/ Clock
  BY <1>1, <1>2 DEF vars, Connect, Clock, mainVars, signalVars, poolVars
<1>3. CASE AlarmFires
  BY <1>1, <1>3 DEF AlarmFires, mainVars, poolVars
<1>4. CASE EpollWait \/ BatchDone \/ AcceptOne
  BY <1>1, <1>4 DEF EpollWait, BatchDone, AcceptOne, mainVars, signalVars, poolVars
<1>5. CASE AcceptFails
  BY <1>1, <1>5 DEF AcceptFails, AtEvent, signalVars
<1>6. CASE Forbid
  BY <1>1, <1>6 DEF Forbid, AtEvent, signalVars, poolVars
<1>7. CASE AppendEvent \/ ReadPipe \/ TicksDone
  BY <1>1, <1>7 DEF AppendEvent, ReadPipe, TicksDone, AtEvent, signalVars, poolVars
<1>8. CASE SampleTime \/ ExpireAndRearm
  BY <1>1, <1>8 DEF SampleTime, ExpireAndRearm, signalVars, poolVars
<1>9. ASSUME NEW v \in Workers, WorkerStep(v) PROVE AlarmChain' /\ Control'
  <2>1. UNCHANGED <<mainVars, signalVars>>
    BY <1>9 DEF WorkerStep, Fetch, Serve, ServeReturns, ServePeerClosed, Keep,
       DeleteFailed, Close
  <2>2. \A w \in Workers : wpc'[w] = "keep" => job'[w].fd \in ClientFds
    <3>1. CASE Fetch(v)
      BY <1>1, <3>1 DEF Fetch
    <3>2. CASE Serve(v)
      BY <1>1, <3>2 DEF Serve, IsClient
    <3>3. CASE ServeReturns(v) \/ ServePeerClosed(v) \/ Keep(v) \/ DeleteFailed(v) \/ Close(v)
      BY <1>1, <3>3 DEF ServeReturns, ServePeerClosed, Keep, DeleteFailed, Close,
         Return, poolVars
    <3> QED
      BY <1>9, <3>1, <3>2, <3>3 DEF WorkerStep
  <2> QED
    BY <1>1, <2>1, <2>2 DEF mainVars, signalVars
<1> QED
  BY <1>2, <1>3, <1>4, <1>5, <1>6, <1>7, <1>8, <1>9 DEF Next, Step, MainStep

\* What epoll_wait puts into the batch.
LEMMA WhatIsReported ==
  ASSUME Base, EpollWait
  PROVE  /\ \E n \in 1..MaxEvents :
              /\ batch' \in [1..n -> Ready]
              /\ \A i, j \in 1..n : batch'[i] = batch'[j] => i = j
              /\ epoll' = [f \in Fds |-> IF \E i \in 1..n : /\ batch'[i].src = "client"
                                                            /\ batch'[i].fd = f
                                           THEN "spent" ELSE epoll[f]]
         /\ \A e \in Ready :
              /\ e \in [src : {"listen", "pipe", "client"}, fd : Fds, sock : Nat]
              /\ e.src = "client" =>
                   /\ e.fd \in ClientFds /\ e = ReadEvent(e.fd)
                   /\ epoll[e.fd] = "armed"
                   /\ e.sock = conn[e.fd] /\ e.sock \in 1..sockets
              /\ e.src = "listen" => e.fd = ListenFd
<1>1. \E n \in 1..MaxEvents :
        /\ batch' \in [1..n -> Ready]
        /\ \A i, j \in 1..n : batch'[i] = batch'[j] => i = j
        /\ epoll' = [f \in Fds |-> IF \E i \in 1..n : /\ batch'[i].src = "client"
                                                      /\ batch'[i].fd = f
                                     THEN "spent" ELSE epoll[f]]
  <2>1. PICK n \in 1..MaxEvents : \E b \in [1..n -> Ready] :
           /\ \A i, j \in 1..n : b[i] = b[j] => i = j
           /\ batch' = b
           /\ epoll' = [f \in Fds |-> IF \E i \in 1..n : b[i].src = "client" /\ b[i].fd = f
                                        THEN "spent" ELSE epoll[f]]
    BY DEF EpollWait
  <2>2. PICK b \in [1..n -> Ready] :
           /\ \A i, j \in 1..n : b[i] = b[j] => i = j
           /\ batch' = b
           /\ epoll' = [f \in Fds |-> IF \E i \in 1..n : b[i].src = "client" /\ b[i].fd = f
                                        THEN "spent" ELSE epoll[f]]
    BY <2>1
  <2> WITNESS n \in 1..MaxEvents
  <2> QED
    BY <2>2
<1>2. ASSUME NEW e \in Ready
      PROVE  /\ e \in [src : {"listen", "pipe", "client"}, fd : Fds, sock : Nat]
             /\ e.src = "client" =>
                  /\ e.fd \in ClientFds /\ e = ReadEvent(e.fd)
                  /\ epoll[e.fd] = "armed"
                  /\ e.sock = conn[e.fd] /\ e.sock \in 1..sockets
             /\ e.src = "listen" => e.fd = ListenFd
  <2>0. \A f \in Fds : conn[f] \in Nat /\ conn[f] <= sockets /\ sockets \in Nat
                       /\ (epoll[f] = "armed" => conn[f] # Closed)
    BY BaseTypes DEF Base, Numbers
  <2>1. CASE \E f \in ClientFds : epoll[f] = "armed" /\ e = ReadEvent(f)
    <3>1. PICK f \in ClientFds : epoll[f] = "armed" /\ e = ReadEvent(f)
      BY <2>1
    <3>2. e.fd = f /\ e.src = "client" /\ e.sock = conn[f] /\ f \in Fds
      BY <3>1 DEF ReadEvent, ClientFds
    <3>3. conn[f] \in 1..sockets
      BY <2>0, <3>1, <3>2 DEF Closed
    <3> QED
      BY <2>0, <3>1, <3>2, <3>3 DEF ReadEvent
  <2>2. CASE e = PipeEvent \/ e = ListenEvent
    BY <2>2 DEF PipeEvent, ListenEvent, Closed, Listening
  <2> QED
    BY <2>1, <2>2 DEF Ready
<1> QED
  BY <1>1, <1>2

LEMMA AcceptedNumber ==
  ASSUME Base, AcceptOne
  PROVE  /\ LowestFree \in ClientFds /\ LowestFree \in Fds
         /\ conn[LowestFree] = Closed /\ epoll[LowestFree] = "none"
         /\ \A g \in Fds : conn'[g] = IF g = LowestFree THEN sockets + 1 ELSE conn[g]
         /\ sockets' = sockets + 1
<1>1. LowestFree \in FreeFds
  BY LowestFreeIsFree DEF AcceptOne
<1>2. LowestFree \in ClientFds /\ LowestFree \in Fds /\ conn[LowestFree] = Closed
  BY <1>1 DEF FreeFds, ClientFds
<1>3. conn \in [Fds -> Nat]
  BY BaseTypes
<1>4. conn' = [conn EXCEPT ![LowestFree] = sockets + 1] /\ sockets' = sockets + 1
  BY DEF AcceptOne
<1> QED
  BY <1>2, <1>3, <1>4 DEF Base, Numbers

LEMMA BaseKeepsNumbers == Base /\ [Next]_vars => Numbers'
<1> SUFFICES ASSUME Base, [Next]_vars PROVE Numbers'
  OBVIOUS
<1>1. /\ Numbers
      /\ sockets \in Nat \ {0} /\ backlog \in Nat
      /\ epoll \in [Fds -> {"none", "armed", "spent"}]
      /\ conn \in [Fds -> Nat]
  BY BaseTypes DEF Base
<1>2. CASE UNCHANGED <<sockets, backlog, conn, epoll>>
  BY <1>1, <1>2 DEF Numbers
<1>3. CASE Connect
  BY <1>1, <1>3 DEF Connect, Numbers, timerVars
<1>4. CASE EpollWait
  <2>1. PICK n \in 1..MaxEvents :
          /\ batch' \in [1..n -> Ready]
          /\ epoll' = [f \in Fds |-> IF \E i \in 1..n : /\ batch'[i].src = "client"
                                                        /\ batch'[i].fd = f
                                       THEN "spent" ELSE epoll[f]]
    BY <1>4, WhatIsReported
  <2>2. \A f \in Fds : epoll'[f] # "none" => epoll[f] # "none"
    BY <1>4, <2>1, WhatIsReported
  <2>3. UNCHANGED <<conn, sockets, backlog>>
    BY <1>4 DEF EpollWait
  <2> QED
    BY <1>1, <2>2, <2>3 DEF Numbers
<1>5. CASE AcceptOne
  <2>1. /\ \A g \in Fds : conn'[g] = IF g = LowestFree THEN sockets + 1 ELSE conn[g]
        /\ LowestFree \notin {NoFd, ListenFd}
    BY <1>5, AcceptedNumber DEF Base, ClientFds
  <2>2. sockets' = sockets + 1 /\ backlog' = backlog - 1 /\ epoll' = epoll
    BY <1>5 DEF AcceptOne
  <2> QED
    BY <1>1, <2>1, <2>2 DEF Numbers, Closed
<1>6. CASE ExpireAndRearm
  <2> DEFINE lost == FdsOf(Popped(cur))
  <2>1. /\ conn' = [f \in Fds |-> IF f \in lost THEN Closed ELSE conn[f]]
        /\ epoll' = [f \in Fds |-> IF f \in lost THEN "none" ELSE epoll[f]]
        /\ sockets' = sockets /\ backlog' = backlog
    BY <1>6 DEF ExpireAndRearm, DeleteExpiredFd, listenVars
  <2> HIDE DEF lost
  <2> QED
    BY <1>1, <2>1 DEF Numbers, Closed
<1>7. ASSUME NEW w \in Workers, Keep(w) PROVE Numbers'
  <2>1. /\ epoll' = epoll \/ epoll' = Added(job[w].fd)
        /\ UNCHANGED <<conn, sockets, backlog>>
    BY <1>7 DEF Keep, Addfd, AddRefused, AddNew, AddAgain, AddFdToEpollOneshot,
       ResetOneshot, listenVars
  <2> QED
    BY <1>1, <2>1 DEF Numbers, Added
<1>8. ASSUME NEW w \in Workers, DeleteFailed(w) PROVE Numbers'
  <2>1. /\ epoll' = epoll \/ epoll' = [epoll EXCEPT ![job[w].fd] = "none"]
        /\ UNCHANGED <<conn, sockets, backlog>>
    BY <1>8 DEF DeleteFailed, DeleteFd, Unknown, EraseEnd, DeleteListed, timerVars,
       listenVars
  <2> QED
    BY <1>1, <2>1 DEF Numbers
<1>9. ASSUME NEW w \in Workers, Close(w) PROVE Numbers'
  <2>1. /\ conn' = [conn EXCEPT ![job[w].fd] = Closed]
        /\ epoll' = [epoll EXCEPT ![job[w].fd] = "none"]
        /\ UNCHANGED <<sockets, backlog>>
    BY <1>9 DEF Close, CloseFd, listenVars
  <2> QED
    BY <1>1, <2>1 DEF Numbers, Closed
<1>10. CASE Forbid
  <2>1. UNCHANGED <<sockets, backlog, conn, epoll>>
    BY <1>10 DEF Forbid, ForbidenFd, Unknown, EraseEnd, ForbidListed, timerVars, listenVars
  <2> QED
    BY <1>2, <2>1
<1>11. CASE TimerUntouched /\ ~Connect
  <2>1. UNCHANGED <<sockets, backlog, conn, epoll>>
    BY <1>11 DEF TimerUntouched, AlarmFires, BatchDone, AcceptFails, AppendEvent,
       ReadPipe, TicksDone, SampleTime, Fetch, Serve, ServeReturns, timerVars, listenVars
  <2> QED
    BY <1>2, <2>1
<1>12. CASE Clock \/ UNCHANGED vars \/ \E w \in Workers : ServePeerClosed(w)
  <2>1. UNCHANGED <<sockets, backlog, conn, epoll>>
    BY <1>12 DEF Clock, Tick, ServePeerClosed, vars, timerVars, listenVars
  <2> QED
    BY <1>2, <2>1
<1> QED
  BY <1>3, <1>4, <1>5, <1>6, <1>7, <1>8, <1>9, <1>10, <1>11, <1>12
     DEF TimerUntouched, Next, Step, MainStep, WorkerStep

LEMMA BaseKeepsEvents == Base /\ [Next]_vars => Events'
<1> SUFFICES ASSUME Base, [Next]_vars PROVE Events'
  OBVIOUS
<1> DEFINE S == [src : {"listen", "pipe", "client"}, fd : Fds, sock : Nat]
<1>1. Events /\ sockets \in Nat /\ batch \in Seq(S)
  BY BaseTypes DEF Base
<1> HIDE DEF S
<1>2. CASE batch' = batch /\ sockets' \in {sockets, sockets + 1}
  BY <1>1, <1>2 DEF Events
<1>3. ASSUME batch # <<>>, batch' = Tail(batch), sockets' = sockets PROVE Events'
  <2>1. \A i \in DOMAIN batch' : /\ i \in Nat /\ i + 1 \in DOMAIN batch
                                 /\ batch'[i] = batch[i + 1]
    BY <1>1, <1>3, TailIsRest
  <2> QED
    BY <1>1, <1>3, <2>1 DEF Events
<1>4. CASE EpollWait
  <2>1. PICK n \in 1..MaxEvents :
          /\ batch' \in [1..n -> Ready]
          /\ \A i, j \in 1..n : batch'[i] = batch'[j] => i = j
    BY <1>4, WhatIsReported
  <2>2. sockets' = sockets
    BY <1>4 DEF EpollWait
  <2>3. \A i \in DOMAIN batch' :
          /\ batch'[i].src = "client" => /\ batch'[i].fd \in ClientFds
                                         /\ batch'[i] = ReadEvent(batch'[i].fd)
                                         /\ batch'[i].sock \in 1..sockets
          /\ batch'[i].src = "listen" => batch'[i].fd = ListenFd
    BY <1>4, <2>1, WhatIsReported
  <2>4. DOMAIN batch' = 1..n
    BY <2>1
  <2> QED
    BY <2>1, <2>2, <2>3, <2>4 DEF Events
<1>5. CASE AcceptFails \/ AppendEvent \/ TicksDone
  <2>1. sockets' = sockets /\ batch # <<>> /\ batch' \in {batch, Tail(batch)}
    BY <1>5 DEF AcceptFails, AppendEvent, TicksDone, AtEvent, listenVars, Base, Control
  <2> QED
    BY <1>2, <1>3, <2>1
<1>6. CASE Connect \/ Clock \/ AlarmFires \/ BatchDone \/ AcceptOne \/ Forbid \/ ReadPipe
           \/ SampleTime \/ ExpireAndRearm \/ UNCHANGED vars
  <2>1. batch' = batch /\ sockets' \in {sockets, sockets + 1}
    BY <1>6 DEF Connect, Clock, AlarmFires, BatchDone, AcceptOne, Forbid, ReadPipe,
       SampleTime, ExpireAndRearm, vars, mainVars, listenVars
  <2> QED
    BY <1>2, <2>1
<1>7. ASSUME NEW w \in Workers, WorkerStep(w) PROVE Events'
  <2>1. batch' = batch /\ sockets' = sockets
    BY <1>7 DEF WorkerStep, Fetch, Serve, ServeReturns, ServePeerClosed, Keep,
       DeleteFailed, Close, mainVars, listenVars
  <2> QED
    BY <1>2, <2>1
<1> QED
  BY <1>4, <1>5, <1>6, <1>7 DEF Next, Step, MainStep

LEMMA BaseKeepsQueues ==
  Base /\ [Next]_vars =>
    /\ batch' \in Seq([src : {"listen", "pipe", "client"}, fd : Fds, sock : Nat])
    /\ workList' \in Seq([fd : Fds, sock : Nat])
<1> DEFINE E == [src : {"listen", "pipe", "client"}, fd : Fds, sock : Nat]
           T == [fd : Fds, sock : Nat]
<1> SUFFICES ASSUME Base, [Next]_vars PROVE batch' \in Seq(E) /\ workList' \in Seq(T)
  OBVIOUS
<1>1. batch \in Seq(E) /\ workList \in Seq(T)
  BY BaseTypes
<1>2. ASSUME NEW f \in Fds, NEW s \in Nat, Enqueue(f, s) PROVE workList' \in Seq(T)
  <2>1. [fd |-> f, sock |-> s] \in T
    OBVIOUS
  <2> HIDE DEF T
  <2> QED
    BY <1>1, <1>2, <2>1, AppendProperties DEF Enqueue
<1>3. batch # <<>> => Tail(batch) \in Seq(E)
  <2> HIDE DEF E
  <2> QED
    BY <1>1, TailIsRest
<1>4. workList # <<>> => Tail(workList) \in Seq(T)
  <2> HIDE DEF T
  <2> QED
    BY <1>1, TailIsRest
<1>5. batch # <<>> => Head(batch).fd \in Fds /\ Head(batch).sock \in Nat
  BY HeadOfBatch DEF Base
<1>6. CASE EpollWait
  <2>1. PICK n \in 1..MaxEvents : batch' \in [1..n -> Ready]
    BY <1>6, WhatIsReported
  <2>2. \A e \in Ready : e \in E
    BY <1>6, WhatIsReported
  <2> HIDE DEF E
  <2>3. batch' \in [1..n -> E] /\ n \in Nat
    BY <2>1, <2>2
  <2>4. batch' \in Seq(E)
    BY <2>3
  <2>5. workList' = workList
    BY <1>6 DEF EpollWait, poolVars
  <2> QED
    BY <1>1, <2>4, <2>5
<1>7. CASE AcceptOne
  <2>1. LowestFree \in Fds /\ sockets + 1 \in Nat /\ batch' = batch
    <3>1. sockets \in Nat
      BY BaseTypes
    <3> QED
      BY <1>7, <3>1, AcceptedNumber DEF AcceptOne, mainVars
  <2>2. workList' = workList \/ Enqueue(LowestFree, sockets + 1)
    BY <1>7 DEF AcceptOne
  <2> HIDE DEF T, E
  <2> QED
    BY <1>1, <1>2, <2>1, <2>2
<1>8. CASE AcceptFails
  <2>1. batch # <<>> /\ batch' \in {batch, Tail(batch)}
    BY <1>8 DEF AcceptFails, AtEvent
  <2>2. workList' = workList \/ Enqueue(NoFd, Closed)
    BY <1>8 DEF AcceptFails
  <2>3. NoFd \in Fds /\ Closed \in Nat
    BY DEF Closed
  <2> HIDE DEF T, E
  <2> QED
    BY <1>1, <1>2, <1>3, <2>1, <2>2, <2>3
<1>9. CASE AppendEvent
  <2> HIDE DEF T, E
  <2> QED
    BY <1>2, <1>3, <1>5, <1>9 DEF AppendEvent, Base, Control
<1>10. CASE TicksDone
  <2> HIDE DEF T, E
  <2> QED
    BY <1>1, <1>3, <1>10 DEF TicksDone, Base, Control, poolVars
<1>11. CASE Connect \/ Clock \/ AlarmFires \/ BatchDone \/ Forbid \/ ReadPipe
            \/ SampleTime \/ ExpireAndRearm \/ UNCHANGED vars
  <2>1. batch' = batch /\ workList' = workList
    BY <1>11 DEF Connect, Clock, AlarmFires, BatchDone, Forbid, ReadPipe,
       SampleTime, ExpireAndRearm, vars, mainVars, poolVars
  <2> QED
    BY <1>1, <2>1
<1>12. ASSUME NEW w \in Workers, WorkerStep(w) PROVE batch' \in Seq(E) /\ workList' \in Seq(T)
  <2>1. batch' = batch
    BY <1>12 DEF WorkerStep, Fetch, Serve, ServeReturns, ServePeerClosed, Keep,
       DeleteFailed, Close, mainVars
  <2>2. workList' = workList \/ (workList # <<>> /\ workList' = Tail(workList))
    BY <1>12 DEF WorkerStep, Fetch, Serve, ServeReturns, ServePeerClosed, Keep,
       DeleteFailed, Close, poolVars
  <2> HIDE DEF T, E
  <2> QED
    BY <1>1, <1>4, <2>1, <2>2
<1> QED
  BY <1>6, <1>7, <1>8, <1>9, <1>10, <1>11, <1>12 DEF Next, Step, MainStep

\* The workers' own variables and what the handlers leave open.
LEMMA BaseKeepsWorkers ==
  Base /\ [Next]_vars =>
    /\ job' \in [Workers -> [fd : Fds, sock : Nat]]
    /\ wpc' \in [Workers -> {"idle", "serve", "keep", "delete", "close"}]
    /\ left' \subseteq 1..MaxSockets
<1> DEFINE T == [fd : Fds, sock : Nat]
           P == {"idle", "serve", "keep", "delete", "close"}
           Good == job' \in [Workers -> T] /\ wpc' \in [Workers -> P]
                   /\ left' \subseteq 1..MaxSockets
<1> SUFFICES ASSUME Base, [Next]_vars PROVE Good
  OBVIOUS
<1>1. /\ job \in [Workers -> T] /\ wpc \in [Workers -> P]
      /\ left \subseteq 1..MaxSockets /\ workList \in Seq(T)
  BY BaseTypes DEF TypeOK
<1>2. ASSUME UNCHANGED <<job, wpc, left>> PROVE Good
  BY <1>1, <1>2
<1>3. ASSUME NEW w \in Workers, Return(w), left' \subseteq 1..MaxSockets PROVE Good
  <2>1. NoTask \in T
    BY DEF NoTask, Closed
  <2> QED
    BY <1>1, <1>3, <2>1 DEF Return
<1>4. ASSUME NEW w \in Workers, IsClient(job[w].fd) PROVE conn[job[w].fd] \in 1..MaxSockets
  <2>1. job[w].fd \in Fds /\ conn[job[w].fd] # Closed
    BY <1>4 DEF IsClient, ClientFds
  <2>2. conn[job[w].fd] \in Nat /\ conn[job[w].fd] <= sockets /\ sockets \in 1..MaxSockets
    BY <2>1, BaseTypes DEF Base, Numbers
  <2> QED
    BY <2>1, <2>2 DEF Closed
<1>5. ASSUME NEW w \in Workers, WorkerStep(w) PROVE Good
  <2>1. CASE Fetch(w)
    <3>1. Head(workList) \in T
      <4> HIDE DEF T
      <4> QED
        BY <1>1, <2>1, TailIsRest DEF Fetch
    <3> QED
      BY <1>1, <2>1, <3>1 DEF Fetch, historyVars
  <2>2. CASE Serve(w)
    BY <1>1, <2>2 DEF Serve, historyVars
  <2>3. CASE ServeReturns(w)
    BY <1>1, <1>3, <1>4, <2>3 DEF ServeReturns
  <2>4. CASE ServePeerClosed(w)
    BY <1>2, <2>4 DEF ServePeerClosed, poolVars, historyVars
  <2>5. CASE Keep(w)
    BY <1>1, <1>3, <1>4, <2>5 DEF Keep
  <2>6. CASE DeleteFailed(w)
    BY <1>1, <2>6 DEF DeleteFailed, historyVars
  <2>7. CASE Close(w)
    BY <1>1, <1>3, <2>7 DEF Close, historyVars
  <2> QED
    BY <1>5, <2>1, <2>2, <2>3, <2>4, <2>5, <2>6, <2>7 DEF WorkerStep
<1>6. CASE UNCHANGED vars \/ Connect \/ Clock \/ AlarmFires \/ MainStep
  <2>1. UNCHANGED <<job, wpc, left>>
    BY <1>6 DEF vars, Connect, Clock, AlarmFires, MainStep, EpollWait, BatchDone,
       AcceptOne, AcceptFails, Forbid, AppendEvent, ReadPipe, TicksDone, SampleTime,
       ExpireAndRearm, poolVars, historyVars
  <2> QED
    BY <1>2, <2>1
<1> QED
  BY <1>5, <1>6 DEF Next, Step

\* The rest of the type invariant: numbers, flags and the reactor's place.
LEMMA BaseKeepsScalars ==
  Base /\ [Next]_vars =>
    /\ backlog' \in Nat /\ sockets' \in Nat \ {0} /\ listenEdge' \in BOOLEAN
    /\ pipe' \in Nat /\ alarmSet' \in BOOLEAN /\ ticks' \in Nat /\ cur' \in 0..now'
    /\ mainPc' \in {"poll", "event", "forbid", "append", "tick", "expire"}
    /\ stale' \in BOOLEAN
<1> DEFINE Good ==
      /\ backlog' \in Nat /\ sockets' \in Nat \ {0} /\ listenEdge' \in BOOLEAN
      /\ pipe' \in Nat /\ alarmSet' \in BOOLEAN /\ ticks' \in Nat /\ cur' \in 0..now'
      /\ mainPc' \in {"poll", "event", "forbid", "append", "tick", "expire"}
      /\ stale' \in BOOLEAN
<1> SUFFICES ASSUME Base, [Next]_vars PROVE Good
  OBVIOUS
<1>1. /\ backlog \in Nat /\ sockets \in Nat \ {0} /\ listenEdge \in BOOLEAN
      /\ pipe \in Nat /\ alarmSet \in BOOLEAN /\ ticks \in Nat /\ cur \in 0..now
      /\ mainPc \in {"poll", "event", "forbid", "append", "tick", "expire"}
      /\ stale \in BOOLEAN /\ now \in Nat
  BY BaseTypes DEF TypeOK
<1>2. CASE UNCHANGED vars
  <2>1. UNCHANGED <<now, listenVars, signalVars, mainVars, stale>>
    BY <1>2 DEF vars, timerVars, historyVars
  <2> QED
    BY <1>1, <2>1 DEF listenVars, signalVars, mainVars
<1>3. CASE Connect \/ AlarmFires
  <2>1. UNCHANGED <<now, sockets, ticks, cur, mainPc, stale>>
    BY <1>3 DEF Connect, AlarmFires, timerVars, listenVars, mainVars, historyVars
  <2>2. backlog' \in Nat /\ pipe' \in Nat
    BY <1>1, <1>3 DEF Connect, AlarmFires, listenVars, signalVars
  <2>3. listenEdge' \in BOOLEAN /\ alarmSet' \in BOOLEAN
    BY <1>1, <1>3, Zenon DEF Connect, AlarmFires, listenVars, signalVars
  <2> QED
    BY <1>1, <2>1, <2>2, <2>3
<1>11. CASE Clock
  <2>1. now' = now + 1 /\ UNCHANGED <<mainVars, signalVars, listenVars, historyVars>>
    BY <1>11 DEF Clock, Tick
  <2>2. cur \in 0..now'
    BY <1>1, <2>1
  <2> QED
    BY <1>1, <2>1, <2>2 DEF mainVars, signalVars, listenVars, historyVars
<1>4. CASE EpollWait
  <2>1. /\ listenEdge' \in BOOLEAN
        /\ UNCHANGED <<now, backlog, sockets, signalVars, ticks, cur, historyVars>>
        /\ mainPc' = "event"
    BY <1>1, <1>4 DEF EpollWait
  <2> QED
    BY <1>1, <2>1 DEF signalVars, historyVars
<1>5. CASE BatchDone \/ AcceptOne
  BY <1>1, <1>5 DEF BatchDone, AcceptOne, timerVars, listenVars, signalVars, mainVars,
     historyVars
<1>6. CASE AcceptFails \/ AppendEvent
  BY <1>1, <1>6 DEF AcceptFails, AppendEvent, timerVars, listenVars, signalVars,
     historyVars
<1>7. CASE Forbid
  BY <1>1, <1>7 DEF Forbid, ForbidenFd, Unknown, EraseEnd, ForbidListed, timerVars,
     listenVars, signalVars
<1>8. CASE ReadPipe \/ TicksDone \/ SampleTime
  BY <1>1, <1>8 DEF ReadPipe, TicksDone, SampleTime, timerVars, listenVars, signalVars,
     historyVars
<1>9. CASE ExpireAndRearm
  <2>1. ticks > 0 /\ now' = now
    BY <1>9 DEF Base, Control, ExpireAndRearm, DeleteExpiredFd
  <2> QED
    BY <1>1, <1>9, <2>1 DEF ExpireAndRearm, listenVars, historyVars
<1>10. ASSUME NEW w \in Workers, WorkerStep(w) PROVE Good
  <2>1. UNCHANGED <<now, listenVars, signalVars, mainVars, stale>>
    BY <1>10 DEF WorkerStep, Fetch, Serve, ServeReturns, ServePeerClosed, Keep, Addfd,
       DeleteFailed, DeleteFd, Unknown, EraseEnd, DeleteListed, Close, CloseFd, timerVars,
       historyVars
  <2> QED
    BY <1>1, <2>1 DEF listenVars, signalVars, mainVars
<1> QED
  BY <1>2, <1>3, <1>4, <1>5, <1>6, <1>7, <1>8, <1>9, <1>10, <1>11
     DEF Next, Step, MainStep

LEMMA BaseInductive == Base /\ [Next]_vars => Base'
<1> SUFFICES ASSUME Base, [Next]_vars PROVE Base'
  OBVIOUS
<1>1. TInv' /\ TimerTypeOK'
  BY BaseKeepsTimer DEF TInv
<1>2. AlarmChain' /\ Control' /\ Numbers' /\ Events'
  BY BaseKeepsControl, BaseKeepsNumbers, BaseKeepsEvents
<1>3. backlog' \in 0..MaxSockets /\ sockets' \in 1..MaxSockets
  <2>1. backlog' \in Nat /\ sockets' \in Nat \ {0} /\ sockets' + backlog' <= MaxSockets
    BY <1>2, BaseKeepsScalars DEF Numbers
  <2>2. \A b, s, m \in Nat : s # 0 /\ s + b <= m => b \in 0..m /\ s \in 1..m
    OBVIOUS
  <2>3. sockets' \in Nat /\ sockets' # 0 /\ MaxSockets \in Nat
    BY <2>1
  <2> HIDE ConnectionsAssumption
  <2> QED
    BY <2>1, <2>2, <2>3
<1>4. TypeOK'
  BY <1>1, <1>3, BaseKeepsQueues, BaseKeepsWorkers, BaseKeepsScalars DEF TypeOK
<1> QED
  BY <1>1, <1>2, <1>4 DEF Base

LEMMA AlwaysBase == Spec => []Base
BY InitBase, BaseInductive, PTL DEF Spec

-----------------------------------------------------------------------------
(* The accept loop as it is written: no client is ever watched by epoll,    *)
(* reported, queued or served.                                              *)

Unserved(t) == t.fd \in {NoFd, ListenFd}

CodedLoop ==
  /\ \A f \in ClientFds : epoll[f] # "armed"
  /\ \A i \in DOMAIN batch : batch[i].src # "client"
  /\ \A i \in DOMAIN workList : Unserved(workList[i])
  /\ \A w \in Busy : Unserved(job[w])

LEMMA CodedLoopInductive ==
  ASSUME AcceptAsCoded, Base, CodedLoop, [Next]_vars
  PROVE  CodedLoop'
<1> DEFINE E == [src : {"listen", "pipe", "client"}, fd : Fds, sock : Nat]
           T == [fd : Fds, sock : Nat]
<1>1. /\ batch \in Seq(E) /\ workList \in Seq(T)
      /\ epoll \in [Fds -> {"none", "armed", "spent"}]
      /\ job \in [Workers -> T]
      /\ wpc \in [Workers -> {"idle", "serve", "keep", "delete", "close"}]
  BY BaseTypes
<1> HIDE DEF E
<1>2. ASSUME NEW w \in Workers, wpc[w] = "keep" PROVE FALSE
  BY <1>2 DEF Base, Control, CodedLoop, Busy, Unserved, ClientFds
<1>3. \A f \in ClientFds : epoll'[f] # "armed"
  <2>1. CASE EpollWait
    <3>1. PICK n \in 1..MaxEvents :
            epoll' = [f \in Fds |-> IF \E i \in 1..n : /\ batch'[i].src = "client"
                                                       /\ batch'[i].fd = f
                                      THEN "spent" ELSE epoll[f]]
      BY <2>1, WhatIsReported
    <3> QED
      BY <3>1 DEF CodedLoop, ClientFds
  <2>2. CASE ExpireAndRearm
    <3> DEFINE lost == FdsOf(Popped(cur))
    <3>1. epoll' = [f \in Fds |-> IF f \in lost THEN "none" ELSE epoll[f]]
      BY <2>2 DEF ExpireAndRearm, DeleteExpiredFd
    <3> HIDE DEF lost
    <3> QED
      BY <3>1 DEF CodedLoop, ClientFds
  <2>3. ASSUME NEW w \in Workers, DeleteFailed(w) \/ Close(w)
        PROVE  \A f \in ClientFds : epoll'[f] # "armed"
    <3>1. epoll' = epoll \/ epoll' = [epoll EXCEPT ![job[w].fd] = "none"]
      BY <2>3 DEF DeleteFailed, DeleteFd, Unknown, EraseEnd, DeleteListed, timerVars,
         Close, CloseFd
    <3> QED
      BY <1>1, <3>1 DEF CodedLoop, ClientFds
  <2>4. CASE TimerUntouched \/ UNCHANGED vars
    <3>1. epoll' = epoll
      BY <2>4 DEF TimerUntouched, Connect, AlarmFires, BatchDone, AcceptFails,
         AppendEvent, ReadPipe, TicksDone, SampleTime, Fetch, Serve, ServeReturns,
         vars, timerVars
    <3> QED
      BY <3>1 DEF CodedLoop
  <2>5. CASE Clock \/ AcceptOne \/ Forbid \/ \E w \in Workers : ServePeerClosed(w)
    <3>1. epoll' = epoll
      BY <2>5 DEF Clock, Tick, AcceptOne, Forbid, ForbidenFd, Unknown, EraseEnd,
         ForbidListed, ServePeerClosed, timerVars
    <3> QED
      BY <3>1 DEF CodedLoop
  <2> QED
    BY <1>2, <2>1, <2>2, <2>3, <2>4, <2>5
       DEF TimerUntouched, Next, Step, MainStep, WorkerStep, Keep
<1>4. \A i \in DOMAIN batch' : batch'[i].src # "client"
  <2>1. CASE EpollWait
    <3>1. PICK n \in 1..MaxEvents : batch' \in [1..n -> Ready]
      BY <2>1, WhatIsReported
    <3>2. \A e \in Ready : e.src # "client"
      BY <2>1, WhatIsReported DEF CodedLoop
    <3> QED
      BY <3>1, <3>2
  <2>2. ASSUME batch' = batch \/ (batch # <<>> /\ batch' = Tail(batch))
        PROVE  \A i \in DOMAIN batch' : batch'[i].src # "client"
    <3>1. CASE batch # <<>> /\ batch' = Tail(batch)
      <4>1. \A i \in DOMAIN batch' : i + 1 \in DOMAIN batch /\ batch'[i] = batch[i + 1]
        BY <1>1, <3>1, TailIsRest
      <4> QED
        BY <4>1 DEF CodedLoop
    <3> QED
      BY <2>2, <3>1 DEF CodedLoop
  <2>3. ~EpollWait => batch' = batch \/ (batch # <<>> /\ batch' = Tail(batch))
    BY DEF Next, Step, Connect, Clock, AlarmFires, MainStep, BatchDone, AcceptOne,
       AcceptFails, Forbid, AppendEvent, ReadPipe, TicksDone, SampleTime, ExpireAndRearm,
       WorkerStep, Fetch, Serve, ServeReturns, ServePeerClosed, Keep, DeleteFailed,
       Close, vars, mainVars, AtEvent, Base, Control
  <2> QED
    BY <2>1, <2>2, <2>3
<1>5. \A i \in DOMAIN workList' : Unserved(workList'[i])
  <2>1. ASSUME NEW t \in T, Unserved(t), workList' = Append(workList, t)
        PROVE  \A i \in DOMAIN workList' : Unserved(workList'[i])
    <3> HIDE DEF T
    <3> QED
      BY <1>1, <2>1, AppendIsLast DEF CodedLoop
  <2>2. CASE AcceptFails
    <3>1. [fd |-> NoFd, sock |-> Closed] \in T /\ Unserved([fd |-> NoFd, sock |-> Closed])
      BY DEF Closed, Unserved
    <3> QED
      BY <2>1, <2>2, <3>1 DEF AcceptFails, Enqueue
  <2>3. CASE AppendEvent
    <3> DEFINE t == [fd |-> Head(batch).fd, sock |-> Head(batch).sock]
    <3>1. /\ Head(batch) = batch[1] /\ 1 \in DOMAIN batch
          /\ Head(batch).fd \in Fds /\ Head(batch).sock \in Nat
          /\ Head(batch).src \in {"client", "listen"}
      BY <2>3, BaseTypes, HeadOfBatch DEF AppendEvent, Base, Control
    <3>2. Head(batch).fd = ListenFd
      BY <3>1 DEF CodedLoop, Base, Events
    <3>3. t \in T /\ Unserved(t)
      BY <3>1, <3>2 DEF Unserved
    <3> QED
      BY <2>1, <2>3, <3>3 DEF AppendEvent, Enqueue
  <2>4. ASSUME NEW w \in Workers, Fetch(w)
        PROVE  \A i \in DOMAIN workList' : Unserved(workList'[i])
    <3> HIDE DEF T
    <3> QED
      BY <1>1, <2>4, TailIsRest DEF Fetch, CodedLoop
  <2>5. CASE workList' = workList
    BY <2>5 DEF CodedLoop
  <2>6. \/ workList' = workList \/ AcceptFails \/ AppendEvent
        \/ \E w \in Workers : Fetch(w)
    BY DEF Next, Step, Connect, Clock, AlarmFires, MainStep, EpollWait, BatchDone,
       AcceptOne, Forbid, ReadPipe, TicksDone, SampleTime, ExpireAndRearm, WorkerStep,
       Serve, ServeReturns, ServePeerClosed, Keep, DeleteFailed, Close, vars, poolVars
  <2> QED
    BY <2>2, <2>3, <2>4, <2>5, <2>6
<1>6. \A w \in Busy' : Unserved(job'[w])
  <2>1. ASSUME NEW v \in Workers, Fetch(v) PROVE \A w \in Busy' : Unserved(job'[w])
    <3>1. Unserved(Head(workList))
      <4> HIDE DEF T
      <4> QED
        BY <1>1, <2>1, TailIsRest DEF Fetch, CodedLoop
    <3> QED
      BY <1>1, <2>1, <3>1 DEF Fetch, CodedLoop, Busy
  <2>2. ASSUME NEW v \in Workers, WorkerStep(v), ~Fetch(v)
        PROVE  \A w \in Busy' : Unserved(job'[w])
    <3>1. Return(v) \/ (job' = job /\ wpc' = wpc)
          \/ (job' = job /\ wpc[v] # "idle" /\ \E p : wpc' = [wpc EXCEPT ![v] = p])
      BY <2>2 DEF WorkerStep, Serve, ServeReturns, ServePeerClosed, Keep, DeleteFailed,
         Close, poolVars
    <3> QED
      BY <1>1, <3>1 DEF Return, CodedLoop, Busy
  <2>3. CASE UNCHANGED <<job, wpc>>
    BY <2>3 DEF CodedLoop, Busy
  <2>4. UNCHANGED <<job, wpc>> \/ \E v \in Workers : WorkerStep(v)
    BY DEF Next, Step, Connect, Clock, AlarmFires, MainStep, EpollWait, BatchDone,
       AcceptOne, AcceptFails, AppendEvent, Forbid, ReadPipe, TicksDone, SampleTime,
       ExpireAndRearm, vars, poolVars
  <2> QED
    BY <2>1, <2>2, <2>3, <2>4
<1> QED
  BY <1>3, <1>4, <1>5, <1>6 DEF CodedLoop

-----------------------------------------------------------------------------
(* The list and the map agree, and what each operation of the timer makes   *)
(* of their agreement.                                                      *)

Exact ==
  /\ curSize = Cardinality(Mapped)
  /\ \A n \in timeList : /\ hashMap[n.fd] = n.pos
                         /\ conn[n.fd] # Closed
                         /\ n.fd \in ClientFds

LEMMA TimerTypes ==
  ASSUME TInv
  PROVE  /\ now \in Nat /\ inserts \in Nat /\ curSize \in Int
         /\ hashMap \in [Fds -> {Absent, End} \cup 1..inserts]
         /\ epoll \in [Fds -> {"none", "armed", "spent"}]
         /\ conn \in [Fds -> Nat]
         /\ \A n \in timeList : n.pos \in 1..inserts /\ n.pos \notin {Absent, End} /\ n.fd \in Fds
<1>1. TimerTypeOK
  BY DEF TInv
<1>2. \A n \in timeList : n.pos \in 1..inserts /\ n.fd \in Fds
  BY <1>1 DEF TimerTypeOK, Nodes
<1>3. inserts \in Nat
  BY <1>1 DEF TimerTypeOK
<1>4. \A n \in timeList : n.pos \notin {Absent, End}
  BY <1>2, <1>3 DEF Absent, End
<1> QED
  BY <1>1, <1>2, <1>4 DEF TimerTypeOK

LEMMA ListedIsMapped ==
  ASSUME TInv, Exact, NEW f \in Fds
  PROVE  Listed(f) <=> hashMap[f] \notin {Absent, End}
<1>1. ASSUME Listed(f) PROVE hashMap[f] \notin {Absent, End}
  BY <1>1, TimerTypes DEF Listed, Exact
<1>2. ASSUME hashMap[f] \notin {Absent, End} PROVE Listed(f)
  BY <1>2 DEF Listed, TInv, IteratorsValid
<1> QED
  BY <1>1, <1>2

\* The node an iterator of the map points to is the descriptor's own.
LEMMA NodeOfIsOwn ==
  ASSUME TInv, NEW f \in Fds, hashMap[f] \notin {Absent, End}, NEW n \in NodeOf(f)
  PROVE  n \in timeList /\ n.fd = f
<1>1. PICK m \in timeList : m.pos = hashMap[f] /\ m.fd = f
  BY DEF TInv, IteratorsValid
<1> QED
  BY <1>1 DEF NodeOf, TInv, PosUnique

LEMMA AddfdExact ==
  ASSUME TInv, Exact, NEW f \in ClientFds, Addfd(f), ~Listed(f), conn[f] # Closed
  PROVE  Exact'
<1>0. f \in Fds /\ hashMap[f] \in {Absent, End}
  BY ListedIsMapped DEF ClientFds
<1>1. CASE AddRefused(f)
  BY <1>1 DEF Addfd, AddRefused, nodeVars, Exact, Mapped
<1>2. ASSUME InsertNode(f), conn' = conn
      PROVE  \A n \in timeList' : /\ hashMap'[n.fd] = n.pos
                                  /\ conn'[n.fd] # Closed
                                  /\ n.fd \in ClientFds
  <2> DEFINE node == [pos |-> inserts + 1, fd |-> f, expire |-> now + Timeout]
  <2>1. /\ timeList' = timeList \cup {node}
        /\ hashMap' = [hashMap EXCEPT ![f] = inserts + 1]
    BY <1>2 DEF InsertNode
  <2>2. node.fd = f /\ node.pos = inserts + 1
    OBVIOUS
  <2>3. \A n \in timeList : n.fd \in Fds /\ n.fd # f
    BY TimerTypes DEF Listed
  <2> HIDE DEF node
  <2> QED
    BY <1>0, <1>2, <2>1, <2>2, <2>3, TimerTypes DEF Exact
<1>3. inserts + 1 # Absent
  BY TimerTypes DEF Absent
<1>4. CASE AddNew(f)
  <2>1. Mapped' = Mapped \cup {f} /\ f \notin Mapped
    BY <1>0, <1>3, <1>4, TimerTypes DEF AddNew, InsertNode, Mapped
  <2>2. Cardinality(Mapped') = Cardinality(Mapped) + 1
    BY <2>1, MappedFinite, FS_AddElement
  <2>3. curSize' = curSize + 1
    BY <1>4 DEF AddNew
  <2> QED
    BY <1>2, <1>4, <2>2, <2>3 DEF Exact, AddNew, Addfd
<1>5. CASE AddAgain(f)
  <2>1. Mapped' = Mapped
    BY <1>0, <1>3, <1>5, TimerTypes DEF AddAgain, InsertNode, Mapped
  <2> QED
    BY <1>2, <1>5, <2>1 DEF Exact, AddAgain, Addfd
<1> QED
  BY <1>1, <1>4, <1>5 DEF Addfd

LEMMA DeleteFdExact ==
  ASSUME TInv, Exact, NEW f \in Fds, DeleteFd(f)
  PROVE  Exact'
<1>1. CASE Unknown(f) \/ EraseEnd(f)
  BY <1>1 DEF Unknown, EraseEnd, timerVars, nodeVars, Exact, Mapped
<1>2. CASE DeleteListed(f)
  <2>1. /\ hashMap[f] \notin {Absent, End}
        /\ timeList' = timeList \ NodeOf(f)
        /\ hashMap' = [hashMap EXCEPT ![f] = Absent]
        /\ curSize' = curSize - 1 /\ conn' = conn
    BY <1>2 DEF DeleteListed
  <2>2. Mapped' = Mapped \ {f} /\ f \in Mapped
    BY <2>1, TimerTypes DEF Mapped
  <2>3. Cardinality(Mapped') = Cardinality(Mapped) - 1
    BY <2>2, MappedFinite, FS_RemoveElement
  <2>4. \A n \in timeList' : n \in timeList /\ n.fd # f
    BY <2>1 DEF Exact, NodeOf
  <2> QED
    BY <2>1, <2>3, <2>4, TimerTypes DEF Exact
<1> QED
  BY <1>1, <1>2 DEF DeleteFd

LEMMA ForbidenFdExact ==
  ASSUME TInv, Exact, NEW f \in Fds, ForbidenFd(f)
  PROVE  Exact'
<1>1. CASE Unknown(f) \/ EraseEnd(f)
  BY <1>1 DEF Unknown, EraseEnd, timerVars, nodeVars, Exact, Mapped
<1>2. CASE ForbidListed(f)
  <2>1. /\ hashMap[f] \notin {Absent, End}
        /\ timeList' = timeList \ NodeOf(f)
        /\ hashMap' = [hashMap EXCEPT ![f] = End]
        /\ curSize' = curSize /\ conn' = conn
    BY <1>2 DEF ForbidListed
  <2>2. Mapped' = Mapped
    <3>1. End # Absent
      BY DEF End, Absent
    <3> QED
      BY <2>1, <3>1, TimerTypes DEF Mapped
  <2>3. \A n \in timeList' : n \in timeList /\ n.fd # f
    BY <2>1 DEF Exact, NodeOf
  <2> QED
    BY <2>1, <2>2, <2>3, TimerTypes DEF Exact
<1> QED
  BY <1>1, <1>2 DEF ForbidenFd

\* The popped nodes belong to as many descriptors.
LEMMA DeleteExpiredExact ==
  ASSUME TInv, Exact, NEW t, DeleteExpiredFd(t)
  PROVE  Exact'
<1> DEFINE gone == Popped(t)
           lost == FdsOf(gone)
           fdOf == [n \in gone |-> n.fd]
<1>1. /\ timeList' = timeList \ gone
      /\ hashMap' = [f \in Fds |-> IF f \in lost THEN Absent ELSE hashMap[f]]
      /\ conn' = [f \in Fds |-> IF f \in lost THEN Closed ELSE conn[f]]
      /\ curSize' = curSize - Cardinality(gone)
  BY DEF DeleteExpiredFd
<1>2. gone \subseteq timeList
  BY DEF Popped
<1>3. IsFiniteSet(gone) /\ Cardinality(gone) \in Nat
  BY <1>2, FS_Subset, FS_CardinalityType DEF TInv, ListFinite
<1> HIDE DEF gone
<1>4. \A m, n \in timeList : m.fd = n.fd => m = n
  BY DEF Exact, TInv, PosUnique
<1>5. Cardinality(lost) = Cardinality(gone)
  <2>1. fdOf \in Surjection(gone, lost)
    BY DEF Surjection, FdsOf
  <2>2. fdOf \in Injection(gone, lost)
    BY <1>2, <1>4, <2>1 DEF Injection, Surjection, IsInjective
  <2>3. fdOf \in Bijection(gone, lost)
    BY <2>1, <2>2 DEF Bijection
  <2> QED
    BY <1>3, <2>3, FS_Bijection DEF ExistsBijection
<1>6. \A f : f \in lost <=> \E n \in gone : n.fd = f
  BY DEF FdsOf
<1> HIDE DEF lost
<1>7. lost \subseteq Mapped /\ Mapped' = Mapped \ lost
  BY <1>1, <1>2, <1>6, TimerTypes DEF Exact, Mapped
<1>8. Cardinality(Mapped') = Cardinality(Mapped) - Cardinality(lost)
  <2>1. IsFiniteSet(Mapped)
    BY MappedFinite
  <2>2. IsFiniteSet(lost)
    BY <1>7, <2>1, FS_Subset
  <2>3. Cardinality(Mapped \ lost) = Cardinality(Mapped) - Cardinality(Mapped \cap lost)
    BY <2>1, <2>2, FS_Difference
  <2>4. Mapped \cap lost = lost
    BY <1>7
  <2> QED
    BY <1>7, <2>3, <2>4
<1>9. \A n \in timeList' : n \in timeList /\ n.fd \notin lost /\ n.fd \in Fds
  BY <1>1, <1>2, <1>4, <1>6, TimerTypes
<1> QED
  BY <1>1, <1>5, <1>8, <1>9 DEF Exact

LEMMA CloseFdExact ==
  ASSUME TInv, Exact, NEW f \in Fds, CloseFd(f), ~Listed(f)
  PROVE  Exact'
<1>1. /\ conn' = [conn EXCEPT ![f] = Closed]
      /\ UNCHANGED nodeVars
  BY DEF CloseFd
<1>2. \A n \in timeList : n.fd # f /\ n.fd \in Fds
  BY TimerTypes DEF Listed
<1> QED
  BY <1>1, <1>2, TimerTypes DEF nodeVars, Exact, Mapped

-----------------------------------------------------------------------------
(* The second layer: who holds a connection, as long as no event was        *)
(* handled stale.                                                           *)

\* The descriptor f in flight for the socket s: out of the list, open, still the
\* socket it was queued for, and not watched.
Mine(f, s) ==
  f \in ClientFds =>
    /\ hashMap[f] \in {Absent, End}
    /\ conn[f] = s /\ s # Closed
    /\ epoll[f] # "armed"

Owned ==
  /\ \A i \in DOMAIN workList : Mine(workList[i].fd, workList[i].sock)
  /\ \A w \in Busy : Mine(job[w].fd, job[w].sock)
  /\ mainPc = "append" => Mine(Head(batch).fd, Head(batch).sock)

\* A client's descriptor is in flight in one place only.
Once ==
  /\ \A i, j \in DOMAIN workList :
       workList[i].fd \in ClientFds /\ workList[i].fd = workList[j].fd => i = j
  /\ \A i \in DOMAIN workList, w \in Busy :
       workList[i].fd \in ClientFds => workList[i].fd # job[w].fd
  /\ \A v, w \in Busy :
       job[v].fd \in ClientFds /\ job[v].fd = job[w].fd => v = w
  /\ mainPc = "append" /\ Head(batch).fd \in ClientFds =>
       /\ \A i \in DOMAIN workList : workList[i].fd # Head(batch).fd
       /\ \A w \in Busy : job[w].fd # Head(batch).fd

\* The connections of events still to be handled are neither watched nor in
\* flight, unless the number has been closed since.
Reported ==
  \A k \in DOMAIN batch :
    /\ batch[k].src = "client" /\ conn[batch[k].fd] = batch[k].sock
    /\ ~(mainPc = "append" /\ k = 1)
    => /\ epoll[batch[k].fd] # "armed"
       /\ \A i \in DOMAIN workList : workList[i].fd # batch[k].fd
       /\ \A w \in Busy : job[w].fd # batch[k].fd

Fresh == Exact /\ Owned /\ Once /\ Reported

FInv == ~stale => Fresh

LEMMA InitFInv == Init => FInv
<1> SUFFICES ASSUME Init PROVE Fresh
  BY DEF FInv
<1>1. Exact
  <2>1. Mapped = {}
    BY DEF Init, Mapped
  <2> QED
    BY <2>1, FS_EmptySet DEF Init, Exact
<1>2. workList = <<>> /\ batch = <<>> /\ Busy = {} /\ mainPc = "poll"
  BY DEF Init, Busy
<1>3. DOMAIN workList = {} /\ DOMAIN batch = {}
  BY <1>2
<1> QED
  BY <1>1, <1>2, <1>3 DEF Fresh, Owned, Once, Reported

LEMMA StaleStays == [Next]_vars /\ stale => stale'
BY DEF Next, Step, Connect, Clock, AlarmFires, MainStep, EpollWait, BatchDone,
   AcceptOne, AcceptFails, Forbid, AppendEvent, ReadPipe, TicksDone, SampleTime,
   ExpireAndRearm, WorkerStep, Fetch, Serve, ServeReturns, ServePeerClosed, Keep,
   DeleteFailed, Close, vars, historyVars

\* Steps that move no task and do not touch the timer, epoll or a socket.
Quiet ==
  /\ UNCHANGED <<nodeVars, epoll, conn, workList, job>>
  /\ Busy' = Busy
  /\ \/ batch' = batch /\ (mainPc' = "append" <=> mainPc = "append")
     \/ batch # <<>> /\ batch' = Tail(batch) /\ mainPc # "append" /\ mainPc' # "append"

LEMMA QuietFresh ==
  ASSUME Base, Fresh, Quiet
  PROVE  Fresh'
<1>1. Exact'
  BY DEF Quiet, Fresh, Exact, nodeVars, Mapped
<1>2. Owned' /\ Once'
  BY DEF Quiet, Fresh, Owned, Once, Mine, nodeVars
<1>3. Reported'
  <2>1. CASE batch' = batch /\ (mainPc' = "append" <=> mainPc = "append")
    BY <2>1 DEF Quiet, Fresh, Reported
  <2>2. CASE batch # <<>> /\ batch' = Tail(batch) /\ mainPc # "append" /\ mainPc' # "append"
    <3>1. \A k \in DOMAIN batch' : k + 1 \in DOMAIN batch /\ batch'[k] = batch[k + 1]
      BY <2>2, BaseTypes, TailIsRest
    <3> QED
      BY <2>2, <3>1 DEF Quiet, Fresh, Reported
  <2> QED
    BY <2>1, <2>2 DEF Quiet
<1> QED
  BY <1>1, <1>2, <1>3 DEF Fresh

LEMMA ReactorQuiet ==
  ASSUME Base, \/ UNCHANGED vars \/ Connect \/ Clock \/ AlarmFires
               \/ BatchDone \/ ReadPipe \/ TicksDone \/ SampleTime
  PROVE  Quiet
<1>1. CASE UNCHANGED vars \/ Connect \/ Clock \/ AlarmFires
  BY <1>1 DEF Quiet, vars, Connect, Clock, Tick, AlarmFires, timerVars, mainVars, poolVars,
     Busy
<1>2. CASE BatchDone \/ ReadPipe \/ TicksDone \/ SampleTime
  BY <1>2 DEF Quiet, BatchDone, ReadPipe, TicksDone, SampleTime, AtEvent, timerVars,
     poolVars, Busy, Base, Control
<1> QED
  BY <1>1, <1>2

LEMMA WorkerQuiet ==
  ASSUME Base, NEW w \in Workers, Serve(w) \/ ServePeerClosed(w)
  PROVE  Quiet
<1>1. wpc \in [Workers -> {"idle", "serve", "keep", "delete", "close"}]
  BY BaseTypes
<1>2. Busy' = Busy
  BY <1>1 DEF Serve, ServePeerClosed, poolVars, Busy
<1> QED
  BY <1>2 DEF Quiet, Serve, ServePeerClosed, timerVars, mainVars, poolVars

LEMMA EpollWaitFresh ==
  ASSUME Base, Fresh, EpollWait
  PROVE  Fresh'
<1>1. PICK n \in 1..MaxEvents :
        /\ batch' \in [1..n -> Ready]
        /\ epoll' = [f \in Fds |-> IF \E i \in 1..n : /\ batch'[i].src = "client"
                                                      /\ batch'[i].fd = f
                                     THEN "spent" ELSE epoll[f]]
  BY WhatIsReported
<1>2. UNCHANGED <<nodeVars, conn, workList, job, wpc>> /\ mainPc' = "event" /\ mainPc = "poll"
  BY DEF EpollWait, poolVars
<1>3. Exact'
  BY <1>2 DEF Fresh, Exact, nodeVars, Mapped
<1>4. \A f \in ClientFds : epoll[f] # "armed" => epoll'[f] # "armed"
  BY <1>1 DEF ClientFds
<1>5. Owned' /\ Once'
  BY <1>2, <1>4 DEF Fresh, Owned, Once, Mine, nodeVars, Busy
<1>6. ASSUME NEW k \in DOMAIN batch', batch'[k].src = "client"
      PROVE  /\ batch'[k].fd \in ClientFds /\ epoll[batch'[k].fd] = "armed"
             /\ epoll'[batch'[k].fd] # "armed"
  <2>1. batch'[k].fd \in ClientFds /\ epoll[batch'[k].fd] = "armed"
    BY <1>1, <1>6, WhatIsReported
  <2>2. k \in 1..n
    BY <1>1
  <2> QED
    BY <1>1, <1>6, <2>1, <2>2 DEF ClientFds
<1>7. Reported'
  BY <1>2, <1>6 DEF Fresh, Owned, Mine, Reported, Busy
<1> QED
  BY <1>3, <1>5, <1>7 DEF Fresh

\* The new socket's number was not in use; with the loop as its layout has it,
\* the connection is queued.
LEMMA AcceptOneFresh ==
  ASSUME Base, Fresh, AcceptOne
  PROVE  Fresh'
<1> DEFINE L == LowestFree
           t == [fd |-> L, sock |-> sockets + 1]
           T == [fd : Fds, sock : Nat]
<1>1. /\ L \in ClientFds /\ L \in Fds /\ conn[L] = Closed /\ epoll[L] = "none"
      /\ \A g \in Fds : conn'[g] = IF g = L THEN sockets + 1 ELSE conn[g]
      /\ sockets \in Nat
  BY AcceptedNumber, BaseTypes
<1>2. /\ UNCHANGED <<nodeVars, epoll, batch, mainPc, job, wpc>>
      /\ mainPc # "append"
      /\ workList' = workList \/ workList' = Append(workList, t)
  BY DEF AcceptOne, Enqueue, mainVars, AtEvent
<1>3. t \in T /\ t.fd = L /\ t.sock = sockets + 1
  BY <1>1
<1>4. workList \in Seq(T)
  BY BaseTypes
<1> HIDE DEF L, t, T
<1>5. hashMap[L] \in {Absent, End}
  BY <1>1, ListedIsMapped DEF Base, Fresh, Exact, Listed
<1>6. Exact'
  BY <1>1, <1>2 DEF Fresh, Exact, nodeVars, Mapped, ClientFds, Closed
<1>7. /\ \A i \in DOMAIN workList : workList[i].fd # L
      /\ \A w \in Busy : job[w].fd # L
  BY <1>1 DEF Fresh, Owned, Mine
<1>8. ASSUME NEW f, NEW s, Mine(f, s) PROVE Mine(f, s)'
  BY <1>1, <1>2, <1>8 DEF Mine, nodeVars, ClientFds
<1>9. \A f, s : f = L /\ s = sockets + 1 => Mine(f, s)'
  BY <1>1, <1>2, <1>5 DEF Mine, nodeVars, Closed
<1>10. \A i \in DOMAIN workList' :
         \/ i \in DOMAIN workList /\ workList'[i] = workList[i]
         \/ i = Len(workList) + 1 /\ i \notin DOMAIN workList /\ workList'[i] = t
  BY <1>2, <1>3, <1>4, AppendIsLast
<1>11. Owned'
  BY <1>2, <1>3, <1>8, <1>9, <1>10 DEF Fresh, Owned, Busy
<1>12. Once'
  BY <1>2, <1>3, <1>7, <1>10 DEF Fresh, Once, Busy
<1>13. Reported'
  <2> SUFFICES ASSUME NEW k \in DOMAIN batch, batch[k].src = "client",
                      conn'[batch[k].fd] = batch[k].sock
               PROVE  /\ epoll[batch[k].fd] # "armed"
                      /\ \A i \in DOMAIN workList' : workList'[i].fd # batch[k].fd
                      /\ \A w \in Busy : job[w].fd # batch[k].fd
    BY <1>2 DEF Reported, Busy
  <2>1. batch[k].fd \in ClientFds /\ batch[k].sock \in 1..sockets
    BY DEF Base, Events
  <2>2. batch[k].fd # L /\ conn[batch[k].fd] = batch[k].sock
    BY <1>1, <2>1 DEF ClientFds
  <2> QED
    BY <1>2, <1>3, <1>10, <2>2 DEF Fresh, Reported
<1> QED
  BY <1>6, <1>11, <1>12, <1>13 DEF Fresh

\* As coded the task of a failed accept is the number -1, nobody's connection.
LEMMA AcceptFailsFresh ==
  ASSUME Base, Fresh, AcceptFails
  PROVE  Fresh'
<1> DEFINE t == [fd |-> NoFd, sock |-> Closed]
           T == [fd : Fds, sock : Nat]
<1>1. UNCHANGED <<nodeVars, epoll, conn, job, wpc>> /\ mainPc # "append" /\ batch # <<>>
  BY DEF AcceptFails, timerVars, AtEvent
<1>2. CASE ~AcceptAsCoded
  <2>1. Quiet
    BY <1>1, <1>2 DEF AcceptFails, Quiet, Busy
  <2> QED
    BY <2>1, QuietFresh
<1>3. CASE AcceptAsCoded
  <2>1. workList' = Append(workList, t) /\ batch' = batch /\ mainPc' # "append"
    BY <1>3 DEF AcceptFails, Enqueue
  <2>2. workList \in Seq(T) /\ t \in T /\ t.fd \notin ClientFds
    BY BaseTypes DEF Closed, ClientFds
  <2> HIDE DEF t, T
  <2>3. \A i \in DOMAIN workList' :
          \/ i \in DOMAIN workList /\ workList'[i] = workList[i]
          \/ workList'[i].fd \notin ClientFds
    BY <2>1, <2>2, AppendIsLast
  <2>4. Exact'
    BY <1>1 DEF Fresh, Exact, nodeVars, Mapped
  <2>5. Owned'
    BY <1>1, <2>1, <2>3 DEF Fresh, Owned, Mine, nodeVars, Busy
  <2>6. Once'
    BY <1>1, <2>1, <2>3 DEF Fresh, Once, Busy
  <2>7. Reported'
    BY <1>1, <2>1, <2>3 DEF Fresh, Reported, Busy, Base, Events
  <2> QED
    BY <2>4, <2>5, <2>6, <2>7 DEF Fresh
<1> QED
  BY <1>2, <1>3

\* The reactor takes over the connection of the event it handles.
LEMMA ForbidFresh ==
  ASSUME Base, Fresh, Forbid, ~stale'
  PROVE  Fresh'
<1> DEFINE h == Head(batch)
<1>1. /\ h = batch[1] /\ 1 \in DOMAIN batch /\ h.fd \in Fds
      /\ conn[h.fd] = h.sock
      /\ mainPc' = "append" /\ mainPc # "append"
      /\ UNCHANGED <<batch, workList, job, wpc>>
  <2>1. batch # <<>>
    BY DEF Forbid, AtEvent, Base, Control
  <2>2. conn[h.fd] = h.sock
    BY DEF Forbid
  <2> QED
    BY <2>1, <2>2, BaseTypes, HeadOfBatch DEF Forbid, poolVars, AtEvent
<1>2. h.src = "client" \/ h.fd \notin ClientFds
  BY <1>1 DEF Forbid, AtEvent, Base, Control, Events, ClientFds
<1>3. ForbidenFd(h.fd) /\ TInv
  BY DEF Forbid, Base
<1> HIDE DEF h
<1>4. Exact'
  BY <1>1, <1>3, ForbidenFdExact DEF Fresh
<1>5. /\ UNCHANGED <<epoll, conn>>
      /\ hashMap'[h.fd] \in {Absent, End}
      /\ \A f \in Fds : f # h.fd => hashMap'[f] = hashMap[f]
  BY <1>1, <1>3, TimerTypes DEF ForbidenFd, Unknown, EraseEnd, ForbidListed, timerVars,
     nodeVars
<1>6. h.src = "client" =>
        /\ h.fd \in ClientFds /\ h.sock # Closed /\ epoll[h.fd] # "armed"
        /\ \A i \in DOMAIN workList : workList[i].fd # h.fd
        /\ \A w \in Busy : job[w].fd # h.fd
  <2>1. \A n \in 1..sockets : n # Closed
    BY BaseTypes DEF Closed
  <2> QED
    BY <1>1, <2>1 DEF Fresh, Reported, Base, Events
<1>7. ASSUME NEW f, NEW s, Mine(f, s) PROVE Mine(f, s)'
  BY <1>5, <1>7 DEF Mine, ClientFds
<1>8. Owned'
  <2>1. \A f, s : f = h.fd /\ s = h.sock => Mine(f, s)'
    BY <1>1, <1>2, <1>5, <1>6 DEF Mine
  <2> QED
    BY <1>1, <1>7, <2>1 DEF Fresh, Owned, Busy, h
<1>9. Once'
  BY <1>1, <1>2, <1>6 DEF Fresh, Once, Busy, h
<1>10. Reported'
  BY <1>1, <1>5 DEF Fresh, Reported, Busy
<1> QED
  BY <1>4, <1>8, <1>9, <1>10 DEF Fresh

LEMMA AppendEventFresh ==
  ASSUME Base, Fresh, AppendEvent
  PROVE  Fresh'
<1> DEFINE h == Head(batch)
           t == [fd |-> h.fd, sock |-> h.sock]
           T == [fd : Fds, sock : Nat]
<1>1. /\ h = batch[1] /\ 1 \in DOMAIN batch /\ h.fd \in Fds /\ h.sock \in Nat
      /\ h.src \in {"client", "listen"} /\ batch # <<>> /\ mainPc = "append"
  BY BaseTypes, HeadOfBatch DEF AppendEvent, Base, Control
<1>2. /\ workList' = Append(workList, t)
      /\ batch' = Tail(batch) /\ mainPc' = "event"
      /\ UNCHANGED <<nodeVars, epoll, conn, job, wpc>>
  BY DEF AppendEvent, Enqueue, timerVars
<1>3. workList \in Seq(T) /\ t \in T /\ t.fd = h.fd /\ t.sock = h.sock
  BY <1>1, BaseTypes
<1>4. \A k \in DOMAIN batch' : k \in Nat \ {0} /\ k + 1 \in DOMAIN batch /\ batch'[k] = batch[k + 1]
  BY <1>1, <1>2, BaseTypes, TailIsRest
<1> HIDE DEF h, t, T
<1>5. \A i \in DOMAIN workList' :
        \/ i \in DOMAIN workList /\ workList'[i] = workList[i]
        \/ i = Len(workList) + 1 /\ i \notin DOMAIN workList /\ workList'[i] = t
  BY <1>2, <1>3, AppendIsLast
<1>6. Exact'
  BY <1>2 DEF Fresh, Exact, nodeVars, Mapped
<1>7. Owned'
  BY <1>1, <1>2, <1>3, <1>5 DEF Fresh, Owned, Mine, nodeVars, Busy, h
<1>8. Once'
  BY <1>1, <1>2, <1>3, <1>5 DEF Fresh, Once, Busy, h
<1>9. Reported'
  <2>1. ASSUME NEW k \in DOMAIN batch', batch'[k].src = "client"
        PROVE  batch'[k].fd # h.fd
    <3>1. k + 1 \in DOMAIN batch /\ batch'[k] = batch[k + 1] /\ k + 1 # 1
      BY <1>4
    <3> QED
      BY <1>1, <2>1, <3>1 DEF Base, Events, ClientFds
  <2>2. \A k \in DOMAIN batch' : k + 1 # 1
    BY <1>4
  <2> QED
    BY <1>2, <1>3, <1>4, <1>5, <2>1, <2>2 DEF Fresh, Reported, Busy
<1> QED
  BY <1>6, <1>7, <1>8, <1>9 DEF Fresh

\* Nothing that is in flight, and no event still valid, is about an expired
\* connection.
LEMMA ExpireFresh ==
  ASSUME Base, Fresh, ExpireAndRearm
  PROVE  Fresh'
<1> DEFINE lost == FdsOf(Popped(cur))
<1>1. /\ DeleteExpiredFd(cur) /\ TInv
      /\ hashMap' = [f \in Fds |-> IF f \in lost THEN Absent ELSE hashMap[f]]
      /\ epoll' = [f \in Fds |-> IF f \in lost THEN "none" ELSE epoll[f]]
      /\ conn' = [f \in Fds |-> IF f \in lost THEN Closed ELSE conn[f]]
      /\ mainPc = "expire" /\ mainPc' = "tick"
      /\ UNCHANGED <<batch, workList, job, wpc>>
  BY DEF ExpireAndRearm, DeleteExpiredFd, poolVars, Base
<1>2. \A f \in lost : Listed(f)
  BY DEF FdsOf, Popped, Listed
<1>3. \A f \in ClientFds : f \in lost => hashMap[f] \notin {Absent, End}
  BY <1>1, <1>2, ListedIsMapped DEF Fresh, ClientFds
<1> HIDE DEF lost
<1>4. Exact'
  BY <1>1, DeleteExpiredExact DEF Fresh
<1>5. ASSUME NEW f, NEW s, Mine(f, s) PROVE Mine(f, s)'
  BY <1>1, <1>3, <1>5 DEF Mine, ClientFds
<1>6. Owned'
  BY <1>1, <1>5 DEF Fresh, Owned, Busy
<1>7. Once'
  BY <1>1 DEF Fresh, Once, Busy
<1>8. Reported'
  <2> SUFFICES ASSUME NEW k \in DOMAIN batch, batch[k].src = "client",
                      conn'[batch[k].fd] = batch[k].sock
               PROVE  /\ epoll'[batch[k].fd] # "armed"
                      /\ \A i \in DOMAIN workList : workList[i].fd # batch[k].fd
                      /\ \A w \in Busy : job[w].fd # batch[k].fd
    BY <1>1 DEF Reported, Busy
  <2>1. batch[k].fd \in Fds /\ batch[k].sock # Closed
    <3>1. \A n \in 1..sockets : n # Closed
      BY BaseTypes DEF Closed
    <3> QED
      BY <3>1 DEF Base, Events, ClientFds
  <2> QED
    BY <1>1, <2>1 DEF Fresh, Reported
<1> QED
  BY <1>4, <1>6, <1>7, <1>8 DEF Fresh

LEMMA FetchFresh ==
  ASSUME Base, Fresh, NEW w \in Workers, Fetch(w)
  PROVE  Fresh'
<1> DEFINE T == [fd : Fds, sock : Nat]
<1>1. workList \in Seq(T) /\ job \in [Workers -> T]
      /\ wpc \in [Workers -> {"idle", "serve", "keep", "delete", "close"}]
  BY BaseTypes
<1>2. /\ workList # <<>> /\ wpc[w] = "idle"
      /\ workList' = Tail(workList)
      /\ job' = [job EXCEPT ![w] = Head(workList)]
      /\ wpc' = [wpc EXCEPT ![w] = "serve"]
      /\ UNCHANGED <<nodeVars, epoll, conn, batch, mainPc>>
  BY DEF Fetch, timerVars, mainVars
<1> HIDE DEF T
<1>3. /\ Head(workList) = workList[1] /\ 1 \in DOMAIN workList
      /\ \A i \in DOMAIN workList' : /\ i \in Nat \ {0} /\ i + 1 \in DOMAIN workList
                                     /\ i + 1 # 1
                                     /\ workList'[i] = workList[i + 1]
  BY <1>1, <1>2, TailIsRest
<1>4. /\ Busy' = Busy \cup {w} /\ w \notin Busy
      /\ job'[w] = workList[1]
      /\ \A v \in Busy : job'[v] = job[v]
  BY <1>1, <1>2, <1>3 DEF Busy
<1>5. Exact'
  BY <1>2 DEF Fresh, Exact, nodeVars, Mapped
<1>6. Owned'
  BY <1>2, <1>3, <1>4 DEF Fresh, Owned, Mine, nodeVars
<1>7. Once'
  <2>1. \A i, j \in DOMAIN workList' :
          workList'[i].fd \in ClientFds /\ workList'[i].fd = workList'[j].fd => i = j
    BY <1>3 DEF Fresh, Once
  <2>2. \A i \in DOMAIN workList', v \in Busy' :
          workList'[i].fd \in ClientFds => workList'[i].fd # job'[v].fd
    BY <1>3, <1>4 DEF Fresh, Once
  <2>3. \A u, v \in Busy' :
          job'[u].fd \in ClientFds /\ job'[u].fd = job'[v].fd => u = v
    BY <1>3, <1>4 DEF Fresh, Once
  <2>4. mainPc' = "append" /\ Head(batch').fd \in ClientFds =>
          /\ \A i \in DOMAIN workList' : workList'[i].fd # Head(batch').fd
          /\ \A v \in Busy' : job'[v].fd # Head(batch').fd
    BY <1>2, <1>3, <1>4 DEF Fresh, Once
  <2> QED
    BY <2>1, <2>2, <2>3, <2>4 DEF Once
<1>8. Reported'
  BY <1>2, <1>3, <1>4 DEF Fresh, Reported
<1> QED
  BY <1>5, <1>6, <1>7, <1>8 DEF Fresh

\* A worker w is done with the number f of its task, or goes on with it; what the
\* step does to the timer, to epoll and to the sockets, it does to f alone.
Touches(w, f) ==
  /\ f = job[w].fd /\ w \in Busy
  /\ UNCHANGED <<workList, batch, mainPc>>
  /\ \/ Busy' = Busy \ {w} /\ \A v \in Busy \ {w} : job'[v] = job[v]
     \/ Busy' = Busy /\ job' = job
        /\ (f \in ClientFds =>
              /\ hashMap'[f] \in {Absent, End}
              /\ conn'[f] = conn[f] /\ epoll'[f] # "armed")
  /\ conn'[f] \in {conn[f], Closed}
  /\ \A g \in Fds \ {f} : /\ hashMap'[g] = hashMap[g]
                          /\ epoll'[g] = epoll[g]
                          /\ conn'[g] = conn[g]

LEMMA TouchesFresh ==
  ASSUME Base, Fresh, NEW w \in Workers, NEW f \in Fds, Touches(w, f), Exact'
  PROVE  Fresh'
<1>1. \A i \in DOMAIN workList : workList[i].fd \in ClientFds => workList[i].fd # f
  BY DEF Touches, Fresh, Once
<1>2. \A v \in Busy : v # w /\ job[v].fd \in ClientFds => job[v].fd # f
  BY DEF Touches, Fresh, Once
<1>3. mainPc = "append" /\ Head(batch).fd \in ClientFds => Head(batch).fd # f
  BY DEF Touches, Fresh, Once
<1>4. ASSUME NEW g, NEW s, Mine(g, s), g \in ClientFds => g # f PROVE Mine(g, s)'
  BY <1>4 DEF Touches, Mine, ClientFds
<1>5. ASSUME NEW s, Mine(f, s), Busy' = Busy PROVE Mine(f, s)'
  BY <1>5 DEF Touches, Mine
<1>6. Owned'
  <2>1. \A i \in DOMAIN workList : \A g, s :
          g = workList[i].fd /\ s = workList[i].sock => Mine(g, s)'
    BY <1>1, <1>4 DEF Fresh, Owned
  <2>2. \A v \in Busy \ {w} : \A g, s :
          g = job[v].fd /\ s = job[v].sock => Mine(g, s)'
    BY <1>2, <1>4 DEF Fresh, Owned
  <2>3. Busy' = Busy => \A g, s :
          g = job[w].fd /\ s = job[w].sock => Mine(g, s)'
    BY <1>5 DEF Touches, Fresh, Owned
  <2>4. mainPc = "append" => \A g, s :
          g = Head(batch).fd /\ s = Head(batch).sock => Mine(g, s)'
    BY <1>3, <1>4 DEF Fresh, Owned
  <2> QED
    BY <2>1, <2>2, <2>3, <2>4 DEF Owned, Touches
<1>7. Once'
  BY DEF Touches, Fresh, Once
<1>8. Reported'
  <2> SUFFICES ASSUME NEW k \in DOMAIN batch, batch[k].src = "client",
                      conn'[batch[k].fd] = batch[k].sock,
                      ~(mainPc = "append" /\ k = 1)
               PROVE  /\ epoll'[batch[k].fd] # "armed"
                      /\ \A i \in DOMAIN workList' : workList'[i].fd # batch[k].fd
                      /\ \A v \in Busy' : job'[v].fd # batch[k].fd
    BY DEF Touches, Reported
  <2>1. batch[k].fd \in ClientFds /\ batch[k].fd \in Fds /\ batch[k].sock # Closed
    <3>1. \A n \in 1..sockets : n # Closed
      BY BaseTypes DEF Closed
    <3> QED
      BY <3>1 DEF Base, Events, ClientFds
  <2>2. CASE batch[k].fd # f
    BY <2>1, <2>2 DEF Touches, Fresh, Reported
  <2>3. CASE batch[k].fd = f
    BY <2>1, <2>3 DEF Touches, Fresh, Reported
  <2> QED
    BY <2>2, <2>3
<1> QED
  BY <1>6, <1>7, <1>8 DEF Fresh

LEMMA ReturnFrees ==
  ASSUME Base, NEW w \in Workers, wpc[w] # "idle", Return(w)
  PROVE  w \in Busy /\ Busy' = Busy \ {w} /\ \A v \in Busy \ {w} : job'[v] = job[v]
<1>1. /\ wpc \in [Workers -> {"idle", "serve", "keep", "delete", "close"}]
      /\ job \in [Workers -> [fd : Fds, sock : Nat]]
  BY BaseTypes
<1>2. Busy' = Busy \ {w} /\ w \in Busy
  BY <1>1 DEF Return, Busy
<1>3. \A v \in Busy \ {w} : job'[v] = job[v]
  BY <1>1 DEF Return, Busy
<1> QED
  BY <1>2, <1>3

LEMMA ServeReturnsTouches ==
  ASSUME Base, Fresh, NEW w \in Workers, ServeReturns(w)
  PROVE  Touches(w, job[w].fd) /\ Exact'
<1>1. /\ wpc[w] # "idle" /\ Return(w)
      /\ UNCHANGED <<nodeVars, epoll, conn, workList, batch, mainPc>>
  BY DEF ServeReturns, timerVars, mainVars
<1>2. Exact'
  BY <1>1 DEF Fresh, Exact, nodeVars, Mapped
<1>3. Touches(w, job[w].fd)
  BY <1>1, ReturnFrees DEF Touches, nodeVars
<1> QED
  BY <1>2, <1>3

LEMMA KeepTouches ==
  ASSUME Base, Fresh, NEW w \in Workers, Keep(w)
  PROVE  Touches(w, job[w].fd) /\ Exact'
<1> DEFINE f == job[w].fd
<1>1. /\ wpc[w] = "keep" /\ Return(w) /\ Addfd(f)
      /\ UNCHANGED <<workList, batch, mainPc>>
  BY DEF Keep, mainVars
<1>2. TInv /\ f \in ClientFds /\ f \in Fds
  BY <1>1 DEF Base, Control, ClientFds
<1>3. w \in Busy
  BY <1>1, ReturnFrees
<1>4. hashMap[f] \in {Absent, End} /\ conn[f] # Closed
  BY <1>2, <1>3 DEF Fresh, Owned, Mine
<1> HIDE DEF f
<1>5. ~Listed(f)
  BY <1>2, <1>4, ListedIsMapped DEF Fresh
<1>6. Exact'
  BY <1>1, <1>2, <1>4, <1>5, AddfdExact DEF Fresh
<1>7. conn' = conn /\ \A g \in Fds \ {f} : hashMap'[g] = hashMap[g] /\ epoll'[g] = epoll[g]
  BY <1>1, <1>2, TimerTypes DEF Addfd, AddRefused, AddNew, AddAgain, InsertNode,
     AddFdToEpollOneshot, ResetOneshot, Added, nodeVars
<1>8. Touches(w, f)
  BY <1>1, <1>7, ReturnFrees DEF Touches, f
<1> QED
  BY <1>6, <1>8 DEF f

LEMMA DeleteFailedTouches ==
  ASSUME Base, Fresh, NEW w \in Workers, DeleteFailed(w)
  PROVE  Touches(w, job[w].fd) /\ Exact'
<1> DEFINE f == job[w].fd
<1>1. /\ wpc[w] = "delete" /\ DeleteFd(f)
      /\ wpc' = [wpc EXCEPT ![w] = "close"]
      /\ UNCHANGED <<workList, job, batch, mainPc>>
  BY DEF DeleteFailed, mainVars
<1>2. TInv /\ f \in Fds
  BY JobType DEF Base
<1>3. w \in Busy /\ Busy' = Busy
  BY <1>1, BaseTypes DEF Busy
<1>4. f \in ClientFds => hashMap[f] \in {Absent, End} /\ epoll[f] # "armed"
  BY <1>3 DEF Fresh, Owned, Mine
<1> HIDE DEF f
<1>5. Exact'
  BY <1>1, <1>2, DeleteFdExact DEF Fresh
<1>6. /\ conn' = conn
      /\ f \in ClientFds => hashMap'[f] \in {Absent, End} /\ epoll'[f] # "armed"
      /\ \A g \in Fds \ {f} : hashMap'[g] = hashMap[g] /\ epoll'[g] = epoll[g]
  BY <1>1, <1>2, <1>4, TimerTypes DEF DeleteFd, Unknown, EraseEnd, DeleteListed, timerVars,
     nodeVars
<1>7. Touches(w, f)
  BY <1>1, <1>3, <1>6 DEF Touches, f
<1> QED
  BY <1>5, <1>7 DEF f

LEMMA CloseTouches ==
  ASSUME Base, Fresh, NEW w \in Workers, Close(w)
  PROVE  Touches(w, job[w].fd) /\ Exact'
<1> DEFINE f == job[w].fd
<1>1. /\ wpc[w] = "close" /\ Return(w) /\ CloseFd(f)
      /\ UNCHANGED <<workList, batch, mainPc>>
  BY DEF Close, mainVars
<1>2. TInv /\ f \in Fds
  BY JobType DEF Base
<1>3. w \in Busy
  BY <1>1, ReturnFrees
<1>4. f \in ClientFds => hashMap[f] \in {Absent, End}
  BY <1>3 DEF Fresh, Owned, Mine
<1> HIDE DEF f
<1>5. ~Listed(f)
  BY <1>2, <1>4, ListedIsMapped DEF Fresh, Exact, Listed
<1>6. Exact'
  BY <1>1, <1>2, <1>5, CloseFdExact DEF Fresh
<1>7. /\ hashMap' = hashMap /\ conn'[f] = Closed
      /\ \A g \in Fds \ {f} : epoll'[g] = epoll[g] /\ conn'[g] = conn[g]
  BY <1>1, <1>2, TimerTypes DEF CloseFd, nodeVars
<1>8. Touches(w, f)
  BY <1>1, <1>7, ReturnFrees DEF Touches, f
<1> QED
  BY <1>6, <1>8 DEF f

LEMMA FInvInductive == Base /\ FInv /\ [Next]_vars => FInv'
<1> SUFFICES ASSUME Base, FInv, [Next]_vars, ~stale' PROVE Fresh'
  BY DEF FInv
<1>1. Fresh
  BY StaleStays DEF FInv
<1>2. CASE UNCHANGED vars \/ Connect \/ Clock \/ AlarmFires
           \/ BatchDone \/ ReadPipe \/ TicksDone \/ SampleTime
  BY <1>1, <1>2, ReactorQuiet, QuietFresh
<1>3. CASE EpollWait \/ AcceptOne \/ AcceptFails
  BY <1>1, <1>3, EpollWaitFresh, AcceptOneFresh, AcceptFailsFresh
<1>4. CASE Forbid \/ AppendEvent \/ ExpireAndRearm
  BY <1>1, <1>4, ForbidFresh, AppendEventFresh, ExpireFresh
<1>5. ASSUME NEW w \in Workers, Fetch(w) \/ Serve(w) \/ ServePeerClosed(w)
      PROVE  Fresh'
  BY <1>1, <1>5, FetchFresh, WorkerQuiet, QuietFresh
<1>6. ASSUME NEW w \in Workers, ServeReturns(w) \/ Keep(w) \/ DeleteFailed(w) \/ Close(w)
      PROVE  Fresh'
  <2>1. Touches(w, job[w].fd) /\ Exact' /\ job[w].fd \in Fds
    BY <1>1, <1>6, ServeReturnsTouches, KeepTouches, DeleteFailedTouches, CloseTouches,
       JobType DEF Base
  <2> QED
    BY <1>1, <2>1, TouchesFresh
<1> QED
  BY <1>2, <1>3, <1>4, <1>5, <1>6 DEF Next, Step, MainStep, WorkerStep

LEMMA AlwaysFInv == Spec => [](Base /\ FInv)
<1>1. Init => Base /\ FInv
  BY InitBase, InitFInv
<1>2. Base /\ FInv /\ [Next]_vars => Base' /\ FInv'
  BY BaseInductive, FInvInductive
<1> QED
  BY <1>1, <1>2, PTL DEF Spec

-----------------------------------------------------------------------------
(* No connection is lost track of, with the accept loop as its layout has   *)
(* it.                                                                      *)

Carried(f) ==
  \/ \E i \in DOMAIN workList : workList[i].fd = f
  \/ \E w \in Busy : job[w].fd = f
  \/ mainPc = "append" /\ Head(batch).fd = f

Placed(f) == Carried(f) \/ hashMap[f] \notin {Absent, End} \/ conn[f] \in left

AInv == ~stale => \A f \in ClientFds : conn[f] # Closed => Placed(f)

LEMMA TouchesPlaced ==
  ASSUME NEW w \in Workers, NEW f \in Fds, Touches(w, f), left \subseteq left',
         f \in ClientFds /\ conn'[f] # Closed =>
           Busy' = Busy \/ hashMap'[f] \notin {Absent, End} \/ conn'[f] \in left',
         NEW g \in ClientFds, conn'[g] # Closed, conn[g] # Closed => Placed(g)
  PROVE  Placed(g)'
<1>1. CASE g = f
  BY <1>1 DEF Touches, Placed, Carried
<1>2. CASE g # f
  <2>1. hashMap'[g] = hashMap[g] /\ conn'[g] = conn[g] /\ Placed(g)
    BY <1>2 DEF Touches, ClientFds
  <2>2. Carried(g) => Carried(g)'
    BY <1>2 DEF Touches, Carried
  <2> QED
    BY <2>1, <2>2 DEF Placed
<1> QED
  BY <1>1, <1>2

LEMMA AInvInductive ==
  ASSUME ~AcceptAsCoded, Base, FInv, AInv, [Next]_vars
  PROVE  AInv'
<1> SUFFICES ASSUME ~stale', NEW g \in ClientFds, conn'[g] # Closed
             PROVE  Placed(g)'
  BY DEF AInv
<1> DEFINE T == [fd : Fds, sock : Nat]
<1>1. Fresh /\ g \in Fds /\ (conn[g] # Closed => Placed(g))
  BY StaleStays DEF FInv, AInv, ClientFds
<1>2. workList \in Seq(T) /\ job \in [Workers -> T]
      /\ wpc \in [Workers -> {"idle", "serve", "keep", "delete", "close"}]
  BY BaseTypes
<1>3. CASE Quiet /\ UNCHANGED left
  BY <1>1, <1>3 DEF Quiet, nodeVars, Placed, Carried
<1>4. CASE \/ UNCHANGED vars \/ Connect \/ Clock \/ AlarmFires
           \/ BatchDone \/ ReadPipe \/ TicksDone \/ SampleTime
  <2>1. UNCHANGED left
    BY <1>4 DEF vars, Connect, Clock, AlarmFires, BatchDone, ReadPipe, TicksDone,
       SampleTime, historyVars
  <2> QED
    BY <1>3, <1>4, <2>1, ReactorQuiet
<1>5. CASE EpollWait
  BY <1>1, <1>5 DEF EpollWait, nodeVars, poolVars, historyVars, Placed, Carried, Busy
<1>6. CASE AcceptOne
  <2> DEFINE t == [fd |-> LowestFree, sock |-> sockets + 1]
  <2>1. /\ LowestFree \in Fds /\ sockets + 1 \in Nat
        /\ \A f \in Fds : conn'[f] = IF f = LowestFree THEN sockets + 1 ELSE conn[f]
    BY <1>6, AcceptedNumber, BaseTypes
  <2>2. /\ workList' = Append(workList, t) /\ mainPc # "append"
        /\ UNCHANGED <<hashMap, left, job, wpc>>
    BY <1>6 DEF AcceptOne, Enqueue, nodeVars, historyVars, AtEvent
  <2>3. t \in T /\ t.fd = LowestFree
    BY <2>1
  <2> HIDE DEF t, T
  <2>4. /\ DOMAIN workList \subseteq DOMAIN workList'
        /\ \A i \in DOMAIN workList : workList'[i] = workList[i]
        /\ \E i \in DOMAIN workList' : workList'[i] = t
    BY <1>2, <2>2, <2>3, AppendIsLast
  <2>5. CASE g = LowestFree
    BY <2>3, <2>4, <2>5 DEF Placed, Carried
  <2>6. CASE g # LowestFree
    BY <1>1, <2>1, <2>2, <2>4, <2>6 DEF Placed, Carried, Busy
  <2> QED
    BY <2>5, <2>6
<1>7. CASE AcceptFails
  <2>1. UNCHANGED <<nodeVars, conn, left, workList, job, wpc>> /\ mainPc # "append"
    BY <1>7 DEF AcceptFails, timerVars, historyVars, AtEvent
  <2> QED
    BY <1>1, <2>1 DEF nodeVars, Placed, Carried, Busy
<1>8. CASE Forbid
  <2>1. /\ mainPc' = "append" /\ mainPc # "append"
        /\ UNCHANGED <<batch, workList, job, wpc, left, conn>>
    BY <1>8 DEF Forbid, poolVars, ForbidenFd, Unknown, EraseEnd, ForbidListed, timerVars,
       AtEvent
  <2>2. g # Head(batch).fd => hashMap'[g] = hashMap[g]
    BY <1>1, <1>8, TimerTypes DEF Forbid, ForbidenFd, Unknown, EraseEnd, ForbidListed,
       timerVars, nodeVars, Base
  <2> QED
    BY <1>1, <2>1, <2>2 DEF Placed, Carried, Busy
<1>9. CASE AppendEvent
  <2> DEFINE t == [fd |-> Head(batch).fd, sock |-> Head(batch).sock]
  <2>1. /\ workList' = Append(workList, t)
        /\ UNCHANGED <<hashMap, conn, left, job, wpc>>
    BY <1>9 DEF AppendEvent, Enqueue, timerVars, nodeVars, historyVars
  <2>2. t \in T /\ t.fd = Head(batch).fd
    BY <1>9, BaseTypes, HeadOfBatch DEF AppendEvent, Base, Control
  <2> HIDE DEF t, T
  <2>3. /\ DOMAIN workList \subseteq DOMAIN workList'
        /\ \A i \in DOMAIN workList : workList'[i] = workList[i]
        /\ \E i \in DOMAIN workList' : workList'[i] = t
    BY <1>2, <2>1, <2>2, AppendIsLast
  <2> QED
    BY <1>1, <2>1, <2>2, <2>3 DEF Placed, Carried, Busy
<1>10. CASE ExpireAndRearm
  <2> DEFINE lost == FdsOf(Popped(cur))
  <2>1. /\ hashMap' = [f \in Fds |-> IF f \in lost THEN Absent ELSE hashMap[f]]
        /\ conn' = [f \in Fds |-> IF f \in lost THEN Closed ELSE conn[f]]
        /\ mainPc = "expire" /\ mainPc' = "tick"
        /\ UNCHANGED <<batch, workList, job, wpc, left>>
    BY <1>10 DEF ExpireAndRearm, DeleteExpiredFd, poolVars, historyVars
  <2> HIDE DEF lost
  <2> QED
    BY <1>1, <2>1 DEF Placed, Carried, Busy
<1>11. ASSUME NEW w \in Workers, Serve(w) \/ ServePeerClosed(w) PROVE Placed(g)'
  <2>1. UNCHANGED left
    BY <1>11 DEF Serve, ServePeerClosed, historyVars
  <2> QED
    BY <1>3, <1>11, <2>1, WorkerQuiet
<1>12. ASSUME NEW w \in Workers, Fetch(w) PROVE Placed(g)'
  <2>1. /\ workList # <<>> /\ wpc[w] = "idle"
        /\ workList' = Tail(workList)
        /\ job' = [job EXCEPT ![w] = Head(workList)]
        /\ wpc' = [wpc EXCEPT ![w] = "serve"]
        /\ UNCHANGED <<hashMap, conn, batch, mainPc, left>>
    BY <1>12 DEF Fetch, timerVars, nodeVars, mainVars, historyVars
  <2> HIDE DEF T
  <2>2. /\ Head(workList) = workList[1]
        /\ \A i \in DOMAIN workList :
             i = 1 \/ (i - 1 \in DOMAIN workList' /\ workList'[i - 1] = workList[i])
    BY <1>2, <2>1, TailIsRest
  <2>3. /\ w \in Busy' /\ job'[w] = workList[1]
        /\ \A v \in Busy : v \in Busy' /\ job'[v] = job[v]
    BY <1>2, <2>1, <2>2 DEF Busy
  <2>4. ASSUME NEW i \in DOMAIN workList, workList[i].fd = g PROVE Carried(g)'
    <3>1. CASE i = 1
      BY <2>3, <2>4, <3>1 DEF Carried
    <3>2. CASE i - 1 \in DOMAIN workList' /\ workList'[i - 1] = workList[i]
      BY <2>4, <3>2 DEF Carried
    <3> QED
      BY <2>2, <3>1, <3>2
  <2>5. Carried(g) => Carried(g)'
    BY <2>1, <2>3, <2>4 DEF Carried
  <2> QED
    BY <1>1, <2>1, <2>5 DEF Placed
<1>13. ASSUME NEW w \in Workers, ServeReturns(w) PROVE Placed(g)'
  <2>1. left' = left \cup {conn[job[w].fd]} /\ conn' = conn
    BY <1>13 DEF ServeReturns, timerVars
  <2> QED
    BY <1>1, <1>13, <2>1, ServeReturnsTouches, TouchesPlaced, JobType DEF Base
<1>14. ASSUME NEW w \in Workers, Keep(w) PROVE Placed(g)'
  <2> DEFINE f == job[w].fd
  <2>1. Addfd(f) /\ f \in ClientFds /\ f \in Fds /\ conn' = conn /\ TInv
    BY <1>14 DEF Keep, Addfd, Base, Control, ClientFds
  <2>2. left' = IF inserts' = inserts /\ IsClient(f) THEN left \cup {conn[f]} ELSE left
    BY <1>14 DEF Keep
  <2> HIDE DEF f
  <2>3. inserts' = inserts \/ (inserts' = inserts + 1 /\ hashMap'[f] = inserts + 1)
    BY <2>1, TimerTypes DEF Addfd, AddRefused, AddNew, AddAgain, InsertNode, nodeVars
  <2>4. hashMap'[f] \notin {Absent, End} \/ conn'[f] = Closed \/ conn'[f] \in left'
    BY <2>1, <2>2, <2>3, TimerTypes DEF IsClient, Absent, End
  <2>5. left \subseteq left'
    BY <2>2
  <2> QED
    BY <1>1, <1>14, <2>1, <2>4, <2>5, KeepTouches, TouchesPlaced DEF f
<1>15. ASSUME NEW w \in Workers, DeleteFailed(w) PROVE Placed(g)'
  <2>1. UNCHANGED left /\ Busy' = Busy
    BY <1>2, <1>15 DEF DeleteFailed, historyVars, Busy
  <2> QED
    BY <1>1, <1>15, <2>1, DeleteFailedTouches, TouchesPlaced, JobType DEF Base
<1>16. ASSUME NEW w \in Workers, Close(w) PROVE Placed(g)'
  <2>1. UNCHANGED left /\ conn'[job[w].fd] = Closed
    BY <1>16, JobType, BaseTypes DEF Close, CloseFd, historyVars, Base
  <2> QED
    BY <1>1, <1>16, <2>1, CloseTouches, TouchesPlaced, JobType DEF Base
<1> QED
  BY <1>4, <1>5, <1>6, <1>7, <1>8, <1>9, <1>10, <1>11, <1>12, <1>13, <1>14, <1>15, <1>16
     DEF Next, Step, MainStep, WorkerStep

-----------------------------------------------------------------------------
(* The theorems. *)

\* Every variable of the composed system keeps its type.
THEOREM ConnectionsTypeCorrect == Spec => []TypeOK
<1>1. Base => TypeOK
  BY DEF Base
<1> QED
  BY <1>1, AlwaysBase, PTL

\* There is always exactly one alarm: set, in the pipe, or read and not handled.
THEOREM AlarmNeverLost == Spec => []AlarmChain
<1>1. Base => AlarmChain
  BY DEF Base
<1> QED
  BY <1>1, AlwaysBase, PTL

\* What holds of the timer among arbitrary callers holds of it in the server.
THEOREM TimerSoundInServer ==
  Spec => [](IteratorsValid /\ ListSorted /\ CountWithinMap /\ NeverPastTheEnd)
<1>1. Base => IteratorsValid /\ ListSorted /\ CountWithinMap /\ NeverPastTheEnd
  BY DEF Base, TInv
<1> QED
  BY <1>1, AlwaysBase, PTL

\* A connection that is queued or being served is not in the timer's list, and
\* its number still denotes the socket it was queued for.
THEOREM InFlightAlwaysOwned == Spec => []InFlightOwned
<1>1. ASSUME Base, FInv PROVE InFlightOwned
  <2> SUFFICES ASSUME ~stale, NEW t \in InFlight, t.fd \in ClientFds
               PROVE  ~Listed(t.fd) /\ conn[t.fd] = t.sock
    BY DEF InFlightOwned
  <2>1. Fresh /\ TInv /\ t.fd \in Fds
    BY <1>1 DEF FInv, Base, ClientFds
  <2>2. Mine(t.fd, t.sock)
    <3>1. CASE \E i \in 1..Len(workList) : t = workList[i]
      <4>1. DOMAIN workList = 1..Len(workList)
        BY <1>1, BaseTypes
      <4> QED
        BY <2>1, <3>1, <4>1 DEF Fresh, Owned
    <3>2. CASE \E w \in Busy : t = job[w]
      BY <2>1, <3>2 DEF Fresh, Owned
    <3>3. CASE mainPc = "append" /\ t = [fd |-> Head(batch).fd, sock |-> Head(batch).sock]
      BY <2>1, <3>3 DEF Fresh, Owned
    <3> QED
      BY <3>1, <3>2, <3>3 DEF InFlight
  <2> QED
    BY <2>1, <2>2, ListedIsMapped DEF Mine, Fresh
<1> QED
  BY <1>1, AlwaysFInv, PTL

\* As long as no event is handled stale the list and the map agree node by node,
\* and curSize is the number of keys.
THEOREM TimerAlwaysExact == Spec => []TimerExact
<1>1. FInv => TimerExact
  BY DEF FInv, Fresh, Exact, TimerExact
<1> QED
  BY <1>1, AlwaysFInv, PTL

\* README.md:27: two threads meet on a connection only after an event was handled
\* whose descriptor had been closed in the same batch before it.
THEOREM OneHandlerAtATime == Spec => []OneHandlerUnlessStale
<1>1. FInv => OneHandlerUnlessStale
  BY DEF FInv, Fresh, Once, OneHandlerUnlessStale, OneHandler, IsClient
<1> QED
  BY <1>1, AlwaysFInv, PTL

\* With the accept loop as its layout has it every open connection is queued, in
\* a handler's hands, in the timer's list, or left behind by a handler.
THEOREM NoConnectionLost == ~AcceptAsCoded => (Spec => []Accounted)
<1> SUFFICES ASSUME ~AcceptAsCoded PROVE Spec => []Accounted
  OBVIOUS
<1>1. Init => Base /\ FInv /\ AInv
  <2>1. Init => AInv
    BY DEF Init, AInv, ClientFds
  <2> QED
    BY <2>1, InitBase, InitFInv
<1>2. Base /\ FInv /\ AInv /\ [Next]_vars => Base' /\ FInv' /\ AInv'
  BY BaseInductive, FInvInductive, AInvInductive
<1>3. ASSUME Base, FInv, AInv PROVE Accounted
  <2> SUFFICES ASSUME ~stale, NEW f \in ClientFds, conn[f] # Closed
               PROVE  \/ \E t \in InFlight : t.fd = f /\ t.sock = conn[f]
                      \/ Listed(f)
                      \/ conn[f] \in left
    BY DEF Accounted
  <2>1. Fresh /\ TInv /\ f \in Fds /\ Placed(f)
    BY <1>3 DEF FInv, AInv, Base, ClientFds
  <2>2. CASE \E i \in DOMAIN workList : workList[i].fd = f
    <3>1. PICK i \in 1..Len(workList) : workList[i].fd = f
      <4>1. DOMAIN workList = 1..Len(workList)
        BY <1>3, BaseTypes
      <4> QED
        BY <2>2, <4>1
    <3>2. workList[i] \in InFlight
      BY DEF InFlight
    <3>3. i \in DOMAIN workList
      BY <1>3, BaseTypes
    <3>4. workList[i].sock = conn[f]
      BY <2>1, <3>1, <3>3 DEF Fresh, Owned, Mine
    <3> QED
      BY <3>1, <3>2, <3>4
  <2>3. CASE \E w \in Busy : job[w].fd = f
    BY <2>1, <2>3 DEF InFlight, Fresh, Owned, Mine
  <2>4. CASE mainPc = "append" /\ Head(batch).fd = f
    <3> DEFINE t == [fd |-> Head(batch).fd, sock |-> Head(batch).sock]
    <3>1. t \in InFlight
      BY <2>4 DEF InFlight
    <3>2. t.fd = f /\ t.sock = Head(batch).sock
      BY <2>4
    <3>3. Head(batch).sock = conn[f]
      BY <2>1, <2>4 DEF Fresh, Owned, Mine
    <3> QED
      BY <3>1, <3>2, <3>3
  <2>5. CASE hashMap[f] \notin {Absent, End}
    BY <2>1, <2>5, ListedIsMapped DEF Fresh
  <2> QED
    BY <2>1, <2>2, <2>3, <2>4, <2>5 DEF Placed, Carried
<1> QED
  BY <1>1, <1>2, <1>3, PTL DEF Spec

\* With the accept loop as it is written the queue and the handlers only ever hold
\* the number -1 and the listening socket.
THEOREM AsCodedNobodyIsServed == AcceptAsCoded => (Spec => []NoClientServed)
<1> SUFFICES ASSUME AcceptAsCoded PROVE Spec => []NoClientServed
  OBVIOUS
<1>1. Init => Base /\ CodedLoop
  <2>1. ASSUME Init PROVE CodedLoop
    <3>1. DOMAIN batch = {} /\ DOMAIN workList = {} /\ Busy = {}
      BY <2>1 DEF Init, Busy
    <3> QED
      BY <2>1, <3>1 DEF Init, CodedLoop, ClientFds
  <2> QED
    BY <2>1, InitBase
<1>2. Base /\ CodedLoop /\ [Next]_vars => Base' /\ CodedLoop'
  BY BaseInductive, CodedLoopInductive
<1>3. ASSUME Base, CodedLoop PROVE NoClientServed
  <2> SUFFICES ASSUME NEW t \in InFlight PROVE t.fd \in {NoFd, ListenFd}
    BY DEF NoClientServed
  <2>1. DOMAIN workList = 1..Len(workList)
    BY <1>3, BaseTypes
  <2>2. CASE \E i \in 1..Len(workList) : t = workList[i]
    BY <1>3, <2>1, <2>2 DEF CodedLoop, Unserved
  <2>3. CASE \E w \in Busy : t = job[w]
    BY <1>3, <2>3 DEF CodedLoop, Unserved
  <2>4. CASE mainPc = "append" /\ t = [fd |-> Head(batch).fd, sock |-> Head(batch).sock]
    <3>1. /\ Head(batch) = batch[1] /\ 1 \in DOMAIN batch
          /\ Head(batch).src \in {"client", "listen"}
      BY <1>3, <2>4, BaseTypes, HeadOfBatch DEF Base, Control
    <3>2. Head(batch).fd = ListenFd
      BY <1>3, <3>1 DEF CodedLoop, Base, Events
    <3> QED
      BY <2>4, <3>2
  <2> QED
    BY <2>2, <2>3, <2>4 DEF InFlight
<1> QED
  BY <1>1, <1>2, <1>3, PTL DEF Spec

==============================================================================
