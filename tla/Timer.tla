-------------------------------- MODULE Timer --------------------------------
(***************************************************************************)
(* The timer of idle connections: src/src/Timer.cpp, src/include/Timer.h   *)
(* and the epoll helpers of src/src/utils.cpp it calls.                    *)
(*                                                                         *)
(* Every public operation runs with Timer::mutex held from its first to    *)
(* its last access, so each is one action.  timeList only ever grows at    *)
(* its end, so a node is given the number of insertions made before it     *)
(* (pos) and the list is the set of its nodes, ordered by pos; an iterator *)
(* to a node is its pos, and end() is 0.                                   *)
(*                                                                         *)
(* list::erase(end()) and front() of an empty list are undefined in C++.   *)
(* What the build does: erase(end()) frees the list's own sentinel and the *)
(* program aborts; front() of an empty list overlays the map's head        *)
(* pointer on the expiry time, which ends the loop of deleteExpiredFd      *)
(* unless that pointer is null, that is unless the map is empty.           *)
(*                                                                         *)
(* The specification TimerSpec lets any caller make any call at any time;  *)
(* Connections.tla EXTENDS this module with the callers the server has.    *)
(***************************************************************************)
EXTENDS Integers, FiniteSets

CONSTANTS Fds,         \* file descriptor numbers
          Timeout,     \* Timer::timeout (15 in httpserver.cpp:33)
          MaxSize,     \* Timer::maxSize (1000 in Timer.h:55)
          MaxInserts,  \* bound on the insertions of a behaviour
          MaxTime      \* bound on the clock

ASSUME TimerAssumption ==
  /\ IsFiniteSet(Fds)
  /\ Timeout \in Nat
  /\ MaxSize \in Nat
  /\ MaxInserts \in Nat
  /\ MaxTime \in Nat

VARIABLES now,       \* the clock, in seconds
          timeList,  \* Timer::timeList, a set of nodes [pos, fd, expire]
          hashMap,   \* Timer::hashMap: an iterator, End, or Absent
          curSize,   \* Timer::curSize
          inserts,   \* number of insertions made: the last pos given
          epoll,     \* per fd: "none", "armed", or "spent" once it has fired
          conn,      \* per fd: the socket it denotes, Closed if none
          aborted    \* "no", or why the program aborted; a handler of the
                     \* server sets "peer closed", the timer the other reasons

nodeVars == <<timeList, hashMap, curSize, inserts>>
timerVars == <<now, nodeVars, epoll, conn, aborted>>

End == 0        \* timeList.end()
Absent == -1    \* the fd is not a key of hashMap
Closed == 0     \* the fd number is not open

Mapped == {f \in Fds : hashMap[f] # Absent}

-----------------------------------------------------------------------------
(* Kernel: what epoll_ctl and close do to one descriptor. *)

\* EPOLL_CTL_ADD fails on a closed number and on one already registered.
Added(f) ==
  IF conn[f] # Closed /\ epoll[f] = "none"
    THEN [epoll EXCEPT ![f] = "armed"]
    ELSE epoll

\* utils.cpp: register with EPOLLONESHOT.
AddFdToEpollOneshot(f) == epoll' = Added(f)

\* utils.cpp: re-arm; the code calls EPOLL_CTL_ADD here too.
ResetOneshot(f) == epoll' = Added(f)

-----------------------------------------------------------------------------
(* addfd. *)

\* Mutants: the node is numbered like end() ...
InsertNodeAsEnd(f) ==
  /\ inserts' = inserts + 1
  /\ timeList' = timeList \cup
       {[pos |-> inserts, fd |-> f, expire |-> now + Timeout]}
  /\ hashMap' = [hashMap EXCEPT ![f] = inserts]

\* ... or a returning connection gets no time of its own.
InsertNodeNoTimeout(f) ==
  /\ inserts' = inserts + 1
  /\ timeList' = timeList \cup
       {[pos |-> inserts + 1, fd |-> f,
         expire |-> IF hashMap[f] = Absent THEN now + Timeout ELSE now]}
  /\ hashMap' = [hashMap EXCEPT ![f] = inserts + 1]

\* hashMap[fd] = timeList.insert(timeList.end(), Node(fd, timeout))
InsertNode(f) ==
  /\ inserts' = inserts + 1
  /\ timeList' = timeList \cup
       {[pos |-> inserts + 1, fd |-> f, expire |-> now + Timeout]}
  /\ hashMap' = [hashMap EXCEPT ![f] = inserts + 1]

\* The limit is tested before the fd is looked up, so an fd whose node is
\* only suspended is refused as well.
AddRefused(f) ==
  /\ curSize >= MaxSize
  /\ UNCHANGED <<nodeVars, epoll>>

AddNew(f) ==
  /\ curSize < MaxSize
  /\ hashMap[f] = Absent
  /\ InsertNode(f)
  /\ AddFdToEpollOneshot(f)
  /\ curSize' = curSize + 1

\* Mutant: a returning connection is counted once more.
AddAgainCounted(f) ==
  /\ curSize < MaxSize
  /\ hashMap[f] # Absent
  /\ InsertNode(f)
  /\ ResetOneshot(f)
  /\ curSize' = curSize + 1

\* A node the fd still has is not removed, and curSize is left alone.
AddAgain(f) ==
  /\ curSize < MaxSize
  /\ hashMap[f] # Absent
  /\ InsertNode(f)
  /\ ResetOneshot(f)
  /\ UNCHANGED curSize

Addfd(f) ==
  /\ AddRefused(f) \/ AddNew(f) \/ AddAgain(f)
  /\ UNCHANGED <<now, conn, aborted>>

-----------------------------------------------------------------------------
(* deleteExpiredFd. *)

UpTo(n) == {m \in timeList : m.pos <= n.pos}

\* The nodes the loop pops: the front is popped while curSize > 0 and the front
\* has expired at the time the caller read before it took the mutex.
Popped(cur) ==
  {n \in timeList : /\ Cardinality(UpTo(n)) <= curSize
                    /\ \A m \in UpTo(n) : cur > m.expire}

FdsOf(nodes) == {n.fd : n \in nodes}

\* The loop has emptied the list, curSize still allows another turn and the
\* memory the empty list's front overlays reads as zero.
SentinelExpires ==
  /\ timeList' = {}
  /\ curSize' > 0
  /\ \A f \in Fds : hashMap'[f] = Absent

\* Each popped fd leaves the map and epoll, and is closed.
DeleteExpiredFd(cur) ==
  LET gone == Popped(cur) IN
  /\ timeList' = timeList \ gone
  /\ hashMap' = [f \in Fds |-> IF f \in FdsOf(gone) THEN Absent ELSE hashMap[f]]
  /\ epoll' = [f \in Fds |-> IF f \in FdsOf(gone) THEN "none" ELSE epoll[f]]
  /\ conn' = [f \in Fds |-> IF f \in FdsOf(gone) THEN Closed ELSE conn[f]]
  /\ curSize' = curSize - Cardinality(gone)
  /\ aborted' = IF SentinelExpires THEN "sentinel" ELSE aborted
  /\ UNCHANGED <<now, inserts>>

-----------------------------------------------------------------------------
(* deleteFd and forbidenFd. *)

NodeOf(f) == {n \in timeList : n.pos = hashMap[f]}

\* timeList.erase(hashMap[fd]) on a suspended fd, whose iterator is end().
EraseEnd(f) ==
  /\ hashMap[f] = End
  /\ aborted' = "erase"
  /\ UNCHANGED <<now, nodeVars, epoll, conn>>

Unknown(f) ==
  /\ hashMap[f] = Absent
  /\ UNCHANGED timerVars

\* The fd itself is left open: closing it is the caller's business.
DeleteListed(f) ==
  /\ hashMap[f] \notin {Absent, End}
  /\ timeList' = timeList \ NodeOf(f)
  /\ epoll' = [epoll EXCEPT ![f] = "none"]
  /\ hashMap' = [hashMap EXCEPT ![f] = Absent]
  /\ curSize' = curSize - 1
  /\ UNCHANGED <<now, inserts, conn, aborted>>

DeleteFd(f) == Unknown(f) \/ EraseEnd(f) \/ DeleteListed(f)

\* Mutant: the iterator is not reset to end() when its node is erased.
ForbidKeepsIterator(f) ==
  /\ hashMap[f] \notin {Absent, End}
  /\ timeList' = timeList \ NodeOf(f)
  /\ UNCHANGED <<now, hashMap, curSize, inserts, epoll, conn, aborted>>

\* The fd leaves the list, so that it does not expire while it is served, but
\* stays in the map and in curSize.
ForbidListed(f) ==
  /\ hashMap[f] \notin {Absent, End}
  /\ timeList' = timeList \ NodeOf(f)
  /\ hashMap' = [hashMap EXCEPT ![f] = End]
  /\ UNCHANGED <<now, curSize, inserts, epoll, conn, aborted>>

ForbidenFd(f) == Unknown(f) \/ EraseEnd(f) \/ ForbidListed(f)

-----------------------------------------------------------------------------
(* The timer among arbitrary callers. *)

TimerInit ==
  /\ now = 0
  /\ timeList = {}
  /\ hashMap = [f \in Fds |-> Absent]
  /\ curSize = 0
  /\ inserts = 0
  /\ epoll = [f \in Fds |-> "none"]
  /\ conn \in [Fds -> {Closed, 1}]
  /\ aborted = "no"

Tick ==
  /\ now < MaxTime
  /\ now' = now + 1
  /\ UNCHANGED <<nodeVars, epoll, conn, aborted>>

\* close(fd) by a caller: the kernel drops the registration with the file.
CloseFd(f) ==
  /\ conn' = [conn EXCEPT ![f] = Closed]
  /\ epoll' = [epoll EXCEPT ![f] = "none"]
  /\ UNCHANGED <<now, nodeVars, aborted>>

\* The number of a closed fd is given to the socket s.
OpenFd(f, s) ==
  /\ conn[f] = Closed
  /\ conn' = [conn EXCEPT ![f] = s]
  /\ UNCHANGED <<now, nodeVars, epoll, aborted>>

\* A readable fd is reported once by epoll_wait and then disabled (ONESHOT).
Fire(f) ==
  /\ epoll[f] = "armed"
  /\ epoll' = [epoll EXCEPT ![f] = "spent"]
  /\ UNCHANGED <<now, nodeVars, conn, aborted>>

AnyCall ==
  \/ Tick
  \/ \E cur \in 0..now : DeleteExpiredFd(cur)
  \/ \E f \in Fds : \/ inserts < MaxInserts /\ Addfd(f)
                    \/ DeleteFd(f)
                    \/ ForbidenFd(f)
                    \/ CloseFd(f)
                    \/ OpenFd(f, 1)
                    \/ Fire(f)

TimerNext == aborted = "no" /\ AnyCall

TimerSpec == TimerInit /\ [][TimerNext]_timerVars

-----------------------------------------------------------------------------
(* Properties that hold whoever calls, in whatever order. *)

Nodes == [pos : 1..inserts, fd : Fds, expire : Nat]

TimerTypeOK ==
  /\ now \in Nat
  /\ inserts \in Nat
  /\ timeList \subseteq Nodes
  /\ hashMap \in [Fds -> {Absent, End} \cup 1..inserts]
  /\ curSize \in Int
  /\ epoll \in [Fds -> {"none", "armed", "spent"}]
  /\ conn \in [Fds -> Nat]
  /\ aborted \in {"no", "erase", "sentinel", "peer closed"}

\* An iterator the map holds points to a node of the list, and to a node of its
\* own fd: erase never frees a node twice or the node of another connection.
IteratorsValid ==
  \A f \in Fds : hashMap[f] \notin {Absent, End} =>
    \E n \in timeList : n.pos = hashMap[f] /\ n.fd = f

\* Timer.h:35: the nodes that expire first are at the head of the list.  The
\* loop of deleteExpiredFd stops at the first node that has not expired.
ListSorted ==
  \A m, n \in timeList : m.pos < n.pos => m.expire <= n.expire

\* curSize counts the map's keys at most once each ...
CountWithinMap == curSize <= Cardinality(Mapped)

\* ... so that the loop of deleteExpiredFd, which tests curSize and not whether
\* the list is empty, never goes on past an empty list.
NeverPastTheEnd == aborted # "sentinel"

=============================================================================
