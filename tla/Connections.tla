----------------------------- MODULE Connections -----------------------------
(***************************************************************************)
(* The life of a connection: the reactor loop of main and the task         *)
(* `httpserver' of src/src/httpserver.cpp around the timer of Timer.tla.   *)
(*                                                                         *)
(* One reactor thread takes batches of events from epoll and handles them  *)
(* one by one: it accepts connections, suspends the timer of a readable    *)
(* connection and queues it, or runs the expiry on a byte that the SIGALRM *)
(* handler wrote to the pipe.  Worker threads take queued descriptors (in  *)
(* order and once each, as ThreadPool.tla shows), serve them, and either   *)
(* give them to the timer, close them, or just return.                     *)
(*                                                                         *)
(* A task and an event carry a descriptor NUMBER.  Which socket the number *)
(* stood for when it was queued or reported is kept beside it (sock), a    *)
(* history variable: no step depends on it.                                *)
(*                                                                         *)
(* AcceptAsCoded chooses between the accept loop of lines 171-181 as it is *)
(* written and the loop its layout and the comments describe; see the      *)
(* README.  The loop is entered only by a program that has passed line     *)
(* 115.                                                                    *)
(***************************************************************************)
EXTENDS Timer, Sequences

CONSTANTS Workers,        \* the threads of the pool
          ListenFd,       \* serverSocketfd
          NoFd,           \* the value -1 of a failed accept
          MaxSockets,     \* bound on the sockets created, the listening one included
          MaxEvents,      \* size of the epoll_wait batch (5 in line 165)
          AcceptAsCoded   \* TRUE: lines 171-181 as written

ASSUME ConnectionsAssumption ==
  /\ ListenFd \in Fds /\ NoFd \in Fds /\ ListenFd # NoFd
  /\ Fds \ {NoFd} \subseteq Nat
  /\ MaxSockets \in Nat \ {0} /\ MaxEvents \in Nat \ {0}
  /\ AcceptAsCoded \in BOOLEAN

VARIABLES backlog,     \* connections established and not accepted yet
          listenEdge,  \* the edge-triggered event of the listening socket
          sockets,     \* sockets created so far; 1 is the listening socket
          pipe,        \* bytes in the signal pipe
          alarmSet,    \* an alarm(1) is running
          mainPc,      \* where the reactor is
          batch,       \* the events of this epoll_wait still to be handled
          ticks,       \* SIGALRM bytes read from the pipe still to be handled
          cur,         \* curtime of deleteExpiredFd
          workList,    \* the pool's queue of tasks
          job,         \* the task of each worker
          wpc,         \* where each worker is in httpserver()
          left,        \* history: sockets the handlers left open
          stale        \* history: an event was handled whose descriptor had
                       \* been closed after epoll_wait reported it

mainVars == <<mainPc, batch, ticks, cur>>
signalVars == <<pipe, alarmSet>>
listenVars == <<backlog, listenEdge, sockets>>
poolVars == <<workList, job, wpc>>
historyVars == <<left, stale>>
vars == <<timerVars, mainVars, signalVars, listenVars, poolVars,
          historyVars>>

ClientFds == Fds \ {ListenFd, NoFd}
Listening == 1
NoTask == [fd |-> NoFd, sock |-> Closed]

ListenEvent == [src |-> "listen", fd |-> ListenFd, sock |-> Listening]
PipeEvent == [src |-> "pipe", fd |-> NoFd, sock |-> Closed]
ReadEvent(f) == [src |-> "client", fd |-> f, sock |-> conn[f]]

Init ==
  /\ now = 0
  /\ timeList = {}
  /\ hashMap = [f \in Fds |-> Absent]
  /\ curSize = 0
  /\ inserts = 0
  /\ epoll = [f \in Fds |-> "none"]
  /\ conn = [f \in Fds |-> IF f = ListenFd THEN Listening ELSE Closed]
  /\ aborted = "no"
  /\ backlog = 0 /\ listenEdge = FALSE /\ sockets = Listening
  /\ pipe = 0 /\ alarmSet = TRUE
  /\ mainPc = "poll" /\ batch = <<>> /\ ticks = 0 /\ cur = 0
  /\ workList = <<>>
  /\ job = [w \in Workers |-> NoTask]
  /\ wpc = [w \in Workers |-> "idle"]
  /\ left = {} /\ stale = FALSE

-----------------------------------------------------------------------------
(* The environment: clients, the clock and the alarm signal. *)

\* A client connects; each arrival is an edge for epoll.
Connect ==
  /\ conn[ListenFd] = Listening
  /\ sockets + backlog < MaxSockets
  /\ backlog' = backlog + 1
  /\ listenEdge' = TRUE
  /\ UNCHANGED <<timerVars, mainVars, signalVars, poolVars, historyVars, sockets>>

\* Time matters only while some listed connection has not expired.
Clock ==
  /\ \E n \in timeList : now <= n.expire
  /\ Tick
  /\ UNCHANGED <<mainVars, signalVars, listenVars, poolVars, historyVars>>

\* The alarm goes off and signalHandler writes its byte.
AlarmFires ==
  /\ alarmSet
  /\ alarmSet' = FALSE
  /\ pipe' = pipe + 1
  /\ UNCHANGED <<timerVars, mainVars, listenVars, poolVars, historyVars>>

-----------------------------------------------------------------------------
(* The reactor. *)

Ready ==
  {ReadEvent(f) : f \in {g \in ClientFds : epoll[g] = "armed"}}
    \cup (IF pipe > 0 THEN {PipeEvent} ELSE {})
    \cup (IF listenEdge /\ conn[ListenFd] = Listening THEN {ListenEvent} ELSE {})

\* Any sequence of distinct ready events that fits the array may be returned.
\* A client event disarms its descriptor; the pipe is level-triggered.
EpollWait ==
  /\ mainPc = "poll"
  /\ \E n \in 1..MaxEvents : \E b \in [1..n -> Ready] :
       /\ \A i, j \in 1..n : b[i] = b[j] => i = j
       /\ batch' = b
       /\ epoll' = [f \in Fds |-> IF \E i \in 1..n : b[i].src = "client" /\ b[i].fd = f
                                    THEN "spent" ELSE epoll[f]]
       /\ listenEdge' = (listenEdge /\ \A i \in 1..n : b[i].src # "listen")
  /\ mainPc' = "event"
  /\ UNCHANGED <<now, nodeVars, conn, aborted,
                 signalVars, poolVars, historyVars, ticks, cur, backlog, sockets>>

BatchDone ==
  /\ mainPc = "event"
  /\ batch = <<>>
  /\ mainPc' = "poll"
  /\ UNCHANGED <<timerVars, signalVars, listenVars, poolVars, historyVars, batch, ticks, cur>>

AtEvent(src) == mainPc = "event" /\ batch # <<>> /\ Head(batch).src = src

FreeFds == {f \in ClientFds : conn[f] = Closed}
LowestFree == CHOOSE f \in FreeFds : \A g \in FreeFds : f <= g

Enqueue(f, s) == workList' = Append(workList, [fd |-> f, sock |-> s])

\* Mutant: the loop has its body.
AcceptOneQueued ==
  /\ AtEvent("listen")
  /\ conn[ListenFd] = Listening
  /\ backlog > 0
  /\ FreeFds # {}
  /\ backlog' = backlog - 1
  /\ sockets' = sockets + 1
  /\ conn' = [conn EXCEPT ![LowestFree] = sockets + 1]
  /\ Enqueue(LowestFree, sockets + 1)
  /\ UNCHANGED <<now, nodeVars, epoll, aborted,
                 mainVars, signalVars, listenEdge, job, wpc, historyVars>>

\* accept returned a connection.  As coded the loop has an empty body and the
\* descriptor is overwritten by the next call.
AcceptOne ==
  /\ AtEvent("listen")
  /\ conn[ListenFd] = Listening
  /\ backlog > 0
  /\ FreeFds # {}
  /\ backlog' = backlog - 1
  /\ sockets' = sockets + 1
  /\ conn' = [conn EXCEPT ![LowestFree] = sockets + 1]
  /\ IF AcceptAsCoded THEN UNCHANGED workList
                      ELSE Enqueue(LowestFree, sockets + 1)
  /\ UNCHANGED <<now, nodeVars, epoll, aborted,
                 mainVars, signalVars, listenEdge, job, wpc, historyVars>>

\* accept returned -1.  As coded the block after the loop then queues -1, and
\* line 176 treats the listening socket like a client.
AcceptFails ==
  /\ AtEvent("listen")
  /\ backlog = 0 \/ FreeFds = {} \/ conn[ListenFd] # Listening
  /\ IF AcceptAsCoded
       THEN /\ Enqueue(NoFd, Closed)
            /\ mainPc' = "forbid"
            /\ UNCHANGED batch
       ELSE /\ mainPc' = "event"
            /\ batch' = Tail(batch)
            /\ UNCHANGED workList
  /\ UNCHANGED <<timerVars, signalVars, listenVars, ticks, cur, job, wpc, historyVars>>

\* Mutant: the call of line 178 is missing.
ForbidSkipped ==
  /\ mainPc = "forbid" \/ AtEvent("client")
  /\ stale' = (stale \/ conn[Head(batch).fd] # Head(batch).sock)
  /\ mainPc' = "append"
  /\ UNCHANGED <<timerVars, batch, ticks, cur, signalVars, listenVars, poolVars, left>>

\* Line 178: the timer of a readable connection is suspended ...
Forbid ==
  /\ mainPc = "forbid" \/ AtEvent("client")
  /\ ForbidenFd(Head(batch).fd)
  /\ stale' = (stale \/ conn[Head(batch).fd] # Head(batch).sock)
  /\ mainPc' = "append"
  /\ UNCHANGED <<batch, ticks, cur, signalVars, listenVars, poolVars, left>>

\* ... and line 179: the connection is queued, whatever its number stands for
\* by now.
AppendEvent ==
  /\ mainPc = "append"
  /\ Enqueue(Head(batch).fd, Head(batch).sock)
  /\ batch' = Tail(batch)
  /\ mainPc' = "event"
  /\ UNCHANGED <<timerVars, signalVars, listenVars, ticks, cur, job, wpc, historyVars>>

ReadPipe ==
  /\ AtEvent("pipe")
  /\ ticks' = pipe
  /\ pipe' = 0
  /\ mainPc' = "tick"
  /\ UNCHANGED <<timerVars, listenVars, poolVars, historyVars, alarmSet, batch, cur>>

TicksDone ==
  /\ mainPc = "tick"
  /\ ticks = 0
  /\ mainPc' = "event"
  /\ batch' = Tail(batch)
  /\ UNCHANGED <<timerVars, signalVars, listenVars, poolVars, historyVars, ticks, cur>>

\* Mutant: the loop of line 185 runs once too often.
SampleTimeOffByOne ==
  /\ mainPc = "tick"
  /\ ticks >= 0
  /\ cur' = now
  /\ mainPc' = "expire"
  /\ UNCHANGED <<timerVars, signalVars, listenVars, poolVars, historyVars, batch, ticks>>

\* deleteExpiredFd reads the time before it takes the mutex.
SampleTime ==
  /\ mainPc = "tick"
  /\ ticks > 0
  /\ cur' = now
  /\ mainPc' = "expire"
  /\ UNCHANGED <<timerVars, signalVars, listenVars, poolVars, historyVars, batch, ticks>>

\* Mutant: the call of line 190 is missing.
ExpireNoRearm ==
  /\ mainPc = "expire"
  /\ DeleteExpiredFd(cur)
  /\ ticks' = ticks - 1
  /\ mainPc' = "tick"
  /\ UNCHANGED <<listenVars, poolVars, historyVars, signalVars, batch, cur>>

\* The rest of deleteExpiredFd, and alarm(1).
ExpireAndRearm ==
  /\ mainPc = "expire"
  /\ DeleteExpiredFd(cur)
  /\ alarmSet' = TRUE
  /\ ticks' = ticks - 1
  /\ mainPc' = "tick"
  /\ UNCHANGED <<listenVars, poolVars, historyVars, pipe, batch, cur>>

MainStep ==
  \/ EpollWait \/ BatchDone
  \/ AcceptOne \/ AcceptFails
  \/ Forbid \/ AppendEvent
  \/ ReadPipe \/ TicksDone \/ SampleTime \/ ExpireAndRearm

-----------------------------------------------------------------------------
(* The workers: httpserver(taskData). *)

Fetch(w) ==
  /\ wpc[w] = "idle"
  /\ workList # <<>>
  /\ job' = [job EXCEPT ![w] = Head(workList)]
  /\ workList' = Tail(workList)
  /\ wpc' = [wpc EXCEPT ![w] = "serve"]
  /\ UNCHANGED <<timerVars, mainVars, signalVars, listenVars, historyVars>>

Return(w) ==
  /\ job' = [job EXCEPT ![w] = NoTask]
  /\ wpc' = [wpc EXCEPT ![w] = "idle"]

IsClient(f) == f \in ClientFds /\ conn[f] # Closed

\* Reading, parsing and answering the request, for as long as it takes.  On a
\* client's socket it can end in every way the code has: at "keep" or "close"
\* (line 90; m_keepConnection is never initialised, so either), or in a
\* std::exception.  On any other number recv fails.
Serve(w) ==
  /\ wpc[w] = "serve"
  /\ \E next \in {"keep", "close", "delete"} :
       /\ next # "delete" => IsClient(job[w].fd)
       /\ wpc' = [wpc EXCEPT ![w] = next]
  /\ UNCHANGED <<timerVars, mainVars, signalVars, listenVars, workList, job, historyVars>>

\* Lines 68, 72, 76: a request that is bad, unsupported or for a missing file;
\* the handler returns and the socket stays open and unwatched.
ServeReturns(w) ==
  /\ wpc[w] = "serve"
  /\ IsClient(job[w].fd)
  /\ left' = left \cup {conn[job[w].fd]}
  /\ Return(w)
  /\ UNCHANGED <<timerVars, mainVars, signalVars, listenVars, workList, stale>>

\* The peer has closed: SocketClosed is thrown, it is no std::exception, and
\* leaves the thread function: std::terminate.
ServePeerClosed(w) ==
  /\ wpc[w] = "serve"
  /\ IsClient(job[w].fd)
  /\ aborted' = "peer closed"
  /\ UNCHANGED <<now, nodeVars, epoll, conn,
                 mainVars, signalVars, listenVars, poolVars, historyVars>>

\* Line 92.  The result of addfd is ignored: a refused connection stays open.
Keep(w) ==
  /\ wpc[w] = "keep"
  /\ Addfd(job[w].fd)
  /\ left' = IF inserts' = inserts /\ IsClient(job[w].fd)
               THEN left \cup {conn[job[w].fd]} ELSE left
  /\ Return(w)
  /\ UNCHANGED <<mainVars, signalVars, listenVars, workList, stale>>

\* Mutant: the catch block ends after line 101.
DeleteNoClose(w) ==
  /\ wpc[w] = "delete"
  /\ DeleteFd(job[w].fd)
  /\ Return(w)
  /\ UNCHANGED <<mainVars, signalVars, listenVars, workList, historyVars>>

\* Line 101.
DeleteFailed(w) ==
  /\ wpc[w] = "delete"
  /\ DeleteFd(job[w].fd)
  /\ wpc' = [wpc EXCEPT ![w] = "close"]
  /\ UNCHANGED <<mainVars, signalVars, listenVars, workList, job, historyVars>>

\* Lines 96 and 102; on line 96 the timer is not told.
Close(w) ==
  /\ wpc[w] = "close"
  /\ CloseFd(job[w].fd)
  /\ Return(w)
  /\ UNCHANGED <<mainVars, signalVars, listenVars, workList, historyVars>>

WorkerStep(w) ==
  \/ Fetch(w)
  \/ Serve(w) \/ ServeReturns(w) \/ ServePeerClosed(w)
  \/ Keep(w) \/ DeleteFailed(w) \/ Close(w)

-----------------------------------------------------------------------------

Step ==
  \/ Connect \/ Clock \/ AlarmFires
  \/ MainStep
  \/ \E w \in Workers : WorkerStep(w)

Next == aborted = "no" /\ Step

\* The reactor runs whenever it has something to do, time passes and an alarm
\* that is set goes off.  Nothing is assumed of clients and handlers: a worker
\* may wait in recv for ever.
Fairness ==
  /\ WF_vars(aborted = "no" /\ MainStep)
  /\ WF_vars(aborted = "no" /\ Clock)
  /\ WF_vars(aborted = "no" /\ AlarmFires)

Spec == Init /\ [][Next]_vars
FairSpec == Spec /\ Fairness

-----------------------------------------------------------------------------
(* Properties. *)

Busy == {w \in Workers : wpc[w] # "idle"}

\* The tasks between the event (or accept) that made them and the end of
\* their handler.
InFlight ==
  {workList[i] : i \in 1..Len(workList)}
    \cup {job[w] : w \in Busy}
    \cup (IF mainPc = "append"
            THEN {[fd |-> Head(batch).fd, sock |-> Head(batch).sock]} ELSE {})

Listed(f) == \E n \in timeList : n.fd = f

\* The type invariant.
TypeOK ==
  /\ TimerTypeOK
  /\ backlog \in 0..MaxSockets /\ listenEdge \in BOOLEAN
  /\ sockets \in 1..MaxSockets
  /\ pipe \in Nat /\ alarmSet \in BOOLEAN /\ ticks \in Nat /\ cur \in 0..now
  /\ mainPc \in {"poll", "event", "forbid", "append", "tick", "expire"}
  /\ batch \in Seq([src : {"listen", "pipe", "client"}, fd : Fds, sock : Nat])
  /\ workList \in Seq([fd : Fds, sock : Nat])
  /\ job \in [Workers -> [fd : Fds, sock : Nat]]
  /\ wpc \in [Workers -> {"idle", "serve", "keep", "delete", "close"}]
  /\ left \subseteq 1..MaxSockets /\ stale \in BOOLEAN

\* README.md:27: at any time a connection is handled by one thread only.
OneHandler ==
  \A v, w \in Busy :
    v # w /\ job[v].fd = job[w].fd => ~IsClient(job[v].fd)

\* An event in hand is handled although its descriptor was closed since
\* epoll_wait reported it only if the expiry ran in the same batch before it
\* (README.md:27 again): nothing else lets two threads meet on a connection.
OneHandlerUnlessStale == stale \/ OneHandler

\* A connection that is queued or being served has no node in the timer's list,
\* so it cannot expire, and its descriptor still denotes the socket it was
\* queued for: the handler reads, answers and closes no other connection.  As
\* for the properties below, an event handled stale voids it.
InFlightOwned ==
  ~stale => \A t \in InFlight : t.fd \in ClientFds =>
              /\ ~Listed(t.fd)
              /\ conn[t.fd] = t.sock

\* The list and the map agree: one node for each descriptor whose iterator is
\* not end(), every node for an open descriptor, and curSize the number of keys.
TimerExact ==
  ~stale => /\ curSize = Cardinality(Mapped)
            /\ \A n \in timeList : hashMap[n.fd] = n.pos /\ conn[n.fd] # Closed

\* No connection is lost track of: an open one is queued or being served, or the
\* timer will expire it, or a handler left it behind (lines 68, 72, 76 and the
\* refused addfd of line 92).
Accounted ==
  ~stale => \A f \in ClientFds : conn[f] # Closed =>
              \/ \E t \in InFlight : t.fd = f /\ t.sock = conn[f]
              \/ Listed(f)
              \/ conn[f] \in left

\* Every SIGALRM starts the next alarm: one alarm is set, or its byte is in the
\* pipe, or the reactor has read it and not handled it yet.
AlarmChain == (IF alarmSet THEN 1 ELSE 0) + pipe + ticks = 1

\* A connection that waits in the timer's list does not wait for ever: it is
\* taken out to be served, or it expires.
ListedLeaves ==
  \A f \in ClientFds : Listed(f) ~> ~Listed(f) \/ aborted # "no" \/ stale

\* As lines 171-181 are written (AcceptAsCoded) nobody is served: the tasks are
\* the descriptor -1 and the listening socket, never a client.
NoClientServed == \A t \in InFlight : t.fd \in {NoFd, ListenFd}

\* utils.h:40 and utils.cpp:127: a connection given back to the timer is watched
\* again.  Until its event is taken from epoll a listed connection is armed.
ListedIsArmed ==
  \A n \in timeList :
    \/ epoll[n.fd] = "armed"
    \/ \E i \in 1..Len(batch) : batch[i].src = "client" /\ batch[i].fd = n.fd

\* Timer.h:62: deleteFd deletes the given connection.
DeleteFdDeletes == aborted # "erase"

=============================================================================
