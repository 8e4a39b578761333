----------------------------- MODULE ThreadPool -----------------------------
(***************************************************************************)
(* The thread pool of src/src/ThreadPool.cpp and src/include/ThreadPool.h  *)
(* with the mutex and the condition variable of src/include/Mutex.h.       *)
(*                                                                         *)
(* Every worker is a thread with a program counter; the steps are the      *)
(* accesses to shared state the code makes in one piece.  A section that   *)
(* runs with the mutex held and touches nothing but the list it protects   *)
(* is one step; the flag `running' is an atomic that the destructor clears *)
(* WITHOUT the mutex, so each read of it is a step of its own.             *)
(*                                                                         *)
(*   "while"    line 23, about to read running                             *)
(*   "lock"     line 27, about to take the mutex                           *)
(*   "check"    line 28, mutex held, about to test empty() && running      *)
(*   "wait"     line 30, mutex held, the test was true                     *)
(*   "blocked"  inside pthread_cond_wait, mutex released                   *)
(*   "woken"    inside pthread_cond_wait, competing for the mutex          *)
(*   "test"     line 36, mutex held                                        *)
(*   "take"     lines 37-39, mutex held, running was read as true          *)
(*   "run"      line 40, executing the task                                *)
(*   "exited"   the thread function returned                               *)
(*                                                                         *)
(* One thread (the reactor) calls appendFd and, at last, the destructor.   *)
(* Tasks are numbered in the order of the appendFd calls; submitted,       *)
(* taken, finished and takenAtStop are history variables: no step reads    *)
(* them, except that submitted numbers the next task and bounds the run.   *)
(***************************************************************************)
EXTENDS Naturals, Sequences, FiniteSets

CONSTANTS Workers,   \* the threads of the pool (4 in httpserver.cpp:149)
          MaxTasks,  \* bound on the number of appendFd calls of a behaviour
          Stuck,     \* the tasks whose handler never returns
          Free       \* value of mutex when nobody holds it

ASSUME ThreadPoolAssumption ==
  /\ MaxTasks \in Nat
  /\ IsFiniteSet(Workers)
  /\ Stuck \subseteq 1..MaxTasks
  /\ Free \notin Workers

VARIABLES running,     \* ThreadPool::running
          workList,    \* ThreadPool::workList, front first
          mutex,       \* the worker that holds ThreadPool::mutex, or Free
          pc,          \* where each worker is
          task,        \* the local taskdata of each worker, 0 when it has none
          mainPc,      \* where the reactor thread is in appendFd / ~ThreadPool
          submitted,   \* history: number of tasks appended
          taken,       \* history: number of tasks popped
          finished,    \* history: tasks whose handler returned
          takenAtStop  \* history: value of taken when running was cleared

listVars == <<workList, submitted, taken, finished, task>>
stopVars == <<running, takenAtStop>>
vars == <<running, workList, mutex, pc, task, mainPc,
          submitted, taken, finished, takenAtStop>>

NoTask == 0

WorkerPcs == {"while", "lock", "check", "wait", "blocked", "woken",
              "test", "take", "run", "exited"}
MainPcs == {"idle", "push", "signal", "broadcast", "join", "done"}

Blocked == {w \in Workers : pc[w] = "blocked"}

\* The workers that are neither asleep, nor busy with a task, nor gone.
Awake == {w \in Workers : pc[w] \notin {"blocked", "run", "exited"}}

Init ==
  /\ running = TRUE
  /\ workList = <<>>
  /\ mutex = Free
  /\ pc = [w \in Workers |-> "while"]
  /\ task = [w \in Workers |-> NoTask]
  /\ mainPc = "idle"
  /\ submitted = 0
  /\ taken = 0
  /\ finished = {}
  /\ takenAtStop = 0

-----------------------------------------------------------------------------
(* The reactor thread. *)

\* The reactor calls appendFd; it will now compete for the mutex.
AppendCall ==
  /\ mainPc = "idle"
  /\ submitted < MaxTasks
  /\ mainPc' = "push"
  /\ UNCHANGED <<listVars, stopVars, mutex, pc>>

\* Mutant: an empty TaskData is queued in place of the new task.
AppendPushEmpty ==
  /\ mainPc = "push"
  /\ mutex = Free
  /\ submitted' = submitted + 1
  /\ workList' = Append(workList, NoTask)
  /\ mainPc' = "signal"
  /\ UNCHANGED <<stopVars, mutex, pc, task, taken, finished>>

\* lock, push_back, unlock.  The list is not bounded: maxWorkListLen is
\* stored by the constructor and never read.
AppendPush ==
  /\ mainPc = "push"
  /\ mutex = Free
  /\ submitted' = submitted + 1
  /\ workList' = Append(workList, submitted + 1)
  /\ mainPc' = "signal"
  /\ UNCHANGED <<stopVars, mutex, pc, task, taken, finished>>

\* pthread_cond_signal: one of the blocked workers, whichever the library
\* picks, leaves the wait queue; nothing is remembered when there is none.
Notify ==
  \/ \E w \in Blocked : pc' = [pc EXCEPT ![w] = "woken"]
  \/ /\ Blocked = {}
     /\ UNCHANGED pc

\* pthread_cond_broadcast
NotifyAll ==
  pc' = [w \in Workers |-> IF pc[w] = "blocked" THEN "woken" ELSE pc[w]]

\* Mutant: the signal is sent only for the task that ends an empty list.
AppendSignalIfFirst ==
  /\ mainPc = "signal"
  /\ IF Len(workList) = 1 THEN Notify ELSE UNCHANGED pc
  /\ mainPc' = "idle"
  /\ UNCHANGED <<listVars, stopVars, mutex>>

\* The signal is sent after the mutex was released.
AppendSignal ==
  /\ mainPc = "signal"
  /\ Notify
  /\ mainPc' = "idle"
  /\ UNCHANGED <<listVars, stopVars, mutex>>

\* The destructor clears the flag without taking the mutex ...
Stop ==
  /\ mainPc = "idle"
  /\ running' = FALSE
  /\ takenAtStop' = taken
  /\ mainPc' = "broadcast"
  /\ UNCHANGED <<listVars, mutex, pc>>

\* Mutant: the destructor signals one worker instead of all.
StopNotifyOne ==
  /\ mainPc = "broadcast"
  /\ Notify
  /\ mainPc' = "join"
  /\ UNCHANGED <<listVars, stopVars, mutex>>

\* ... wakes every worker that is blocked now ...
StopBroadcast ==
  /\ mainPc = "broadcast"
  /\ NotifyAll
  /\ mainPc' = "join"
  /\ UNCHANGED <<listVars, stopVars, mutex>>

\* ... and returns when it has joined all of them.
Join ==
  /\ mainPc = "join"
  /\ \A w \in Workers : pc[w] = "exited"
  /\ mainPc' = "done"
  /\ UNCHANGED <<listVars, stopVars, mutex, pc>>

MainStep ==
  \/ AppendPush \/ AppendSignal
  \/ StopBroadcast \/ Join

-----------------------------------------------------------------------------
(* The workers. *)

LoopTest(w) ==
  /\ pc[w] = "while"
  /\ pc' = [pc EXCEPT ![w] = IF running THEN "lock" ELSE "exited"]
  /\ UNCHANGED <<listVars, stopVars, mutex, mainPc>>

Lock(w) ==
  /\ pc[w] = "lock"
  /\ mutex = Free
  /\ mutex' = w
  /\ pc' = [pc EXCEPT ![w] = "check"]
  /\ UNCHANGED <<listVars, stopVars, mainPc>>

\* empty() cannot change while the mutex is held, running can.
Check(w) ==
  /\ pc[w] = "check"
  /\ pc' = [pc EXCEPT ![w] = IF workList = <<>> /\ running THEN "wait"
                                                         ELSE "test"]
  /\ UNCHANGED <<listVars, stopVars, mutex, mainPc>>

\* pthread_cond_wait releases the mutex and joins the wait queue in one step.
Wait(w) ==
  /\ pc[w] = "wait"
  /\ mutex' = Free
  /\ pc' = [pc EXCEPT ![w] = "blocked"]
  /\ UNCHANGED <<listVars, stopVars, mainPc>>

\* A wake-up nobody sent.
SpuriousWake(w) ==
  /\ pc[w] = "blocked"
  /\ pc' = [pc EXCEPT ![w] = "woken"]
  /\ UNCHANGED <<listVars, stopVars, mutex, mainPc>>

\* Mutant: an if in place of the wait loop.
RelockNoLoop(w) ==
  /\ pc[w] = "woken"
  /\ mutex = Free
  /\ mutex' = w
  /\ pc' = [pc EXCEPT ![w] = "test"]
  /\ UNCHANGED <<listVars, stopVars, mainPc>>

\* pthread_cond_wait returns with the mutex held; the loop tests again.
Relock(w) ==
  /\ pc[w] = "woken"
  /\ mutex = Free
  /\ mutex' = w
  /\ pc' = [pc EXCEPT ![w] = "check"]
  /\ UNCHANGED <<listVars, stopVars, mainPc>>

\* Mutant: the list is drained before the workers leave.
StopTestDrain(w) ==
  /\ pc[w] = "test"
  /\ \/ /\ running \/ workList # <<>>
        /\ pc' = [pc EXCEPT ![w] = "take"]
        /\ UNCHANGED mutex
     \/ /\ ~running /\ workList = <<>>
        /\ pc' = [pc EXCEPT ![w] = "exited"]
        /\ mutex' = Free
  /\ UNCHANGED <<listVars, stopVars, mainPc>>

\* On the early return the lock guard releases the mutex.
StopTest(w) ==
  /\ pc[w] = "test"
  /\ \/ /\ running
        /\ pc' = [pc EXCEPT ![w] = "take"]
        /\ UNCHANGED mutex
     \/ /\ ~running
        /\ pc' = [pc EXCEPT ![w] = "exited"]
        /\ mutex' = Free
  /\ UNCHANGED <<listVars, stopVars, mainPc>>

\* Mutants: the front is not popped ...
TakeNoPop(w) ==
  /\ pc[w] = "take"
  /\ task' = [task EXCEPT ![w] = Head(workList)]
  /\ taken' = taken + 1
  /\ mutex' = Free
  /\ pc' = [pc EXCEPT ![w] = "run"]
  /\ UNCHANGED <<stopVars, mainPc, workList, submitted, finished>>

\* ... or the newest task is taken first.
TakeBack(w) ==
  /\ pc[w] = "take"
  /\ task' = [task EXCEPT ![w] = workList[Len(workList)]]
  /\ workList' = SubSeq(workList, 1, Len(workList) - 1)
  /\ taken' = taken + 1
  /\ mutex' = Free
  /\ pc' = [pc EXCEPT ![w] = "run"]
  /\ UNCHANGED <<stopVars, mainPc, submitted, finished>>

\* front() and pop_front() are called without testing the list again.
Take(w) ==
  /\ pc[w] = "take"
  /\ task' = [task EXCEPT ![w] = Head(workList)]
  /\ workList' = Tail(workList)
  /\ taken' = taken + 1
  /\ mutex' = Free
  /\ pc' = [pc EXCEPT ![w] = "run"]
  /\ UNCHANGED <<stopVars, mainPc, submitted, finished>>

\* The handler of a task in Stuck never comes back (recv on a blocking
\* socket whose peer stays silent).
Run(w) ==
  /\ pc[w] = "run"
  /\ task[w] \notin Stuck
  /\ finished' = finished \cup {task[w]}
  /\ task' = [task EXCEPT ![w] = NoTask]
  /\ pc' = [pc EXCEPT ![w] = "while"]
  /\ UNCHANGED <<stopVars, mutex, mainPc, workList, submitted, taken>>

WorkerStep(w) ==
  \/ LoopTest(w) \/ Lock(w) \/ Check(w) \/ Wait(w) \/ Relock(w)
  \/ StopTest(w) \/ Take(w) \/ Run(w)

Next ==
  \/ AppendCall
  \/ Stop
  \/ MainStep
  \/ \E w \in Workers : WorkerStep(w) \/ SpuriousWake(w)

\* Threads that can run do run, and a mutex that stays free is taken.  Whether
\* a task arrives, whether the pool is destroyed and whether a wake-up is
\* spurious is left open; so is who wins a contended mutex.
Fairness ==
  /\ WF_vars(MainStep)
  /\ \A w \in Workers : WF_vars(WorkerStep(w))

Spec == Init /\ [][Next]_vars
FairSpec == Spec /\ Fairness

-----------------------------------------------------------------------------
(* Properties. *)

\* The type invariant.
TypeOK ==
  /\ running \in BOOLEAN
  /\ workList \in Seq(1..MaxTasks)
  /\ mutex \in Workers \cup {Free}
  /\ pc \in [Workers -> WorkerPcs]
  /\ task \in [Workers -> 0..MaxTasks]
  /\ mainPc \in MainPcs
  /\ submitted \in 0..MaxTasks
  /\ taken \in 0..MaxTasks
  /\ finished \subseteq 1..MaxTasks
  /\ takenAtStop \in 0..MaxTasks

\* ThreadPool.cpp:37 calls front() on the list without testing it again: the
\* wait loop and the test of `running', made in two reads with the destructor
\* free to write between them, must guarantee there is something to take.
TakeFindsTask == \A w \in Workers : pc[w] = "take" => workList # <<>>

\* Tasks are popped in the order they were appended.
FIFO == workList = [i \in 1..(submitted - taken) |-> taken + i]

\* A popped task is executed by one worker and by no other, and is never lost
\* between the list, the workers and the finished tasks.
ExactlyOnce ==
  /\ \A v, w \in Workers : task[v] # NoTask /\ task[v] = task[w] => v = w
  /\ 1..taken = finished \cup {task[w] : w \in {v \in Workers : task[v] # NoTask}}
  /\ \A w \in Workers : task[w] \notin finished

\* The pool is work conserving although appendFd signals after it has released
\* the mutex and a busy worker never waits for a signal: while a worker sleeps,
\* every queued task has an awake worker of its own coming for it, or its
\* signal is about to be sent.
WorkConserving ==
  running /\ Blocked # {} =>
    Len(workList) <= Cardinality(Awake) + (IF mainPc = "signal" THEN 1 ELSE 0)

\* Once the destructor has cleared `running', at most one more task starts: the
\* one of the worker that had passed the test of line 36.
AtMostOneLateTask == ~running => taken <= takenAtStop + 1

\* The worker the destructor's broadcast can miss is one that found the list
\* empty: when the destructor is joining and a worker still sleeps, there is no
\* task left in the list.
SleeperMissedNoTask == mainPc = "join" /\ Blocked # {} => workList = <<>>

\* Every appended task is taken, unless the pool is stopped, as long as fewer
\* handlers than there are workers never return.
EveryTaskTaken ==
  Cardinality(Stuck) < Cardinality(Workers) =>
    \A k \in 1..MaxTasks : submitted >= k ~> taken >= k \/ ~running

\* A pool that is destroyed while tasks are queued comes to its end, unless a
\* handler never returns: the wake-up that can be lost is lost only when the
\* list is empty.
BackloggedStopEnds ==
  mainPc = "broadcast" /\ workList # <<>>
    ~> mainPc = "done" \/ \E w \in Workers : task[w] \in Stuck

\* ThreadPool.h:49: with running set to false all threads of the pool leave the
\* event loop.
StopEndsWorkers == ~running ~> \A w \in Workers : pc[w] = "exited"

\* The pool implements the abstract dispatcher.
Dispatcher == INSTANCE TaskDispatch WITH
  open <- running, pending <- workList, held <- task

ImplementsDispatcher == Dispatcher!Spec

=============================================================================
