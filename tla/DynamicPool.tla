------------------------------ MODULE DynamicPool ------------------------------
(***************************************************************************)
(* The thread pool of thread_pool/: workers, a manager thread that is      *)
(* meant to adapt their number, and a destructor.                          *)
(*                                                                         *)
(* addTask and the destructor signal and write shutdown without mutexPool, *)
(* so whatever a worker does with the mutex held is still several steps    *)
(* when it reads the queue or the flag.  A worker is named by its slot of  *)
(* threadIDs; the slot is 0 when the worker is at "none".  Tasks are only  *)
(* counted.  One thread, main of test.cpp, calls addTask and the           *)
(* destructor.  A behaviour ends when a worker touches the freed pool, or  *)
(* in the destructor's last line: to destroy a condition on which a worker *)
(* is blocked is undefined, and glibc since 2.25 waits for that worker     *)
(* while older ones return.                                                *)
(***************************************************************************)
EXTENDS Integers, FiniteSets

CONSTANTS MinNum, MaxNum,  \* arguments of the constructor
          MaxTasks         \* bound on the calls of addTask

ASSUME DynamicPoolAssumption ==
  /\ MinNum \in Nat \ {0} /\ MaxNum \in Nat /\ MinNum <= MaxNum
  /\ MaxTasks \in Nat

Slots == 1..MaxNum
Free == 0       \* nobody holds mutexPool
NUMBER == 2

VARIABLES taskQ, busyNum, liveNum, exitNum, shutdown, mutexPool,
          pc,       \* where the worker of each slot is
          mgrPc,    \* where the manager is
          sample,   \* its queueSize and liveNum, read together, and what it has
            \* read first of the two counters that line 202 compares
          orders,   \* the signals it has still to send
          mainPc,   \* where the caller is
          sent,     \* the signals the destructor has sent
          added,    \* calls of addTask made
          missed,   \* history: the last signal of addTask woke nobody while a
                    \* worker was between its test of the queue and its wait
          crashed   \* history: a worker has used the freed pool

counterVars == <<busyNum, liveNum, exitNum>>
mgrVars == <<mgrPc, sample, orders>>
mainVars == <<mainPc, sent, added>>
historyVars == <<missed, crashed>>
vars == <<taskQ, counterVars, shutdown, mutexPool, pc, mgrVars, mainVars, historyVars>>

Init ==
  /\ taskQ = 0 /\ busyNum = 0 /\ liveNum = MinNum /\ exitNum = 0
  /\ shutdown = FALSE /\ mutexPool = Free
  /\ pc = [i \in Slots |-> IF i <= MinNum THEN "lock" ELSE "none"]
  /\ mgrPc = "while" /\ sample = [queue |-> 0, live |-> 0, first |-> 0]
  /\ orders = 0
  /\ mainPc = "idle" /\ sent = 0 /\ added = 0
  /\ missed = FALSE /\ crashed = FALSE

Blocked == {i \in Slots : pc[i] = "blocked"}

Wake(i) == pc' = [pc EXCEPT ![i] = "relock"]

\* pthread_cond_signal(&notEmpty)
Signal == IF Blocked = {} THEN UNCHANGED pc ELSE \E i \in Blocked : Wake(i)

-----------------------------------------------------------------------------
(* The caller: addTask and the destructor. *)

AddTask ==
  /\ mainPc = "idle"
  /\ ~shutdown
  /\ added < MaxTasks
  /\ added' = added + 1
  /\ taskQ' = taskQ + 1
  /\ mainPc' = "signal"
  /\ UNCHANGED <<counterVars, shutdown, mutexPool, pc, mgrVars, sent, historyVars>>

\* Mutant: addTask forgets the signal.
SignalTaskSkipped ==
  /\ mainPc = "signal"
  /\ mainPc' = "idle"
  /\ UNCHANGED <<taskQ, counterVars, shutdown, mutexPool, pc, mgrVars, sent, added,
                 historyVars>>

SignalTask ==
  /\ mainPc = "signal"
  /\ Signal
  /\ missed' = (Blocked = {} /\ \E i \in Slots : pc[i] \in {"flag", "wait"})
  /\ mainPc' = "idle"
  /\ UNCHANGED <<taskQ, counterVars, shutdown, mutexPool, mgrVars, sent, added, crashed>>

Destroy ==
  /\ mainPc = "idle"
  /\ shutdown' = TRUE
  /\ mainPc' = "join"
  /\ UNCHANGED <<taskQ, counterVars, mutexPool, pc, mgrVars, sent, added, historyVars>>

JoinManager ==
  /\ mainPc = "join"
  /\ mgrPc = "exited"
  /\ mainPc' = "wake"
  /\ UNCHANGED <<taskQ, counterVars, shutdown, mutexPool, pc, mgrVars, sent, added,
                 historyVars>>

\* Mutant: one signal for each busy worker.
BusyToWake == sent < busyNum

\* The test of the loop that wakes the workers.
MoreToWake == sent < liveNum

WakeWorker ==
  /\ mainPc = "wake"
  /\ MoreToWake
  /\ sent' = sent + 1
  /\ Signal
  /\ UNCHANGED <<taskQ, counterVars, shutdown, mutexPool, mgrVars, mainPc, added,
                 historyVars>>

\* The queue, the slots and the mutex are gone.  The workers have not been
\* joined.
FreePool ==
  /\ mainPc = "wake"
  /\ ~MoreToWake
  /\ mainPc' = "condition"
  /\ UNCHANGED <<taskQ, counterVars, shutdown, mutexPool, pc, mgrVars, sent, added,
                 historyVars>>

\* pthread_cond_destroy returns.  With a worker blocked on the condition it may
\* (old glibc) and need not (see Fairness).
DestroyCondition ==
  /\ mainPc = "condition"
  /\ mainPc' = "freed"
  /\ UNCHANGED <<taskQ, counterVars, shutdown, mutexPool, pc, mgrVars, sent, added,
                 historyVars>>

MainStep ==
  SignalTask \/ JoinManager \/ WakeWorker \/ FreePool \/ DestroyCondition

Freed == mainPc \in {"condition", "freed"}

-----------------------------------------------------------------------------
(* The workers. *)

Goto(i, next) == pc' = [pc EXCEPT ![i] = next]

Lock(i) ==
  /\ pc[i] = "lock"
  /\ mutexPool = Free
  /\ mutexPool' = i
  /\ Goto(i, "queue")
  /\ UNCHANGED <<taskQ, counterVars, shutdown>>

\* taskNumber() == 0 is tested first, !shutdown only then.
TestQueue(i) ==
  /\ pc[i] = "queue"
  /\ Goto(i, IF taskQ = 0 THEN "flag" ELSE "stop")
  /\ UNCHANGED <<taskQ, counterVars, shutdown, mutexPool>>

TestFlag(i) ==
  /\ pc[i] = "flag"
  /\ Goto(i, IF shutdown THEN "stop" ELSE "wait")
  /\ UNCHANGED <<taskQ, counterVars, shutdown, mutexPool>>

Wait(i) ==
  /\ pc[i] = "wait"
  /\ mutexPool' = Free
  /\ Goto(i, "blocked")
  /\ UNCHANGED <<taskQ, counterVars, shutdown>>

SpuriousWake(i) ==
  /\ pc[i] = "blocked"
  /\ Wake(i)
  /\ UNCHANGED <<taskQ, counterVars, shutdown, mutexPool>>

\* The wait returns with the mutex held, and no worker is to leave.
Resume(i) ==
  /\ pc[i] = "relock"
  /\ mutexPool = Free
  /\ exitNum = 0
  /\ mutexPool' = i
  /\ Goto(i, "queue")
  /\ UNCHANGED <<taskQ, counterVars, shutdown>>

\* The manager wants workers to leave: this one does if minNum others remain,
\* and otherwise goes on, the order being used up all the same.
LeaveOrStay(i) ==
  /\ pc[i] = "relock"
  /\ mutexPool = Free
  /\ exitNum > 0
  /\ exitNum' = exitNum - 1
  /\ \/ /\ liveNum > MinNum
        /\ liveNum' = liveNum - 1
        /\ Goto(i, "exit")
        /\ UNCHANGED mutexPool
     \/ /\ liveNum <= MinNum
        /\ mutexPool' = i
        /\ Goto(i, "queue")
        /\ UNCHANGED liveNum
  /\ UNCHANGED <<taskQ, busyNum, shutdown>>

\* liveNum does not hear of a worker that leaves because of the shutdown.
StopWorker(i) ==
  /\ pc[i] = "stop"
  /\ shutdown
  /\ mutexPool' = Free
  /\ Goto(i, "exit")
  /\ UNCHANGED <<taskQ, counterVars, shutdown>>

\* takeTast of an empty queue returns a task whose function is null.
TakeTask(i) ==
  /\ pc[i] = "stop"
  /\ ~shutdown
  /\ taskQ' = taskQ - 1
  /\ busyNum' = busyNum + 1
  /\ mutexPool' = Free
  /\ Goto(i, "run")
  /\ UNCHANGED <<liveNum, exitNum, shutdown>>

\* Mutant: busyNum is not decremented when the shutdown has begun.
FinishUncounted(i) ==
  /\ pc[i] = "run"
  /\ mutexPool = Free
  /\ busyNum' = IF shutdown THEN busyNum ELSE busyNum - 1
  /\ Goto(i, "lock")
  /\ UNCHANGED <<taskQ, liveNum, exitNum, shutdown, mutexPool>>

\* The task returns; the mutex is taken for busyNum.
FinishTask(i) ==
  /\ pc[i] = "run"
  /\ mutexPool = Free
  /\ busyNum' = busyNum - 1
  /\ Goto(i, "lock")
  /\ UNCHANGED <<taskQ, liveNum, exitNum, shutdown, mutexPool>>

ThreadExit(i) ==
  /\ pc[i] = "exit"
  /\ Goto(i, "none")
  /\ UNCHANGED <<taskQ, counterVars, shutdown, mutexPool>>

WorkerAdvances(i) ==
  \/ Lock(i) \/ TestQueue(i) \/ TestFlag(i) \/ Wait(i)
  \/ Resume(i) \/ LeaveOrStay(i)
  \/ StopWorker(i) \/ TakeTask(i) \/ FinishTask(i) \/ ThreadExit(i)

\* Every step of a worker reads or writes the pool.
UseFreed(i) ==
  /\ Freed
  /\ pc[i] \notin {"none", "blocked"}
  /\ crashed' = TRUE
  /\ UNCHANGED <<taskQ, counterVars, shutdown, mutexPool, pc, mgrVars, mainVars, missed>>

WorkerStep(i) ==
  \/ /\ \/ ~Freed /\ WorkerAdvances(i)
        \/ mainPc # "freed" /\ SpuriousWake(i)
     /\ UNCHANGED <<mgrVars, mainVars, historyVars>>
  \/ UseFreed(i)

-----------------------------------------------------------------------------
(* The manager. *)

\* Mutant: the loop runs as long as the pool is open.
ManageWhileOpen ==
  /\ mgrPc = "while"
  /\ mgrPc' = IF shutdown THEN "exited" ELSE "sample"
  /\ UNCHANGED <<taskQ, counterVars, shutdown, mutexPool, pc, sample, orders>>

\* while (pool->shutdown): the manager leaves unless the destructor was faster.
ManagerTest ==
  /\ mgrPc = "while"
  /\ mgrPc' = IF shutdown THEN "sample" ELSE "exited"
  /\ UNCHANGED <<taskQ, counterVars, shutdown, mutexPool, pc, sample, orders>>

\* After sleep(3).
Sample ==
  /\ mgrPc = "sample"
  /\ mutexPool = Free
  /\ sample' = [queue |-> taskQ, live |-> liveNum, first |-> 0]
  /\ mgrPc' = "grow"
  /\ UNCHANGED <<taskQ, counterVars, shutdown, mutexPool, pc, orders>>

ToGrow == sample.queue > sample.live /\ sample.live < MaxNum

\* Mutant: the number of workers is not limited.
SlotsToFillUnlimited ==
  LET free == {i \in Slots : pc[i] = "none"} IN
  {i \in free : Cardinality({j \in free : j < i}) < NUMBER}

\* The first free slots: at most NUMBER, and no more than MaxNum live workers.
SlotsToFill ==
  LET free == {i \in Slots : pc[i] = "none"} IN
  {i \in free : LET before == Cardinality({j \in free : j < i})
                IN  before < NUMBER /\ liveNum + before < MaxNum}

Grow ==
  /\ mgrPc = "grow"
  /\ ToGrow
  /\ mutexPool = Free
  /\ pc' = [i \in Slots |-> IF i \in SlotsToFill THEN "lock" ELSE pc[i]]
  /\ liveNum' = liveNum + Cardinality(SlotsToFill)
  /\ mgrPc' = "half idle"
  /\ UNCHANGED <<taskQ, busyNum, exitNum, shutdown, mutexPool, sample, orders>>

NoGrowth ==
  /\ mgrPc = "grow"
  /\ ~ToGrow
  /\ mgrPc' = "half idle"
  /\ UNCHANGED <<taskQ, counterVars, shutdown, mutexPool, pc, sample, orders>>

\* Line 202 reads the counters without the mutex, one after the other: the
\* operands of < may be evaluated in either order.
ReadFirst ==
  /\ mgrPc = "half idle"
  /\ \/ sample' = [sample EXCEPT !.first = busyNum] /\ mgrPc' = "busy read"
     \/ sample' = [sample EXCEPT !.first = liveNum] /\ mgrPc' = "live read"
  /\ UNCHANGED <<taskQ, counterVars, shutdown, mutexPool, pc, orders>>

HalfIdle ==
  \/ mgrPc = "busy read" /\ sample.first * 2 < liveNum
  \/ mgrPc = "live read" /\ busyNum * 2 < sample.first

TestHalfIdle ==
  /\ mgrPc \in {"busy read", "live read"}
  /\ sample' = [sample EXCEPT !.first = 0]
  /\ mgrPc' = IF HalfIdle THEN "above min" ELSE "while"
  /\ UNCHANGED <<taskQ, counterVars, shutdown, mutexPool, pc, orders>>

TestAboveMin ==
  /\ mgrPc = "above min"
  /\ mgrPc' = IF liveNum > MinNum THEN "order" ELSE "while"
  /\ UNCHANGED <<taskQ, counterVars, shutdown, mutexPool, pc, sample, orders>>

OrderExits ==
  /\ mgrPc = "order"
  /\ mutexPool = Free
  /\ exitNum' = NUMBER
  /\ orders' = NUMBER
  /\ mgrPc' = "signal"
  /\ UNCHANGED <<taskQ, busyNum, liveNum, shutdown, mutexPool, pc, sample>>

SignalExit ==
  /\ mgrPc = "signal"
  /\ Signal
  /\ orders' = orders - 1
  /\ mgrPc' = IF orders = 1 THEN "while" ELSE "signal"
  /\ UNCHANGED <<taskQ, counterVars, shutdown, mutexPool, sample>>

ManagerStep ==
  /\ \/ ManagerTest \/ Sample \/ Grow \/ NoGrowth
     \/ ReadFirst \/ TestHalfIdle \/ TestAboveMin \/ OrderExits \/ SignalExit
  /\ UNCHANGED <<mainVars, historyVars>>

-----------------------------------------------------------------------------

Step ==
  \/ AddTask \/ Destroy \/ MainStep
  \/ \E i \in Slots : WorkerStep(i)
  \/ ManagerStep

Next == ~crashed /\ Step

\* Threads run; tasks return, as those of test.cpp do.  Only with no worker
\* blocked is the caller sure to get through pthread_cond_destroy.
Fairness ==
  /\ WF_vars(~crashed /\ MainStep /\ (mainPc = "condition" => Blocked = {}))
  /\ WF_vars(~crashed /\ ManagerStep)
  /\ \A i \in Slots :
       WF_vars(/\ ~crashed /\ ~Freed
               /\ WorkerAdvances(i)
               /\ UNCHANGED <<mgrVars, mainVars, historyVars>>)

Spec == Init /\ [][Next]_vars
FairSpec == Spec /\ Fairness

-----------------------------------------------------------------------------
(* Properties. *)

Gone == {i \in Slots : pc[i] \in {"none", "exit"}}

\* The type invariant.  taskQ never falls below 0: a worker that leaves the wait loop
\* of an open pool finds a task.
TypeOK ==
  /\ taskQ \in 0..MaxTasks /\ added \in 0..MaxTasks
  /\ busyNum \in 0..MaxNum /\ liveNum \in 0..MaxNum /\ exitNum \in 0..NUMBER
  /\ shutdown \in BOOLEAN /\ missed \in BOOLEAN /\ crashed \in BOOLEAN
  /\ mutexPool \in Slots \cup {Free}
  /\ pc \in [Slots -> {"none", "lock", "queue", "flag", "wait", "blocked", "relock",
                       "stop", "run", "exit"}]
  /\ mgrPc \in {"while", "sample", "grow", "half idle", "busy read", "live read",
                "above min", "order", "signal", "exited"}
  /\ sample \in [queue : 0..MaxTasks, live : 0..MaxNum, first : 0..MaxNum]
  /\ orders \in 0..NUMBER /\ sent \in 0..MaxNum
  /\ mainPc \in {"idle", "signal", "join", "wake", "condition", "freed"}

\* The manager samples the counters, lets the mutex go and acts on them later, while
\* workers start and leave.  Still busyNum is the number of workers that run a task,
\* and liveNum never falls below the threads there are or out of its limits.
CountersExact ==
  /\ busyNum = Cardinality({i \in Slots : pc[i] = "run"})
  /\ Cardinality(Slots \ Gone) <= liveNum
  /\ MinNum <= liveNum

\* While the pool is open its size never changes and the manager does nothing:
\* line 171 tests shutdown the wrong way round.
SizeFixedWhileOpen ==
  ~shutdown => /\ Cardinality(Slots \ Gone) = MinNum /\ liveNum = MinNum
               /\ mgrPc \in {"while", "exited"}

\* A task waits with every worker asleep.
TaskWaits ==
  /\ ~shutdown /\ mainPc = "idle" /\ taskQ > 0
  /\ \A i \in Slots : pc[i] \in {"none", "blocked"}

\* addTask pushes and signals without mutexPool: a task waits beside sleeping workers
\* only if its signal came between a worker's test and its wait.  So does the
\* destructor: its signals leave at most one worker asleep, since only the one that
\* holds the mutex can be between its test and its wait.
NobodyOversleeps ==
  /\ TaskWaits => missed
  /\ Freed => Cardinality(Blocked) <= 1

\* A task is taken, unless its signal was missed or the pool is destroyed.
TaskTaken == taskQ > 0 ~> taskQ = 0 \/ missed \/ shutdown

\* The destructor returns but for three reasons: it was so early that the manager
\* saw shutdown at its first test (the manager's loop never ends then and neither
\* does the join of line 65); one worker was left asleep, for which line 82 waits;
\* or a worker brings the program down with what was deleted before line 82.
DestructorReturns ==
  mainPc = "join" ~>
    \/ mainPc = "freed"
    \/ mgrPc \notin {"while", "exited"}
    \/ mainPc = "condition" /\ (Cardinality(Blocked) = 1 \/ crashed)

\* What the caller asks of the pool is done in the end, both calls together.
CallsComplete == TaskTaken /\ DestructorReturns

=============================================================================
