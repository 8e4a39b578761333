-------------------------- MODULE DynamicPoolProofs --------------------------
(***************************************************************************)
(* Proofs about the pool of thread_pool/, for every minNum and maxNum of   *)
(* its constructor and every number of tasks.                              *)
(*                                                                         *)
(* IInv is the inductive invariant: the mutex excludes (Mutex), which is   *)
(* why a worker that leaves the wait loop finds a task (Tasks); what the   *)
(* manager and the caller have done when they are where they are (Manager, *)
(* Main); and the counters (Counters).  Awake and Asleep, the invariants   *)
(* of NobodyOversleeps, follow the signals: who is awake for a queued      *)
(* task, and how many sleepers the destructor's signals have still to wake.*)
(***************************************************************************)
EXTENDS DynamicPool, TLAPS, FiniteSetTheorems

Working == Slots \ Gone
Running == {i \in Slots : pc[i] = "run"}

\* Who sleeps, or will before it tests anything again.
Sleepers == {i \in Slots : pc[i] \in {"wait", "blocked"}}

\* A worker between its lock and its unlock holds the mutex.
Mutex ==
  \A i \in Slots : pc[i] \in {"queue", "flag", "wait", "stop"} <=> mutexPool = i

\* A worker that has found a task still finds it when it takes it.
Tasks ==
  /\ taskQ <= added
  /\ \A i \in Slots : pc[i] = "stop" /\ ~shutdown => taskQ > 0

\* The manager of an open pool does nothing, and it exits only then.
Manager ==
  /\ mgrPc = "signal" => orders >= 1
  /\ mgrPc = "exited" => exitNum = 0
  /\ ~shutdown => exitNum = 0 /\ liveNum = MinNum /\ mgrPc \in {"while", "exited"}

Main ==
  /\ shutdown <=> mainPc \in {"join", "wake", "condition", "freed"}
  /\ mainPc \in {"idle", "signal", "join"} => sent = 0
  /\ mainPc \in {"wake", "condition", "freed"} => mgrPc = "exited"

Counters ==
  /\ busyNum = Cardinality(Running)
  /\ Cardinality(Working) <= liveNum
  /\ MinNum <= liveNum
  /\ ~shutdown => Cardinality(Working) = MinNum

IInv == TypeOK /\ Mutex /\ Tasks /\ Manager /\ Main /\ Counters

-----------------------------------------------------------------------------
(* Sets of slots. *)

LEMMA Constants ==
  /\ MinNum \in Nat /\ MinNum >= 1 /\ MaxNum \in Nat /\ MinNum <= MaxNum
  /\ MaxTasks \in Nat /\ Free \notin Slots
BY DynamicPoolAssumption DEF Free, Slots

LEMMA SlotSets ==
  ASSUME NEW S \in SUBSET Slots
  PROVE  /\ IsFiniteSet(S) /\ Cardinality(S) \in Nat /\ Cardinality(S) <= MaxNum
         /\ \A i \in S : Cardinality(S \ {i}) = Cardinality(S) - 1
         /\ \A i \in Slots \ S : Cardinality(S \cup {i}) = Cardinality(S) + 1
<1>1. IsFiniteSet(Slots) /\ Cardinality(Slots) = MaxNum
  <2>1. IsFiniteSet(1..MaxNum) /\ Cardinality(1..MaxNum) = IF 1 > MaxNum THEN 0 ELSE MaxNum - 1 + 1
    BY Constants, FS_Interval
  <2> QED
    BY <2>1, Constants DEF Slots
<1>2. IsFiniteSet(S) /\ Cardinality(S) <= MaxNum
  BY <1>1, FS_Subset
<1>3. Cardinality(S) \in Nat
  BY <1>2, FS_CardinalityType
<1>4. \A i \in S : Cardinality(S \ {i}) = Cardinality(S) - 1
  BY <1>2, FS_RemoveElement
<1>5. \A i \in Slots \ S : Cardinality(S \cup {i}) = Cardinality(S) + 1
  BY <1>2, FS_AddElement
<1> QED
  BY <1>2, <1>3, <1>4, <1>5

LEMMA SmallerSet ==
  ASSUME NEW S \in SUBSET Slots, NEW R \in SUBSET S
  PROVE  Cardinality(R) <= Cardinality(S)
BY SlotSets, FS_Subset

LEMMA SetsOfSlots ==
  Working \in SUBSET Slots /\ Running \in SUBSET Slots /\ Sleepers \in SUBSET Slots
BY DEF Working, Running, Sleepers

\* The new workers fit: the number of free slots below a slot tells the slots of
\* SlotsToFill apart, and it is below the room that is left.
LEMMA FillFits ==
  ASSUME TypeOK
  PROVE  /\ SlotsToFill \in SUBSET Slots
         /\ \A i \in SlotsToFill : pc[i] = "none"
         /\ Cardinality(SlotsToFill) \in Nat
         /\ liveNum + Cardinality(SlotsToFill) <= MaxNum
<1> DEFINE free == {i \in Slots : pc[i] = "none"}
           Below(i) == {j \in free : j < i}
           k == MaxNum - liveNum
           f == [i \in SlotsToFill |-> Cardinality(Below(i))]
<1>1. /\ SlotsToFill \in SUBSET Slots
      /\ \A i \in SlotsToFill : i \in free /\ liveNum + Cardinality(Below(i)) < MaxNum
  BY DEF SlotsToFill
<1>2. k \in Nat /\ liveNum \in Nat
  <2>1. liveNum \in 0..MaxNum
    BY DEF TypeOK
  <2> QED
    BY <2>1, Constants
<1>3. \A i \in SlotsToFill : Cardinality(Below(i)) \in 0..(k - 1)
  <2> TAKE i \in SlotsToFill
  <2>1. Cardinality(Below(i)) \in Nat
    BY SlotSets
  <2>2. liveNum + Cardinality(Below(i)) < MaxNum
    BY <1>1
  <2> QED
    BY <1>2, <2>1, <2>2, Constants
<1>4. \A i, j \in SlotsToFill : i < j => Cardinality(Below(i)) # Cardinality(Below(j))
  <2> SUFFICES ASSUME NEW i \in SlotsToFill, NEW j \in SlotsToFill, i < j,
                      Cardinality(Below(i)) = Cardinality(Below(j))
               PROVE  FALSE
    OBVIOUS
  <2>1. i \in Below(j) /\ i \notin Below(i)
    BY <1>1 DEF Slots
  <2>2. Below(i) \in SUBSET Below(j)
    BY <1>1 DEF Slots
  <2>3. IsFiniteSet(Below(j))
    BY SlotSets
  <2>4. Below(i) = Below(j)
    BY <2>2, <2>3, FS_Subset
  <2> QED
    BY <2>1, <2>4
<1> HIDE DEF Below, free
<1>5. f \in Injection(SlotsToFill, 0..(k - 1))
  <2>1. f \in [SlotsToFill -> 0..(k - 1)]
    BY <1>3
  <2>2. \A i, j \in SlotsToFill : f[i] = f[j] => i = j
    <3>1. \A i, j \in SlotsToFill : i \in Int /\ j \in Int
      BY <1>1 DEF Slots
    <3> QED
      BY <1>4, <3>1
  <2> HIDE DEF f
  <2> QED
    BY <2>1, <2>2 DEF Injection, IsInjective
<1>6. IsFiniteSet(0..(k - 1)) /\ Cardinality(0..(k - 1)) = k
  <2>1. /\ IsFiniteSet(0..(k - 1))
        /\ Cardinality(0..(k - 1)) = IF 0 > k - 1 THEN 0 ELSE (k - 1) - 0 + 1
    <3>1. k - 1 \in Int
      BY <1>2
    <3> HIDE DEF k
    <3> QED
      BY <3>1, FS_Interval
  <2> QED
    BY <1>2, <2>1
<1>7. Cardinality(SlotsToFill) <= k
  BY <1>5, <1>6, FS_Injection
<1>8. Cardinality(SlotsToFill) \in Nat
  BY <1>1, SlotSets
<1> QED
  BY <1>1, <1>2, <1>7, <1>8, Constants DEF free

\* One worker moves.
LEMMA Moved ==
  ASSUME TypeOK, NEW i \in Slots, NEW q, Goto(i, q)
  PROVE  /\ pc'[i] = q /\ \A j \in Slots : j # i => pc'[j] = pc[j]
         /\ Running' = IF q = "run" THEN Running \cup {i} ELSE Running \ {i}
         /\ Working' = IF q \in {"none", "exit"} THEN Working \ {i} ELSE Working \cup {i}
         /\ Sleepers' = IF q \in {"wait", "blocked"} THEN Sleepers \cup {i} ELSE Sleepers \ {i}
<1>1. /\ pc'[i] = q /\ \A j \in Slots : j # i => pc'[j] = pc[j]
  BY DEF TypeOK, Goto
<1>2. Slots' = Slots
  BY DEF Slots
<1>3. Running' = IF q = "run" THEN Running \cup {i} ELSE Running \ {i}
  BY <1>1, <1>2 DEF Running
<1>4. Working' = IF q \in {"none", "exit"} THEN Working \ {i} ELSE Working \cup {i}
  BY <1>1, <1>2 DEF Working, Gone
<1>5. Sleepers' = IF q \in {"wait", "blocked"} THEN Sleepers \cup {i} ELSE Sleepers \ {i}
  BY <1>1, <1>2 DEF Sleepers
<1> QED
  BY <1>1, <1>3, <1>4, <1>5

\* A signal wakes one sleeper, if there is one.
LEMMA Signalled ==
  ASSUME TypeOK, Signal
  PROVE  \/ Blocked = {} /\ pc' = pc
         \/ \E j \in Slots : pc[j] = "blocked" /\ Goto(j, "relock")
BY DEF Signal, Blocked, Wake, Goto

-----------------------------------------------------------------------------
(* The steps, by what they change. *)

Elsewhere == UNCHANGED <<mgrVars, mainVars, historyVars>>
Managing == UNCHANGED <<mainVars, historyVars>>

LEMMA StepCases ==
  ASSUME [Next]_vars
  PROVE  \/ AddTask \/ SignalTask \/ Destroy \/ JoinManager
         \/ WakeWorker \/ FreePool \/ DestroyCondition
         \/ \E i \in Slots :
              \/ ~Freed /\ WorkerAdvances(i) /\ Elsewhere
              \/ mainPc # "freed" /\ SpuriousWake(i) /\ Elsewhere
              \/ UseFreed(i)
         \/ (ManagerTest \/ NoGrowth \/ ReadFirst \/ TestHalfIdle \/ TestAboveMin) /\ Managing
         \/ Sample /\ Managing
         \/ Grow /\ Managing
         \/ OrderExits /\ Managing
         \/ SignalExit /\ Managing
         \/ UNCHANGED vars
BY DEF Next, Step, MainStep, WorkerStep, ManagerStep, Elsewhere, Managing

\* Where a worker holds the mutex.
Inside == {"queue", "flag", "wait", "stop"}

Places == {"none", "lock", "queue", "flag", "wait", "blocked", "relock", "stop", "run", "exit"}

\* A worker takes the mutex, keeps it, gives it back or has nothing to do with it.
LEMMA WorkerMoves ==
  ASSUME TypeOK, NEW i \in Slots, WorkerAdvances(i) \/ SpuriousWake(i)
  PROVE  /\ shutdown' = shutdown
         /\ \E q \in Places :
              /\ Goto(i, q)
              /\ \/ pc[i] \notin Inside /\ mutexPool = Free /\ q \in Inside /\ mutexPool' = i
                 \/ pc[i] \in Inside /\ q \in Inside /\ mutexPool' = mutexPool
                 \/ pc[i] \in Inside /\ q \notin Inside /\ mutexPool' = Free
                 \/ pc[i] \notin Inside /\ q \notin Inside /\ mutexPool' = mutexPool
<1> DEFINE Move(q) ==
             \/ pc[i] \notin Inside /\ mutexPool = Free /\ q \in Inside /\ mutexPool' = i
             \/ pc[i] \in Inside /\ q \in Inside /\ mutexPool' = mutexPool
             \/ pc[i] \in Inside /\ q \notin Inside /\ mutexPool' = Free
             \/ pc[i] \notin Inside /\ q \notin Inside /\ mutexPool' = mutexPool
<1>1. CASE Lock(i)
  <2>1. Goto(i, "queue") /\ Move("queue") /\ shutdown' = shutdown
    BY <1>1 DEF Lock, Inside
  <2> QED
    BY <2>1 DEF Places
<1>2. CASE TestQueue(i)
  <2>1. PICK q \in {"flag", "stop"} : Goto(i, q)
    BY <1>2 DEF TestQueue
  <2>2. Move(q) /\ shutdown' = shutdown
    BY <1>2 DEF TestQueue, Inside
  <2> QED
    BY <2>1, <2>2 DEF Places
<1>3. CASE TestFlag(i)
  <2>1. PICK q \in {"stop", "wait"} : Goto(i, q)
    BY <1>3 DEF TestFlag
  <2>2. Move(q) /\ shutdown' = shutdown
    BY <1>3 DEF TestFlag, Inside
  <2> QED
    BY <2>1, <2>2 DEF Places
<1>4. CASE Wait(i)
  <2>1. Goto(i, "blocked") /\ Move("blocked") /\ shutdown' = shutdown
    BY <1>4 DEF Wait, Inside
  <2> QED
    BY <2>1 DEF Places
<1>5. CASE SpuriousWake(i)
  <2>1. Goto(i, "relock") /\ Move("relock") /\ shutdown' = shutdown
    BY <1>5 DEF SpuriousWake, Inside, Wake, Goto
  <2> QED
    BY <2>1 DEF Places
<1>6. CASE Resume(i)
  <2>1. Goto(i, "queue") /\ Move("queue") /\ shutdown' = shutdown
    BY <1>6 DEF Resume, Inside
  <2> QED
    BY <2>1 DEF Places
<1>7. CASE LeaveOrStay(i)
  <2>1. \/ Goto(i, "exit") /\ Move("exit")
        \/ Goto(i, "queue") /\ Move("queue")
    BY <1>7 DEF LeaveOrStay, Inside
  <2>2. shutdown' = shutdown
    BY <1>7 DEF LeaveOrStay
  <2> QED
    BY <2>1, <2>2 DEF Places
<1>8. CASE StopWorker(i)
  <2>1. Goto(i, "exit") /\ Move("exit") /\ shutdown' = shutdown
    BY <1>8 DEF StopWorker, Inside
  <2> QED
    BY <2>1 DEF Places
<1>9. CASE TakeTask(i)
  <2>1. Goto(i, "run") /\ Move("run") /\ shutdown' = shutdown
    BY <1>9 DEF TakeTask, Inside
  <2> QED
    BY <2>1 DEF Places
<1>10. CASE FinishTask(i)
  <2>1. Goto(i, "lock") /\ Move("lock") /\ shutdown' = shutdown
    BY <1>10 DEF FinishTask, Inside
  <2> QED
    BY <2>1 DEF Places
<1>11. CASE ThreadExit(i)
  <2>1. Goto(i, "none") /\ Move("none") /\ shutdown' = shutdown
    BY <1>11 DEF ThreadExit, Inside
  <2> QED
    BY <2>1 DEF Places
<1> QED
  BY <1>1, <1>2, <1>3, <1>4, <1>5, <1>6, <1>7, <1>8, <1>9, <1>10, <1>11 DEF WorkerAdvances

\* What the other steps do to the places of the workers.
LEMMA OtherMoves ==
  ASSUME TypeOK, [Next]_vars
  PROVE  \/ \E i \in Slots : (WorkerAdvances(i) \/ SpuriousWake(i)) /\ Elsewhere
         \/ UNCHANGED <<pc, mutexPool>>
         \/ (SignalTask \/ WakeWorker \/ SignalExit) /\ Signal /\ UNCHANGED mutexPool
         \/ /\ Grow /\ UNCHANGED mutexPool
            /\ pc' = [i \in Slots |-> IF i \in SlotsToFill THEN "lock" ELSE pc[i]]
BY StepCases
   DEF AddTask, SignalTask, Destroy, JoinManager, WakeWorker, FreePool,
       DestroyCondition, UseFreed, ManagerTest, Sample, Grow, NoGrowth, ReadFirst, TestHalfIdle, TestAboveMin, OrderExits,
       SignalExit, vars

-----------------------------------------------------------------------------
(* The mutex. *)

LEMMA MutexKept ==
  ASSUME TypeOK, Mutex, [Next]_vars
  PROVE  Mutex' /\ pc' \in [Slots -> Places]
<1>0. pc \in [Slots -> Places] /\ Slots' = Slots
  BY DEF TypeOK, Places, Slots
<1>1. ASSUME NEW i \in Slots, WorkerAdvances(i) \/ SpuriousWake(i)
      PROVE  Mutex' /\ pc' \in [Slots -> Places]
  <2>1. PICK q \in Places :
          /\ Goto(i, q)
          /\ \/ pc[i] \notin Inside /\ mutexPool = Free /\ q \in Inside /\ mutexPool' = i
             \/ pc[i] \in Inside /\ q \in Inside /\ mutexPool' = mutexPool
             \/ pc[i] \in Inside /\ q \notin Inside /\ mutexPool' = Free
             \/ pc[i] \notin Inside /\ q \notin Inside /\ mutexPool' = mutexPool
    BY <1>1, WorkerMoves
  <2>2. pc'[i] = q /\ \A j \in Slots : j # i => pc'[j] = pc[j]
    BY <2>1, Moved
  <2>3. \A j \in Slots : pc[j] \in Inside <=> mutexPool = j
    BY DEF Mutex, Inside
  <2>4. \A j \in Slots : pc'[j] \in Inside <=> mutexPool' = j
    BY <2>1, <2>2, <2>3, Constants
  <2>5. pc' \in [Slots -> Places]
    BY <1>0, <2>1 DEF Goto
  <2> QED
    BY <1>0, <2>4, <2>5 DEF Mutex, Inside
<1>2. ASSUME NEW j \in Slots, pc[j] = "blocked", Goto(j, "relock"), mutexPool' = mutexPool
      PROVE  Mutex' /\ pc' \in [Slots -> Places]
  <2>1. pc'[j] = "relock" /\ \A k \in Slots : k # j => pc'[k] = pc[k]
    BY <1>2, Moved
  <2>2. pc' \in [Slots -> Places]
    BY <1>0, <1>2 DEF Goto, Places
  <2> QED
    BY <1>0, <1>2, <2>1, <2>2 DEF Mutex
<1>3. CASE UNCHANGED <<pc, mutexPool>>
  BY <1>0, <1>3 DEF Mutex
<1>4. CASE /\ mutexPool' = mutexPool
           /\ pc' = [i \in Slots |-> IF i \in SlotsToFill THEN "lock" ELSE pc[i]]
  <2>1. \A i \in Slots : \/ pc'[i] = pc[i]
                         \/ pc[i] = "none" /\ pc'[i] = "lock"
    BY <1>4, FillFits
  <2>2. pc' \in [Slots -> Places]
    BY <1>0, <1>4 DEF Places
  <2> QED
    BY <1>0, <1>4, <2>1, <2>2 DEF Mutex
<1> QED
  BY <1>1, <1>2, <1>3, <1>4, OtherMoves, Signalled

-----------------------------------------------------------------------------
(* The queue. *)

LEMMA TasksKept ==
  ASSUME TypeOK, Mutex, Tasks, [Next]_vars
  PROVE  Tasks'
<1>0. Slots' = Slots /\ taskQ \in Nat /\ added \in Nat
  <2>1. taskQ \in 0..MaxTasks /\ added \in 0..MaxTasks
    BY DEF TypeOK
  <2> QED
    BY <2>1, Constants DEF Slots
<1>1. ASSUME UNCHANGED <<taskQ, added>>, shutdown => shutdown',
             \A j \in Slots : pc'[j] = "stop" => pc[j] = "stop"
      PROVE  Tasks'
  BY <1>0, <1>1 DEF Tasks
<1>2. ASSUME NEW i \in Slots, NEW q, Goto(i, q), q # "stop",
             UNCHANGED <<taskQ, added, shutdown>>
      PROVE  Tasks'
  BY <1>1, <1>2, Moved
<1>3. ASSUME NEW i \in Slots, WorkerAdvances(i) \/ SpuriousWake(i), Elsewhere
      PROVE  Tasks'
  <2>0. added' = added
    BY <1>3 DEF Elsewhere, mainVars
  <2>1. CASE TestQueue(i)
    <3>1. UNCHANGED <<taskQ, shutdown>>
      BY <2>1 DEF TestQueue
    <3>2. CASE taskQ = 0
      <4>1. Goto(i, "flag")
        BY <2>1, <3>2 DEF TestQueue
      <4> QED
        BY <1>2, <2>0, <3>1, <4>1
    <3>3. CASE taskQ # 0
      BY <1>0, <2>0, <3>1, <3>3 DEF Tasks
    <3> QED
      BY <3>2, <3>3
  <2>2. CASE TestFlag(i)
    <3>1. UNCHANGED <<taskQ, shutdown>>
      BY <2>2 DEF TestFlag
    <3>2. CASE ~shutdown
      <4>1. Goto(i, "wait")
        BY <2>2, <3>2 DEF TestFlag
      <4> QED
        BY <1>2, <2>0, <3>1, <4>1
    <3>3. CASE shutdown
      BY <1>0, <2>0, <3>1, <3>3 DEF Tasks
    <3> QED
      BY <3>2, <3>3
  <2>3. CASE TakeTask(i)
    <3>1. /\ taskQ' = taskQ - 1 /\ pc[i] = "stop" /\ ~shutdown /\ Goto(i, "run")
      BY <2>3 DEF TakeTask
    <3>2. taskQ > 0
      BY <3>1 DEF Tasks
    <3>3. \A j \in Slots : pc'[j] # "stop"
      <4>1. \A j \in Slots : pc[j] = "stop" => j = i
        BY <3>1 DEF Mutex
      <4> QED
        BY <3>1, <4>1, Moved
    <3> QED
      BY <1>0, <2>0, <3>1, <3>2, <3>3 DEF Tasks
  <2>4. CASE LeaveOrStay(i)
    <3>1. UNCHANGED <<taskQ, shutdown>>
      BY <2>4 DEF LeaveOrStay
    <3>2. PICK q \in {"exit", "queue"} : Goto(i, q)
      BY <2>4 DEF LeaveOrStay
    <3> QED
      BY <1>2, <2>0, <3>1, <3>2
  <2>5. CASE Lock(i)
    BY <1>2, <2>0, <2>5 DEF Lock
  <2>6. CASE Wait(i)
    BY <1>2, <2>0, <2>6 DEF Wait
  <2>7. CASE SpuriousWake(i)
    BY <1>2, <2>0, <2>7 DEF SpuriousWake, Wake, Goto
  <2>8. CASE Resume(i)
    BY <1>2, <2>0, <2>8 DEF Resume
  <2>9. CASE StopWorker(i)
    BY <1>2, <2>0, <2>9 DEF StopWorker
  <2>10. CASE FinishTask(i)
    BY <1>2, <2>0, <2>10 DEF FinishTask
  <2>11. CASE ThreadExit(i)
    BY <1>2, <2>0, <2>11 DEF ThreadExit
  <2> QED
    BY <1>3, <2>1, <2>2, <2>3, <2>4, <2>5, <2>6, <2>7, <2>8, <2>9, <2>10, <2>11
       DEF WorkerAdvances
<1>4. CASE AddTask
  <2>1. taskQ' = taskQ + 1 /\ added' = added + 1 /\ UNCHANGED <<pc, shutdown>>
    BY <1>4 DEF AddTask
  <2> QED
    BY <1>0, <2>1 DEF Tasks
<1>5. CASE SignalTask \/ WakeWorker \/ (SignalExit /\ Managing)
  <2>0. Signal
    BY <1>5 DEF SignalTask, WakeWorker, SignalExit
  <2>1. UNCHANGED <<taskQ, added, shutdown>>
    BY <1>5 DEF SignalTask, WakeWorker, SignalExit, Managing, mainVars
  <2>2. CASE pc' = pc
    BY <1>1, <2>1, <2>2
  <2>3. CASE \E j \in Slots : Goto(j, "relock")
    BY <1>2, <2>1, <2>3
  <2> QED
    BY <2>0, <2>2, <2>3, Signalled
<1>6. CASE Grow /\ Managing
  <2>1. \A i \in Slots : pc'[i] = "stop" => pc[i] = "stop"
    BY <1>6 DEF Grow
  <2> QED
    BY <1>1, <1>6, <2>1 DEF Grow, Managing, mainVars
<1>7. CASE Destroy \/ JoinManager \/ FreePool \/ DestroyCondition
  BY <1>1, <1>7 DEF Destroy, JoinManager, FreePool, DestroyCondition
<1>8. CASE \E i \in Slots : UseFreed(i)
  BY <1>1, <1>8 DEF UseFreed, mainVars
<1>9. CASE \/ (ManagerTest \/ NoGrowth \/ ReadFirst \/ TestHalfIdle \/ TestAboveMin) /\ Managing
           \/ Sample /\ Managing
           \/ OrderExits /\ Managing
  BY <1>1, <1>9 DEF ManagerTest, NoGrowth, ReadFirst, TestHalfIdle, TestAboveMin, Sample,
                    OrderExits,
                    Managing, mainVars
<1>10. CASE UNCHANGED vars
  BY <1>1, <1>10 DEF vars, mainVars
<1> QED
  BY <1>3, <1>4, <1>5, <1>6, <1>7, <1>8, <1>9, <1>10, StepCases

-----------------------------------------------------------------------------
(* The manager and the caller. *)

LEMMA ManagerKept ==
  ASSUME TypeOK, Manager, Main, Counters, [Next]_vars
  PROVE  Manager'
<1>0. exitNum \in Nat /\ orders \in Nat /\ liveNum \in Nat
  <2>1. exitNum \in 0..2 /\ orders \in 0..2 /\ liveNum \in 0..MaxNum
    BY DEF TypeOK, NUMBER
  <2> QED
    BY <2>1, Constants
<1>1. CASE UNCHANGED <<mgrPc, orders, exitNum, liveNum>> /\ (shutdown => shutdown')
  BY <1>1 DEF Manager
<1>2. ASSUME NEW i \in Slots, WorkerAdvances(i) \/ SpuriousWake(i), Elsewhere
      PROVE  Manager'
  <2>1. UNCHANGED <<mgrPc, orders>> /\ shutdown' = shutdown
    BY <1>2, WorkerMoves DEF Elsewhere, mgrVars
  <2>2. CASE LeaveOrStay(i)
    <3>1. exitNum > 0
      BY <2>2 DEF LeaveOrStay
    <3>2. shutdown /\ mgrPc # "exited"
      BY <1>0, <3>1 DEF Manager
    <3> QED
      BY <2>1, <3>2 DEF Manager
  <2>3. CASE UNCHANGED <<exitNum, liveNum>>
    BY <1>1, <2>1, <2>3
  <2> QED
    BY <1>2, <2>2, <2>3
       DEF WorkerAdvances, Lock, TestQueue, TestFlag, Wait, SpuriousWake, Resume,
           StopWorker, TakeTask, FinishTask, ThreadExit, counterVars
<1>3. CASE ManagerTest
  BY <1>3 DEF ManagerTest, Manager, counterVars
<1>4. CASE Sample \/ Grow \/ NoGrowth \/ ReadFirst \/ TestHalfIdle \/ TestAboveMin
  <2>1. mgrPc \in {"sample", "grow", "half idle", "busy read", "live read", "above min"}
    BY <1>4 DEF Sample, Grow, NoGrowth, ReadFirst, TestHalfIdle, TestAboveMin
  <2>2. /\ mgrPc' \in {"grow", "half idle", "busy read", "live read", "above min",
                       "while", "order"}
        /\ shutdown' = shutdown
    BY <1>4 DEF Sample, Grow, NoGrowth, ReadFirst, TestHalfIdle, TestAboveMin
  <2> QED
    BY <2>1, <2>2 DEF Manager
<1>5. CASE OrderExits
  BY <1>5 DEF OrderExits, Manager, NUMBER
<1>6. CASE SignalExit
  <2>1. /\ mgrPc = "signal" /\ orders' = orders - 1 /\ shutdown' = shutdown
        /\ mgrPc' = IF orders = 1 THEN "while" ELSE "signal"
    BY <1>6 DEF SignalExit
  <2>2. shutdown /\ orders >= 1
    BY <2>1 DEF Manager
  <2> QED
    BY <1>0, <2>1, <2>2 DEF Manager
<1>7. CASE \/ AddTask \/ SignalTask \/ Destroy \/ JoinManager
           \/ WakeWorker \/ FreePool \/ DestroyCondition
           \/ \E i \in Slots : UseFreed(i)
           \/ UNCHANGED vars
  BY <1>1, <1>7 DEF AddTask, SignalTask, Destroy, JoinManager, WakeWorker, FreePool,
                    DestroyCondition, UseFreed,
                    mgrVars, counterVars, vars
<1> QED
  BY <1>2, <1>3, <1>4, <1>5, <1>6, <1>7, StepCases

LEMMA MainKept ==
  ASSUME TypeOK, Manager, Main, [Next]_vars
  PROVE  Main'
<1>1. CASE UNCHANGED <<mainPc, sent, shutdown>> /\ (mgrPc = "exited" => mgrPc' = "exited")
  BY <1>1 DEF Main
<1>2. CASE AddTask
  BY <1>2 DEF AddTask, Main, mgrVars
<1>3. CASE SignalTask
  BY <1>3 DEF SignalTask, Main, mgrVars
<1>4. CASE Destroy
  BY <1>4 DEF Destroy, Main, mgrVars
<1>5. CASE JoinManager
  BY <1>5 DEF JoinManager, Main, mgrVars
<1>6. CASE WakeWorker
  BY <1>6 DEF WakeWorker, Main, mgrVars
<1>7. CASE FreePool
  BY <1>7 DEF FreePool, Main, mgrVars
<1>8. CASE \E i \in Slots : (WorkerAdvances(i) \/ SpuriousWake(i)) /\ Elsewhere
  BY <1>1, <1>8, WorkerMoves DEF Elsewhere, mainVars, mgrVars
<1>9. CASE \E i \in Slots : UseFreed(i)
  BY <1>1, <1>9 DEF UseFreed, mainVars, mgrVars
<1>10. CASE /\ ManagerTest \/ Sample \/ Grow \/ NoGrowth \/ ReadFirst \/ TestHalfIdle
               \/ TestAboveMin \/ OrderExits \/ SignalExit
            /\ Managing
  BY <1>1, <1>10 DEF ManagerTest, Sample, Grow, NoGrowth, ReadFirst, TestHalfIdle, TestAboveMin,
                     OrderExits, SignalExit, Managing, mainVars
<1>11. CASE UNCHANGED vars
  BY <1>1, <1>11 DEF vars, mainVars, mgrVars
<1>12. CASE DestroyCondition
  BY <1>12 DEF DestroyCondition, Main, mgrVars
<1> QED
  BY <1>2, <1>3, <1>4, <1>5, <1>6, <1>7, <1>8, <1>9, <1>10, <1>11,
     <1>12, StepCases

-----------------------------------------------------------------------------
(* The counters. *)

LEMMA CountersKept ==
  ASSUME TypeOK, Manager, Counters, [Next]_vars
  PROVE  Counters'
<1>0. /\ liveNum \in Nat /\ Cardinality(Working) \in Nat /\ Cardinality(Running) \in Nat
      /\ Working \in SUBSET Slots /\ Running \in SUBSET Slots
  <2>1. liveNum \in 0..MaxNum
    BY DEF TypeOK
  <2> QED
    BY <2>1, SlotSets, SetsOfSlots, Constants
<1>1. ASSUME UNCHANGED <<busyNum, liveNum>>, Working' = Working, Running' = Running,
             shutdown => shutdown'
      PROVE  Counters'
  BY <1>1 DEF Counters
<1>2. ASSUME NEW i \in Slots, NEW q, Goto(i, q),
             pc[i] \notin {"none", "exit", "run"}, q \notin {"none", "exit", "run"},
             UNCHANGED <<busyNum, liveNum, shutdown>>
      PROVE  Counters'
  <2>1. i \in Working /\ i \notin Running
    BY <1>2 DEF Working, Gone, Running
  <2>2. Working' = Working /\ Running' = Running
    BY <1>2, <2>1, Moved
  <2> QED
    BY <1>1, <1>2, <2>2
<1>3. ASSUME UNCHANGED <<pc, busyNum, liveNum>>, shutdown => shutdown'
      PROVE  Counters'
  BY <1>1, <1>3 DEF Working, Gone, Running, Slots
<1>4. ASSUME NEW i \in Slots, WorkerAdvances(i) \/ SpuriousWake(i)
      PROVE  Counters'
  <2>1. CASE Lock(i)
    BY <1>2, <2>1 DEF Lock, counterVars
  <2>2. CASE TestQueue(i)
    <3>1. PICK q \in {"flag", "stop"} : Goto(i, q)
      BY <2>2 DEF TestQueue
    <3> QED
      BY <1>2, <2>2, <3>1 DEF TestQueue, counterVars
  <2>3. CASE TestFlag(i)
    <3>1. PICK q \in {"stop", "wait"} : Goto(i, q)
      BY <2>3 DEF TestFlag
    <3> QED
      BY <1>2, <2>3, <3>1 DEF TestFlag, counterVars
  <2>4. CASE Wait(i)
    BY <1>2, <2>4 DEF Wait, counterVars
  <2>5. CASE SpuriousWake(i)
    BY <1>2, <2>5 DEF SpuriousWake, Wake, Goto, counterVars
  <2>6. CASE Resume(i)
    BY <1>2, <2>6 DEF Resume, counterVars
  <2>7. CASE LeaveOrStay(i)
    <3>1. /\ pc[i] = "relock" /\ exitNum > 0 /\ busyNum' = busyNum /\ shutdown' = shutdown
      BY <2>7 DEF LeaveOrStay
    <3>2. shutdown
      <4>1. exitNum # 0
        BY <3>1
      <4> QED
        BY <4>1 DEF Manager
    <3>3. CASE liveNum > MinNum /\ liveNum' = liveNum - 1 /\ Goto(i, "exit")
      <4>1. i \in Working /\ i \notin Running
        BY <3>1 DEF Working, Gone, Running
      <4>2. Working' = Working \ {i} /\ Running' = Running
        BY <3>3, <4>1, Moved
      <4>3. Cardinality(Working') = Cardinality(Working) - 1
        BY <1>0, <4>1, <4>2, SlotSets
      <4> QED
        BY <1>0, <3>1, <3>2, <3>3, <4>2, <4>3, Constants DEF Counters
    <3>4. CASE liveNum' = liveNum /\ Goto(i, "queue")
      BY <1>2, <3>1, <3>4
    <3> QED
      BY <2>7, <3>3, <3>4 DEF LeaveOrStay
  <2>8. CASE StopWorker(i)
    <3>1. /\ pc[i] = "stop" /\ shutdown /\ Goto(i, "exit")
          /\ UNCHANGED <<busyNum, liveNum, shutdown>>
      BY <2>8 DEF StopWorker, counterVars
    <3>2. i \in Working /\ i \notin Running
      BY <3>1 DEF Working, Gone, Running
    <3>3. Working' = Working \ {i} /\ Running' = Running
      BY <3>1, <3>2, Moved
    <3>4. Cardinality(Working') = Cardinality(Working) - 1
      BY <1>0, <3>2, <3>3, SlotSets
    <3> QED
      BY <1>0, <3>1, <3>3, <3>4 DEF Counters
  <2>9. CASE TakeTask(i)
    <3>1. /\ pc[i] = "stop" /\ Goto(i, "run")
          /\ busyNum' = busyNum + 1 /\ UNCHANGED <<liveNum, shutdown>>
      BY <2>9 DEF TakeTask
    <3>2. i \in Working /\ i \notin Running
      BY <3>1 DEF Working, Gone, Running
    <3>3. Working' = Working /\ Running' = Running \cup {i}
      BY <3>1, <3>2, Moved
    <3>4. Cardinality(Running') = Cardinality(Running) + 1
      BY <1>0, <3>2, <3>3, SlotSets
    <3> QED
      BY <1>0, <3>1, <3>3, <3>4 DEF Counters
  <2>10. CASE FinishTask(i)
    <3>1. /\ pc[i] = "run" /\ Goto(i, "lock")
          /\ busyNum' = busyNum - 1 /\ UNCHANGED <<liveNum, shutdown>>
      BY <2>10 DEF FinishTask
    <3>2. i \in Working /\ i \in Running
      BY <3>1 DEF Working, Gone, Running
    <3>3. Working' = Working /\ Running' = Running \ {i}
      BY <3>1, <3>2, Moved
    <3>4. Cardinality(Running') = Cardinality(Running) - 1
      BY <1>0, <3>2, <3>3, SlotSets
    <3> QED
      BY <1>0, <3>1, <3>3, <3>4 DEF Counters
  <2>11. CASE ThreadExit(i)
    <3>1. /\ pc[i] = "exit" /\ Goto(i, "none")
          /\ UNCHANGED <<busyNum, liveNum, shutdown>>
      BY <2>11 DEF ThreadExit, counterVars
    <3>2. i \notin Working /\ i \notin Running
      BY <3>1 DEF Working, Gone, Running
    <3>3. Working' = Working /\ Running' = Running
      BY <3>1, <3>2, Moved
    <3> QED
      BY <1>1, <3>1, <3>3
  <2> QED
    BY <1>4, <2>1, <2>2, <2>3, <2>4, <2>5, <2>6, <2>7, <2>8, <2>9, <2>10, <2>11
       DEF WorkerAdvances
<1>5. CASE SignalTask \/ WakeWorker \/ SignalExit
  <2>0. Signal
    BY <1>5 DEF SignalTask, WakeWorker, SignalExit
  <2>1. UNCHANGED <<busyNum, liveNum, shutdown>>
    BY <1>5 DEF SignalTask, WakeWorker, SignalExit, counterVars
  <2>2. CASE pc' = pc
    BY <1>3, <2>1, <2>2
  <2>3. CASE \E j \in Slots : pc[j] = "blocked" /\ Goto(j, "relock")
    BY <1>2, <2>1, <2>3
  <2> QED
    BY <2>0, <2>2, <2>3, Signalled
<1>6. CASE Grow
  <2>1. /\ SlotsToFill \in SUBSET Slots /\ \A i \in SlotsToFill : pc[i] = "none"
        /\ Cardinality(SlotsToFill) \in Nat
    BY FillFits
  <2>2. /\ pc' = [i \in Slots |-> IF i \in SlotsToFill THEN "lock" ELSE pc[i]]
        /\ liveNum' = liveNum + Cardinality(SlotsToFill)
        /\ busyNum' = busyNum /\ shutdown' = shutdown /\ mgrPc = "grow"
    BY <1>6 DEF Grow
  <2>3. shutdown
    BY <2>2 DEF Manager
  <2>4. Slots' = Slots
    BY DEF Slots
  <2>5. Running' = Running
    BY <2>1, <2>2, <2>4 DEF Running
  <2>6. Working' = Working \cup SlotsToFill
    BY <2>1, <2>2, <2>4 DEF Working, Gone
  <2>7. Cardinality(Working \cup SlotsToFill) = Cardinality(Working) + Cardinality(SlotsToFill)
    <3>1. Working \cap SlotsToFill = {}
      BY <2>1 DEF Working, Gone
    <3>2. IsFiniteSet(Working) /\ IsFiniteSet(SlotsToFill)
      BY <1>0, <2>1, SlotSets
    <3>3. Cardinality(Working \cup SlotsToFill)
            = Cardinality(Working) + Cardinality(SlotsToFill) - Cardinality(Working \cap SlotsToFill)
      BY <3>2, FS_Union
    <3> QED
      BY <1>0, <2>1, <3>1, <3>3, FS_EmptySet
  <2> HIDE DEF SlotsToFill
  <2> QED
    BY <1>0, <2>1, <2>2, <2>3, <2>5, <2>6, <2>7, Constants DEF Counters
<1>7. CASE AddTask \/ Destroy \/ JoinManager \/ FreePool \/ DestroyCondition
  BY <1>3, <1>7 DEF AddTask, Destroy, JoinManager, FreePool, DestroyCondition, counterVars
<1>8. CASE \E i \in Slots : UseFreed(i)
  BY <1>3, <1>8 DEF UseFreed, counterVars
<1>9. CASE \/ ManagerTest \/ NoGrowth \/ ReadFirst \/ TestHalfIdle \/ TestAboveMin
           \/ Sample \/ OrderExits
  BY <1>3, <1>9 DEF ManagerTest, NoGrowth, ReadFirst, TestHalfIdle, TestAboveMin, Sample,
                    OrderExits,
                    counterVars
<1>10. CASE UNCHANGED vars
  BY <1>3, <1>10 DEF vars, counterVars
<1> QED
  BY <1>4, <1>5, <1>6, <1>7, <1>8, <1>9, <1>10, StepCases
-----------------------------------------------------------------------------
(* The types. *)

MgrPlaces == {"while", "sample", "grow", "half idle", "busy read", "live read",
              "above min", "order", "signal", "exited"}

Samples == [queue : 0..MaxTasks, live : 0..MaxNum, first : 0..MaxNum]

\* TypeOK without its arithmetic, and the arithmetic.
Kinds ==
  /\ shutdown \in BOOLEAN /\ missed \in BOOLEAN /\ crashed \in BOOLEAN
  /\ mutexPool \in Slots \cup {Free}
  /\ mgrPc \in MgrPlaces
  /\ sample \in Samples
  /\ mainPc \in {"idle", "signal", "join", "wake", "condition", "freed"}

Ranges ==
  /\ taskQ \in 0..MaxTasks /\ added \in 0..MaxTasks
  /\ busyNum \in 0..MaxNum /\ liveNum \in 0..MaxNum /\ exitNum \in 0..NUMBER
  /\ orders \in 0..NUMBER /\ sent \in 0..MaxNum

LEMMA TypeParts == TypeOK <=> Kinds /\ Ranges /\ pc \in [Slots -> Places]
BY DEF TypeOK, Kinds, Ranges, Places, MgrPlaces, Samples

LEMMA KindsKept ==
  ASSUME TypeOK, [Next]_vars
  PROVE  Kinds'
<1>0. Kinds /\ Slots' = Slots
  BY TypeParts DEF Slots
<1>1. ASSUME NEW i \in Slots, WorkerAdvances(i) \/ SpuriousWake(i), Elsewhere
      PROVE  Kinds'
  <2>1. mutexPool' \in {mutexPool, i, Free} /\ shutdown' = shutdown
    BY <1>1, WorkerMoves
  <2> QED
    BY <1>0, <1>1, <2>1 DEF Kinds, Elsewhere, mgrVars, mainVars, historyVars, Samples
<1>2. CASE \/ AddTask \/ SignalTask \/ Destroy \/ JoinManager
           \/ WakeWorker \/ FreePool \/ DestroyCondition
  BY <1>0, <1>2 DEF AddTask, SignalTask, Destroy, JoinManager, WakeWorker, FreePool,
                    DestroyCondition, Kinds, Samples, mgrVars, mainVars, historyVars
<1>3. CASE \E i \in Slots : UseFreed(i)
  BY <1>0, <1>3 DEF UseFreed, Kinds, Samples, mgrVars, mainVars, historyVars
<1>4. CASE /\ Managing
           /\ ManagerTest \/ NoGrowth \/ TestAboveMin \/ Grow \/ OrderExits \/ SignalExit
  BY <1>0, <1>4 DEF ManagerTest, NoGrowth, TestAboveMin, Grow, OrderExits,
                    SignalExit, Kinds, MgrPlaces, Samples, Managing, mainVars, historyVars
<1>5. CASE (Sample \/ ReadFirst \/ TestHalfIdle) /\ Managing
  <2>1. taskQ \in 0..MaxTasks /\ liveNum \in 0..MaxNum /\ busyNum \in 0..MaxNum
    BY DEF TypeOK
  <2>6. 0 \in 0..MaxNum
    BY Constants
  <2>2. sample \in Samples
    BY <1>0 DEF Kinds
  <2>3. sample' \in Samples
    <3>1. CASE Sample
      BY <2>1, <2>6, <3>1 DEF Sample, Samples
    <3>2. CASE ReadFirst
      <4>1. \E n \in 0..MaxNum : sample' = [sample EXCEPT !.first = n]
        BY <2>1, <3>2 DEF ReadFirst
      <4> QED
        BY <2>2, <4>1 DEF Samples
    <3>3. CASE TestHalfIdle
      BY <2>2, <2>6, <3>3 DEF TestHalfIdle, Samples
    <3> QED
      BY <1>5, <3>1, <3>2, <3>3
  <2>4. mgrPc' \in MgrPlaces /\ UNCHANGED <<shutdown, mutexPool, missed, crashed, mainPc>>
    BY <1>5 DEF Sample, ReadFirst, TestHalfIdle, MgrPlaces, Managing, mainVars, historyVars
  <2>5. Samples' = Samples /\ MgrPlaces' = MgrPlaces
    BY DEF Samples, MgrPlaces
  <2> QED
    BY <1>0, <2>3, <2>4, <2>5 DEF Kinds
<1>6. CASE UNCHANGED vars
  BY <1>0, <1>6 DEF vars, Kinds, Samples, mgrVars, mainVars, historyVars
<1> QED
  BY <1>1, <1>2, <1>3, <1>4, <1>5, <1>6, StepCases

LEMMA RangesKept ==
  ASSUME IInv, [Next]_vars, Tasks', Counters'
  PROVE  Ranges'
<1>0. Ranges /\ MinNum \in Nat /\ MaxNum \in Nat /\ MaxTasks \in Nat
  BY TypeParts, Constants DEF IInv
<1>1. busyNum' \in 0..MaxNum
  <2>1. Running' \in SUBSET Slots /\ busyNum' = Cardinality(Running')
    BY DEF Running, Slots, Counters
  <2>2. Cardinality(Running') \in Nat /\ Cardinality(Running') <= MaxNum
    BY <2>1, SlotSets
  <2> QED
    BY <1>0, <2>1, <2>2
<1>2. ASSUME NEW i \in Slots, WorkerAdvances(i) \/ SpuriousWake(i), Elsewhere
      PROVE  Ranges'
  <2>0. UNCHANGED <<added, orders, sent>>
    BY <1>2 DEF Elsewhere, mgrVars, mainVars
  <2>1. CASE LeaveOrStay(i)
    <3>1. /\ exitNum > 0 /\ exitNum' = exitNum - 1 /\ taskQ' = taskQ
          /\ \/ liveNum > MinNum /\ liveNum' = liveNum - 1
             \/ liveNum' = liveNum
      BY <2>1 DEF LeaveOrStay
    <3> QED
      BY <1>0, <1>1, <2>0, <3>1 DEF Ranges, NUMBER
  <2>2. CASE TakeTask(i)
    <3>1. pc[i] = "stop" /\ ~shutdown /\ taskQ' = taskQ - 1 /\ UNCHANGED <<liveNum, exitNum>>
      BY <2>2 DEF TakeTask
    <3>2. taskQ > 0
      BY <3>1 DEF IInv, Tasks
    <3> QED
      BY <1>0, <1>1, <2>0, <3>1, <3>2 DEF Ranges
  <2>3. CASE UNCHANGED <<taskQ, liveNum, exitNum>>
    BY <1>0, <1>1, <2>0, <2>3 DEF Ranges
  <2> QED
    BY <1>2, <2>1, <2>2, <2>3
       DEF WorkerAdvances, Lock, TestQueue, TestFlag, Wait, SpuriousWake, Resume,
           StopWorker, FinishTask, ThreadExit, counterVars
<1>3. CASE AddTask
  <2>1. /\ added < MaxTasks /\ added' = added + 1 /\ taskQ' = taskQ + 1
        /\ UNCHANGED <<liveNum, exitNum, orders, sent>>
    BY <1>3 DEF AddTask, counterVars, mgrVars
  <2>2. taskQ' <= added'
    BY DEF Tasks
  <2> QED
    BY <1>0, <1>1, <2>1, <2>2 DEF Ranges
<1>4. CASE WakeWorker
  <2>1. /\ sent < liveNum /\ sent' = sent + 1
        /\ UNCHANGED <<taskQ, added, liveNum, exitNum, orders>>
    BY <1>4 DEF WakeWorker, MoreToWake, counterVars, mgrVars
  <2> QED
    BY <1>0, <1>1, <2>1 DEF Ranges
<1>5. CASE Grow /\ Managing
  <2>1. /\ liveNum' = liveNum + Cardinality(SlotsToFill)
        /\ UNCHANGED <<taskQ, added, exitNum, orders, sent>>
    BY <1>5 DEF Grow, Managing, mainVars
  <2>2. Cardinality(SlotsToFill) \in Nat /\ liveNum + Cardinality(SlotsToFill) <= MaxNum
    BY FillFits DEF IInv
  <2> QED
    BY <1>0, <1>1, <2>1, <2>2 DEF Ranges
<1>6. CASE OrderExits /\ Managing
  <2>1. exitNum' = 2 /\ orders' = 2 /\ UNCHANGED <<taskQ, added, liveNum, sent>>
    BY <1>6 DEF OrderExits, Managing, mainVars, NUMBER
  <2> QED
    BY <1>0, <1>1, <2>1 DEF Ranges, NUMBER
<1>7. CASE SignalExit /\ Managing
  <2>1. mgrPc = "signal" /\ orders' = orders - 1 /\ UNCHANGED <<taskQ, added, exitNum, liveNum, sent>>
    BY <1>7 DEF SignalExit, Managing, mainVars, counterVars
  <2>2. orders >= 1
    BY <2>1 DEF IInv, Manager
  <2> QED
    BY <1>0, <1>1, <2>1, <2>2 DEF Ranges, NUMBER
<1>8. CASE UNCHANGED <<taskQ, added, liveNum, exitNum, orders, sent>>
  BY <1>0, <1>1, <1>8 DEF Ranges
<1>9. CASE \/ SignalTask \/ Destroy \/ JoinManager \/ FreePool \/ DestroyCondition
           \/ \E i \in Slots : UseFreed(i)
           \/ /\ Managing
              /\ ManagerTest \/ NoGrowth \/ ReadFirst \/ TestHalfIdle \/ TestAboveMin \/ Sample
           \/ UNCHANGED vars
  BY <1>8, <1>9 DEF SignalTask, Destroy, JoinManager, FreePool, DestroyCondition, UseFreed,
                    ManagerTest, NoGrowth, ReadFirst, TestHalfIdle, TestAboveMin, Sample,
                    Managing, vars, counterVars, mgrVars,
                    mainVars
<1> QED
  BY <1>2, <1>3, <1>4, <1>5, <1>6, <1>7, <1>9, StepCases

-----------------------------------------------------------------------------
(* The invariant. *)

LEMMA InitIInv == Init => IInv
<1> SUFFICES ASSUME Init PROVE IInv
  OBVIOUS
<1>0. /\ MinNum \in Nat /\ MinNum >= 1 /\ MaxNum \in Nat /\ MinNum <= MaxNum /\ MaxTasks \in Nat
      /\ Slots = 1..MaxNum /\ Free = 0
  BY Constants DEF Slots, Free
<1>1. pc = [i \in Slots |-> IF i <= MinNum THEN "lock" ELSE "none"]
  BY DEF Init
<1>2. TypeOK
  <2>1. Kinds
    <3>1. sample = [queue |-> 0, live |-> 0, first |-> 0] /\ 0 \in 0..MaxTasks /\ 0 \in 0..MaxNum
      BY <1>0 DEF Init
    <3>2. sample \in Samples
      BY <3>1 DEF Samples
    <3> QED
      BY <3>2 DEF Init, Kinds, MgrPlaces
  <2>2. Ranges
    BY <1>0 DEF Init, Ranges, NUMBER
  <2>3. pc \in [Slots -> Places]
    BY <1>1 DEF Places
  <2> QED
    BY <2>1, <2>2, <2>3, TypeParts
<1>3. Mutex
  BY <1>0, <1>1 DEF Mutex, Init
<1>4. Tasks /\ Manager /\ Main
  BY <1>1 DEF Tasks, Manager, Main, Init
<1>5. Counters
  <2>1. Running = {} /\ Working = 1..MinNum
    BY <1>0, <1>1 DEF Running, Working, Gone
  <2>2. Cardinality(1..MinNum) = MinNum
    <3>1. Cardinality(1..MinNum) = IF 1 > MinNum THEN 0 ELSE MinNum - 1 + 1
      BY <1>0, FS_Interval
    <3> QED
      BY <1>0, <3>1
  <2>3. Cardinality({}) = 0
    BY FS_EmptySet
  <2> QED
    BY <1>0, <2>1, <2>2, <2>3 DEF Counters, Init
<1> QED
  BY <1>2, <1>3, <1>4, <1>5 DEF IInv

LEMMA StepIInv == IInv /\ [Next]_vars => IInv'
<1> SUFFICES ASSUME IInv, [Next]_vars PROVE IInv'
  OBVIOUS
<1>0. TypeOK /\ Mutex /\ Tasks /\ Manager /\ Main /\ Counters
  BY DEF IInv
<1>1. Mutex' /\ pc' \in [Slots -> Places]
  BY <1>0, MutexKept
<1>2. Tasks' /\ Manager' /\ Main' /\ Counters'
  BY <1>0, TasksKept, ManagerKept, MainKept, CountersKept
<1>3. Kinds' /\ Ranges'
  BY <1>0, <1>2, KindsKept, RangesKept
<1>4. TypeOK'
  <2>1. Slots' = Slots
    BY DEF Slots
  <2> QED
    BY <1>1, <1>3, <2>1 DEF TypeOK, Kinds, Ranges, Places, MgrPlaces, Samples
<1> QED
  BY <1>1, <1>2, <1>4 DEF IInv

LEMMA AlwaysIInv == Spec => []IInv
BY InitIInv, StepIInv, PTL DEF Spec

\* The counters have their types: taskQ never falls below 0, so a worker that left the
\* wait loop of an open pool found a task (TypeOK).
THEOREM PoolTypeCorrect == Spec => []TypeOK
<1>1. IInv => TypeOK
  BY DEF IInv
<1> QED
  BY <1>1, AlwaysIInv, PTL

\* busyNum is the number of workers that run a task, and liveNum is never below the
\* threads there are nor below minNum, whatever the manager decides on counters it read
\* before (CountersExact).
THEOREM CountersAlwaysExact == Spec => []CountersExact
<1>1. IInv => CountersExact
  BY DEF IInv, Counters, CountersExact, Running, Working
<1> QED
  BY <1>1, AlwaysIInv, PTL

\* No worker is started or leaves while the pool is open, since the manager's loop does
\* not run then (SizeFixedWhileOpen).
THEOREM OpenPoolNeverAdapts == Spec => []SizeFixedWhileOpen
<1>1. IInv => SizeFixedWhileOpen
  BY DEF IInv, Counters, Manager, SizeFixedWhileOpen, Working
<1> QED
  BY <1>1, AlwaysIInv, PTL
-----------------------------------------------------------------------------
(* Who sleeps. *)

\* A worker that will look at the queue, or run a task, before it sleeps again.
Up == {"lock", "queue", "relock", "stop", "run"}

\* While tasks are queued somebody is up, unless the signal of the last was missed.
Awake ==
  ~shutdown /\ mainPc = "idle" /\ taskQ > 0 /\ ~missed => \E i \in Slots : pc[i] \in Up

\* The destructor has a signal left for each worker that is asleep or goes to sleep,
\* or there is one such worker at most.
Asleep ==
  /\ mainPc \in {"wake", "condition", "freed"} =>
       \/ Cardinality(Sleepers) <= 1
       \/ Cardinality(Sleepers) + sent <= liveNum
  /\ Freed => Cardinality(Sleepers) <= 1

LEMMA AwakeKept ==
  ASSUME IInv, Awake, [Next]_vars
  PROVE  Awake'
<1> SUFFICES ASSUME ~shutdown', mainPc' = "idle", taskQ' > 0, ~missed'
             PROVE  \E i \in Slots : pc'[i] \in Up
  BY DEF Awake, Slots
<1>0. TypeOK /\ Manager /\ Main /\ Counters
  BY DEF IInv
<1>1. ASSUME ~shutdown, mainPc = "idle", taskQ > 0, ~missed, pc' = pc
      PROVE  \E i \in Slots : pc'[i] \in Up
  BY <1>1 DEF Awake
<1>2. ASSUME NEW i \in Slots, NEW q, Goto(i, q), q \in Up
      PROVE  \E j \in Slots : pc'[j] \in Up
  BY <1>0, <1>2, Moved
<1>3. ASSUME NEW i \in Slots, NEW q, Goto(i, q), pc[i] \notin Up,
             ~shutdown, mainPc = "idle", taskQ > 0, ~missed
      PROVE  \E j \in Slots : pc'[j] \in Up
  <2>1. PICK j \in Slots : pc[j] \in Up
    BY <1>3 DEF Awake
  <2> QED
    BY <1>0, <1>3, <2>1, Moved
<1>4. ASSUME NEW i \in Slots, WorkerAdvances(i) \/ SpuriousWake(i), Elsewhere
      PROVE  \E j \in Slots : pc'[j] \in Up
  <2>1. ~shutdown /\ mainPc = "idle" /\ ~missed
    BY <1>0, <1>4, WorkerMoves DEF Elsewhere, mainVars, historyVars
  <2>2. CASE TestQueue(i)
    <3>1. taskQ # 0
      BY <2>2 DEF TestQueue
    <3> QED
      BY <1>2, <2>2, <3>1 DEF TestQueue, Up
  <2>3. CASE TestFlag(i)
    <3>1. pc[i] = "flag" /\ taskQ' = taskQ
      BY <2>3 DEF TestFlag
    <3>2. Goto(i, "wait")
      BY <2>1, <2>3 DEF TestFlag
    <3> QED
      BY <1>3, <2>1, <3>1, <3>2 DEF Up
  <2>4. CASE Wait(i)
    <3>1. pc[i] = "wait" /\ taskQ' = taskQ /\ Goto(i, "blocked")
      BY <2>4 DEF Wait
    <3> QED
      BY <1>3, <2>1, <3>1 DEF Up
  <2>5. CASE ThreadExit(i)
    <3>1. pc[i] = "exit" /\ taskQ' = taskQ /\ Goto(i, "none")
      BY <2>5 DEF ThreadExit
    <3> QED
      BY <1>3, <2>1, <3>1 DEF Up
  <2>6. CASE Lock(i) \/ Resume(i) \/ TakeTask(i) \/ FinishTask(i) \/ SpuriousWake(i)
    <3>1. \E q \in Up : Goto(i, q)
      BY <2>6 DEF Lock, Resume, TakeTask, FinishTask, SpuriousWake, Wake, Goto, Up
    <3> QED
      BY <1>2, <3>1
  <2>7. ~LeaveOrStay(i)
    <3>1. exitNum = 0
      BY <1>0, <2>1 DEF Manager
    <3> QED
      BY <3>1 DEF LeaveOrStay
  <2>8. ~StopWorker(i)
    BY <2>1 DEF StopWorker
  <2> QED
    BY <1>4, <2>2, <2>3, <2>4, <2>5, <2>6, <2>7, <2>8 DEF WorkerAdvances
<1>5. CASE SignalTask
  <2>1. /\ mainPc = "signal" /\ Signal
        /\ ~(Blocked = {} /\ \E i \in Slots : pc[i] \in {"flag", "wait"})
    BY <1>5 DEF SignalTask
  <2>2. CASE Blocked = {} /\ pc' = pc
    <3>1. Cardinality(Working) = MinNum
      BY <1>0, <2>1 DEF Main, Counters
    <3>2. PICK i \in Working : TRUE
      <4>1. Working # {}
        BY <3>1, Constants, FS_EmptySet
      <4> QED
        BY <4>1
    <3>3. i \in Slots /\ pc[i] \notin {"none", "exit", "flag", "wait", "blocked"}
      BY <2>1, <2>2, <3>2 DEF Working, Gone, Blocked
    <3>4. pc[i] \in Up
      BY <1>0, <3>3 DEF TypeOK, Up
    <3> QED
      BY <2>2, <3>3, <3>4
  <2>3. CASE \E j \in Slots : Goto(j, "relock")
    BY <1>2, <2>3 DEF Up
  <2> QED
    BY <1>0, <2>1, <2>2, <2>3, Signalled
<1>6. CASE AddTask \/ Destroy \/ JoinManager \/ WakeWorker \/ FreePool \/ DestroyCondition
  BY <1>0, <1>6 DEF AddTask, Destroy, JoinManager, WakeWorker, FreePool, DestroyCondition, Main
<1>7. CASE \E i \in Slots : UseFreed(i)
  BY <1>0, <1>7 DEF UseFreed, Freed, Main, mainVars
<1>8. CASE ManagerTest /\ Managing
  BY <1>1, <1>8 DEF ManagerTest, Managing, mainVars, historyVars
<1>9. CASE \/ Sample \/ Grow \/ NoGrowth \/ ReadFirst \/ TestHalfIdle \/ TestAboveMin
           \/ OrderExits \/ SignalExit
  <2>1. mgrPc \notin {"while", "exited"} /\ shutdown' = shutdown
    BY <1>9 DEF Sample, Grow, NoGrowth, ReadFirst, TestHalfIdle, TestAboveMin, OrderExits,
                SignalExit
  <2> QED
    BY <1>0, <2>1 DEF Manager
<1>10. CASE UNCHANGED vars
  BY <1>1, <1>10 DEF vars, mainVars, historyVars
<1> QED
  BY <1>4, <1>5, <1>6, <1>7, <1>8, <1>9, <1>10, StepCases

LEMMA AsleepKept ==
  ASSUME IInv, Asleep, [Next]_vars
  PROVE  Asleep'
<1>0. /\ TypeOK /\ Mutex /\ Manager /\ Main /\ Counters
      /\ Sleepers \in SUBSET Slots /\ Working \in SUBSET Slots
      /\ Cardinality(Sleepers) \in Nat /\ Cardinality(Working) \in Nat
      /\ liveNum \in Nat /\ sent \in Nat
  <2>1. liveNum \in 0..MaxNum /\ sent \in 0..MaxNum
    BY DEF IInv, TypeOK
  <2> QED
    BY <2>1, SlotSets, SetsOfSlots, Constants DEF IInv
<1>1. ASSUME mainPc' \notin {"wake", "condition", "freed"}
      PROVE  Asleep'
  BY <1>1 DEF Asleep, Freed
<1>2. ASSUME UNCHANGED <<mainPc, sent, liveNum>>, Sleepers' \in SUBSET Sleepers
      PROVE  Asleep'
  <2>1. Cardinality(Sleepers') <= Cardinality(Sleepers) /\ Cardinality(Sleepers') \in Nat
    BY <1>0, <1>2, SmallerSet, SlotSets
  <2> QED
    BY <1>0, <1>2, <2>1 DEF Asleep, Freed
<1>3. ASSUME NEW i \in Slots, WorkerAdvances(i) \/ SpuriousWake(i), Elsewhere
      PROVE  Asleep'
  <2>1. UNCHANGED <<mainPc, sent>>
    BY <1>3 DEF Elsewhere, mainVars
  <2> SUFFICES ASSUME mainPc \in {"wake", "condition", "freed"}
               PROVE  Asleep'
    BY <1>1, <2>1
  <2>2. shutdown /\ exitNum = 0
    BY <1>0 DEF Main, Manager
  <2>3. ~LeaveOrStay(i)
    BY <2>2 DEF LeaveOrStay
  <2>4. liveNum' = liveNum
    BY <1>3, <2>3
       DEF WorkerAdvances, Lock, TestQueue, TestFlag, Wait, SpuriousWake, Resume,
           StopWorker, TakeTask, FinishTask, ThreadExit, counterVars
  <2>5. CASE Wait(i)
    <3>1. pc[i] = "wait" /\ Goto(i, "blocked")
      BY <2>5 DEF Wait
    <3>2. i \in Sleepers
      BY <3>1 DEF Sleepers
    <3>3. Sleepers' = Sleepers
      BY <1>0, <3>1, <3>2, Moved
    <3> QED
      BY <1>2, <2>1, <2>4, <3>3
  <2>6. CASE TestFlag(i)
    <3>1. Goto(i, "stop")
      BY <2>2, <2>6 DEF TestFlag
    <3>2. Sleepers' \in SUBSET Sleepers
      BY <1>0, <3>1, Moved
    <3> QED
      BY <1>2, <2>1, <2>4, <3>2
  <2>7. CASE \E q : Goto(i, q) /\ q \notin {"wait", "blocked"}
    <3>1. Sleepers' \in SUBSET Sleepers
      BY <1>0, <2>7, Moved
    <3> QED
      BY <1>2, <2>1, <2>4, <3>1
  <2>8. CASE \/ Lock(i) \/ TestQueue(i) \/ SpuriousWake(i) \/ Resume(i)
             \/ StopWorker(i) \/ TakeTask(i) \/ FinishTask(i) \/ ThreadExit(i)
    <3>1. \E q \in {"lock", "queue", "flag", "relock", "stop", "run", "exit", "none"} : Goto(i, q)
      BY <2>8 DEF Lock, TestQueue, SpuriousWake, Wake, Goto, Resume, StopWorker, TakeTask,
                  FinishTask, ThreadExit
    <3> QED
      BY <2>7, <3>1
  <2> QED
    BY <1>3, <2>3, <2>5, <2>6, <2>8 DEF WorkerAdvances
<1>4. CASE JoinManager
  <2>1. mainPc = "join" /\ mainPc' = "wake" /\ UNCHANGED <<pc, sent, liveNum>>
    BY <1>4 DEF JoinManager, counterVars
  <2>2. Sleepers' = Sleepers /\ sent = 0
    BY <1>0, <2>1 DEF Sleepers, Slots, Main
  <2>3. Cardinality(Sleepers) <= Cardinality(Working) /\ Cardinality(Working) <= liveNum
    <3>1. Sleepers \in SUBSET Working
      BY DEF Sleepers, Working, Gone
    <3> QED
      BY <1>0, <3>1, SmallerSet DEF Counters
  <2> QED
    BY <1>0, <2>1, <2>2, <2>3 DEF Asleep, Freed
<1>5. CASE WakeWorker
  <2>1. /\ mainPc = "wake" /\ mainPc' = "wake" /\ sent' = sent + 1 /\ liveNum' = liveNum
        /\ Signal
    BY <1>5 DEF WakeWorker, counterVars
  <2>2. CASE Blocked = {} /\ pc' = pc
    <3>1. Sleepers \in SUBSET {mutexPool} /\ Sleepers' = Sleepers
      BY <1>0, <2>2 DEF Sleepers, Slots, Blocked, Mutex
    <3>2. Cardinality(Sleepers) <= 1
      <4>1. IsFiniteSet({mutexPool}) /\ Cardinality({mutexPool}) = 1
        BY FS_Singleton
      <4> QED
        BY <3>1, <4>1, FS_Subset
    <3> QED
      BY <2>1, <3>1, <3>2 DEF Asleep, Freed
  <2>3. CASE \E j \in Slots : pc[j] = "blocked" /\ Goto(j, "relock")
    <3>1. PICK j \in Slots : pc[j] = "blocked" /\ Goto(j, "relock")
      BY <2>3
    <3>2. j \in Sleepers
      BY <3>1 DEF Sleepers
    <3>3. Sleepers' = Sleepers \ {j}
      BY <1>0, <3>1, Moved
    <3>4. Cardinality(Sleepers') = Cardinality(Sleepers) - 1
      BY <1>0, <3>2, <3>3, SlotSets
    <3> QED
      BY <1>0, <2>1, <3>4 DEF Asleep, Freed
  <2> QED
    BY <1>0, <2>1, <2>2, <2>3, Signalled
<1>6. CASE FreePool
  <2>1. mainPc = "wake" /\ ~(sent < liveNum) /\ UNCHANGED <<pc, sent, liveNum>>
    BY <1>6 DEF FreePool, MoreToWake, counterVars
  <2>2. Sleepers' = Sleepers
    BY <2>1 DEF Sleepers, Slots
  <2>3. Cardinality(Sleepers) <= 1
    BY <1>0, <2>1 DEF Asleep
  <2> QED
    BY <2>2, <2>3 DEF Asleep
<1>7. CASE AddTask \/ SignalTask \/ Destroy
  BY <1>1, <1>7 DEF AddTask, SignalTask, Destroy
<1>8. CASE UNCHANGED <<pc, mainPc, sent, liveNum>>
  BY <1>2, <1>8 DEF Sleepers, Slots
<1>9. CASE (\E i \in Slots : UseFreed(i)) \/ UNCHANGED vars
  BY <1>8, <1>9 DEF UseFreed, vars, counterVars, mainVars
<1>10. CASE /\ Managing
            /\ ManagerTest \/ Sample \/ Grow \/ NoGrowth \/ ReadFirst \/ TestHalfIdle
                 \/ TestAboveMin \/ OrderExits \/ SignalExit
  <2>1. mgrPc # "exited" /\ mainPc' = mainPc
    BY <1>10 DEF ManagerTest, Sample, Grow, NoGrowth, ReadFirst, TestHalfIdle, TestAboveMin,
                 OrderExits, SignalExit, Managing, mainVars
  <2> QED
    BY <1>0, <1>1, <2>1 DEF Main
<1>11. CASE DestroyCondition
  <2>1. Freed /\ Sleepers' = Sleepers
    BY <1>11 DEF DestroyCondition, Freed, Sleepers, Slots
  <2> QED
    BY <2>1 DEF Asleep
<1> QED
  BY <1>3, <1>4, <1>5, <1>6, <1>7, <1>9, <1>10, <1>11, StepCases

\* A task waits with every worker asleep only if its signal fell between a worker's test
\* of the queue and its wait, and the destructor leaves at most one worker asleep: the
\* one that held the mutex then (NobodyOversleeps).
THEOREM SleepersAreWoken == Spec => []NobodyOversleeps
<1>1. Init => Awake /\ Asleep
  BY DEF Init, Awake, Asleep, Freed
<1>2. IInv /\ Awake /\ Asleep /\ [Next]_vars => (Awake /\ Asleep)'
  BY AwakeKept, AsleepKept
<1>3. IInv /\ Awake /\ Asleep => NobodyOversleeps
  <2> SUFFICES ASSUME IInv, Awake, Asleep PROVE NobodyOversleeps
    OBVIOUS
  <2>1. TaskWaits => missed
    BY DEF TaskWaits, Awake, Up
  <2>2. Cardinality(Blocked) <= Cardinality(Sleepers)
    <3>1. Blocked \in SUBSET Sleepers
      BY DEF Blocked, Sleepers
    <3> QED
      BY <3>1, SmallerSet, SetsOfSlots
  <2>3. Cardinality(Blocked) \in Nat /\ Cardinality(Sleepers) \in Nat
    BY SlotSets, SetsOfSlots DEF Blocked
  <2> QED
    BY <2>1, <2>2, <2>3 DEF NobodyOversleeps, Asleep
<1> QED
  BY <1>1, <1>2, <1>3, AlwaysIInv, PTL DEF Spec

=============================================================================
