-------------------------- MODULE ThreadPoolProofs --------------------------
(***************************************************************************)
(* Proofs about ThreadPool.tla for every set of workers, every number of   *)
(* tasks and every choice of the handlers that never return.               *)
(***************************************************************************)
EXTENDS ThreadPool, TLAPS, SequenceTheorems, FiniteSetTheorems

-----------------------------------------------------------------------------
(* The contents of the list are always the consecutive tasks a+1 .. b.     *)

Consecutive(a, b) == [i \in 1..(b - a) |-> a + i]

LEMMA ConsecutiveIsSeq ==
  ASSUME NEW m \in Nat, NEW a \in 0..m, NEW b \in a..m
  PROVE  /\ Consecutive(a, b) \in Seq(1..m)
         /\ Len(Consecutive(a, b)) = b - a
         /\ \A i \in 1..(b - a) : Consecutive(a, b)[i] = a + i
<1>1. b - a \in Nat
  OBVIOUS
<1>2. Consecutive(a, b) \in [1..(b - a) -> 1..m]
  BY DEF Consecutive
<1>3. Consecutive(a, b) \in Seq(1..m)
  BY <1>1, <1>2
<1>4. DOMAIN Consecutive(a, b) = 1..(b - a)
  BY DEF Consecutive
<1>5. Len(Consecutive(a, b)) = b - a
  BY <1>1, <1>3, <1>4, LenProperties
<1> QED
  BY <1>3, <1>5 DEF Consecutive

\* What push_back of the next task makes of the list.
LEMMA ConsecutiveAppend ==
  ASSUME NEW m \in Nat, NEW a \in 0..m, NEW b \in a..m, b < m
  PROVE  /\ Append(Consecutive(a, b), b + 1) = Consecutive(a, b + 1)
         /\ Consecutive(a, b + 1) \in Seq(1..m)
         /\ Len(Consecutive(a, b + 1)) = b + 1 - a
<1> DEFINE s == Consecutive(a, b)
           t == Consecutive(a, b + 1)
<1>1. /\ s \in Seq(1..m)
      /\ Len(s) = b - a
      /\ \A i \in 1..(b - a) : s[i] = a + i
  BY ConsecutiveIsSeq
<1>2. b + 1 \in a..m /\ b + 1 \in 1..m
  OBVIOUS
<1>3. /\ t \in Seq(1..m)
      /\ Len(t) = b + 1 - a
      /\ \A i \in 1..(b + 1 - a) : t[i] = a + i
  BY <1>2, ConsecutiveIsSeq
<1> HIDE DEF s, t
<1>4. /\ Append(s, b + 1) \in Seq(1..m)
      /\ Len(Append(s, b + 1)) = Len(s) + 1
      /\ \A i \in 1..Len(s) : Append(s, b + 1)[i] = s[i]
      /\ Append(s, b + 1)[Len(s) + 1] = b + 1
  BY <1>1, <1>2, AppendProperties
<1>5. ASSUME NEW i \in 1..Len(t)
      PROVE  Append(s, b + 1)[i] = t[i]
  <2>1. CASE i \in 1..(b - a)
    BY <2>1, <1>1, <1>3, <1>4
  <2>2. CASE i = b - a + 1
    BY <2>2, <1>1, <1>3, <1>4
  <2>3. i \in 1..(b - a) \/ i = b - a + 1
    <3>1. Len(t) = b + 1 - a
      BY <1>3
    <3> QED
      BY <3>1
  <2> QED
    BY <2>1, <2>2, <2>3
<1>6. Len(Append(s, b + 1)) = Len(t)
  BY <1>1, <1>3, <1>4
<1>7. Append(s, b + 1) = t
  BY ONLY <1>3, <1>4, <1>5, <1>6, SeqEqual
<1> QED
  BY <1>3, <1>7 DEF s, t

\* What front and pop_front make of it.
LEMMA ConsecutiveHeadTail ==
  ASSUME NEW m \in Nat, NEW a \in 0..m, NEW b \in a..m,
         Consecutive(a, b) # <<>>
  PROVE  /\ a < b
         /\ Head(Consecutive(a, b)) = a + 1
         /\ Tail(Consecutive(a, b)) = Consecutive(a + 1, b)
<1> DEFINE s == Consecutive(a, b)
           t == Consecutive(a + 1, b)
<1>1. /\ s \in Seq(1..m)
      /\ Len(s) = b - a
      /\ \A i \in 1..(b - a) : s[i] = a + i
  BY ConsecutiveIsSeq
<1>2. a < b
  BY <1>1, EmptySeq
<1>3. Head(s) = a + 1
  BY <1>1, <1>2
<1>4. a + 1 \in 0..m /\ b \in (a + 1)..m
  BY <1>2
<1>5. /\ t \in Seq(1..m)
      /\ Len(t) = b - (a + 1)
      /\ \A i \in 1..(b - (a + 1)) : t[i] = a + 1 + i
  BY <1>4, ConsecutiveIsSeq
<1>6. /\ Tail(s) \in Seq(1..m)
      /\ Len(Tail(s)) = Len(s) - 1
      /\ \A i \in 1..Len(Tail(s)) : Tail(s)[i] = s[i + 1]
  BY <1>1, HeadTailProperties
<1> HIDE DEF s, t
<1>7. ASSUME NEW i \in 1..Len(t)
      PROVE  Tail(s)[i] = t[i]
  BY <1>1, <1>5, <1>6
<1>8. Len(Tail(s)) = Len(t)
  BY <1>1, <1>5, <1>6
<1>9. Tail(s) = t
  BY ONLY <1>5, <1>6, <1>7, <1>8, SeqEqual
<1> QED
  BY <1>2, <1>3, <1>9 DEF s, t

-----------------------------------------------------------------------------
(* The inductive invariant.                                                *)

HoldsMutex == {"check", "wait", "test", "take"}

\* The mutex is held by the worker whose program counter says so.
MutexInv ==
  \A w \in Workers : pc[w] \in HoldsMutex <=> mutex = w

\* The flag is set until the destructor's first step.
StopInv ==
  /\ running <=> mainPc \in {"idle", "push", "signal"}
  /\ mainPc = "push" => submitted < MaxTasks

\* What a worker read of the list is still true while it holds the mutex: the
\* two tests of the wait loop may straddle the destructor's write, so the list
\* may be empty at the last test, but only once the flag is clear.
ReadInv ==
  /\ \A w \in Workers : pc[w] = "wait" => workList = <<>>
  /\ \A w \in Workers : pc[w] = "test" => workList # <<>> \/ ~running

ListInv ==
  /\ taken <= submitted
  /\ FIFO

TaskInv == \A w \in Workers : pc[w] = "run" <=> task[w] # NoTask

\* A worker at "take" after the stop has not used up the one late task.
LateInv ==
  ~running => \/ taken = takenAtStop
              \/ /\ taken = takenAtStop + 1
                 /\ \A w \in Workers : pc[w] # "take"

IInv ==
  /\ TypeOK
  /\ MutexInv
  /\ StopInv
  /\ ReadInv
  /\ TakeFindsTask
  /\ ListInv
  /\ TaskInv
  /\ LateInv
  /\ SleeperMissedNoTask

USE ThreadPoolAssumption

LEMMA InitIInv == Init => IInv
<1> SUFFICES ASSUME Init PROVE IInv
  OBVIOUS
<1>1. TypeOK
  BY EmptySeq DEF Init, TypeOK, WorkerPcs, MainPcs, NoTask
<1>2. MutexInv /\ StopInv /\ ReadInv /\ TakeFindsTask /\ TaskInv /\ LateInv
  BY DEF Init, MutexInv, StopInv, ReadInv, TakeFindsTask, TaskInv, LateInv,
         HoldsMutex, NoTask
<1>3. ListInv
  <2>1. Consecutive(0, 0) \in Seq(1..0) /\ Len(Consecutive(0, 0)) = 0
    BY ConsecutiveIsSeq
  <2>2. Consecutive(0, 0) = <<>>
    BY <2>1, EmptySeq
  <2> QED
    BY <2>2 DEF Init, ListInv, FIFO, Consecutive
<1>4. SleeperMissedNoTask
  BY DEF Init, SleeperMissedNoTask
<1> QED
  BY <1>1, <1>2, <1>3, <1>4 DEF IInv

\* The reactor's steps.
LEMMA MainInductive ==
  ASSUME IInv, AppendCall \/ Stop \/ MainStep
  PROVE  IInv'
<1>1. CASE AppendCall
  <2> USE <1>1 DEF AppendCall, listVars, stopVars
  <2>1. TypeOK' /\ StopInv'
    BY DEF IInv, TypeOK, StopInv, MainPcs
  <2>2. MutexInv' /\ ReadInv' /\ TakeFindsTask' /\ TaskInv' /\ LateInv'
    BY DEF IInv, MutexInv, ReadInv, TakeFindsTask, TaskInv, LateInv
  <2>3. ListInv' /\ SleeperMissedNoTask'
    BY DEF IInv, ListInv, FIFO, SleeperMissedNoTask
  <2> QED
    BY <2>1, <2>2, <2>3 DEF IInv
<1>2. CASE AppendPush
  <2> USE <1>2 DEF AppendPush, stopVars
  <2>1. /\ submitted < MaxTasks
        /\ taken \in 0..MaxTasks
        /\ submitted \in taken..MaxTasks
        /\ workList = Consecutive(taken, submitted)
    BY DEF IInv, TypeOK, StopInv, ListInv, FIFO, Consecutive
  <2>2. /\ submitted + 1 \in taken..MaxTasks
        /\ workList' = Consecutive(taken, submitted + 1)
        /\ workList' \in Seq(1..MaxTasks)
        /\ Len(workList') = submitted + 1 - taken
    <3>1. submitted + 1 \in taken..MaxTasks
      BY <2>1
    <3>2. workList' = Consecutive(taken, submitted + 1)
      BY <2>1, ConsecutiveAppend
    <3> QED
      BY <2>1, <3>1, <3>2, ConsecutiveAppend
  <2>3. workList' # <<>>
    BY <2>1, <2>2, EmptySeq
  <2>4. TypeOK' /\ StopInv'
    BY <2>1, <2>2 DEF IInv, TypeOK, StopInv, MainPcs
  <2>5. MutexInv' /\ TaskInv' /\ LateInv' /\ TakeFindsTask'
    BY <2>3 DEF IInv, MutexInv, TaskInv, LateInv, TakeFindsTask
  <2>6. ReadInv'
    BY <2>3 DEF IInv, TypeOK, ReadInv, MutexInv, HoldsMutex
  <2>7. ListInv'
    BY <2>1, <2>2 DEF ListInv, FIFO, Consecutive
  <2>8. SleeperMissedNoTask'
    BY DEF SleeperMissedNoTask
  <2> QED
    BY <2>4, <2>5, <2>6, <2>7, <2>8 DEF IInv
<1>3. CASE AppendSignal
  <2> USE <1>3 DEF AppendSignal, Notify, Blocked, listVars, stopVars
  <2>1. /\ pc' \in [Workers -> WorkerPcs]
        /\ \A w \in Workers : pc'[w] # pc[w] => pc[w] = "blocked" /\ pc'[w] = "woken"
    BY DEF IInv, TypeOK, WorkerPcs
  <2> USE <2>1
  <2>2. TypeOK' /\ StopInv'
    BY DEF IInv, TypeOK, StopInv, MainPcs
  <2>3. MutexInv'
    BY DEF IInv, MutexInv, HoldsMutex
  <2>4. ReadInv' /\ TakeFindsTask' /\ LateInv'
    BY DEF IInv, ReadInv, TakeFindsTask, LateInv
  <2>5. TaskInv'
    BY DEF IInv, TaskInv
  <2>6. ListInv' /\ SleeperMissedNoTask'
    BY DEF IInv, ListInv, FIFO, SleeperMissedNoTask
  <2> QED
    BY <2>2, <2>3, <2>4, <2>5, <2>6 DEF IInv
<1>4. CASE Stop
  <2> USE <1>4 DEF Stop, listVars
  <2>1. TypeOK' /\ StopInv'
    BY DEF IInv, TypeOK, StopInv, MainPcs
  <2>2. MutexInv' /\ ReadInv' /\ TakeFindsTask' /\ TaskInv' /\ LateInv'
    BY DEF IInv, TypeOK, MutexInv, ReadInv, TakeFindsTask, TaskInv, LateInv
  <2>3. ListInv' /\ SleeperMissedNoTask'
    BY DEF IInv, ListInv, FIFO, SleeperMissedNoTask
  <2> QED
    BY <2>1, <2>2, <2>3 DEF IInv
<1>5. CASE StopBroadcast
  <2> USE <1>5 DEF StopBroadcast, NotifyAll, Blocked, listVars, stopVars
  <2>1. /\ pc' \in [Workers -> WorkerPcs]
        /\ \A w \in Workers : /\ pc'[w] # "blocked"
                              /\ pc'[w] # pc[w] => pc[w] = "blocked" /\ pc'[w] = "woken"
    BY DEF IInv, TypeOK, WorkerPcs
  <2>2. TypeOK' /\ StopInv'
    BY <2>1 DEF IInv, TypeOK, StopInv, MainPcs
  <2>3. MutexInv'
    BY <2>1 DEF IInv, MutexInv, HoldsMutex
  <2>4. ReadInv' /\ TakeFindsTask' /\ LateInv'
    BY <2>1 DEF IInv, ReadInv, TakeFindsTask, LateInv
  <2>5. TaskInv'
    BY <2>1 DEF IInv, TaskInv
  <2>6. ListInv' /\ SleeperMissedNoTask'
    BY <2>1 DEF IInv, ListInv, FIFO, SleeperMissedNoTask
  <2> QED
    BY <2>2, <2>3, <2>4, <2>5, <2>6 DEF IInv
<1>6. CASE Join
  <2> USE <1>6 DEF Join, listVars, stopVars
  <2>1. TypeOK' /\ StopInv'
    BY DEF IInv, TypeOK, StopInv, MainPcs
  <2>2. MutexInv' /\ ReadInv' /\ TakeFindsTask' /\ TaskInv' /\ LateInv'
    BY DEF IInv, MutexInv, ReadInv, TakeFindsTask, TaskInv, LateInv
  <2>3. ListInv' /\ SleeperMissedNoTask'
    BY DEF IInv, ListInv, FIFO, SleeperMissedNoTask
  <2> QED
    BY <2>1, <2>2, <2>3 DEF IInv
<1> QED
  BY <1>1, <1>2, <1>3, <1>4, <1>5, <1>6 DEF MainStep

\* The workers' steps.
LEMMA WorkerInductive ==
  ASSUME IInv, NEW w \in Workers, WorkerStep(w) \/ SpuriousWake(w)
  PROVE  IInv'
<1>1. CASE LoopTest(w)
  <2> USE <1>1 DEF LoopTest, listVars, stopVars
  <2>1. TypeOK' /\ StopInv' /\ MutexInv'
    BY DEF IInv, TypeOK, StopInv, MutexInv, HoldsMutex, WorkerPcs
  <2>2. ReadInv' /\ TakeFindsTask'
    BY DEF IInv, TypeOK, ReadInv, TakeFindsTask
  <2>3. TaskInv' /\ LateInv'
    BY DEF IInv, TypeOK, TaskInv, LateInv
  <2>4. ListInv' /\ SleeperMissedNoTask'
    BY DEF IInv, TypeOK, ReadInv, ListInv, FIFO, SleeperMissedNoTask, Blocked
  <2> QED
    BY <2>1, <2>2, <2>3, <2>4 DEF IInv
<1>2. CASE Lock(w)
  <2> USE <1>2 DEF Lock, listVars, stopVars
  <2>1. TypeOK' /\ StopInv' /\ MutexInv'
    BY DEF IInv, TypeOK, StopInv, MutexInv, HoldsMutex, WorkerPcs
  <2>2. ReadInv' /\ TakeFindsTask'
    BY DEF IInv, TypeOK, ReadInv, TakeFindsTask
  <2>3. TaskInv' /\ LateInv'
    BY DEF IInv, TypeOK, TaskInv, LateInv
  <2>4. ListInv' /\ SleeperMissedNoTask'
    BY DEF IInv, TypeOK, ReadInv, ListInv, FIFO, SleeperMissedNoTask, Blocked
  <2> QED
    BY <2>1, <2>2, <2>3, <2>4 DEF IInv
<1>3. CASE Check(w)
  <2> USE <1>3 DEF Check, listVars, stopVars
  <2>1. TypeOK' /\ StopInv' /\ MutexInv'
    BY DEF IInv, TypeOK, StopInv, MutexInv, HoldsMutex, WorkerPcs
  <2>2. ReadInv' /\ TakeFindsTask'
    BY DEF IInv, TypeOK, ReadInv, TakeFindsTask
  <2>3. TaskInv' /\ LateInv'
    BY DEF IInv, TypeOK, TaskInv, LateInv
  <2>4. ListInv' /\ SleeperMissedNoTask'
    BY DEF IInv, TypeOK, ReadInv, ListInv, FIFO, SleeperMissedNoTask, Blocked
  <2> QED
    BY <2>1, <2>2, <2>3, <2>4 DEF IInv
<1>4. CASE Wait(w)
  <2> USE <1>4 DEF Wait, listVars, stopVars
  <2>1. TypeOK' /\ StopInv' /\ MutexInv'
    BY DEF IInv, TypeOK, StopInv, MutexInv, HoldsMutex, WorkerPcs
  <2>2. ReadInv' /\ TakeFindsTask'
    BY DEF IInv, TypeOK, ReadInv, TakeFindsTask
  <2>3. TaskInv' /\ LateInv'
    BY DEF IInv, TypeOK, TaskInv, LateInv
  <2>4. ListInv' /\ SleeperMissedNoTask'
    BY DEF IInv, TypeOK, ReadInv, ListInv, FIFO, SleeperMissedNoTask, Blocked
  <2> QED
    BY <2>1, <2>2, <2>3, <2>4 DEF IInv
<1>5. CASE Relock(w)
  <2> USE <1>5 DEF Relock, listVars, stopVars
  <2>1. TypeOK' /\ StopInv' /\ MutexInv'
    BY DEF IInv, TypeOK, StopInv, MutexInv, HoldsMutex, WorkerPcs
  <2>2. ReadInv' /\ TakeFindsTask'
    BY DEF IInv, TypeOK, ReadInv, TakeFindsTask
  <2>3. TaskInv' /\ LateInv'
    BY DEF IInv, TypeOK, TaskInv, LateInv
  <2>4. ListInv' /\ SleeperMissedNoTask'
    BY DEF IInv, TypeOK, ReadInv, ListInv, FIFO, SleeperMissedNoTask, Blocked
  <2> QED
    BY <2>1, <2>2, <2>3, <2>4 DEF IInv
<1>6. CASE StopTest(w)
  <2> USE <1>6 DEF StopTest, listVars, stopVars
  <2>1. TypeOK' /\ StopInv' /\ MutexInv'
    BY DEF IInv, TypeOK, StopInv, MutexInv, HoldsMutex, WorkerPcs
  <2>2. ReadInv' /\ TakeFindsTask'
    BY DEF IInv, TypeOK, ReadInv, TakeFindsTask
  <2>3. TaskInv' /\ LateInv'
    BY DEF IInv, TypeOK, TaskInv, LateInv
  <2>4. ListInv' /\ SleeperMissedNoTask'
    BY DEF IInv, TypeOK, ReadInv, ListInv, FIFO, SleeperMissedNoTask, Blocked
  <2> QED
    BY <2>1, <2>2, <2>3, <2>4 DEF IInv
<1>7. CASE SpuriousWake(w)
  <2> USE <1>7 DEF SpuriousWake, listVars, stopVars
  <2>1. TypeOK' /\ StopInv' /\ MutexInv'
    BY DEF IInv, TypeOK, StopInv, MutexInv, HoldsMutex, WorkerPcs
  <2>2. ReadInv' /\ TakeFindsTask'
    BY DEF IInv, TypeOK, ReadInv, TakeFindsTask
  <2>3. TaskInv' /\ LateInv'
    BY DEF IInv, TypeOK, TaskInv, LateInv
  <2>4. ListInv' /\ SleeperMissedNoTask'
    BY DEF IInv, TypeOK, ReadInv, ListInv, FIFO, SleeperMissedNoTask, Blocked
  <2> QED
    BY <2>1, <2>2, <2>3, <2>4 DEF IInv
<1>8. CASE Take(w)
  <2> USE <1>8 DEF Take, stopVars
  <2>1. /\ workList # <<>>
        /\ taken \in 0..MaxTasks
        /\ submitted \in taken..MaxTasks
        /\ workList = Consecutive(taken, submitted)
    <3>1. workList # <<>>
      BY DEF IInv, TakeFindsTask
    <3>2. workList = Consecutive(taken, submitted) /\ taken <= submitted
      BY DEF IInv, ListInv, FIFO, Consecutive
    <3>3. taken \in 0..MaxTasks /\ submitted \in 0..MaxTasks
      BY DEF IInv, TypeOK
    <3> QED
      BY <3>1, <3>2, <3>3
  <2>2. /\ taken < submitted
        /\ Head(workList) = taken + 1
        /\ workList' = Consecutive(taken + 1, submitted)
    BY <2>1, ConsecutiveHeadTail
  <2>3. workList' \in Seq(1..MaxTasks)
    <3>1. taken + 1 \in 0..MaxTasks /\ submitted \in (taken + 1)..MaxTasks
      BY <2>1, <2>2
    <3> QED
      BY <2>2, <3>1, ConsecutiveIsSeq
  <2>4. TypeOK' /\ StopInv'
    BY <2>1, <2>2, <2>3 DEF IInv, TypeOK, StopInv, WorkerPcs
  <2>5. MutexInv' /\ \A v \in Workers : v # w => pc[v] \notin HoldsMutex
    BY DEF IInv, TypeOK, MutexInv, HoldsMutex
  <2>6. ReadInv' /\ TakeFindsTask'
    BY <2>5 DEF IInv, TypeOK, ReadInv, TakeFindsTask, HoldsMutex
  <2>7. TaskInv'
    BY <2>1, <2>2 DEF IInv, TypeOK, TaskInv, NoTask
  <2>8. LateInv'
    BY <2>1, <2>5 DEF IInv, TypeOK, LateInv, HoldsMutex
  <2>9. ListInv'
    BY <2>1, <2>2 DEF ListInv, FIFO, Consecutive
  <2>10. SleeperMissedNoTask'
    BY <2>1 DEF IInv, TypeOK, SleeperMissedNoTask, Blocked
  <2> QED
    BY <2>4, <2>5, <2>6, <2>7, <2>8, <2>9, <2>10 DEF IInv
<1>9. CASE Run(w)
  <2> USE <1>9 DEF Run, stopVars
  <2>1. TypeOK' /\ StopInv' /\ MutexInv'
    <3>1. task[w] \in 1..MaxTasks
      BY DEF IInv, TypeOK, TaskInv, NoTask
    <3>2. finished' \subseteq 1..MaxTasks
      BY <3>1 DEF IInv, TypeOK
    <3>3. task' \in [Workers -> 0..MaxTasks] /\ pc' \in [Workers -> WorkerPcs]
      BY DEF IInv, TypeOK, WorkerPcs, NoTask
    <3>4. TypeOK'
      BY <3>2, <3>3 DEF IInv, TypeOK
    <3> QED
      BY <3>4 DEF IInv, TypeOK, StopInv, MutexInv, HoldsMutex
  <2>2. ReadInv' /\ TakeFindsTask'
    BY DEF IInv, TypeOK, ReadInv, TakeFindsTask
  <2>3. TaskInv' /\ LateInv'
    BY DEF IInv, TypeOK, TaskInv, LateInv
  <2>4. ListInv' /\ SleeperMissedNoTask'
    BY DEF IInv, TypeOK, ListInv, FIFO, SleeperMissedNoTask, Blocked
  <2> QED
    BY <2>1, <2>2, <2>3, <2>4 DEF IInv
<1> QED
  BY <1>1, <1>2, <1>3, <1>4, <1>5, <1>6, <1>7, <1>8, <1>9 DEF WorkerStep

LEMMA StutterInductive ==
  ASSUME IInv, UNCHANGED vars
  PROVE  IInv'
BY DEF IInv, vars, TypeOK, MutexInv, StopInv, ReadInv, TakeFindsTask, ListInv,
       FIFO, TaskInv, LateInv, SleeperMissedNoTask, Blocked

LEMMA Inductive == IInv /\ [Next]_vars => IInv'
BY MainInductive, WorkerInductive, StutterInductive DEF Next

LEMMA AlwaysIInv == Spec => []IInv
BY InitIInv, Inductive, PTL DEF Spec

-----------------------------------------------------------------------------
(* The theorems.                                                           *)

\* The variables keep their types: in particular the list holds only tasks
\* that were appended.
THEOREM TypeCorrect == Spec => []TypeOK
<1>1. IInv => TypeOK
  BY DEF IInv
<1> QED
  BY <1>1, AlwaysIInv, PTL

\* A worker never calls front() on an empty list, although its last test of
\* the list and its test of `running' are separate reads.
THEOREM TakeIsSafe == Spec => []TakeFindsTask
<1>1. IInv => TakeFindsTask
  BY DEF IInv
<1> QED
  BY <1>1, AlwaysIInv, PTL

\* Tasks leave the list in the order appendFd queued them.
THEOREM FirstInFirstOut == Spec => []FIFO
<1>1. IInv => FIFO
  BY DEF IInv, ListInv
<1> QED
  BY <1>1, AlwaysIInv, PTL

\* After the destructor has cleared the flag at most one task starts.
THEOREM OneLateTask == Spec => []AtMostOneLateTask
<1>1. IInv => AtMostOneLateTask
  BY DEF IInv, LateInv, AtMostOneLateTask, TypeOK
<1> QED
  BY <1>1, AlwaysIInv, PTL

\* The sleeper a destructor can be left waiting for leaves no task behind.
THEOREM SleeperIsIdle == Spec => []SleeperMissedNoTask
<1>1. IInv => SleeperMissedNoTask
  BY DEF IInv
<1> QED
  BY <1>1, AlwaysIInv, PTL

-----------------------------------------------------------------------------
(* Every popped task has exactly one place.                                *)

\* What a worker takes is the next task in the order of the appendFd calls.
LEMMA TakeEffect ==
  ASSUME IInv, NEW w \in Workers, Take(w)
  PROVE  /\ workList # <<>>
         /\ taken < submitted
         /\ Head(workList) = taken + 1
         /\ task' = [task EXCEPT ![w] = taken + 1]
         /\ task[w] = NoTask
         /\ Len(workList') = Len(workList) - 1
<1>1. /\ workList # <<>>
      /\ workList \in Seq(1..MaxTasks)
  BY DEF IInv, TakeFindsTask, Take, TypeOK
<1>2. workList = Consecutive(taken, submitted) /\ taken <= submitted
  BY DEF IInv, ListInv, FIFO, Consecutive
<1>3. taken \in 0..MaxTasks /\ submitted \in 0..MaxTasks
  BY DEF IInv, TypeOK
<1>4. taken < submitted /\ Head(workList) = taken + 1
  BY <1>1, <1>2, <1>3, ConsecutiveHeadTail
<1>5. Len(workList') = Len(workList) - 1
  BY <1>1, HeadTailProperties DEF Take
<1>6. task[w] = NoTask
  BY DEF IInv, TaskInv, Take
<1> QED
  BY <1>1, <1>4, <1>5, <1>6 DEF Take

Held == {task[w] : w \in {v \in Workers : task[v] # NoTask}}

LEMMA ExactlyOnceStep ==
  ASSUME IInv, ExactlyOnce, [Next]_vars
  PROVE  ExactlyOnce'
<1>1. CASE UNCHANGED <<task, taken, finished>>
  BY <1>1 DEF ExactlyOnce
<1>2. ASSUME NEW w \in Workers, Take(w)
      PROVE  ExactlyOnce'
  <2>1. /\ task \in [Workers -> 0..MaxTasks]
        /\ finished \subseteq 1..MaxTasks
        /\ taken \in Nat
    BY DEF IInv, TypeOK
  <2>2. /\ task' = [task EXCEPT ![w] = taken + 1]
        /\ task[w] = NoTask
        /\ taken' = taken + 1
        /\ finished' = finished
    BY <1>2, TakeEffect DEF Take
  <2>3. /\ \A v \in Workers : task[v] # NoTask => task[v] \in 1..taken
        /\ finished \subseteq 1..taken
    BY <2>1 DEF ExactlyOnce
  <2>4. \A u, v \in Workers : task'[u] # NoTask /\ task'[u] = task'[v] => u = v
    BY <2>1, <2>2, <2>3 DEF ExactlyOnce
  <2>5. Held' = Held \cup {taken + 1}
    BY <2>1, <2>2 DEF Held, NoTask
  <2>6. 1..taken' = finished' \cup Held'
    <3>1. 1..(taken + 1) = (1..taken) \cup {taken + 1}
      BY <2>1
    <3> QED
      BY <2>2, <2>5, <3>1 DEF ExactlyOnce, Held
  <2>7. \A v \in Workers : task'[v] \notin finished'
    BY <2>1, <2>2, <2>3 DEF ExactlyOnce
  <2> QED
    BY <2>4, <2>6, <2>7 DEF ExactlyOnce, Held
<1>3. ASSUME NEW w \in Workers, Run(w)
      PROVE  ExactlyOnce'
  <2>1. /\ task \in [Workers -> 0..MaxTasks]
        /\ finished \subseteq 1..MaxTasks
        /\ task[w] # NoTask
    BY <1>3 DEF IInv, TypeOK, TaskInv, Run
  <2>2. /\ task' = [task EXCEPT ![w] = NoTask]
        /\ finished' = finished \cup {task[w]}
        /\ taken' = taken
    BY <1>3 DEF Run
  <2>3. \A u, v \in Workers : task'[u] # NoTask /\ task'[u] = task'[v] => u = v
    BY <2>1, <2>2 DEF ExactlyOnce
  <2>4. Held = Held' \cup {task[w]}
    BY <2>1, <2>2 DEF Held
  <2>5. 1..taken' = finished' \cup Held'
    BY <2>2, <2>4 DEF ExactlyOnce, Held
  <2>6. \A v \in Workers : task'[v] \notin finished'
    BY <2>1, <2>2 DEF ExactlyOnce, NoTask
  <2> QED
    BY <2>3, <2>5, <2>6 DEF ExactlyOnce, Held
<1>4. \/ UNCHANGED <<task, taken, finished>>
      \/ \E w \in Workers : Take(w) \/ Run(w)
  BY DEF Next, MainStep, WorkerStep, AppendCall, AppendPush, AppendSignal, Stop,
         StopBroadcast, Join, LoopTest, Lock, Check, Wait, SpuriousWake, Relock,
         StopTest, listVars, vars
<1> QED
  BY <1>1, <1>2, <1>3, <1>4

\* A popped task is in the hands of one worker, or finished; none is executed
\* twice and none disappears.
THEOREM EveryTaskOnce == Spec => []ExactlyOnce
<1>1. Init => ExactlyOnce
  BY DEF Init, ExactlyOnce, NoTask
<1> QED
  BY <1>1, ExactlyOnceStep, AlwaysIInv, PTL DEF Spec

-----------------------------------------------------------------------------
(* The pool is work conserving.                                            *)

Due == IF mainPc = "signal" THEN 1 ELSE 0

LEMMA AwakeFinite ==
  ASSUME IInv
  PROVE  /\ IsFiniteSet(Awake)
         /\ Cardinality(Awake) \in Nat
         /\ Len(workList) \in Nat
<1>1. IsFiniteSet(Awake)
  BY FS_Subset DEF Awake
<1> QED
  BY <1>1, FS_CardinalityType, LenProperties DEF IInv, TypeOK

\* A worker that stops sleeping or working joins the awake ones ...
LEMMA AwakeGains ==
  ASSUME IInv, NEW w \in Workers, w \notin Awake, Awake' = Awake \cup {w}
  PROVE  Cardinality(Awake') = Cardinality(Awake) + 1
BY AwakeFinite, FS_AddElement

\* ... and one that falls asleep or starts a task leaves them.
LEMMA AwakeLoses ==
  ASSUME IInv, NEW w \in Workers, w \in Awake, Awake' = Awake \ {w}
  PROVE  Cardinality(Awake') = Cardinality(Awake) - 1
BY AwakeFinite, FS_RemoveElement

LEMMA WorkConservingStep ==
  ASSUME IInv, WorkConserving, [Next]_vars
  PROVE  WorkConserving'
<1> SUFFICES ASSUME running', Blocked' # {}
             PROVE  Len(workList)' <= Cardinality(Awake)' + Due'
  BY DEF WorkConserving, Due
<1>1. /\ Cardinality(Awake) \in Nat
      /\ Len(workList) \in Nat
      /\ pc \in [Workers -> WorkerPcs]
      /\ workList \in Seq(1..MaxTasks)
  BY AwakeFinite DEF IInv, TypeOK
<1>2. Blocked # {} /\ running => Len(workList) <= Cardinality(Awake) + Due
  BY DEF WorkConserving, Due
<1>3. running
  BY DEF IInv, StopInv, Next, MainStep, WorkerStep, AppendCall, AppendPush,
         AppendSignal, Stop, StopBroadcast, Join, LoopTest, Lock, Check, Wait,
         SpuriousWake, Relock, StopTest, Take, Run, stopVars, vars
<1>4. CASE UNCHANGED <<pc, mainPc, workList>>
  BY <1>2, <1>3, <1>4 DEF Blocked, Awake, Due
<1>5. CASE AppendCall
  BY <1>2, <1>3, <1>5 DEF AppendCall, listVars, Blocked, Awake, Due
<1>6. CASE AppendPush
  <2>1. Blocked' = Blocked /\ Awake' = Awake /\ Due = 0 /\ Due' = 1
    BY <1>6 DEF AppendPush, Blocked, Awake, Due
  <2>2. submitted + 1 \in 1..MaxTasks
    BY <1>6 DEF IInv, TypeOK, StopInv, AppendPush
  <2>3. Len(workList') = Len(workList) + 1
    BY <1>1, <1>6, <2>2, AppendProperties DEF AppendPush
  <2> QED
    BY <1>1, <1>2, <1>3, <2>1, <2>3
<1>7. CASE AppendSignal
  <2>1. Due = 1 /\ Due' = 0 /\ Len(workList') = Len(workList)
    BY <1>7 DEF AppendSignal, Due, listVars
  <2>2. PICK w \in Blocked : pc' = [pc EXCEPT ![w] = "woken"]
    BY <1>7 DEF AppendSignal, Notify, Blocked
  <2>3. w \in Workers /\ w \notin Awake /\ Awake' = Awake \cup {w}
    BY <1>1, <2>2 DEF Awake, Blocked
  <2>4. Cardinality(Awake') = Cardinality(Awake) + 1
    BY <2>3, AwakeGains
  <2> QED
    BY <1>1, <1>2, <1>3, <2>1, <2>2, <2>4
<1>8. CASE Stop \/ StopBroadcast \/ Join
  BY <1>3, <1>8 DEF IInv, StopInv, Stop, StopBroadcast, Join, stopVars
<1>9. ASSUME NEW w \in Workers, LoopTest(w) \/ Lock(w) \/ Check(w) \/ Relock(w) \/ StopTest(w)
      PROVE  Len(workList)' <= Cardinality(Awake)' + Due'
  <2>1. Blocked' = Blocked /\ Awake' = Awake /\ Due' = Due /\ workList' = workList
    BY <1>1, <1>3, <1>9 DEF LoopTest, Lock, Check, Relock, StopTest, Blocked, Awake,
                            Due, listVars
  <2> QED
    BY <1>2, <1>3, <2>1
<1>10. ASSUME NEW w \in Workers, Wait(w)
       PROVE  Len(workList)' <= Cardinality(Awake)' + Due'
  <2>1. Len(workList') = 0
    BY <1>10, EmptySeq DEF IInv, ReadInv, Wait, listVars
  <2>2. w \in Awake /\ Awake' = Awake \ {w}
    BY <1>1, <1>10 DEF Wait, Awake
  <2>3. Cardinality(Awake') \in Nat
    BY <2>2, AwakeFinite, FS_RemoveElement, FS_CardinalityType
  <2> QED
    BY <2>1, <2>3 DEF Due
<1>11. ASSUME NEW w \in Workers, SpuriousWake(w)
       PROVE  Len(workList)' <= Cardinality(Awake)' + Due'
  <2>1. w \in Blocked /\ w \notin Awake /\ Awake' = Awake \cup {w}
    BY <1>1, <1>11 DEF SpuriousWake, Blocked, Awake
  <2>2. Due' = Due /\ workList' = workList
    BY <1>11 DEF SpuriousWake, Due, listVars
  <2>3. Due \in Nat
    BY DEF Due
  <2>4. Cardinality(Awake') = Cardinality(Awake) + 1
    BY <2>1, AwakeGains
  <2> QED
    BY <1>1, <1>2, <1>3, <2>1, <2>2, <2>3, <2>4
<1>12. ASSUME NEW w \in Workers, Take(w)
       PROVE  Len(workList)' <= Cardinality(Awake)' + Due'
  <2>1. w \in Awake /\ Awake' = Awake \ {w} /\ Blocked' = Blocked /\ Due' = Due
    BY <1>1, <1>12 DEF Take, Blocked, Awake, Due
  <2>2. Len(workList') = Len(workList) - 1
    BY <1>12, TakeEffect
  <2>3. Due \in Nat
    BY DEF Due
  <2>4. Cardinality(Awake') = Cardinality(Awake) - 1
    BY <2>1, AwakeLoses
  <2> QED
    BY <1>1, <1>2, <1>3, <2>1, <2>2, <2>3, <2>4
<1>13. ASSUME NEW w \in Workers, Run(w)
       PROVE  Len(workList)' <= Cardinality(Awake)' + Due'
  <2>1. w \notin Awake /\ Awake' = Awake \cup {w} /\ Blocked' = Blocked
    BY <1>1, <1>13 DEF Run, Blocked, Awake
  <2>2. Due' = Due /\ workList' = workList
    BY <1>13 DEF Run, Due
  <2>3. Due \in Nat
    BY DEF Due
  <2>4. Cardinality(Awake') = Cardinality(Awake) + 1
    BY <2>1, AwakeGains
  <2> QED
    BY <1>1, <1>2, <1>3, <2>1, <2>2, <2>3, <2>4
<1> QED
  BY <1>4, <1>5, <1>6, <1>7, <1>8, <1>9, <1>10, <1>11, <1>12, <1>13
     DEF Next, MainStep, WorkerStep, vars

\* No queued task waits for a busy worker while another worker sleeps.
THEOREM PoolIsWorkConserving == Spec => []WorkConserving
<1>1. Init => WorkConserving
  BY DEF Init, WorkConserving, Blocked
<1> QED
  BY <1>1, WorkConservingStep, AlwaysIInv, PTL DEF Spec

-----------------------------------------------------------------------------
(* The pool implements TaskDispatch.                                       *)

LEMMA DispatcherInit == Init => Dispatcher!Init
BY DEF Init, Dispatcher!Init, NoTask, Dispatcher!Idle

\* Five steps are the dispatcher's: the push, the pop, the return of a handler
\* and the write of the flag; every other step is internal to the pool.
LEMMA DispatcherStep ==
  ASSUME IInv, [Next]_vars
  PROVE  [Dispatcher!Next]_(Dispatcher!dispatchVars)
<1>1. CASE AppendPush
  <2>1. running /\ submitted < MaxTasks
    BY <1>1 DEF IInv, StopInv, AppendPush
  <2>2. Dispatcher!Submit
    BY <1>1, <2>1 DEF AppendPush, stopVars, Dispatcher!Submit
  <2> QED
    BY <2>2 DEF Dispatcher!Next
<1>2. CASE Stop
  <2>1. Dispatcher!Close
    BY <1>2 DEF IInv, StopInv, Stop, listVars, Dispatcher!Close
  <2> QED
    BY <2>1 DEF Dispatcher!Next
<1>3. ASSUME NEW w \in Workers, Take(w)
      PROVE  Dispatcher!Next
  <2>1. Dispatcher!Dispatch(w)
    BY <1>3, TakeEffect DEF Take, stopVars, NoTask, Dispatcher!Dispatch, Dispatcher!Idle
  <2> QED
    BY <2>1 DEF Dispatcher!Next
<1>4. ASSUME NEW w \in Workers, Run(w)
      PROVE  Dispatcher!Next
  <2>1. Dispatcher!Complete(w)
    BY <1>4 DEF IInv, TaskInv, Run, stopVars, NoTask, Dispatcher!Complete, Dispatcher!Idle
  <2> QED
    BY <2>1 DEF Dispatcher!Next
<1>5. CASE UNCHANGED <<running, workList, submitted, task, finished>>
  BY <1>5 DEF Dispatcher!dispatchVars
<1>6. \/ AppendPush
      \/ Stop
      \/ \E w \in Workers : Take(w) \/ Run(w)
      \/ UNCHANGED <<running, workList, submitted, task, finished>>
  BY DEF Next, MainStep, WorkerStep, AppendCall, AppendSignal, StopBroadcast,
         Join, LoopTest, Lock, Check, Wait, SpuriousWake, Relock, StopTest,
         listVars, stopVars, vars
<1> QED
  BY <1>1, <1>2, <1>3, <1>4, <1>5, <1>6

\* The pool with its mutex, condition variable and stop flag dispatches tasks
\* as the abstract queue of TaskDispatch.tla does.
THEOREM PoolDispatches == Spec => ImplementsDispatcher
<1>1. IInv /\ [Next]_vars => [Dispatcher!Next]_(Dispatcher!dispatchVars)
  BY DispatcherStep
<1> QED
  BY <1>1, DispatcherInit, AlwaysIInv, PTL
     DEF Spec, ImplementsDispatcher, Dispatcher!Spec

=============================================================================
