---------------------------- MODULE TaskDispatch ----------------------------
(***************************************************************************)
(* What the thread pool promises to the reactor, without its mutex and its *)
(* condition variable: tasks are submitted while the pool is open, wait in *)
(* arrival order, and each one is handed to exactly one idle worker, in    *)
(* that order.  Nothing is promised to the tasks still pending when the    *)
(* pool is closed.  ThreadPool.tla is shown to implement this module.      *)
(*                                                                         *)
(* Tasks are numbered in the order they are submitted.                     *)
(***************************************************************************)
EXTENDS Naturals, Sequences, FiniteSets

CONSTANT Workers, MaxTasks

VARIABLES open,       \* TRUE until the pool is told to stop
          submitted,  \* number of tasks submitted so far
          pending,    \* the tasks not handed to a worker yet, oldest first
          held,       \* the task each worker is executing, 0 if none
          finished    \* the tasks whose execution is over

dispatchVars == <<open, submitted, pending, held, finished>>

Idle == 0

TypeOK ==
  /\ open \in BOOLEAN
  /\ submitted \in 0..MaxTasks
  /\ pending \in Seq(1..MaxTasks)
  /\ held \in [Workers -> 0..MaxTasks]
  /\ finished \subseteq 1..MaxTasks

Init ==
  /\ open = TRUE
  /\ submitted = 0
  /\ pending = <<>>
  /\ held = [w \in Workers |-> Idle]
  /\ finished = {}

Submit ==
  /\ open
  /\ submitted < MaxTasks
  /\ submitted' = submitted + 1
  /\ pending' = Append(pending, submitted + 1)
  /\ UNCHANGED <<open, held, finished>>

Dispatch(w) ==
  /\ held[w] = Idle
  /\ pending # <<>>
  /\ held' = [held EXCEPT ![w] = Head(pending)]
  /\ pending' = Tail(pending)
  /\ UNCHANGED <<open, submitted, finished>>

Complete(w) ==
  /\ held[w] # Idle
  /\ finished' = finished \cup {held[w]}
  /\ held' = [held EXCEPT ![w] = Idle]
  /\ UNCHANGED <<open, submitted, pending>>

Close ==
  /\ open
  /\ open' = FALSE
  /\ UNCHANGED <<submitted, pending, held, finished>>

Next ==
  \/ Submit
  \/ Close
  \/ \E w \in Workers : Dispatch(w) \/ Complete(w)

Spec == Init /\ [][Next]_dispatchVars

=============================================================================
