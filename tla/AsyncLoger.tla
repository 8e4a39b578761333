------------------------------ MODULE AsyncLoger ------------------------------
(***************************************************************************)
(* The asynchronous logger: src/src/AsyncLoger.cpp and                     *)
(* src/include/AsyncLoger.h.                                               *)
(*                                                                         *)
(* Threads append log lines to the current buffer; a full buffer is queued *)
(* and replaced by an empty one.  A background thread collects the queued  *)
(* buffers and the current one, writes them to the file without holding    *)
(* the mutex, and gives them back.                                         *)
(*                                                                         *)
(* All of logInfo runs with AsyncLoger::mutex held and is one action; lines*)
(* are numbered in the order in which their callers get the mutex.  The    *)
(* background thread waits with a time limit (3 s), so it may wake at any  *)
(* moment and notifyAll needs no model.  Lengths are counted in lines: the *)
(* room a line needs is one unit.                                          *)
(*                                                                         *)
(* Buffer's constructor ignores its argument and sets neither bufferSize   *)
(* nor end (lines 10-13): Sizes and FreshEnds are the values these members *)
(* may turn out to have, a size of 0 and an end beyond the size included.  *)
(* The header's intention is one size of 1 MB and end = 0.                 *)
(***************************************************************************)
EXTENDS Integers, SequencesExt

CONSTANTS NumBuffers,  \* 4 in AsyncLoger.cpp:58
          Sizes,       \* what Buffer::bufferSize of the buffers may be
          FreshEnds,   \* what Buffer::end of a new buffer may be
          MaxLines     \* bound on the calls of logInfo

ASSUME AsyncLogerAssumption ==
  /\ NumBuffers \in Nat \ {0}
  /\ Sizes \subseteq [1..NumBuffers -> Nat] /\ Sizes # {}
  /\ FreshEnds \subseteq Nat /\ FreshEnds # {}
  /\ MaxLines \in Nat

Buffers == 1..NumBuffers
Null == 0    \* a moved-from unique_ptr
Junk == 0    \* what a buffer holds below a garbage end

VARIABLES curBuffer,       \* the buffer being filled, or Null
          emptyBuffers,    \* a vector used as a stack
          toWriteBuffers,  \* a queue of full buffers
          writeQueue,      \* local to the background thread, used as a stack
          size,            \* Buffer::bufferSize of each buffer
          text,            \* the lines of each buffer; end is its length
          running,         \* AsyncLoger::running
          bgPc,            \* where the background thread is
          logFile,         \* the lines in the file
          aborted,         \* "no", or the invalid access made
          submitted,       \* history: number of calls of logInfo
          refused,         \* history: lines logInfo did not store
          destroyed,       \* history: buffers freed while they were in use
          faults,          \* history: faults of write that have occurred
          stoppedAt        \* history: bgPc when the destructor began

bufferVars == <<curBuffer, emptyBuffers, toWriteBuffers>>
historyVars == <<submitted, refused, destroyed, faults, stoppedAt>>
vars == <<bufferVars, writeQueue, size, text, running, bgPc, logFile, aborted,
          historyVars>>

Init ==
  /\ emptyBuffers = [i \in 1..(NumBuffers - 1) |-> i]
  /\ curBuffer = NumBuffers
  /\ toWriteBuffers = <<>>
  /\ writeQueue = <<>>
  /\ size \in Sizes
  /\ text \in [Buffers -> {[i \in 1..n |-> Junk] : n \in FreshEnds}]
  /\ running = TRUE /\ bgPc = "while"
  /\ logFile = <<>>
  /\ aborted = "no"
  /\ submitted = 0 /\ refused = {} /\ destroyed = {} /\ faults = {}
  /\ stoppedAt = "not yet"

-----------------------------------------------------------------------------
(* The callers. *)

AppendAvailable(b) == Len(text[b]) < size[b]

\* memcpy to the end of the buffer, with no test of its own.
AppendLine(b) ==
  /\ text' = [text EXCEPT ![b] = Append(@, submitted + 1)]
  /\ aborted' = IF AppendAvailable(b) THEN aborted ELSE "overflow"

Refuse == refused' = refused \cup {submitted + 1}

\* There is no current buffer: return -1.
LogRefused ==
  /\ curBuffer = Null
  /\ Refuse
  /\ UNCHANGED <<bufferVars, text, aborted>>

LogAppend ==
  /\ curBuffer # Null
  /\ AppendAvailable(curBuffer)
  /\ AppendLine(curBuffer)
  /\ UNCHANGED <<bufferVars, refused>>

\* Mutant: the full buffer goes back to the stack.
LogSwapToStack ==
  /\ curBuffer # Null
  /\ ~AppendAvailable(curBuffer)
  /\ emptyBuffers # <<>>
  /\ curBuffer' = Last(emptyBuffers)
  /\ emptyBuffers' = Append(Front(emptyBuffers), curBuffer)
  /\ AppendLine(Last(emptyBuffers))
  /\ UNCHANGED <<toWriteBuffers, refused>>

\* Mutant: the line that did not fit is forgotten.
LogSwapNoAppend ==
  /\ curBuffer # Null
  /\ ~AppendAvailable(curBuffer)
  /\ emptyBuffers # <<>>
  /\ toWriteBuffers' = Append(toWriteBuffers, curBuffer)
  /\ curBuffer' = Last(emptyBuffers)
  /\ emptyBuffers' = Front(emptyBuffers)
  /\ UNCHANGED <<refused, text, aborted>>

\* The current buffer is full.  The line goes to an empty buffer, whose room
\* is not tested; without one the line is dropped and curBuffer stays null.
LogSwap ==
  /\ curBuffer # Null
  /\ ~AppendAvailable(curBuffer)
  /\ toWriteBuffers' = Append(toWriteBuffers, curBuffer)
  /\ \/ /\ emptyBuffers # <<>>
        /\ curBuffer' = Last(emptyBuffers)
        /\ emptyBuffers' = Front(emptyBuffers)
        /\ AppendLine(Last(emptyBuffers))
        /\ UNCHANGED refused
     \/ /\ emptyBuffers = <<>>
        /\ curBuffer' = Null
        /\ Refuse
        /\ UNCHANGED <<emptyBuffers, text, aborted>>

\* A caller holds a reference to the logger, so no call meets the destructor.
LogInfo ==
  /\ stoppedAt = "not yet"
  /\ submitted < MaxLines
  /\ LogRefused \/ LogAppend \/ LogSwap
  /\ submitted' = submitted + 1
  /\ UNCHANGED <<writeQueue, size, running, bgPc, logFile,
                 destroyed, faults, stoppedAt>>

\* The destructor clears running without the mutex.
Stop ==
  /\ running
  /\ running' = FALSE
  /\ stoppedAt' = bgPc
  /\ UNCHANGED <<bufferVars, writeQueue, size, text, bgPc, logFile, aborted,
                 submitted, refused, destroyed, faults>>

-----------------------------------------------------------------------------
(* The background thread: threadFun. *)

LoopTest ==
  /\ bgPc = "while"
  /\ bgPc' = IF running THEN "wait" ELSE "exited"
  /\ UNCHANGED <<bufferVars, writeQueue, size, text, running, logFile, aborted,
                 historyVars>>

\* Mutants of ReplaceCurrent: the pointer is copied and the buffer stays in
\* use, or no other buffer is taken.
CurrentStays == UNCHANGED <<curBuffer, emptyBuffers>>

CurrentTaken == curBuffer' = Null /\ UNCHANGED emptyBuffers

\* The current buffer is replaced if an empty one is left; a null one is not.
ReplaceCurrent ==
  IF curBuffer # Null /\ emptyBuffers # <<>>
    THEN /\ curBuffer' = Last(emptyBuffers)
         /\ emptyBuffers' = Front(emptyBuffers)
    ELSE /\ curBuffer' = Null
         /\ UNCHANGED emptyBuffers

Current == IF curBuffer # Null THEN <<curBuffer>> ELSE <<>>

\* Each turn of the loop moves the BACK of the queue and pops its FRONT: of n
\* buffers the last one is moved, the other n - 1 are destroyed, and n - 1 null
\* pointers are collected in their place.
Drained ==
  [i \in 1..Len(toWriteBuffers) |->
     IF i = 1 THEN Last(toWriteBuffers) ELSE Null]

DrainQueue ==
  /\ destroyed' = destroyed \cup ToSet(Front(toWriteBuffers))
  /\ toWriteBuffers' = <<>>

\* waitForTime returns with the mutex held: notified, out of time or for no
\* reason.
WaitEnds == bgPc = "wait"

\* Mutant: the queue is emptied before the current buffer is taken.
CollectQueueFirst ==
  /\ WaitEnds
  /\ writeQueue' = Drained \o Current
  /\ ReplaceCurrent
  /\ DrainQueue
  /\ bgPc' = "write"
  /\ UNCHANGED <<size, text, running, logFile, aborted,
                 submitted, refused, faults, stoppedAt>>

\* Mutant: the current buffer is left where it is.
CollectQueueOnly ==
  /\ WaitEnds
  /\ writeQueue' = Drained
  /\ DrainQueue
  /\ bgPc' = "write"
  /\ UNCHANGED <<curBuffer, emptyBuffers, size, text, running, logFile, aborted,
                 submitted, refused, faults, stoppedAt>>

\* Mutant: a thread that was told to stop collects nothing.
CollectWhileRunning ==
  /\ WaitEnds
  /\ writeQueue' = IF running THEN Current \o Drained ELSE <<>>
  /\ IF running THEN ReplaceCurrent /\ DrainQueue
                ELSE UNCHANGED <<bufferVars, destroyed>>
  /\ bgPc' = "write"
  /\ UNCHANGED <<size, text, running, logFile, aborted,
                 submitted, refused, faults, stoppedAt>>

\* The current buffer is taken, then the queue is emptied.
Collect ==
  /\ WaitEnds
  /\ writeQueue' = Current \o Drained
  /\ ReplaceCurrent
  /\ DrainQueue
  /\ bgPc' = "write"
  /\ UNCHANGED <<size, text, running, logFile, aborted,
                 submitted, refused, faults, stoppedAt>>

Written(b) == text' = [text EXCEPT ![b] = <<>>]

\* write stores everything, or a part (and the rest is forgotten), or fails
\* (and the buffer keeps its text).
WriteOut ==
  /\ bgPc = "write"
  /\ writeQueue # <<>>
  /\ Last(writeQueue) # Null
  /\ LET b == Last(writeQueue) IN
       \/ /\ logFile' = logFile \o text[b]
          /\ Written(b)
          /\ UNCHANGED faults
       \/ /\ \E n \in 0..(Len(text[b]) - 1) : logFile' = logFile \o SubSeq(text[b], 1, n)
          /\ Written(b)
          /\ faults' = faults \cup {"short"}
       \/ /\ faults' = faults \cup {"failed"}
          /\ UNCHANGED <<logFile, text>>
  /\ bgPc' = "return"
  /\ UNCHANGED <<bufferVars, writeQueue, size, running, aborted,
                 submitted, refused, destroyed, stoppedAt>>

\* Mutant: a null pointer is not written but given back.
SkipNull ==
  /\ bgPc = "write"
  /\ writeQueue # <<>>
  /\ Last(writeQueue) = Null
  /\ bgPc' = "return"
  /\ UNCHANGED <<bufferVars, writeQueue, size, text, running, logFile, aborted,
                 historyVars>>

\* writeToFile of a null pointer.
WriteNull ==
  /\ bgPc = "write"
  /\ writeQueue # <<>>
  /\ Last(writeQueue) = Null
  /\ aborted' = "null buffer"
  /\ UNCHANGED <<bufferVars, writeQueue, size, text, running, bgPc, logFile,
                 historyVars>>

\* The buffer is given back, with the mutex held.
ReturnBuffer ==
  /\ bgPc = "return"
  /\ emptyBuffers' = Append(emptyBuffers, Last(writeQueue))
  /\ writeQueue' = Front(writeQueue)
  /\ bgPc' = "write"
  /\ UNCHANGED <<curBuffer, toWriteBuffers, size, text, running, logFile,
                 aborted, historyVars>>

RoundDone ==
  /\ bgPc = "write"
  /\ writeQueue = <<>>
  /\ bgPc' = "while"
  /\ UNCHANGED <<bufferVars, writeQueue, size, text, running, logFile, aborted,
                 historyVars>>

BackgroundStep ==
  \/ LoopTest \/ Collect
  \/ WriteOut \/ WriteNull \/ ReturnBuffer \/ RoundDone

Step == LogInfo \/ Stop \/ BackgroundStep

Next == aborted = "no" /\ Step

\* The background thread runs: it waits with a time limit.
Fairness == WF_vars(aborted = "no" /\ BackgroundStep)

Spec == Init /\ [][Next]_vars
FairSpec == Spec /\ Fairness

-----------------------------------------------------------------------------
(* Properties. *)

\* A line is stored when it was submitted and not refused.
Stored(k) == k \in 1..submitted /\ k \notin refused

\* Where the unique_ptrs are.
Pointers == [current |-> Current, empty |-> emptyBuffers,
             full |-> toWriteBuffers, writing |-> writeQueue]

\* The type invariant.
TypeOK ==
  /\ curBuffer \in Buffers \cup {Null}
  /\ emptyBuffers \in Seq(Buffers)
  /\ toWriteBuffers \in Seq(Buffers)
  /\ writeQueue \in Seq(Buffers \cup {Null})
  /\ size \in Sizes
  /\ text \in [Buffers -> Seq(0..MaxLines)]
  /\ running \in BOOLEAN
  /\ bgPc \in {"while", "wait", "write", "return", "exited"}
  /\ logFile \in Seq(0..MaxLines)
  /\ aborted \in {"no", "overflow", "null buffer"}
  /\ submitted \in 0..MaxLines
  /\ refused \subseteq 1..MaxLines
  /\ destroyed \subseteq Buffers
  /\ faults \subseteq {"short", "failed"}
  /\ stoppedAt \in {"not yet", "while", "wait", "write", "return", "exited"}

\* The unique_ptrs stay unique while the two threads pass the buffers round:
\* a buffer is in one place, so that no caller reaches the one that is written
\* without the mutex, and it is gone only if it was destroyed.
BuffersConserved ==
  /\ \A v, w \in DOMAIN Pointers :
       \A i \in DOMAIN Pointers[v], j \in DOMAIN Pointers[w] :
         Pointers[v][i] = Pointers[w][j] /\ Pointers[v][i] # Null => v = w /\ i = j
  /\ (UNION {ToSet(Pointers[v]) : v \in DOMAIN Pointers}) \ {Null} = Buffers \ destroyed

\* The buffers the background thread still has to write.
Unwritten ==
  ({curBuffer} \cup ToSet(toWriteBuffers) \cup ToSet(writeQueue)) \ {Null}

\* Line k went with a buffer that pop() destroyed (lines 105 and 106); the null
\* pointer collected in its place is there to end the writer.
LostWithItsBuffer(k) ==
  /\ \E b \in destroyed : k \in ToSet(text[b])
  /\ Null \in ToSet(writeQueue)

\* No line is lost on its way but in one way: without faults of write a stored
\* line is in the file or in a buffer that is still to be written, never in one
\* that was given back, unless its buffer was destroyed, and then the writer is
\* about to die.  And it is in only one of them whatever write does.
NoLineLost ==
  /\ faults = {} => \A k \in 1..MaxLines : Stored(k) =>
       \/ k \in ToSet(logFile)
       \/ \E b \in Unwritten : k \in ToSet(text[b])
       \/ LostWithItsBuffer(k)
  /\ \A k \in ToSet(logFile) \ {Junk} : \A b \in Buffers : k \notin ToSet(text[b])

\* logInfo refuses lines only when the writer is already lost: two buffers are
\* queued, or it has collected a null pointer.  In particular curBuffer is not
\* null for good in a logger that still works.
RefusesOnlyWhenDoomed ==
  curBuffer = Null =>
    \/ Len(toWriteBuffers) >= 2
    \/ Null \in ToSet(writeQueue)

\* Not one line fits in buffer b: below the line just appended to it there is
\* nothing but what the constructor left, and that is as long as the buffer.
NeverHadRoom(b) ==
  /\ ToSet(Front(text[b])) \subseteq {Junk}
  /\ Len(Front(text[b])) >= size[b]

\* logInfo writes past the end of a buffer for two reasons only, whatever the
\* buffers' members are: a write to the file has failed (a buffer that was not
\* written is given back as if it were empty), or the constructor left size and
\* end of that buffer so that not even its first line fits, though AsyncLoger.h says
\* that a buffer has 1 MB (line 20) and that end is where to append (line 35).
OverflowHasCause ==
  aborted = "overflow" => "failed" \in faults \/ NeverHadRoom(curBuffer)

\* A destructor that finds the background thread waiting loses no line: the
\* thread collects once more before it tests running.  (If it is writing, or
\* about to test running, what was logged since its last round is lost.)
StopFlushes ==
  bgPc = "exited" /\ stoppedAt = "wait" /\ faults = {} =>
    \A k \in 1..MaxLines : Stored(k) => k \in ToSet(logFile)

\* Every stored line is written to the file, unless the logger is stopped, a
\* write goes wrong or the logger dies: a wake-up that the notifyAll of logInfo
\* loses is made up for by the time limit.
EveryLineWritten ==
  \A k \in 1..MaxLines :
    Stored(k) ~> \/ k \in ToSet(logFile)
                 \/ ~running \/ faults # {} \/ aborted # "no"

\* README.md:31: writing by a thread of its own does not affect the threads that
\* log.  The background thread never dies of the buffers they queue.
WriterSurvives == aborted # "null buffer"

\* The lines in memory are the ones accepted and not written.
InMemory == UNION {ToSet(text[b]) : b \in Buffers}

Mode ==
  IF "failed" \in faults \/ destroyed # {} THEN "broken"
  ELSE IF faults = {} THEN "whole" ELSE "cut"

\* The logger implements the abstract file: lines reach it once and in the order they
\* were logged, however the two queues, both emptied from their back, mix the
\* current and the queued buffers while callers go on filling others.
LogToFile == INSTANCE LogFile WITH
  mode <- Mode, logged <- submitted, pending <- InMemory, file <- logFile

ImplementsLogFile == LogToFile!Spec

=============================================================================
