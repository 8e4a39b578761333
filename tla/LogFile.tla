------------------------------- MODULE LogFile -------------------------------
(***************************************************************************)
(* What the logger promises to the threads that log, without its buffers:  *)
(* the lines it accepts are appended to one file, in the order in which    *)
(* they were logged, each once.  AsyncLoger.tla is shown to implement this *)
(* module.                                                                 *)
(*                                                                         *)
(* A write that is cut short costs lines and nothing else.  Of a logger    *)
(* that is broken (a write that failed, a buffer that was destroyed) only  *)
(* this much is promised: what is in the file stays there.                 *)
(*                                                                         *)
(* Lines are numbered in the order in which they are logged.               *)
(***************************************************************************)
EXTENDS Naturals, SequencesExt

VARIABLES mode,     \* "whole", "cut" after a short write, or "broken"
          logged,   \* number of lines logged so far
          pending,  \* the accepted lines that are not in the file yet
          file      \* the lines in the file

logFileVars == <<mode, logged, pending, file>>

Init ==
  /\ mode = "whole"
  /\ logged = 0
  /\ pending = {}
  /\ file = <<>>

\* The line is accepted or refused.
Log ==
  /\ mode # "broken"
  /\ logged' = logged + 1
  /\ pending' \in {pending, pending \cup {logged + 1}}
  /\ UNCHANGED <<mode, file>>

\* What a step appends to the file.
Added == SubSeq(file', Len(file) + 1, Len(file'))

AppendInOrder ==
  /\ IsPrefix(file, file')
  /\ \A i, j \in DOMAIN Added : i < j => Added[i] < Added[j]

\* The oldest lines leave: no line overtakes another.
Leave(lines) ==
  /\ mode # "broken"
  /\ \A k \in lines, l \in pending \ lines : k < l
  /\ pending' = pending \ lines
  /\ AppendInOrder
  /\ UNCHANGED logged

Write ==
  \E lines \in SUBSET pending :
    /\ Leave(lines)
    /\ ToSet(Added) = lines
    /\ UNCHANGED mode

CutShort ==
  \E lines \in SUBSET pending :
    /\ Leave(lines)
    /\ ToSet(Added) \subseteq lines
    /\ mode' = "cut"

Broken ==
  /\ mode' = "broken"
  /\ IsPrefix(file, file')

Next == Log \/ Write \/ CutShort \/ Broken

Spec == Init /\ [][Next]_logFileVars

=============================================================================
