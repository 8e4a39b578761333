------------------------------- MODULE MCTimer -------------------------------
(* An instance of Timer for TLC. *)
EXTENDS Timer, TLC

CONSTANTS f1, f2, f3

MCFds == {f1, f2, f3}

\* The descriptors are interchangeable: nothing compares or orders them.
FdSymmetry == Permutations(MCFds)

=============================================================================
