---------------------------- MODULE MCThreadPool ----------------------------
(* Instances of ThreadPool for TLC. *)
EXTENDS ThreadPool

CONSTANTS w1, w2, w3

MCWorkers == {w1, w2, w3}

MCTwoWorkers == {w1, w2}

=============================================================================
