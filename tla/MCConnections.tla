---------------------------- MODULE MCConnections ----------------------------
(* Instances of Connections for TLC.  Descriptor 3 is the listening socket;  *)
(* clients get 4 and 5.                                                      *)
EXTENDS Connections

CONSTANTS w1, w2

MCWorkers == {w1, w2}

MCNoFd == -1
MCFds == {MCNoFd, 3, 4, 5}

==============================================================================
