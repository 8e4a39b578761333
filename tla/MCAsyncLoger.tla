----------------------------- MODULE MCAsyncLoger -----------------------------
(* Instances of AsyncLoger for TLC.  Buffers hold one line, one of them two,   *)
(* so that they fill while the background thread is writing; or the            *)
(* constructor has left a size of 0 in two of them, or, as on a heap of zeros, *)
(* in all.                                                                     *)
EXTENDS AsyncLoger

MCSizes == {<<1, 1, 2, 1>>, <<0, 1, 0, 1>>, <<0, 0, 0, 0>>}
MCFreshEnds == {0}

===============================================================================
