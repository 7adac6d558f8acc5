------------------------------ MODULE MCStream ------------------------------
(* Stream with two thread objects or one, and one callback. *)
EXTENDS Stream, TLC
CONSTANTS t1, t2, p1
TwoThreads == {t1, t2}
OneThread == {t1}
OneProc == {p1}
Symmetry == Permutations(TwoThreads)
=============================================================================
