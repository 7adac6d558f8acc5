------------------------------ MODULE MCOutput ------------------------------
(* Output with two outputs in one OBS process. *)
EXTENDS Output
CONSTANTS o1, o2
TwoOutputs == {o1, o2}
=============================================================================
