------------------------------ MODULE MCPlugin ------------------------------
(* Plugin with three calls of createDevice. *)
EXTENDS Plugin
=============================================================================
