------------------------------ MODULE MCRelay ------------------------------
(* Relay with two applications, in both orders of their port names. *)
EXTENDS Relay
TwoApps == {1, 2}
=============================================================================
