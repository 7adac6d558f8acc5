----------------------------- MODULE MCRegistry -----------------------------
(* Registry with a few peers. *)
EXTENDS Registry

CONSTANTS h1, a1, a2

OneHost == {h1}
TwoApps == {a1, a2}
=============================================================================
