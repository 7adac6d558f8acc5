----------------------------- MODULE MCLifetime -----------------------------
(* Lifetime with three references, three messages and two hosts. *)
EXTENDS Lifetime
=============================================================================
