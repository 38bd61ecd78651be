----------------------------- MODULE MCMessages -----------------------------
(* The instance of Messages that TLC checks. *)
EXTENDS Messages

CONSTANTS a1, a2
=============================================================================
