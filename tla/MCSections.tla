----------------------------- MODULE MCSections -----------------------------
(* The instance of Sections that TLC checks: acquire("id") and acquire(0)  *)
(* are the same section, acquire(1) is another.                            *)
EXTENDS Sections, TLC

CONSTANTS text, zero, one

MCKeyOf == (text :> 0) @@ (zero :> 0) @@ (one :> 1)
============================================================================
