----------------------------- MODULE MCSociety -----------------------------
(* The instance of Society that TLC checks. *)
EXTENDS Society

CONSTANTS c1, c2

MCSpace    == <<c1, c2>>
MCQuantity == {1, 2, 3}
MCCapacity == {1, 2}
============================================================================
