------------------------------ MODULE MCTimer ------------------------------
(* The instance of Timer that TLC checks. *)
EXTENDS Timer

CONSTANTS e1, e2, e3

MCStart    == {1, 2}
MCPriority == {0, 5}
MCPeriod   == {-1, 0, 1}
MCFinal    == {1, 3}
MCMinusInfinity == -1
============================================================================
