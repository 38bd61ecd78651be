--------------------------- MODULE MCEnvironment ---------------------------
(* The instance of Environment that TLC checks. *)
EXTENDS Environment

CONSTANTS e1, e2, e3, t1, t2

MCMet      == <<t1, t2>>
MCStart    == {1, 2}
MCPriority == {0, 5}
MCPeriod   == {-1, 0, 1}
MCFinal    == {1, 3}
MCMinusInfinity == -1
============================================================================
