------------------------------- MODULE MCHPA -------------------------------
(* The instances of HPA that TLC checks. *)
EXTENDS HPA, TLC

CONSTANTS t1, t2, t3, f, g

MCNpArg == {-1, 1, 2}
MCNameOf == (t1 :> f) @@ (t2 :> g) @@ (t3 :> f)
============================================================================
