----------------------------- MODULE MCCellMap -----------------------------
(* The instance of CellMap that TLC checks: three cells; numbers on the    *)
(* bounds of the slices, between them and above the maximum.  The legend   *)
(* writes 0 and 1 alike, as the Map lists 0; it writes 4 in another way    *)
(* than the Map does, and reads 5 from it; 7 is listed as it writes it.    *)
EXTENDS CellMap

CONSTANTS zero, four, short, seven

MCListed == <<four, seven, zero>>
MCShown == [v \in Number |-> CASE v \in {0, 1} -> zero
                               [] v = 4 -> short
                               [] v = 7 -> seven]
MCReadBack == [l \in Label |-> CASE l = zero  -> 0
                                 [] l = four  -> 4
                                 [] l = short -> 5
                                 [] l = seven -> 7]
=============================================================================
