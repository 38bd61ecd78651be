--------------------------- MODULE MCUdpObserver ---------------------------
(* The instance of UdpObserver that TLC checks: compressed texts of one    *)
(* piece, of two after a failure; not compressed, only the second text is  *)
(* short enough for one piece.                                             *)
EXTENDS UdpObserver

MCSize == <<4, 3, 4>>
MCInitialSize == [c \in BOOLEAN |-> IF c THEN 4 ELSE 3]
=============================================================================
