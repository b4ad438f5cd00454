----------------------------- MODULE MCLiveCopy -----------------------------
(* Values for the constants of LiveCopy.  Acks a1 and a2 report the same    *)
(* order (a confirmation and a fill, or two fills) under two trade ids; a3  *)
(* is another order whose trade id is the one of a1.                        *)
EXTENDS LiveCopy

CONSTANTS m1, s1, s2, a1, a2, a3, k1, k2, t1, t2

MCMasterOf  == [s \in Sessions |-> m1]
MCAckMaster == [a \in Acks |-> m1]
MCKeyOf     == [a \in Acks |-> IF a = a3 THEN k2 ELSE k1]
MCTradeOf   == [a \in Acks |-> IF a = a2 THEN t2 ELSE t1]

=============================================================================
