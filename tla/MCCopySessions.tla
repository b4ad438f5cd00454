--------------------------- MODULE MCCopySessions ---------------------------
(* Values for the constants of CopySessions: the first two sessions share  *)
(* a master, a third one has its own.                                      *)
EXTENDS CopySessions

CONSTANTS m1, m2, s1, s2, s3

MCMasterOf == [s \in Sessions |-> IF s = s3 THEN m2 ELSE m1]
=============================================================================
