---------------------------- MODULE MCCopyWorker ----------------------------
(* Values for the constants of CopyWorker: jobs j1 and j2 are the same      *)
(* master order, pushed twice with overlapping targets; j3 is another one.  *)
EXTENDS CopyWorker

CONSTANTS j1, j2, j3, o1, o2, c1, c2

MCOrderOf   == [j \in Jobs |-> IF j = j3 THEN o2 ELSE o1]
MCTargetsOf == [j \in Jobs |-> IF j = j1 THEN <<c1, c2>> ELSE <<c1>>]
=============================================================================
