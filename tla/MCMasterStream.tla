--------------------------- MODULE MCMasterStream ---------------------------
(* Model values for MasterStream: two connection objects, so that a new     *)
(* stream can start while a cancelled one is still ending.                  *)
EXTENDS MasterStream

CONSTANTS c1, c2, h1, h2, x1, x2
=============================================================================
