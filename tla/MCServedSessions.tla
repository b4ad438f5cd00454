--------------------------- MODULE MCServedSessions ---------------------------
(* Requests that overlap, but not in the ways that break the promises.      *)
EXTENDS ServedSessions, MCCopySessions, TLC

CONSTANTS r1, r2

Apart == ActivationsApart /\ StopsApart /\ DeletesApart

\* ServedSpec /\ []Apart
ApartSpec == ServedInit /\ [][ServedNext /\ Apart']_servedVars

\* s1 and s2 differ in nothing but their names, nor do the requests.
Twins == Permutations({s1, s2}) \cup Permutations({r1, r2})
=============================================================================
