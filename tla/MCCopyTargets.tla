---------------------------- MODULE MCCopyTargets ----------------------------
(* Values for the constants of CopyTargets: g1 was created before g2.        *)
EXTENDS CopyTargets, TLC

CONSTANTS g1, g2, c1, c2

MCFirstMembers == {<<g1, c1>>, <<g2, c1>>}

\* Requests of a kind differ in nothing but their names, and so do the loaders.
Alike ==
  UNION {Permutations(S) : S \in {Requests, Editors, Loaders, States}}

MCRank == [g \in Groups |-> IF g = g1 THEN 1 ELSE 2]
=============================================================================
