---------------------------- MODULE MCGkeAliases ----------------------------
(* Instances of GkeAliases for TLC.                                        *)
EXTENDS GkeAliases, TLC

CONSTANTS n1, n2, c1, c2, f1

GkeSymmetry == Permutations(Nodes) \cup Permutations(Cidrs)

\* Every failure on a node that keeps its subnet; nodes that move; adopts of
\* whatever subnet among moves and failing calls; everything.
GkeEnvs ==
  { FaultKinds \ {"move", "operator"}, {"api", "move"},
    {"api", "move", "byhand", "stray"}, FaultKinds }
=============================================================================
