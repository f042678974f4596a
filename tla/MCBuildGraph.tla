---------------------------- MODULE MCBuildGraph ----------------------------
(* BuildGraph on a small graph: a root, a section built from it, and a      *)
(* deterministic aggregate of both.                                         *)
EXTENDS BuildGraphRefinement, TLC

CONSTANTS root, rules, final

MCDeps == (root :> {}) @@ (rules :> {root}) @@ (final :> {root, rules})

RunSymmetry == Permutations(RunId)
=============================================================================
