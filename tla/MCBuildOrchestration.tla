------------------------- MODULE MCBuildOrchestration -------------------------
(* BuildOrchestration on a chain of tasks                                    *)
EXTENDS BuildOrchestration, TLC

CONSTANTS root, rules, scenes

Chain == (root :> {}) @@ (rules :> {root}) @@ (scenes :> {rules})

InOrder == (root :> 1) @@ (rules :> 2) @@ (scenes :> 3)

RunSymmetry == Permutations(RunId)
===============================================================================
