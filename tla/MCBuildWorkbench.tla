--------------------------- MODULE MCBuildWorkbench ---------------------------
(* BuildWorkbench on chains and small trees of tasks                         *)
EXTENDS BuildWorkbench, TLC

CONSTANTS root, rules, scenes, places

\* Two tasks built from the root, one of them used by a third
Tree == (root :> {}) @@ (rules :> {root}) @@ (places :> {root}) @@ (scenes :> {rules})

Chain == (root :> {}) @@ (rules :> {root}) @@ (scenes :> {rules})

RunSymmetry == Permutations(RunId)
===============================================================================
