------------------------- MODULE BuildGraphRefinement -------------------------
(* The Build Graph implements the versioned plan.                            *)
EXTENDS BuildGraph

WithStatus(s) == {t \in Task : task[t].status = s}

Ledger ==
  [t \in Task |->
     [n \in 1..Len(artifact[t]) |->
        [d \in Deps[t] |-> artifact[t][n].inputs[d]]]]

Plan == INSTANCE VersionedPlan WITH
          Below <- Descendants,
          ledger <- Ledger,
          usable <- WithStatus("completed"),
          offered <- WithStatus("review_required")

(***************************************************************************)
(* Whatever runs, edits, imports and reviews do, in whatever order, a      *)
(* reader of the manifest sees a versioned plan: in particular a model's   *)
(* answer is entered with the inputs it was given only if they are still   *)
(* the current ones, and a task is usable again only by a new entry.       *)
(* service.py:92-173, 200-223, 364-440.                                    *)
(***************************************************************************)
ImplementsPlan == Plan!Spec
===============================================================================
