---------------------------- MODULE VersionedPlan ----------------------------
(***************************************************************************)
(* What the Build Graph promises to those who read a plan from it, without *)
(* runs, snapshots, statuses or files: every task has a ledger of          *)
(* revisions, each entered with the dependency revisions that were current *)
(* when it was entered, and only what is usable may be read.  A task       *)
(* becomes usable by a new entry, at once or when an author accepts it;    *)
(* a new entry takes usability from everything below the task.             *)
(*                                                                         *)
(* BuildGraphRefinement shows that BuildGraph implements it.               *)
(***************************************************************************)
EXTENDS Naturals, Sequences

CONSTANTS
  Task,
  Deps,     \* Deps[t]: the tasks t is made from
  Below     \* Below[t]: the tasks made from t, directly or not

VARIABLES
  ledger,   \* for each task, what each of its revisions was made from
  usable,   \* tasks whose newest revision may be read
  offered   \* tasks whose newest revision waits for an author's consent

planVars == <<ledger, usable, offered>>

CurrentInputs(t) == [d \in Deps[t] |-> Len(ledger[d])]

Init ==
  /\ ledger = [t \in Task |-> <<>>]
  /\ usable = {} /\ offered = {}

Enter(t) ==
  /\ Deps[t] \subseteq usable
  /\ ledger' = [ledger EXCEPT ![t] = Append(@, CurrentInputs(t))]

Publish(t) ==
  /\ Enter(t)
  /\ usable' = (usable \ Below[t]) \cup {t}
  /\ offered' = offered \ (Below[t] \cup {t})

Offer(t) ==
  /\ Enter(t)
  /\ usable' = usable \ (Below[t] \cup {t})
  /\ offered' = (offered \ Below[t]) \cup {t}

Accept(t) ==
  /\ t \in offered
  /\ usable' = usable \cup {t} /\ offered' = offered \ {t}
  /\ UNCHANGED ledger

\* Usability may be lost for any reason, and for any tasks
Withdraw ==
  /\ usable' \subseteq usable /\ offered' \subseteq offered
  /\ UNCHANGED ledger

Next ==
  \/ \E t \in Task : Publish(t) \/ Offer(t) \/ Accept(t)
  \/ Withdraw

Spec == Init /\ [][Next]_planVars

-------------------------------------------------------------------------------
\* What a reader relies on: what may be read was made from what is current
\* (service.py:147-173).
UsableIsCurrent ==
  \A t \in usable \cup offered :
    ledger[t] # <<>> /\ ledger[t][Len(ledger[t])] = CurrentInputs(t)
===============================================================================
