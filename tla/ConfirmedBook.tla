---------------------------- MODULE ConfirmedBook ----------------------------
(***************************************************************************)
(* What packages/story_core/persistence/project_transaction.py promises:   *)
(* the files of a project only change by whole operations.  Every version  *)
(* a file can have was written by an operation that also wrote the other   *)
(* files of its unit; an operation that fails has changed nothing.         *)
(*                                                                         *)
(* The promise ends where the code has no way to keep it: a step marked as *)
(* damage may leave anything behind, and afterwards everything is allowed. *)
(***************************************************************************)
EXTENDS Naturals

CONSTANTS
  File,
  Unit,       \* the sets of files operations write together
  Original    \* what the files hold before the first operation

VARIABLES
  book,       \* what each file holds
  damaged     \* an operation was left half done

BookInit ==
  /\ book = Original
  /\ damaged = FALSE

\* One operation: the files of a unit get a version no file had before
Publish ==
  /\ \E unit \in Unit :
       /\ \A f \in File \ unit : book'[f] = book[f]
       /\ \A f, g \in unit : book'[f] = book'[g]
       /\ \A f \in unit, g \in File : book'[f] # book[g]
  /\ UNCHANGED damaged

Damage == damaged' = TRUE

BookNext == Damage \/ (~damaged /\ Publish)

BookSpec == BookInit /\ [][BookNext]_<<book, damaged>>

===============================================================================
