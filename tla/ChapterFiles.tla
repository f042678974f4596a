----------------------------- MODULE ChapterFiles -----------------------------
(***************************************************************************)
(* How a chapter reaches the disk: confirm_candidate, persist_bundle and   *)
(* rewrite_chapter of packages/story_core/file_project_store.py, over      *)
(* persistence/project_transaction.py and snapshot_store.py, and           *)
(* BuildGraphStore.persist, which uses the same multi-file replace.        *)
(*                                                                         *)
(* Every operation holds the project lock from its first write to its      *)
(* last, so operations never overlap.  What can happen in between is an    *)
(* exception, an error while an exception is being rolled back, and the    *)
(* end of the process.  Files are replaced one by one; most are written in *)
(* place, so a write that breaks off leaves a torn file.                   *)
(*                                                                         *)
(* Abstracted: a file's content to the operation that wrote it; the dated  *)
(* and the latest commit log to one file; workflow telemetry and           *)
(* failed-draft copies, which nothing reads back.  A candidate has a canon *)
(* delta, and a rewrite finds something to rebase (both are the common     *)
(* case; the other ones write fewer files of the same plan).               *)
(***************************************************************************)
EXTENDS Naturals, Sequences, FiniteSets

CONSTANTS
  MaxChapter,   \* bound: chapters of the book
  MaxOps,       \* bound: operations begun
  MaxFaults     \* bound: rollbacks that fail and process stops, together

ASSUME FilesAssumption ==
  MaxChapter \in Nat \ {0} /\ MaxOps \in Nat /\ MaxFaults \in Nat

VARIABLES
  opening,   \* does the project use the opening graph (set when it is created)
  disk,      \* what each file holds
  ops,       \* by version: the operation, and the current_chapter it counts up to
  tx,        \* the operation holding the project lock
  last,      \* version of the operation begun last
  hurt,      \* history: an operation was left half done
  faults

vars == <<opening, disk, ops, tx, last, hurt, faults>>

Chapter == 1..MaxChapter
Shared == {"state", "project", "commit", "canon", "stale", "opening",
           "manifest", "artifact", "run"}
PerChapter == {"body", "chapter", "review", "snapshot", "receipt",
               "candidate", "revision", "repair"}
File == {<<name, 0>> : name \in Shared} \cup (PerChapter \X Chapter)

Kind == {"confirm", "confirm_rewrite", "confirm_repair", "generate", "rewrite", "graph"}

Absent == [ver |-> 0, whole |-> FALSE]
Whole(v) == [ver |-> v, whole |-> TRUE]
Torn(v) == [ver |-> v, whole |-> FALSE]   \* v > 0
Content == [ver: 0..MaxOps, whole: BOOLEAN]

\* Files of a project that has no chapter yet; the candidates are written
\* beforehand, one for each chapter and use.
Original ==
  [f \in File |->
     IF f[1] \in {"state", "project", "manifest", "candidate", "revision", "repair"}
     THEN Whole(0) ELSE Absent]

NoTx == [kind |-> "none"]

-------------------------------------------------------------------------------
(* What each operation writes, in the order of the code                      *)

InPlace(name, n) == [file |-> <<name, n>>, atomic |-> FALSE]
Replaced(name, n) == [file |-> <<name, n>>, atomic |-> TRUE]

\* persist_bundle for a new chapter: the ledgers first, then the body
NewChapter(n) ==
  <<InPlace("state", 0), InPlace("project", 0), InPlace("body", n),
    InPlace("chapter", n), InPlace("review", n), InPlace("commit", 0)>>

\* _persist_historical_transaction: one JSON transaction, which carries the
\* projection into the records of the later chapters, then body and commit
RewrittenChapter(n, top) ==
  <<Replaced("state", 0), Replaced("project", 0)>>
    \o [i \in 1..top - n |-> Replaced("chapter", n + i)]
    \o <<Replaced("chapter", n), Replaced("review", n), InPlace("body", n), InPlace("commit", 0)>>

\* _apply_candidate_canon_delta and the snapshot
Aftermath(n) == <<Replaced("canon", 0), InPlace("snapshot", n)>>

\* record_confirmation
Receipt(open, n) == IF open THEN <<Replaced("opening", 0), Replaced("receipt", n)>> ELSE <<>>

\* "open": the project uses the opening graph; "top": its chapters
\* Mutant: the candidate is marked before its chapter is recorded
MarkedFirst(open, top, kind, n) ==
  CASE kind = "confirm" ->
         <<Replaced("candidate", n)>> \o NewChapter(n) \o Aftermath(n) \o Receipt(open, n)
    [] kind = "confirm_rewrite" ->
         RewrittenChapter(n, top) \o Aftermath(n)
           \o <<InPlace("stale", 0), Replaced("revision", n)>>
    [] kind = "confirm_repair" ->
         <<InPlace("body", n), Replaced("chapter", n), Replaced("review", n),
           InPlace("commit", 0), Replaced("repair", n)>>
    [] kind = "generate" -> NewChapter(n)
    [] kind = "rewrite" -> RewrittenChapter(n, top)
    [] kind = "graph" -> <<Replaced("manifest", 0), Replaced("artifact", 0), Replaced("run", 0)>>

Plan(open, top, kind, n) ==
  CASE kind = "confirm" ->
         NewChapter(n) \o Aftermath(n) \o Receipt(open, n) \o <<Replaced("candidate", n)>>
    [] kind = "confirm_rewrite" ->
         RewrittenChapter(n, top) \o Aftermath(n)
           \o <<InPlace("stale", 0), Replaced("revision", n)>>
    [] kind = "confirm_repair" ->
         <<InPlace("body", n), Replaced("chapter", n), Replaced("review", n),
           InPlace("commit", 0), Replaced("repair", n)>>
    [] kind = "generate" -> NewChapter(n)
    [] kind = "rewrite" -> RewrittenChapter(n, top)
    [] kind = "graph" -> <<Replaced("manifest", 0), Replaced("artifact", 0), Replaced("run", 0)>>

Written(plan) == {plan[i].file : i \in 1..Len(plan)}

Confirmation == {"confirm", "confirm_rewrite", "confirm_repair"}

\* _managed_paths_for_transaction and _managed_directories_for_transaction
ManagedByConfirmation ==
  {<<name, 0>> : name \in {"state", "project", "opening", "commit", "canon", "stale"}}
    \cup (PerChapter \X Chapter)

\* Mutant: the registry is not part of the recovery snapshot
ManagedWithoutCanon(kind, plan) ==
  CASE kind \in Confirmation -> ManagedByConfirmation \ {<<"canon", 0>>}
    [] kind = "generate" -> {}
    [] OTHER -> Written(plan)

\* What is put back when the operation raises.  persist_bundle for a new
\* chapter, called on its own, has nothing to put back.
Managed(kind, plan) ==
  CASE kind \in Confirmation -> ManagedByConfirmation
    [] kind = "generate" -> {}
    [] OTHER -> Written(plan)

CurrentChapter == ops[disk[<<"state", 0>>].ver].counts

Top == Cardinality({n \in Chapter : disk[<<"chapter", n>>] # Absent})

\* The chapter state.json counts up to when operation "kind" has written it
Advanced(kind, n) ==
  IF kind \in {"confirm", "generate"} THEN n ELSE CurrentChapter

Readable(f) == disk[f].whole

\* assert_review_current refuses a new chapter the state already counts
Admits(kind, n) ==
  /\ Readable(<<"state", 0>>) /\ Readable(<<"project", 0>>)
  /\ CASE kind = "confirm" -> /\ disk[<<"candidate", n>>] = Whole(0)
                              /\ n = CurrentChapter + 1
       [] kind = "confirm_rewrite" -> /\ ~opening
                                      /\ disk[<<"revision", n>>] = Whole(0)
                                      /\ Readable(<<"chapter", n>>)
       [] kind = "confirm_repair" -> /\ ~opening
                                     /\ disk[<<"repair", n>>] = Whole(0)
                                     /\ n <= CurrentChapter
                                     /\ Readable(<<"chapter", n>>)
                                     /\ Readable(<<"body", n>>)
       [] kind = "generate" -> ~opening /\ n = CurrentChapter + 1
       [] kind = "rewrite" -> ~opening /\ Readable(<<"chapter", n>>)
       [] kind = "graph" -> n = 1 /\ Readable(<<"manifest", 0>>)

-------------------------------------------------------------------------------
Init ==
  /\ opening \in BOOLEAN
  /\ disk = Original
  /\ ops = [v \in 0..MaxOps |-> [kind |-> "none", counts |-> 0]]
  /\ tx = NoTx
  /\ last = 0
  /\ hurt = FALSE
  /\ faults = 0

Step == tx.plan[tx.at]
Writing == tx # NoTx /\ tx.phase = "writing"
Restoring == tx # NoTx /\ tx.phase = "restoring"
Unfinished == Writing /\ tx.at <= Len(tx.plan)

\* The lock is taken and the managed files are read
Begin(kind, n) ==
  /\ tx = NoTx /\ last < MaxOps
  /\ Admits(kind, n)
  /\ last' = last + 1
  /\ tx' = [kind |-> kind, plan |-> Plan(opening, Top, kind, n), at |-> 1,
            phase |-> "writing", held |-> disk]
  /\ ops' = [ops EXCEPT ![last + 1] = [kind |-> kind, counts |-> Advanced(kind, n)]]
  /\ UNCHANGED <<opening, disk, hurt, faults>>

Write ==
  /\ Unfinished
  /\ disk' = [disk EXCEPT ![Step.file] = Whole(last)]
  /\ tx' = [tx EXCEPT !.at = @ + 1]
  /\ UNCHANGED <<opening, ops, last, hurt, faults>>

Done ==
  /\ Writing /\ ~Unfinished
  /\ tx' = NoTx
  /\ UNCHANGED <<opening, disk, ops, last, hurt, faults>>

\* What a write that breaks off leaves in its file.  The bodies of a chapter
\* are removed before the new one is written.
BrokenOff ==
  {disk[Step.file]}
    \cup (IF Step.atomic THEN {} ELSE {Torn(last)})
    \cup (IF Step.file[1] = "body" THEN {Absent} ELSE {})

\* Have files been written that nobody will put back?
LeftBehind(d) ==
  \E f \in File \ Managed(tx.kind, tx.plan) : d[f] # tx.held[f]

\* An exception at any step.  Without a recovery snapshot that is the end of it.
Raise ==
  /\ Unfinished
  /\ \E content \in BrokenOff :
       /\ disk' = [disk EXCEPT ![Step.file] = content]
       /\ hurt' = (hurt \/ (Managed(tx.kind, tx.plan) = {} /\ LeftBehind(disk')))
  /\ tx' = IF Managed(tx.kind, tx.plan) = {} THEN NoTx
           ELSE [tx EXCEPT !.phase = "restoring", !.at = 1]
  /\ UNCHANGED <<opening, ops, last, faults>>

\* restore_managed_files: new files are deleted first
Created == {f \in Managed(tx.kind, tx.plan) : tx.held[f] = Absent}

\* Mutant: files the operation created are left where they are
KeepCreated ==
  /\ Restoring /\ tx.at = 1
  /\ tx' = [tx EXCEPT !.at = 2]
  /\ UNCHANGED <<opening, disk, ops, last, hurt, faults>>

DeleteCreated ==
  /\ Restoring /\ tx.at = 1
  /\ disk' = [f \in File |-> IF f \in Created THEN Absent ELSE disk[f]]
  /\ tx' = [tx EXCEPT !.at = 2]
  /\ UNCHANGED <<opening, ops, last, hurt, faults>>

\* then every other file is rewritten with the bytes that were read
Differing == {f \in Managed(tx.kind, tx.plan) \ Created : disk[f] # tx.held[f]}

Restored ==
  /\ Restoring /\ tx.at = 2
  /\ disk' = [f \in File |-> IF f \in Differing THEN tx.held[f] ELSE disk[f]]
  /\ tx' = NoTx
  /\ UNCHANGED <<opening, ops, last, hurt, faults>>

\* What is on disk when the rewriting breaks off: the files come in no
\* particular order, and the one being written may be torn
HalfRestored ==
  IF tx.at = 1 THEN {disk}
  ELSE UNION {{[f \in File |-> IF f \in ready THEN tx.held[f] ELSE disk[f]]} \cup
                {[f \in File |-> IF f = g THEN Torn(tx.held[g].ver)
                                ELSE IF f \in ready THEN tx.held[f] ELSE disk[f]] :
                   g \in Differing \ ready} : ready \in SUBSET Differing}

\* The rollback itself raises: the original exception goes on, the rest stays
RollbackFails ==
  /\ Restoring /\ faults < MaxFaults
  /\ disk' \in HalfRestored
  /\ tx' = NoTx
  /\ hurt' = TRUE /\ faults' = faults + 1
  /\ UNCHANGED <<opening, ops, last>>

\* The process ends; nothing looks for a half-done operation when it starts again
Stop ==
  /\ tx # NoTx /\ faults < MaxFaults
  /\ \/ /\ Unfinished
        /\ \E content \in BrokenOff : disk' = [disk EXCEPT ![Step.file] = content]
     \/ Restoring /\ disk' \in HalfRestored
     \/ Writing /\ ~Unfinished /\ UNCHANGED disk
  /\ tx' = NoTx
  /\ hurt' = TRUE /\ faults' = faults + 1
  /\ UNCHANGED <<opening, ops, last>>

Next ==
  \/ \E kind \in Kind, n \in Chapter : Begin(kind, n)
  \/ Write \/ Done \/ Raise
  \/ DeleteCreated \/ Restored
  \/ RollbackFails \/ Stop

Spec == Init /\ [][Next]_vars

-------------------------------------------------------------------------------
TypeOK ==
  /\ opening \in BOOLEAN
  /\ disk \in [File -> Content]
  /\ ops \in [0..MaxOps -> [kind: Kind \cup {"none"}, counts: 0..MaxChapter]]
  /\ last \in 0..MaxOps
  /\ faults \in 0..MaxFaults
  /\ hurt \in BOOLEAN
  /\ tx # NoTx => /\ tx.kind \in Kind /\ Written(tx.plan) \subseteq File
                  /\ tx.phase \in {"writing", "restoring"}
                  /\ tx.held \in [File -> Content]

(***************************************************************************)
(* Operations are all or nothing: seen from outside the lock, the files    *)
(* only ever change by whole operations, whatever is raised in the middle  *)
(* (project_transaction.py:1-19, snapshot_store.py:102-160).  Left out are *)
(* a rollback that fails, a process that stops, and persist_bundle called  *)
(* without a transaction around it: those are the damage ConfirmedBook     *)
(* speaks of.                                                              *)
(***************************************************************************)
Seen == [f \in File |-> IF tx = NoTx THEN disk[f] ELSE tx.held[f]]
Book == INSTANCE ConfirmedBook
          WITH Unit <- {Written(Plan(open, top, kind, n)) :
                          open \in BOOLEAN, top \in Chapter, kind \in Kind, n \in Chapter},
               book <- Seen, damaged <- hurt
AllOrNothing == Book!BookSpec

(***************************************************************************)
(* "the user has the candidate status as the authoritative signal of       *)
(* commit success" (project_transaction.py:166-171): even after a stop or  *)
(* a failed rollback, a candidate the last operation marked as confirmed   *)
(* has every file of its confirmation.                                     *)
(***************************************************************************)
Marker(kind) ==
  CASE kind = "confirm" -> "candidate"
    [] kind = "confirm_rewrite" -> "revision"
    [] kind = "confirm_repair" -> "repair"

ConfirmedMeansWritten ==
  \A kind \in Confirmation, n \in Chapter :
    disk[<<Marker(kind), n>>] = Whole(last) /\ last > 0 /\ ~Restoring
      => \A f \in Written(Plan(opening, n, kind, n)) : disk[f] = Whole(last)

===============================================================================
