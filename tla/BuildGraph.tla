------------------------------ MODULE BuildGraph ------------------------------
(***************************************************************************)
(* The versioned Build Graph: packages/story_core/build_graph.             *)
(*                                                                         *)
(* A project is planned by a DAG of tasks.  Each task owns a history of    *)
(* immutable artifact revisions; the manifest says which revision is       *)
(* current, whether it may be used ("completed"), and which run, if any,   *)
(* is writing the next one.  BuildGraphService re-reads the manifest under *)
(* the project lock in every operation and persists one whole next         *)
(* manifest, so one operation is one action here.  The model call between  *)
(* start_run and commit_run/fail_run happens outside the lock: runs are    *)
(* the concurrent actors.                                                  *)
(*                                                                         *)
(* This module is the service with the callers that pass no saved task     *)
(* state (the world-build runner and the human editor); BuildWorkbench     *)
(* adds the callers that do.                                               *)
(*                                                                         *)
(* Abstracted: payloads, diagnostics, timestamps and validation_status     *)
(* (never read by the service); graph_revision, which counts persists; the *)
(* validator and ownership check are one nondeterministic verdict.         *)
(***************************************************************************)
EXTENDS Naturals, Sequences

CONSTANTS
  Task,         \* task ids of the graph definition
  Deps,         \* Deps[t]: the tasks t declares as dependencies
  ReviewTask,   \* tasks whose review_policy is "review"
  RunId,        \* ids the run_id_factory may hand out
  NoRun,        \* active_run_id = None
  MaxRevision   \* bound: no task is revised more often

(***************************************************************************)
(* Every task that depends on t, directly or not: the least set closed     *)
(* under "has a dependency in the set or on t".                            *)
(***************************************************************************)
ClosedBelow(t, S) ==
  \A c \in Task : (t \in Deps[c] \/ Deps[c] \cap S # {}) => c \in S

Descendants ==
  [t \in Task |->
     {c \in Task : \A S \in SUBSET Task : ClosedBelow(t, S) => c \in S}]

ASSUME GraphAssumption ==
  /\ Deps \in [Task -> SUBSET Task]
  /\ \A t \in Task : t \notin Descendants[t]   \* the definition is acyclic
  /\ ReviewTask \subseteq Task
  /\ NoRun \notin RunId
  /\ MaxRevision \in Nat

VARIABLES
  task,      \* the manifest: what each task's record says
  runs,      \* run records, by id
  artifact   \* artifact[t][n]: the immutable file of revision n of t

vars == <<task, runs, artifact>>

Status == {"blocked", "ready", "running", "validation_failed",
           "review_required", "completed", "stale"}

\* Revision 0 stands for None, in a task and in a record of dependencies.
Revisions == [Task -> Nat]

TaskState ==
  [status: Status, rev: Nat, run: RunId \cup {NoRun}, deps: Revisions]

BuildRun ==
  [status: {"running", "committed", "failed", "conflict"},
   task: Task, base: Nat, deps: Revisions]

NoRecord == [status |-> "absent"]   \* no run of that id in the manifest

\* What the writer of a revision had in front of it: the revision it replaces
\* and the dependency revisions it read.
Artifact == [basis: Nat, inputs: Revisions]

NoDeps == [d \in Task |-> 0]

-------------------------------------------------------------------------------
(* Pure helpers over a manifest tk *)

\* _dependency_revisions, when it does not raise
DependenciesComplete(tk, t) ==
  \A d \in Deps[t] : tk[d].status = "completed" /\ tk[d].rev # 0

DependencyRevisions(tk, t) ==
  [d \in Task |-> IF d \in Deps[t] THEN tk[d].rev ELSE 0]

\* _mark_descendants_stale: the breadth-first walk from t
StatusBelow(s) ==
  IF s.rev # 0 THEN "stale" ELSE IF s.status # "running" THEN "blocked" ELSE "running"

MarkDescendantsStale(tk, t) ==
  [c \in Task |-> IF c \in Descendants[t]
                  THEN [tk[c] EXCEPT !.status = StatusBelow(tk[c])] ELSE tk[c]]

\* Mutant: the refresh forgets that a run may be writing the task
RefreshableWhileRunning(s) ==
  /\ s.rev = 0
  /\ s.status \notin {"validation_failed", "review_required", "completed", "stale"}

\* _refresh_unmaterialized_tasks.  The loop visits tasks in dependency order,
\* but it only looks at completed dependencies and never completes a task, so
\* every task can be judged from the manifest it started with.
Refreshable(s) ==
  /\ s.rev = 0 /\ s.run = NoRun
  /\ s.status \notin {"validation_failed", "review_required", "completed", "stale"}

\* Mutant: the refresh also brings back tasks that have an artifact
RefreshStaleToo(tk) ==
  [t \in Task |->
     IF tk[t].status = "stale" /\ DependenciesComplete(tk, t)
     THEN [tk[t] EXCEPT !.status = "completed"]
     ELSE IF Refreshable(tk[t])
     THEN [tk[t] EXCEPT !.status =
             IF DependenciesComplete(tk, t) THEN "ready" ELSE "blocked"]
     ELSE tk[t]]

RefreshUnmaterialized(tk) ==
  [t \in Task |->
     IF Refreshable(tk[t])
     THEN [tk[t] EXCEPT !.status =
             IF DependenciesComplete(tk, t) THEN "ready" ELSE "blocked"]
     ELSE tk[t]]

Propagate(tk, t) == RefreshUnmaterialized(MarkDescendantsStale(tk, t))

\* The manifest after a passing candidate for t is committed
Committed(tk, t) ==
  Propagate([tk EXCEPT ![t] =
               [status |-> IF t \in ReviewTask THEN "review_required" ELSE "completed",
                rev    |-> tk[t].rev + 1,
                run    |-> NoRun,
                deps   |-> DependencyRevisions(tk, t)]], t)

\* A failed candidate keeps the artifact and names the task as failed
Rejected(tk, t) ==
  [tk EXCEPT ![t].status = "validation_failed", ![t].run = NoRun]

\* Mutant: the closed run is written as a fresh record
FinishBare(rs, r, how) == [rs EXCEPT ![r] = [status |-> how]]

Finish(rs, r, how) == [rs EXCEPT ![r].status = how]

\* _mark_active_run_conflict: whoever was writing t loses its run
Supersede(tk, t) == [tk EXCEPT ![t].run = NoRun]

\* Mutant: the task forgets the run, the run record stays open
ForgottenRuns(t) == runs

SupersededRuns(t) ==
  [r \in RunId |-> IF task[t].run = r /\ runs[r].status = "running"
                   THEN [runs[r] EXCEPT !.status = "conflict"] ELSE runs[r]]

\* BuildGraphStore.persist refuses to overwrite an artifact revision, so the
\* next revision is written only where no file is.
WriteArtifact(t, basis, inputs) ==
  /\ task[t].rev < MaxRevision
  /\ task[t].rev + 1 \notin DOMAIN artifact[t]
  /\ artifact' = [artifact EXCEPT ![t] = Append(@, [basis |-> basis, inputs |-> inputs])]

-------------------------------------------------------------------------------
(* BuildGraphStore.initialize *)
Init ==
  /\ task = [t \in Task |->
               [status |-> IF Deps[t] = {} THEN "ready" ELSE "blocked",
                rev |-> 0, run |-> NoRun, deps |-> NoDeps]]
  /\ runs = [r \in RunId |-> NoRecord]
  /\ artifact = [t \in Task |-> <<>>]

\* start_run; "again" is allow_completed_with_artifact
StartRun(t, r, again) ==
  /\ runs[r] = NoRecord
  /\ task[t].run = NoRun
  /\ \/ task[t].status \in {"ready", "stale", "validation_failed"}
     \/ again /\ task[t].status = "completed" /\ task[t].rev # 0
  /\ DependenciesComplete(task, t)
  /\ task' = [task EXCEPT ![t].status = "running", ![t].run = r]
  /\ runs' = [runs EXCEPT ![r] =
                [status |-> "running", task |-> t, base |-> task[t].rev,
                 deps |-> DependencyRevisions(task, t)]]
  /\ UNCHANGED artifact

\* Mutant: the dependencies are complete again, but perhaps not the same
RunOwnsTask(r) ==
  LET t == runs[r].task IN
  /\ task[t].run = r
  /\ DependenciesComplete(task, t)
  /\ task[t].rev = runs[r].base

\* _assert_run_current_locked: the run still owns the snapshot it started from
RunIsCurrent(r) ==
  LET t == runs[r].task IN
  /\ task[t].run = r
  /\ DependenciesComplete(task, t)
  /\ task[t].rev = runs[r].base
  /\ DependencyRevisions(task, t) = runs[r].deps

\* _run_conflict_locked.  "released" is the record the task falls back to when
\* the run still owns it.
Conflict(r, released) ==
  LET t == runs[r].task IN
  /\ task' = IF task[t].run = r THEN [task EXCEPT ![t] = released] ELSE task
  /\ runs' = Finish(runs, r, "conflict")
  /\ UNCHANGED artifact

ReleasedAsStale(r) == [task[runs[r].task] EXCEPT !.status = "stale", !.run = NoRun]

\* A run that lost its snapshot is a conflict whatever it came to report
RunConflict(r) ==
  /\ runs[r].status = "running"
  /\ ~RunIsCurrent(r)
  /\ Conflict(r, ReleasedAsStale(r))

\* commit_run with a candidate that passes; "inputs" are the dependency revisions
\* the model call was given
CommitRun(r, inputs) ==
  LET t == runs[r].task IN
  /\ runs[r].status = "running"
  /\ RunIsCurrent(r)
  /\ WriteArtifact(t, runs[r].base, inputs)
  /\ task' = Committed(task, t)
  /\ runs' = Finish(runs, r, "committed")

\* fail_run, and commit_run with a candidate that fails: both record the run as
\* failed.  "released" is the record the task is left with.
FailRun(r, released) ==
  /\ runs[r].status = "running"
  /\ RunIsCurrent(r)
  /\ task' = [task EXCEPT ![runs[r].task] = released]
  /\ runs' = Finish(runs, r, "failed")
  /\ UNCHANGED artifact

ReleasedAsFailed(r) == Rejected(task, runs[r].task)[runs[r].task]

\* conflict_run: the caller gives the run up
ConflictRun(r, released) ==
  /\ runs[r].status = "running"
  /\ Conflict(r, released)

\* commit_candidate: an imported value, committed without a run.  "seen" is the
\* revision its author last read (expected_revision).
CommitCandidate(t, seen, passed) ==
  /\ seen = task[t].rev
  /\ task[t].run = NoRun
  /\ DependenciesComplete(task, t)
  /\ IF passed
     THEN /\ WriteArtifact(t, seen, DependencyRevisions(task, t))
          /\ task' = Committed(task, t)
     ELSE /\ task' = Rejected(task, t)
          /\ UNCHANGED artifact
  /\ UNCHANGED runs

\* Mutant: the edit commits beside the run that is writing the task
EditBesideRun(t, seen, passed) ==
  /\ seen = task[t].rev
  /\ passed /\ DependenciesComplete(task, t)
  /\ WriteArtifact(t, seen, DependencyRevisions(task, t))
  /\ task' = [Committed(task, t) EXCEPT ![t].run = task[t].run]
  /\ UNCHANGED runs

\* Mutant: the edit is not tied to the revision its author saw
EditUnseen(t, seen, passed) ==
  /\ DependenciesComplete(task, t)
  /\ runs' = SupersededRuns(t)
  /\ IF passed
     THEN /\ WriteArtifact(t, seen, DependencyRevisions(task, t))
          /\ task' = Committed(Supersede(task, t), t)
     ELSE /\ task' = Rejected(Supersede(task, t), t)
          /\ UNCHANGED artifact

\* edit_artifact: a human edit takes the task from a run that is writing it
EditArtifact(t, seen, passed) ==
  /\ seen = task[t].rev
  /\ DependenciesComplete(task, t)
  /\ runs' = SupersededRuns(t)
  /\ IF passed
     THEN /\ WriteArtifact(t, seen, DependencyRevisions(task, t))
          /\ task' = Committed(Supersede(task, t), t)
     ELSE /\ task' = Rejected(Supersede(task, t), t)
          /\ UNCHANGED artifact

\* revalidate_current: the current payload becomes a new revision
RevalidateCurrent(t, passed) ==
  /\ task[t].rev # 0
  /\ CommitCandidate(t, task[t].rev, passed)

\* invalidate_task
InvalidateTask(t) ==
  /\ task' = Propagate(Rejected(Supersede(task, t), t), t)
  /\ runs' = SupersededRuns(t)
  /\ UNCHANGED artifact

\* Mutant: accepting unlocks nobody
AcceptReviewOnly(t, seen) ==
  /\ seen = task[t].rev
  /\ task[t].status = "review_required"
  /\ task' = [task EXCEPT ![t].status = "completed"]
  /\ UNCHANGED <<runs, artifact>>

\* accept_review
AcceptReview(t, seen) ==
  /\ seen = task[t].rev
  /\ task[t].status = "review_required"
  /\ task' = RefreshUnmaterialized([task EXCEPT ![t].status = "completed"])
  /\ UNCHANGED <<runs, artifact>>

-------------------------------------------------------------------------------
\* What an author, an importer or the deterministic aggregator may ask for
Author ==
  \E t \in Task :
    \/ InvalidateTask(t)
    \/ \E seen \in 0..MaxRevision : AcceptReview(t, seen)
    \/ \E passed \in BOOLEAN :
         \/ RevalidateCurrent(t, passed)
         \/ \E seen \in 0..MaxRevision :
              EditArtifact(t, seen, passed) \/ CommitCandidate(t, seen, passed)

Runner ==
  \E r \in RunId :
    \/ \E t \in Task : StartRun(t, r, FALSE)
    \/ RunConflict(r)
    \/ CommitRun(r, runs[r].deps)
    \/ FailRun(r, ReleasedAsFailed(r))
    \/ ConflictRun(r, ReleasedAsStale(r))

Next == Author \/ Runner

Spec == Init /\ [][Next]_vars

-------------------------------------------------------------------------------
\* Every record has the shape the contracts give it.
TypeOK ==
  /\ task \in [Task -> TaskState]
  /\ runs \in [RunId -> BuildRun \cup {NoRecord}]
  /\ artifact \in [Task -> Seq(Artifact)]

(***************************************************************************)
(* A run and a task point at each other: the task a live run writes names  *)
(* that run and still has the revision the run started from, and a task    *)
(* names only live runs.  (A run left "running" that no task names would   *)
(* never be reported; two live runs on one task would both write the next  *)
(* revision.)  service.py:200-223, 275-384.                                *)
(***************************************************************************)
OneWriterPerTask ==
  /\ \A r \in RunId : runs[r].status = "running" =>
       LET t == runs[r].task IN task[t].run = r /\ task[t].rev = runs[r].base
  /\ \A t \in Task : task[t].run # NoRun =>
       runs[task[t].run].status = "running" /\ runs[task[t].run].task = t

(***************************************************************************)
(* The manifest points at the newest artifact file, and each file replaced *)
(* the revision its writer had read: no edit, import or model result is    *)
(* ever committed over a revision its author did not see.                  *)
(* service.py:113-137, 426-440; store.py:157-183.                          *)
(***************************************************************************)
NoLostRevision ==
  \A t \in Task :
    /\ task[t].rev = Len(artifact[t])
    /\ \A n \in 1..Len(artifact[t]) : artifact[t][n].basis = n - 1

(***************************************************************************)
(* A task that may be used (completed, or waiting only for a reviewer) was *)
(* made from the current revision of each of its dependencies: what the    *)
(* writer read, possibly long before it committed, is what the graph still *)
(* says.  service.py:92-111, 147-173, 364-384.                             *)
(***************************************************************************)
UsableIsFresh ==
  \A t \in Task : task[t].status \in {"completed", "review_required"} =>
    /\ task[t].rev # 0
    /\ \A d \in Deps[t] : artifact[t][task[t].rev].inputs[d] = task[d].rev

(***************************************************************************)
(* No task is left blocked once its dependencies are completed: the        *)
(* refresh reaches every task it unlocks (service.py:175-198).             *)
(***************************************************************************)
NoTaskLeftBlocked ==
  \A t \in Task : task[t].status = "blocked" => ~DependenciesComplete(task, t)

(***************************************************************************)
(* A stale task becomes usable again only by a new revision: "it must be   *)
(* revalidated or regenerated explicitly" (service.py:178-181).            *)
(***************************************************************************)
StaleNeedsNewRevision ==
  [][\A t \in Task :
       (task[t].status = "stale" /\ task'[t].status \in {"completed", "review_required"})
         => task'[t].rev = task[t].rev + 1]_vars

(***************************************************************************)
(* The inductive invariant.  Beyond the properties above it says what a    *)
(* task without an artifact looks like while nobody, or somebody, writes   *)
(* it: that is what makes the refresh see every blocked task.              *)
(***************************************************************************)
UnwrittenTasks ==
  \A t \in Task :
    /\ task[t].status = "blocked" => task[t].rev = 0 /\ task[t].run = NoRun
    /\ task[t].rev = 0 /\ task[t].run # NoRun => task[t].status = "running"

IInv ==
  /\ TypeOK
  /\ OneWriterPerTask
  /\ NoLostRevision
  /\ UsableIsFresh
  /\ NoTaskLeftBlocked
  /\ UnwrittenTasks

===============================================================================
