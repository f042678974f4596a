---------------------------- MODULE BuildWorkbench ----------------------------
(***************************************************************************)
(* The Build Graph under the Workbench routes of                           *)
(* apps/api/routes/file_projects.py: an author reruns or repairs a task    *)
(* with a model, edits artifacts and project fields, and synchronizes the  *)
(* root input; the server may stop at any time.                            *)
(*                                                                         *)
(* A rerun or repair request snapshots the task, starts a run under the    *)
(* project lock, calls the model without any lock, and finishes under the  *)
(* lock again.  Unlike the world-build runner it passes its snapshot to    *)
(* the service: a request that commits nothing puts the task back as it    *)
(* was.  The snapshot lives in the request's memory.                       *)
(*                                                                         *)
(* World-build jobs are not here: these routes refuse to start beside one, *)
(* and none starts while a run is active.  BuildOrchestration adds the     *)
(* orchestration job.                                                      *)
(***************************************************************************)
EXTENDS BuildGraph

CONSTANTS
  Root,            \* the imported input task every other task descends from
  ModelTask,       \* tasks a model writes: what an author may edit or rerun
  Openings,        \* whether the project uses the opening graph: {TRUE}, {FALSE} or both
  MaxCrashes       \* bound: how often the server stops

ASSUME WorkbenchAssumption ==
  /\ Root \in Task /\ Deps[Root] = {}
  /\ ModelTask \subseteq Task \ {Root}
  /\ Openings \subseteq BOOLEAN /\ Openings # {}
  /\ MaxCrashes \in Nat

VARIABLES
  opening,  \* the project uses the opening graph, which pins its sources; never changes
  call,     \* by run: the request in memory that waits for its model
  world,    \* what _project_world_revision hashes: the author's project fields
  pinned,   \* the world the planning sources were last synchronized with
  crashes

requestVars == <<opening, call, world, pinned, crashes>>
wbVars == <<vars, requestVars>>

\* Two contents of the project fields are enough: an author changes them and
\* may change them back.
World == {0, 1}

NoCall == [kind |-> "none"]
Call == [kind: {"rerun", "repair"}, held: TaskState, seen: World]

Idle == \A t \in Task : task[t].run = NoRun

\* assert_planning_sources_current
SourcesCurrent == opening => world = pinned

\* The request's expected project revision no longer matches
WorldMoved(r) == opening /\ world # call[r].seen

WBInit ==
  /\ Init
  /\ opening \in Openings
  /\ call = [r \in RunId |-> NoCall]
  /\ world = 0 /\ pinned = 0
  /\ crashes = 0

-------------------------------------------------------------------------------
(* Requests *)

\* Phase A of a rerun or a repair: admission, snapshot and start_run
Admit(t, r, kind) ==
  /\ t \in ModelTask /\ task[t].rev # 0
  /\ SourcesCurrent
  /\ StartRun(t, r, TRUE)
  /\ call' = [call EXCEPT ![r] = [kind |-> kind, held |-> task[t], seen |-> world]]
  /\ UNCHANGED <<opening, world, pinned, crashes>>

\* A run an edit has superseded answers to nobody: every service call on it
\* raises and changes nothing
Superseded(r) == runs[r].status # "running" /\ UNCHANGED vars

\* Mutant: a failed request puts its snapshot back unconditionally
FailAnyway(r, released) ==
  /\ runs[r].status = "running"
  /\ task' = [task EXCEPT ![runs[r].task] = released]
  /\ runs' = Finish(runs, r, "failed")
  /\ UNCHANGED artifact

\* fail_run for a request, or commit_run with a candidate that fails
FailPreserving(r, released) == FailRun(r, released)

\* Mutant: the request gives up without telling the graph
GiveUpSilently(r) == WorldMoved(r) /\ runs[r].status = "running" /\ UNCHANGED vars

\* The author changed the project while the model worked
GiveUp(r) == WorldMoved(r) /\ ConflictRun(r, call[r].held)

\* Phase C of a rerun looks at the project before it looks at the graph
FinishRerun(r) ==
  /\ call[r].kind = "rerun"
  /\ \/ Superseded(r)
     \/ GiveUp(r)
     \/ ~WorldMoved(r) /\ (CommitRun(r, runs[r].deps) \/ RunConflict(r))

\* Phase C of a repair looks at the graph first: the project is checked by
\* before_commit, inside commit_run
FinishRepair(r) ==
  /\ call[r].kind = "repair"
  /\ \/ Superseded(r)
     \/ RunConflict(r)
     \/ RunIsCurrent(r) /\ GiveUp(r)
     \/ ~WorldMoved(r) /\ CommitRun(r, runs[r].deps)

\* No usable answer from the model
ModelFails(r) ==
  /\ call[r] # NoCall
  /\ Superseded(r) \/ FailPreserving(r, call[r].held) \/ RunConflict(r)

Answer(r) ==
  /\ FinishRerun(r) \/ FinishRepair(r) \/ ModelFails(r)
  /\ call' = [call EXCEPT ![r] = NoCall]
  /\ UNCHANGED <<opening, world, pinned, crashes>>

-------------------------------------------------------------------------------
(* The author and the server *)

\* The edit route validates the payload first, so a failing edit changes nothing
EditTask(t, seen) ==
  /\ t \in ModelTask
  /\ SourcesCurrent
  /\ EditArtifact(t, seen, TRUE)
  /\ UNCHANGED requestVars

EditProject ==
  /\ world' = 1 - world
  /\ UNCHANGED <<opening, vars, call, pinned, crashes>>

\* sync_input (and, without the opening graph, the import of the root by a job
\* that only starts while no run is active)
SyncInput ==
  /\ Idle
  /\ CommitCandidate(Root, task[Root].rev, TRUE)
  /\ pinned' = world
  /\ UNCHANGED <<opening, call, world, crashes>>

\* The process stops: its requests are gone, their runs are still in the manifest
Crash ==
  /\ crashes < MaxCrashes
  /\ crashes' = crashes + 1
  /\ call' = [r \in RunId |-> NoCall]
  /\ UNCHANGED <<opening, vars, world, pinned>>

WBNext ==
  \/ \E r \in RunId : Answer(r)
  \/ \E r \in RunId, t \in Task, kind \in {"rerun", "repair"} : Admit(t, r, kind)
  \/ \E t \in Task, seen \in 0..MaxRevision : EditTask(t, seen)
  \/ EditProject
  \/ SyncInput
  \/ Crash

\* A model call ends: it is bounded by a timeout.  Nothing is assumed of the
\* author.
Fairness == \A r \in RunId : WF_wbVars(Answer(r))

WBSpec == WBInit /\ [][WBNext]_wbVars /\ Fairness

-------------------------------------------------------------------------------
WBTypeOK ==
  /\ TypeOK
  /\ opening \in Openings
  /\ call \in [RunId -> Call \cup {NoCall}]
  /\ world \in World /\ pinned \in World
  /\ crashes \in 0..MaxCrashes

(***************************************************************************)
(* In a project without the opening graph the requests that put a snapshot *)
(* back keep what the Build Graph alone ensures: what may be used was made *)
(* from what is current, and nothing stale is used again without a new     *)
(* revision.  (With the opening graph a request gives up and restores its  *)
(* snapshot even when an edit has overtaken it.)  service.py:346-358,      *)
(* file_projects.py:3056-3065.                                             *)
(***************************************************************************)
FreshUnlessOpening == ~opening => UsableIsFresh

NoRevivalUnlessOpening ==
  [][\A t \in Task :
       (~opening /\ task[t].status = "stale" /\ task'[t].status \in {"completed", "review_required"})
         => task'[t].rev = task[t].rev + 1]_wbVars

(***************************************************************************)
(* Putting a snapshot back never takes away a revision that was committed  *)
(* while the model worked (service.py:346-358, 606-616).                   *)
(***************************************************************************)
RevisionsNeverGoBack ==
  [][\A t \in Task : task'[t].rev >= task[t].rev]_wbVars

===============================================================================
