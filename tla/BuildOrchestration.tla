-------------------------- MODULE BuildOrchestration --------------------------
(***************************************************************************)
(* Build orchestration, apps/api/routes/file_projects.py: a background job *)
(* that writes one task of the Build Graph after the other and, when all   *)
(* are completed, publishes the plan to the project.  It works beside the  *)
(* Workbench: requests and root synchronization are refused while it is    *)
(* active, an author's edits of artifacts and project fields are not.      *)
(*                                                                         *)
(* The job holds the project lock for one look at the graph at a time.  It *)
(* carries the graph revision and the project revision it expects from one *)
(* look to the next, adds what it persisted itself, and stops at the first *)
(* difference.  Its last record on disk (latest.json) survives the process *)
(* and names the run a stopped server left behind.                         *)
(*                                                                         *)
(* Abstracted: the graph revision the job expects, as how far the graph is *)
(* ahead of it; the project's materialization marker, as whether it names  *)
(* the current revisions (they never go back); progress fields of the job. *)
(***************************************************************************)
EXTENDS BuildWorkbench

CONSTANT Place   \* Place[t]: where t stands in ordered_task_ids

ASSUME OrchestrationAssumption ==
  /\ Place \in [Task -> Nat]
  /\ \A t, u \in Task : Place[t] = Place[u] => t = u
  /\ \A t \in Task : \A d \in Deps[t] : Place[d] < Place[t]

VARIABLES
  job,     \* the active orchestration
  left,    \* the run that latest.json names for an interrupted job
  ready,   \* pipeline_stage = "environment_ready"
  marked   \* the materialization marker names every task's current revision

jobVars == <<job, left, ready, marked>>
boVars == <<wbVars, jobVars>>

Mode == {"next", "continue", "rebuild_stale"}
NoJob == [at |-> "none"]
NoTurn == [task |-> Root]

\* The task in hand: once it was chosen, while its run is open, and when what
\* was written is to be counted
Turn == [task: Task]
   \cup [task: Task, run: RunId, held: TaskState]
   \cup [task: Task, wrote: {1, 2}]

\* Bound: the job asks only whether the graph is ahead by 0, 1 or 2
Capped(n) == IF n > 3 THEN 3 ELSE n

Job == [at: {"choosing", "chosen", "working", "counting"}, mode: Mode,
        seen: World,             \* project_revision when the job was started
        ahead: 0..3,             \* graph_revision minus expected_graph_revision
        others: BOOLEAN,         \* history: somebody else changed the graph
        done: SUBSET Task,       \* completed_task_ids
        turn: Turn]

BOInit ==
  /\ WBInit
  /\ job = NoJob /\ left = NoRun
  /\ ready = FALSE /\ marked = FALSE

Active == job # NoJob

-------------------------------------------------------------------------------
(* The project's stage *)

\* Mutant: an edit or commit leaves the stage alone
StageKept(changed) == UNCHANGED ready

\* _invalidate_workbench_readiness, called by whoever is about to write an
\* artifact
Demoted(changed) == ready' = (ready /\ ~changed)

Remarked == marked' = (marked /\ \A t \in Task : task'[t].rev = task[t].rev)

-------------------------------------------------------------------------------
(* The job *)

\* A run the interrupted job's record names is given up when the next job is
\* started, if its task still names it
ReleaseInterrupted ==
  IF left # NoRun /\ task[runs[left].task].run = left
  THEN ConflictRun(left, ReleasedAsStale(left)) ELSE UNCHANGED vars

\* Starting: any open run in the graph refuses the job, after the release
Start(mode) ==
  /\ ~Active /\ SourcesCurrent
  /\ ReleaseInterrupted
  /\ left' = NoRun
  /\ \/ job' = NoJob
     \/ /\ Idle'
        /\ job' = [at |-> "choosing", mode |-> mode, seen |-> world, ahead |-> 0,
                   others |-> FALSE, done |-> {}, turn |-> NoTurn]
  /\ UNCHANGED <<requestVars, ready, marked>>

\* Graph and project are what the job expects: asked before everything it does
AsExpected == job.ahead = 0 /\ world = job.seen

\* Mutant: completed tasks are rebuilt as well
WorkableAgain(mode) ==
  {t \in Task : /\ task[t].status \in {"ready", "stale", "validation_failed", "completed"}
                /\ DependenciesComplete(task, t)}

Workable(mode) ==
  {t \in Task :
     /\ task[t].status \in IF mode = "rebuild_stale" THEN {"stale"}
                           ELSE {"ready", "stale", "validation_failed"}
     /\ \A d \in Deps[t] : task[d].status = "completed"}

\* _next_build_orchestration_task
IsNext(t) ==
  t \in Workable(job.mode) /\ \A u \in Workable(job.mode) : Place[t] <= Place[u]

\* "next" is content with one task
NothingLeft == Workable(job.mode) = {} \/ (job.mode = "next" /\ job.done # {})

Choose(t) ==
  /\ job.at = "choosing" /\ AsExpected
  /\ ~NothingLeft /\ IsNext(t)
  /\ job' = [job EXCEPT !.at = "chosen", !.turn = [task |-> t]]
  /\ UNCHANGED <<wbVars, left, ready, marked>>

\* publish or commit_build_graph_materialization: the project takes the plan
\* over, with the marker, in one transaction
Publish ==
  /\ job.at = "choosing" /\ AsExpected /\ NothingLeft
  /\ \A t \in Task : task[t].status = "completed"
  /\ job' = NoJob
  /\ ready' = TRUE /\ marked' = TRUE
  /\ UNCHANGED <<wbVars, left>>

\* The job ends without having written anything more: something is not as it
\* expects, it is blocked, there is nothing to publish, or an error was raised
StopHere ==
  /\ job.at \in {"choosing", "chosen"}
  /\ job' = NoJob
  /\ UNCHANGED <<wbVars, left, ready, marked>>

\* Phase A of a task's run, and its id in the job's record
Begin(r) ==
  LET t == job.turn.task IN
  /\ job.at = "chosen" /\ AsExpected
  /\ t # Root
  /\ StartRun(t, r, task[t].rev # 0)
  /\ job' = [job EXCEPT !.at = "working", !.ahead = 1,
                        !.turn = [task |-> t, run |-> r, held |-> task[t]]]
  /\ UNCHANGED <<requestVars, left, ready, marked>>

\* The record could not be written: the run is failed before its model is called
Unrecorded(r) ==
  LET t == job.turn.task IN
  /\ job.at = "chosen" /\ AsExpected
  /\ t # Root /\ runs[r] = NoRecord
  /\ runs' = [runs EXCEPT ![r] = [status |-> "failed", task |-> t, base |-> task[t].rev,
                                  deps |-> DependencyRevisions(task, t)]]
  /\ job' = NoJob
  /\ UNCHANGED <<task, artifact, requestVars, left, ready, marked>>

\* The root, and a task the project already has a value for, are imported
Import ==
  LET t == job.turn.task IN
  /\ job.at = "chosen" /\ AsExpected
  /\ t = Root \/ task[t].rev = 0
  /\ CommitCandidate(t, task[t].rev, TRUE)
  /\ job' = [job EXCEPT !.at = "counting", !.ahead = 1,
                        !.turn = [task |-> t, wrote |-> 1]]
  /\ Demoted(TRUE) /\ Remarked
  /\ UNCHANGED <<requestVars, left>>

\* The model answered or failed.  Whatever else happens to the run, the job ends.
Work ==
  LET r == job.turn.run  moved == world # job.seen IN
  /\ job.at = "working"
  /\ \/ /\ ~moved /\ CommitRun(r, runs[r].deps)
        /\ job' = [job EXCEPT !.at = "counting", !.ahead = Capped(@ + 1),
                              !.turn = [task |-> runs[r].task, wrote |-> 2]]
        /\ Demoted(TRUE)
     \/ /\ \/ Superseded(r)
           \/ moved /\ ConflictRun(r, job.turn.held)
           \/ FailPreserving(r, job.turn.held)
           \/ RunConflict(r)
        /\ job' = NoJob
        /\ UNCHANGED ready
  /\ Remarked
  /\ UNCHANGED <<requestVars, left>>

\* Mutant: the job takes the graph's revision as its own
CountAgain ==
  /\ job.at = "counting"
  /\ job' = [job EXCEPT !.at = "choosing", !.ahead = 0,
                        !.done = @ \cup {job.turn.task}, !.turn = NoTurn]
  /\ UNCHANGED <<wbVars, left, ready, marked>>

\* The job adds its own persists to the revision it expects
Count ==
  /\ job.at = "counting"
  /\ job' = IF job.ahead = job.turn.wrote
            THEN [job EXCEPT !.at = "choosing", !.ahead = 0,
                             !.done = @ \cup {job.turn.task}, !.turn = NoTurn]
            ELSE NoJob
  /\ UNCHANGED <<wbVars, left, ready, marked>>

JobStep ==
  \/ \E t \in Task : Choose(t)
  \/ Publish
  \/ StopHere
  \/ \E r \in RunId : Begin(r) \/ Unrecorded(r)
  \/ Import
  \/ Work
  \/ Count

-------------------------------------------------------------------------------
(* The Workbench beside the job *)

RequestAnswered(r) ==
  /\ Answer(r)
  /\ Demoted(runs'[r].status = "committed") /\ Remarked
  /\ UNCHANGED <<job, left>>

RequestAdmitted ==
  /\ ~Active
  /\ \E r \in RunId, t \in Task, kind \in {"rerun", "repair"} : Admit(t, r, kind)
  /\ UNCHANGED jobVars

\* Edits do not ask for an orchestration
TaskEdited ==
  /\ \E t \in Task, seen \in 0..MaxRevision : EditTask(t, seen)
  /\ job' = IF Active THEN [job EXCEPT !.ahead = Capped(@ + 1), !.others = TRUE] ELSE job
  /\ Demoted(TRUE) /\ Remarked
  /\ UNCHANGED left

ProjectEdited == EditProject /\ UNCHANGED jobVars

\* A world-build job, which stands behind SyncInput without the opening graph,
\* leaves the stage alone
InputSynchronized ==
  /\ ~Active /\ SyncInput
  /\ Demoted(opening) /\ Remarked
  /\ UNCHANGED <<job, left>>

\* The server stops.  An edit or commit it interrupts may have demoted the
\* project already.
Stop ==
  /\ Crash
  /\ job' = NoJob
  /\ left' = IF job.at = "working" THEN job.turn.run ELSE left
  /\ ready' \in {ready, FALSE}
  /\ UNCHANGED marked

\* It stops after a run was started and before the job's record names it
StopUnrecorded ==
  /\ job.at = "chosen" /\ AsExpected /\ job.turn.task # Root
  /\ crashes < MaxCrashes /\ crashes' = crashes + 1
  /\ \E r \in RunId : StartRun(job.turn.task, r, task[job.turn.task].rev # 0)
  /\ job' = NoJob /\ call' = [r \in RunId |-> NoCall]
  /\ UNCHANGED <<opening, world, pinned, left, ready, marked>>

BONext ==
  \/ \E mode \in Mode : Start(mode)
  \/ JobStep
  \/ \E r \in RunId : RequestAnswered(r)
  \/ RequestAdmitted
  \/ TaskEdited
  \/ ProjectEdited
  \/ InputSynchronized
  \/ Stop
  \/ StopUnrecorded

BOSpec == BOInit /\ [][BONext]_boVars

-------------------------------------------------------------------------------
BOTypeOK ==
  /\ WBTypeOK
  /\ job \in Job \cup {NoJob}
  /\ left \in RunId \cup {NoRun}
  /\ ready \in BOOLEAN /\ marked \in BOOLEAN

(***************************************************************************)
(* A project with the opening graph that is labelled ready has been given  *)
(* every revision the graph holds now, whatever edits, requests, jobs and  *)
(* stops lie between: "Demote first so a crash can only leave a            *)
(* conservatively unready project" (file_projects.py:3054-3056).  Without  *)
(* the opening graph a world-build job changes the graph under the label.  *)
(***************************************************************************)
ReadyAsPublished == (opening /\ ready) => marked

(***************************************************************************)
(* Unless the server stops, an open run is always somebody's: a request or *)
(* the job waits for its model and will close it on every path ("a stale   *)
(* run cannot remain running in the manifest", service.py:682-686).  An    *)
(* open run nobody waits for refuses every later request, job and import.  *)
(***************************************************************************)
RunsAreOwned ==
  crashes = 0 =>
    \A r \in RunId : runs[r].status = "running" =>
      call[r] # NoCall \/ (job.at = "working" /\ job.turn.run = r)

Begins == job.at = "chosen" /\ job'.at \in {"working", "counting"}
Publishes == Active /\ ready' /\ ~ready

(***************************************************************************)
(* Once somebody else changed the graph the job begins no further task and *)
(* publishes nothing, although it lets go of the lock between any two of   *)
(* its steps and the change may be in the middle of its own               *)
(* (file_projects.py:3777, 3937, 4010-4015).                               *)
(***************************************************************************)
StopsForOthers == [][(Begins \/ Publishes) => ~job.others]_boVars

(***************************************************************************)
(* A job writes no task twice: committing a task makes only later ones     *)
(* stale, so "continue" and "rebuild_stale" come to an end                 *)
(* (file_projects.py:449-457, 4007-4016).                                  *)
(***************************************************************************)
EachTaskOnce == [][Begins => job.turn.task \notin job.done]_boVars

===============================================================================
