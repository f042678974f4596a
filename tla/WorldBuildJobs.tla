---------------------------- MODULE WorldBuildJobs ----------------------------
(***************************************************************************)
(* World-build jobs: apps/api/routes/file_projects.py 365-393, 550-972 and *)
(* the checks the graph runner makes for them (world_build/runner.py).     *)
(*                                                                         *)
(* One project.  A job is a record in memory and on disk, the project's    *)
(* active-job slot, and a thread of a one-worker executor that drives the  *)
(* Build Graph task by task and at the end publishes the result over the   *)
(* project's world fields.  The author may edit those fields, start jobs   *)
(* and poll them at any time; the server may stop.                         *)
(*                                                                         *)
(* Abstracted: the graph to the one run a job may hold, and how many tasks *)
(* are left (a focused repair run counts as one task more); progress       *)
(* fields of the record; unexpected I/O errors outside the model's call.   *)
(***************************************************************************)
EXTENDS Naturals, Sequences, FiniteSets

CONSTANTS
  Job,         \* job ids
  NoJob,       \* no job: an empty slot, nobody's run, nothing built
  MaxTasks,    \* bound: tasks a job finds to do
  MaxEdits,    \* bound: edits of the author
  MaxCrashes   \* bound: how often the server stops

ASSUME JobsAssumption ==
  /\ NoJob \notin Job
  /\ MaxTasks \in Nat /\ MaxEdits \in Nat /\ MaxCrashes \in Nat

VARIABLES
  job,       \* _world_build_jobs: the records in memory
  slot,      \* _active_world_build_jobs[project]
  disk,      \* status in the job's own file
  latest,    \* the job whose record is in latest.json
  queue,     \* jobs submitted to the executor; the head is on the worker
  pc,        \* where the job's thread is
  left,      \* graph tasks the job still finds to do
  snapshot,  \* the author edit the job's copy of the project includes
  world,     \* world_revision: last author edit included, last job published
  run,       \* the job whose Build Graph run is active in the manifest
  crashes

vars == <<job, slot, disk, latest, queue, pc, left, snapshot, world, run, crashes>>
memory == <<job, slot, disk, latest>>

Active == {"queued", "running"}
Terminal == {"conflicted", "completed", "failed", "interrupted"}

World == [author: 0..MaxEdits, built: Job \cup {NoJob}]

Record == [status: Active \cup Terminal, seen: World]
NoRecord == [status |-> "absent"]

Place == {"none", "queued", "snapshot", "loop", "start", "calling", "commit",
          "enriched", "publish", "published", "giveup", "closing"}

InMemory == {j \in Job : job[j] # NoRecord}

\* _has_active_world_build_job
HasActive == slot \in InMemory /\ job[slot].status \in Active

Init ==
  /\ job = [j \in Job |-> NoRecord]
  /\ slot = NoJob
  /\ disk = [j \in Job |-> "absent"]
  /\ latest = NoJob
  /\ queue = <<>>
  /\ pc = [j \in Job |-> "none"]
  /\ left = [j \in Job |-> 0]
  /\ snapshot = [j \in Job |-> 0]
  /\ world = [author |-> 0, built |-> NoJob]
  /\ run = NoJob
  /\ crashes = 0

-------------------------------------------------------------------------------
(* Job records *)

\* _persist_world_build_job writes the job's file and latest.json
Persist(j, status) ==
  /\ disk' = [disk EXCEPT ![j] = status]
  /\ latest' = j

\* _update_world_build_job: a job no longer in memory is left alone, and a
\* terminal status is final
Update(j, status, seen) ==
  IF job[j] = NoRecord THEN UNCHANGED memory
  ELSE LET s == IF job[j].status \in Terminal THEN job[j].status ELSE status IN
       /\ job' = [job EXCEPT ![j] = [status |-> s, seen |-> seen]]
       /\ Persist(j, s)
       /\ UNCHANGED slot

SetStatus(j, status) == Update(j, status, IF j \in InMemory THEN job[j].seen ELSE world)

IsTerminal(j) == j \in InMemory /\ job[j].status \in Terminal

\* What _check_world_build_conflict finds; it then records the revision it saw
AuthorEdited(j) == j \in InMemory /\ job[j].seen # world
MarkConflicted(j) == Update(j, "conflicted", world)

Goto(j, place) == pc' = [pc EXCEPT ![j] = place]

OnWorker(j, place) == queue # <<>> /\ Head(queue) = j /\ pc[j] = place

-------------------------------------------------------------------------------
(* The author's requests *)

\* _start_world_build_job.  Beside an active job the route answers with that
\* job; beside an active graph run it answers 409.
StartJob(j) ==
  /\ disk[j] = "absent"
  /\ ~HasActive
  /\ run = NoJob
  /\ job' = [job EXCEPT ![j] = [status |-> "queued", seen |-> world]]
  /\ slot' = j
  /\ Persist(j, "queued")
  /\ queue' = Append(queue, j)
  /\ Goto(j, "queued")
  /\ UNCHANGED <<left, snapshot, world, run, crashes>>

\* Mutant: a record found active on disk is answered as it is
ReconcileNothing(j) == UNCHANGED memory

\* _reconcile_world_build_job, on a record read from disk
Reconcile(j) ==
  /\ disk[j] \in Active
  /\ Persist(j, "interrupted")
  /\ slot' = NoJob
  /\ job' = [job EXCEPT ![j] = NoRecord]

\* GET .../current falls back on latest.json, GET .../{job_id} on the job's file
Poll(j) ==
  /\ \/ slot \notin InMemory /\ latest = j
     \/ j \notin InMemory
  /\ Reconcile(j)
  /\ UNCHANGED <<queue, pc, left, snapshot, world, run, crashes>>

EditWorld ==
  /\ world.author < MaxEdits
  /\ world' = [world EXCEPT !.author = @ + 1]
  /\ UNCHANGED <<memory, queue, pc, left, snapshot, run, crashes>>

Crash ==
  /\ crashes < MaxCrashes
  /\ crashes' = crashes + 1
  /\ job' = [j \in Job |-> NoRecord]
  /\ slot' = NoJob
  /\ queue' = <<>>
  /\ pc' = [j \in Job |-> "none"]
  /\ UNCHANGED <<disk, latest, left, snapshot, world, run>>

-------------------------------------------------------------------------------
(* The job's thread *)

\* cancel_check and the guards around it: go on to "next", or mark the job
\* conflicted and unwind
Check(j, place, next) ==
  /\ OnWorker(j, place)
  /\ IF IsTerminal(j) THEN Goto(j, "giveup") /\ UNCHANGED memory
     ELSE IF AuthorEdited(j) THEN Goto(j, "giveup") /\ MarkConflicted(j)
     ELSE Goto(j, next) /\ UNCHANGED memory
  /\ UNCHANGED <<queue, left, snapshot, world, run, crashes>>

\* The thread's copy of the project, read without a lock
ReadProject(j) ==
  /\ OnWorker(j, "snapshot")
  /\ snapshot' = [snapshot EXCEPT ![j] = world.author]
  /\ \E n \in 0..MaxTasks : left' = [left EXCEPT ![j] = n]
  /\ Goto(j, "loop")
  /\ UNCHANGED <<memory, queue, world, run, crashes>>

\* start_run and the first progress report.  Another run on the task is an
\* error, and the job fails.
StartTask(j) ==
  /\ OnWorker(j, "start")
  /\ IF run = NoJob
     THEN /\ run' = j
          /\ SetStatus(j, "running")
          /\ Goto(j, "calling")
     ELSE /\ SetStatus(j, "failed")
          /\ Goto(j, "closing")
          /\ UNCHANGED run
  /\ UNCHANGED <<queue, left, snapshot, world, crashes>>

\* The model's answer is committed, or the run fails and the job with it
CommitTask(j) ==
  /\ OnWorker(j, "commit")
  /\ run' = NoJob
  /\ \/ /\ Goto(j, "loop")
        /\ left' = [left EXCEPT ![j] = @ - 1]
        /\ UNCHANGED memory
     \/ /\ Goto(j, "closing")
        /\ SetStatus(j, "failed")
        /\ UNCHANGED left
  /\ UNCHANGED <<queue, snapshot, world, crashes>>

\* Mutant: the enriched project is written without comparing revisions
PublishAnyway(j) ==
  /\ OnWorker(j, "publish")
  /\ world' = [author |-> snapshot[j], built |-> j]
  /\ Goto(j, "published")
  /\ UNCHANGED <<memory, queue, left, snapshot, run, crashes>>

\* commit_build_graph_materialization under the project lock.  The expected
\* revision comes from the job's record; without a record nothing is expected.
Publish(j) ==
  /\ OnWorker(j, "publish")
  /\ IF AuthorEdited(j)
     THEN /\ MarkConflicted(j)
          /\ Goto(j, "giveup")
          /\ UNCHANGED world
     ELSE /\ world' = [author |-> snapshot[j], built |-> j]
          /\ Goto(j, "published")
          /\ UNCHANGED memory
  /\ UNCHANGED <<queue, left, snapshot, run, crashes>>

Complete(j) ==
  /\ OnWorker(j, "published")
  /\ SetStatus(j, "completed")
  /\ Goto(j, "closing")
  /\ UNCHANGED <<queue, left, snapshot, world, run, crashes>>

\* Mutant: a cancelled job leaves its run to the graph
GiveUpQuietly(j) ==
  /\ OnWorker(j, "giveup")
  /\ Goto(j, "closing")
  /\ UNCHANGED <<memory, queue, left, snapshot, world, run, crashes>>

\* _ensure_active: conflict_run on the job's own run, then the exception
GiveUp(j) ==
  /\ OnWorker(j, "giveup")
  /\ run' = IF run = j THEN NoJob ELSE run
  /\ Goto(j, "closing")
  /\ UNCHANGED <<memory, queue, left, snapshot, world, crashes>>

\* Mutant: the slot is kept until somebody asks
CloseKeepingSlot(j) ==
  /\ OnWorker(j, "closing")
  /\ queue' = Tail(queue)
  /\ Goto(j, "none")
  /\ UNCHANGED <<memory, left, snapshot, world, run, crashes>>

\* The finally clause
Close(j) ==
  /\ OnWorker(j, "closing")
  /\ slot' = NoJob
  /\ queue' = Tail(queue)
  /\ Goto(j, "none")
  /\ UNCHANGED <<job, disk, latest, left, snapshot, world, run, crashes>>

Work(j) ==
  \/ Check(j, "queued", "snapshot")
  \/ ReadProject(j)
  \/ left[j] > 0 /\ Check(j, "loop", "start")
  \/ left[j] = 0 /\ Check(j, "loop", "enriched")
  \/ StartTask(j)
  \/ Check(j, "calling", "commit")
  \/ CommitTask(j)
  \/ Check(j, "enriched", "publish")
  \/ Publish(j)
  \/ Complete(j)
  \/ GiveUp(j)
  \/ Close(j)

Next ==
  \/ \E j \in Job : StartJob(j) \/ Poll(j) \/ Work(j)
  \/ EditWorld
  \/ Crash

\* The worker keeps working (a model call is bounded by a timeout) and the page
\* that shows a job keeps polling it.
Fairness == \A j \in Job : WF_vars(Work(j)) /\ WF_vars(Poll(j))

Spec == Init /\ [][Next]_vars /\ Fairness

-------------------------------------------------------------------------------
(***************************************************************************)
(* The state's types: the slot names a record in memory, and a job has a   *)
(* place in its code exactly while the executor holds it                   *)
(* (file_projects.py:960-972, 926-928).                                    *)
(***************************************************************************)
TypeOK ==
  /\ job \in [Job -> Record \cup {NoRecord}]
  /\ slot \in InMemory \cup {NoJob}
  /\ disk \in [Job -> Active \cup Terminal \cup {"absent"}]
  /\ latest \in Job \cup {NoJob}
  /\ queue \in Seq(Job) /\ Len(queue) <= Cardinality(Job)
  /\ pc \in [Job -> Place]
  /\ \A j \in Job : pc[j] # "none" <=> \E i \in 1..Len(queue) : queue[i] = j
  /\ left \in [Job -> 0..MaxTasks]
  /\ snapshot \in [Job -> 0..MaxEdits]
  /\ world \in World
  /\ run \in Job \cup {NoJob}
  /\ crashes \in 0..MaxCrashes

\* A project's first job: nothing ended before it started
First(j) == \A k \in Job \ {j} : disk[k] = "absent"

(***************************************************************************)
(* "the job must not silently overwrite the author's edits": what a job    *)
(* publishes includes every edit the author had made                       *)
(* (file_projects.py:605-614).  The first holds as long as a project has   *)
(* had one job only, the second is meant for all of them.                  *)
(***************************************************************************)
FirstJobKeepsEdits ==
  [][(\E j \in Job : First(j)) => world'.author >= world.author]_vars
AuthorEditKept == [][world'.author >= world.author]_vars

(***************************************************************************)
(* As long as the server does not stop, a job that has ended holds no      *)
(* Build Graph run: nobody else would ever close it                        *)
(* (runner.py:200-225).                                                    *)
(***************************************************************************)
NoRunLeftBehind == crashes = 0 => (run # NoJob => pc[run] # "none")

(***************************************************************************)
(* Every job reaches a terminal status on disk, whatever the author does   *)
(* and even if the server stops (file_projects.py:550-577).                *)
(***************************************************************************)
EveryJobEnds == \A j \in Job : disk[j] \in Active ~> disk[j] \in Terminal

(***************************************************************************)
(* A job that has ended gives the slot back, so the next one can start.    *)
(***************************************************************************)
SlotReturned == slot # NoJob => pc[slot] # "none"

===============================================================================
