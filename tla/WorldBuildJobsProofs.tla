------------------------ MODULE WorldBuildJobsProofs ------------------------
(***************************************************************************)
(* Proofs about world-build jobs (file_projects.py,                        *)
(* world_build/runner.py), for every number of jobs, tasks, edits and      *)
(* stops.  SlotReturned rests on QueueOK and AbsentIsIdle (a job has one   *)
(* place in the executor's queue, and a new job has none), NoRunLeftBehind *)
(* on RunIsHeld, and FirstJobKeepsEdits on FirstIsAlone: what a project's  *)
(* first job copied lies between the revision it was started on and the    *)
(* current one.                                                            *)
(***************************************************************************)
EXTENDS WorldBuildJobs, TLAPS

\* TypeOK without its bound on the queue, and what the places a thread may be
\* at say of the tasks that are left
Types ==
  /\ job \in [Job -> Record \cup {NoRecord}]
  /\ slot \in InMemory \cup {NoJob}
  /\ disk \in [Job -> Active \cup Terminal \cup {"absent"}]
  /\ latest \in Job \cup {NoJob}
  /\ queue \in Seq(Job)
  /\ pc \in [Job -> Place]
  /\ left \in [Job -> 0..MaxTasks]
  /\ \A j \in Job : pc[j] \in {"start", "calling", "commit"} => left[j] > 0
  /\ snapshot \in [Job -> 0..MaxEdits]
  /\ world \in World
  /\ run \in Job \cup {NoJob}
  /\ crashes \in 0..MaxCrashes

\* The executor holds a job once, and exactly the jobs that have a thread
QueueOK ==
  /\ \A i, k \in 1..Len(queue) : queue[i] = queue[k] => i = k
  /\ \A j \in Job : pc[j] # "none" <=> \E i \in 1..Len(queue) : queue[i] = j

\* A job without a file was never started
AbsentIsIdle == \A j \in Job : disk[j] = "absent" => pc[j] = "none"

\* The thread that started the graph's run is between its start and its end
RunIsHeld ==
  crashes = 0 /\ run # NoJob => pc[run] \in {"calling", "commit", "giveup"}

\* The places where a record still holds the revision its job was started on,
\* and those of them where the thread has its copy of the project
Untold == {"queued", "snapshot", "loop", "start", "calling", "commit", "enriched", "publish"}
Copied == {"loop", "start", "calling", "commit", "enriched", "publish"}

\* Until a second job is started nobody takes the first one's record, and what
\* it copied lies between the revision it was started on and the current one
FirstIsAlone ==
  \A j \in Job : First(j) /\ pc[j] # "none" =>
    /\ slot = j /\ j \in InMemory
    /\ pc[j] \in Untold => job[j].seen.author <= world.author
    /\ pc[j] \in Copied =>
         job[j].seen.author <= snapshot[j] /\ snapshot[j] <= world.author

\* The inductive invariant
WJInv ==
  /\ Types
  /\ QueueOK
  /\ AbsentIsIdle
  /\ RunIsHeld
  /\ FirstIsAlone
  /\ SlotReturned

-------------------------------------------------------------------------------
(* Records *)

\* The records of all other jobs and the slot are left alone; no record comes
\* or goes.
Kept(j) ==
  /\ job' \in [Job -> Record \cup {NoRecord}]
  /\ slot' = slot /\ InMemory' = InMemory
  /\ disk' \in [Job -> Active \cup Terminal \cup {"absent"}]
  /\ latest' \in Job \cup {NoJob}
  /\ \A k \in Job : disk'[k] = "absent" => disk[k] = "absent"
  /\ \A k \in Job : k # j => job'[k] = job[k]

\* Nothing
LEMMA UnchangedKept ==
  ASSUME Types, NEW j \in Job, UNCHANGED memory
  PROVE  Kept(j) /\ job' = job
  BY DEF Types, memory, Kept, InMemory

\* _update_world_build_job (file_projects.py:671-700)
LEMMA UpdateKept ==
  ASSUME Types, NEW j \in Job, NEW status \in Active \cup Terminal, NEW seen \in World,
         Update(j, status, seen)
  PROVE  Kept(j) /\ (j \in InMemory => job'[j].seen = seen)
<1>1. CASE job[j] = NoRecord
  BY <1>1, UnchangedKept DEF Update, InMemory
<1>2. CASE job[j] # NoRecord
  <2> DEFINE s == IF job[j].status \in Terminal THEN job[j].status ELSE status
             new == [status |-> s, seen |-> seen]
  <2>1. /\ job' = [job EXCEPT ![j] = new]
        /\ disk' = [disk EXCEPT ![j] = s] /\ latest' = j
        /\ slot' = slot
    BY <1>2 DEF Update, Persist
  <2>2. s \in Active \cup Terminal
    OBVIOUS
  <2>3. new \in Record /\ new # NoRecord /\ new.seen = seen
    BY <2>2 DEF Record, NoRecord
  <2>4. s # "absent"
    BY <2>2 DEF Active, Terminal
  <2> HIDE DEF s, new
  <2>5. /\ job' \in [Job -> Record \cup {NoRecord}]
        /\ job'[j] = new
        /\ \A k \in Job : k # j => job'[k] = job[k]
    BY <2>1, <2>3 DEF Types
  <2>6. InMemory' = InMemory
    BY <1>2, <2>3, <2>5 DEF InMemory
  <2>7. /\ disk' \in [Job -> Active \cup Terminal \cup {"absent"}]
        /\ \A k \in Job : disk'[k] = "absent" => disk[k] = "absent"
    BY <2>1, <2>2, <2>4 DEF Types
  <2> QED
    BY <2>1, <2>3, <2>5, <2>6, <2>7 DEF Kept
<1> QED
  BY <1>1, <1>2

\* A change of status keeps the revision the record holds.
LEMMA SetStatusKept ==
  ASSUME Types, NEW j \in Job, NEW status \in Active \cup Terminal, SetStatus(j, status)
  PROVE  Kept(j) /\ (j \in InMemory => job'[j].seen = job[j].seen)
<1> DEFINE seen == IF j \in InMemory THEN job[j].seen ELSE world
<1>1. seen \in World
  BY DEF Types, InMemory, Record
<1>2. Update(j, status, seen)
  BY DEF SetStatus
<1> HIDE DEF seen
<1>3. Kept(j) /\ (j \in InMemory => job'[j].seen = seen)
  BY <1>1, <1>2, UpdateKept
<1> QED
  BY <1>3 DEF seen

\* A conflict is recorded with the revision that was found.
LEMMA MarkConflictedKept ==
  ASSUME Types, NEW j \in Job, MarkConflicted(j)
  PROVE  Kept(j)
<1>1. "conflicted" \in Active \cup Terminal /\ world \in World
  BY DEF Types, Active, Terminal
<1> QED
  BY <1>1, UpdateKept DEF MarkConflicted

-------------------------------------------------------------------------------
(* The worker's steps *)

\* A step of a job's thread to place p: what has to be shown of it.
LEMMA WorkerStep ==
  ASSUME WJInv, NEW j \in Job, NEW p \in Place \ {"none"},
         pc[j] # "none", pc' = [pc EXCEPT ![j] = p],
         Kept(j), queue' = queue, crashes' = crashes,
         left' \in [Job -> 0..MaxTasks],
         \A k \in Job : k # j => left'[k] = left[k],
         p \in {"start", "calling", "commit"} => left'[j] > 0,
         snapshot' \in [Job -> 0..MaxEdits],
         world' \in World,
         run' \in Job \cup {NoJob},
         run' = run \/ run' \in {j, NoJob},
         crashes = 0 /\ run' = j => p \in {"calling", "commit", "giveup"},
         First(j) => /\ p \in Untold => job'[j].seen.author <= world'.author
                     /\ p \in Copied => /\ job'[j].seen.author <= snapshot'[j]
                                        /\ snapshot'[j] <= world'.author
  PROVE  WJInv'
<1> USE DEF WJInv
<1>1. /\ pc' \in [Job -> Place] /\ pc'[j] = p
      /\ \A k \in Job : k # j => pc'[k] = pc[k]
      /\ \A k \in Job : pc'[k] # "none" <=> pc[k] # "none"
  BY DEF Types
<1>2. Types'
  <2>1. slot' \in InMemory' \cup {NoJob}
    BY DEF Types, Kept
  <2>2. \A k \in Job : pc'[k] \in {"start", "calling", "commit"} => left'[k] > 0
    BY <1>1 DEF Types
  <2> QED
    BY <1>1, <2>1, <2>2 DEF Types, Kept
<1>3. QueueOK'
  BY <1>1 DEF QueueOK
<1>4. AbsentIsIdle'
  BY <1>1 DEF AbsentIsIdle, Kept
<1>5. RunIsHeld'
  BY <1>1, JobsAssumption DEF RunIsHeld, Types
<1>6. SlotReturned'
  BY <1>1 DEF SlotReturned, Kept, Types, InMemory
<1>7. FirstIsAlone'
  <2> SUFFICES ASSUME NEW k \in Job, First(k)', pc'[k] # "none"
               PROVE  /\ slot' = k /\ k \in InMemory'
                      /\ pc'[k] \in Untold => job'[k].seen.author <= world'.author
                      /\ pc'[k] \in Copied => /\ job'[k].seen.author <= snapshot'[k]
                                              /\ snapshot'[k] <= world'.author
    BY DEF FirstIsAlone, Untold, Copied
  <2>1. k = j
    <3>1. disk[j] # "absent"
      BY DEF AbsentIsIdle
    <3> QED
      BY <3>1 DEF First, Kept
  <2>2. First(j) /\ slot = j /\ j \in InMemory
    BY <2>1 DEF First, Kept, FirstIsAlone
  <2> QED
    BY <2>1, <2>2, <1>1 DEF Kept
<1> QED
  BY <1>2, <1>3, <1>4, <1>5, <1>6, <1>7

\* A check goes on, or is the job's end; it stands neither at the commit of a
\* task nor after a conflict (runner.py:188-222).
LEMMA CheckSafe ==
  ASSUME WJInv, NEW j \in Job, NEW place \in Place, NEW next \in Place \ {"none"},
         Check(j, place, next), place # "none",
         next \in {"start", "calling", "commit"} => left[j] > 0,
         place \notin {"commit", "giveup"}, place = "calling" => next = "commit",
         next \in Untold => place \in Untold,
         next \in Copied => place \in Copied
  PROVE  WJInv'
<1> USE DEF WJInv
<1>1. /\ pc[j] = place
      /\ UNCHANGED <<queue, left, snapshot, world, run, crashes>>
  BY DEF Check, OnWorker
<1>2. crashes = 0 /\ run = j => place \in {"calling", "commit", "giveup"}
  BY <1>1, JobsAssumption DEF RunIsHeld
<1>3. First(j) => /\ place \in Untold => job[j].seen.author <= world.author
                  /\ place \in Copied => /\ job[j].seen.author <= snapshot[j]
                                         /\ snapshot[j] <= world.author
  BY <1>1 DEF FirstIsAlone, Untold, Copied
<1>4. CASE Goto(j, "giveup") /\ (UNCHANGED memory \/ MarkConflicted(j))
  <2>1. Kept(j)
    BY <1>4, UnchangedKept, MarkConflictedKept
  <2>2. pc' = [pc EXCEPT ![j] = "giveup"] /\ "giveup" \in Place \ {"none"}
    BY <1>4 DEF Goto, Place
  <2> QED
    BY <1>1, <2>1, <2>2, WorkerStep DEF Types, Untold, Copied
<1>5. CASE Goto(j, next) /\ UNCHANGED memory
  <2>1. Kept(j) /\ job' = job
    BY <1>5, UnchangedKept
  <2>2. pc' = [pc EXCEPT ![j] = next]
    BY <1>5 DEF Goto
  <2>3. crashes = 0 /\ run' = j => next \in {"calling", "commit", "giveup"}
    BY <1>1, <1>2 DEF Place
  <2>4. First(j) => /\ next \in Untold => job'[j].seen.author <= world'.author
                    /\ next \in Copied => /\ job'[j].seen.author <= snapshot'[j]
                                          /\ snapshot'[j] <= world'.author
    BY <1>1, <1>3, <2>1
  <2> QED
    BY <1>1, <2>1, <2>2, <2>3, <2>4, WorkerStep DEF Types
<1> QED
  BY <1>4, <1>5 DEF Check

\* The thread's copy of the project
LEMMA ReadProjectSafe ==
  ASSUME WJInv, NEW j \in Job, ReadProject(j)
  PROVE  WJInv'
<1> USE DEF WJInv
<1>1. /\ pc[j] = "snapshot" /\ pc' = [pc EXCEPT ![j] = "loop"]
      /\ snapshot' = [snapshot EXCEPT ![j] = world.author]
      /\ UNCHANGED <<memory, queue, world, run, crashes>>
  BY DEF ReadProject, OnWorker, Goto
<1>2. PICK n \in 0..MaxTasks : left' = [left EXCEPT ![j] = n]
  BY DEF ReadProject
<1>3. Kept(j) /\ job' = job
  BY <1>1, UnchangedKept
<1>4. /\ snapshot' \in [Job -> 0..MaxEdits] /\ snapshot'[j] = world.author
      /\ world.author \in Nat
  BY <1>1, JobsAssumption DEF Types, World
<1>5. First(j) => job[j].seen.author <= world.author
  BY <1>1 DEF FirstIsAlone, Untold, Copied
<1>6. ~(crashes = 0 /\ run = j)
  BY <1>1, JobsAssumption DEF RunIsHeld
<1>7. left' \in [Job -> 0..MaxTasks] /\ \A k \in Job : k # j => left'[k] = left[k]
  BY <1>2 DEF Types
<1>8. First(j) => job'[j].seen.author <= world'.author /\ job'[j].seen.author <= snapshot'[j]
                  /\ snapshot'[j] <= world'.author
  BY <1>1, <1>3, <1>4, <1>5
<1> QED
  BY <1>1, <1>3, <1>4, <1>6, <1>7, <1>8, WorkerStep DEF Types, Place

\* start_run (runner.py, service.py:275-323): the run is the job's, or the job
\* fails.
LEMMA StartTaskSafe ==
  ASSUME WJInv, NEW j \in Job, StartTask(j)
  PROVE  WJInv'
<1> USE DEF WJInv
<1>1. /\ pc[j] = "start"
      /\ UNCHANGED <<queue, left, snapshot, world, crashes>>
  BY DEF StartTask, OnWorker
<1>2. First(j) => /\ j \in InMemory
                  /\ job[j].seen.author <= world.author
                  /\ job[j].seen.author <= snapshot[j]
                  /\ snapshot[j] <= world.author
  BY <1>1 DEF FirstIsAlone, Untold, Copied
<1>3. CASE run = NoJob
  <2>1. run' = j /\ SetStatus(j, "running") /\ pc' = [pc EXCEPT ![j] = "calling"]
    BY <1>3 DEF StartTask, Goto
  <2>2. Kept(j) /\ (j \in InMemory => job'[j].seen = job[j].seen)
    BY <2>1, SetStatusKept DEF Active
  <2>3. left[j] > 0 /\ "calling" \in Place \ {"none"}
    BY <1>1 DEF Types, Place
  <2>4. First(j) => job'[j].seen.author <= world'.author /\ job'[j].seen.author <= snapshot'[j]
                    /\ snapshot'[j] <= world'.author
    BY <1>1, <1>2, <2>2
  <2> QED
    BY <1>1, <2>1, <2>2, <2>3, <2>4, WorkerStep DEF Types
<1>4. CASE run # NoJob
  <2>1. run' = run /\ SetStatus(j, "failed") /\ pc' = [pc EXCEPT ![j] = "closing"]
    BY <1>4 DEF StartTask, Goto
  <2>2. Kept(j) /\ "closing" \in Place \ {"none"}
    BY <2>1, SetStatusKept DEF Terminal, Place
  <2>3. ~(crashes = 0 /\ run = j)
    BY <1>1, JobsAssumption DEF RunIsHeld
  <2> QED
    BY <1>1, <2>1, <2>2, <2>3, WorkerStep DEF Types, Untold, Copied
<1> QED
  BY <1>3, <1>4

\* The model's answer closes the run either way.
LEMMA CommitTaskSafe ==
  ASSUME WJInv, NEW j \in Job, CommitTask(j)
  PROVE  WJInv'
<1> USE DEF WJInv
<1>1. /\ pc[j] = "commit" /\ run' = NoJob
      /\ UNCHANGED <<queue, snapshot, world, crashes>>
  BY DEF CommitTask, OnWorker
<1>2. First(j) => /\ job[j].seen.author <= world.author
                  /\ job[j].seen.author <= snapshot[j]
                  /\ snapshot[j] <= world.author
  BY <1>1 DEF FirstIsAlone, Untold, Copied
<1>3. NoJob # j
  BY JobsAssumption
<1>4. CASE Goto(j, "loop") /\ left' = [left EXCEPT ![j] = @ - 1] /\ UNCHANGED memory
  <2>1. Kept(j) /\ job' = job
    BY <1>4, UnchangedKept
  <2>2. left' \in [Job -> 0..MaxTasks] /\ \A k \in Job : k # j => left'[k] = left[k]
    <3>1. left[j] - 1 \in 0..MaxTasks
      BY <1>1, JobsAssumption DEF Types
    <3> QED
      BY <1>4, <3>1 DEF Types
  <2>3. pc' = [pc EXCEPT ![j] = "loop"] /\ "loop" \in Place \ {"none"}
    BY <1>4 DEF Goto, Place
  <2>4. First(j) => job'[j].seen.author <= world'.author /\ job'[j].seen.author <= snapshot'[j]
                    /\ snapshot'[j] <= world'.author
    BY <1>1, <1>2, <2>1
  <2> QED
    BY <1>1, <1>3, <2>1, <2>2, <2>3, <2>4, WorkerStep DEF Types
<1>5. CASE Goto(j, "closing") /\ SetStatus(j, "failed") /\ UNCHANGED left
  <2>1. Kept(j) /\ pc' = [pc EXCEPT ![j] = "closing"] /\ "closing" \in Place \ {"none"}
    BY <1>5, SetStatusKept DEF Terminal, Goto, Place
  <2> QED
    BY <1>1, <1>3, <1>5, <2>1, WorkerStep DEF Types, Untold, Copied
<1> QED
  BY <1>4, <1>5 DEF CommitTask

\* The publication, or the conflict found there
LEMMA PublishSafe ==
  ASSUME WJInv, NEW j \in Job, Publish(j)
  PROVE  WJInv'
<1> USE DEF WJInv
<1>1. /\ pc[j] = "publish"
      /\ UNCHANGED <<queue, left, snapshot, run, crashes>>
  BY DEF Publish, OnWorker
<1>2. ~(crashes = 0 /\ run = j)
  BY <1>1, JobsAssumption DEF RunIsHeld
<1>3. CASE MarkConflicted(j) /\ Goto(j, "giveup") /\ UNCHANGED world
  <2>1. Kept(j) /\ pc' = [pc EXCEPT ![j] = "giveup"] /\ "giveup" \in Place \ {"none"}
    BY <1>3, MarkConflictedKept DEF Goto, Place
  <2> QED
    BY <1>1, <1>2, <1>3, <2>1, WorkerStep DEF Types, Untold, Copied
<1>4. CASE /\ world' = [author |-> snapshot[j], built |-> j]
           /\ Goto(j, "published") /\ UNCHANGED memory
  <2>1. Kept(j) /\ pc' = [pc EXCEPT ![j] = "published"] /\ "published" \in Place \ {"none"}
    BY <1>4, UnchangedKept DEF Goto, Place
  <2>2. world' \in World
    BY <1>4 DEF World, Types
  <2> QED
    BY <1>1, <1>2, <2>1, <2>2, WorkerStep DEF Types, Untold, Copied
<1> QED
  BY <1>3, <1>4 DEF Publish

\* The job is completed.
LEMMA CompleteSafe ==
  ASSUME WJInv, NEW j \in Job, Complete(j)
  PROVE  WJInv'
<1> USE DEF WJInv
<1>1. /\ pc[j] = "published" /\ SetStatus(j, "completed")
      /\ pc' = [pc EXCEPT ![j] = "closing"] /\ "closing" \in Place \ {"none"}
      /\ UNCHANGED <<queue, left, snapshot, world, run, crashes>>
  BY DEF Complete, OnWorker, Goto, Place
<1>2. ~(crashes = 0 /\ run = j)
  BY <1>1, JobsAssumption DEF RunIsHeld
<1>3. Kept(j)
  BY <1>1, SetStatusKept DEF Terminal
<1> QED
  BY <1>1, <1>2, <1>3, WorkerStep DEF Types, Untold, Copied

\* _ensure_active closes the job's own run (runner.py:200-222).
LEMMA GiveUpSafe ==
  ASSUME WJInv, NEW j \in Job, GiveUp(j)
  PROVE  WJInv'
<1> USE DEF WJInv
<1>1. /\ pc[j] = "giveup" /\ run' = IF run = j THEN NoJob ELSE run
      /\ pc' = [pc EXCEPT ![j] = "closing"] /\ "closing" \in Place \ {"none"}
      /\ UNCHANGED <<memory, queue, left, snapshot, world, crashes>>
  BY DEF GiveUp, OnWorker, Goto, Place
<1>2. run' # j /\ run' \in Job \cup {NoJob}
  BY <1>1, JobsAssumption DEF Types
<1>3. Kept(j)
  BY <1>1, UnchangedKept
<1> QED
  BY <1>1, <1>2, <1>3, WorkerStep DEF Types, Untold, Copied

\* The finally clause gives the slot back and frees the worker
\* (file_projects.py:926-928).
LEMMA CloseSafe ==
  ASSUME WJInv, NEW j \in Job, Close(j)
  PROVE  WJInv'
<1> USE DEF WJInv
<1>1. /\ queue # <<>> /\ Head(queue) = j /\ pc[j] = "closing"
      /\ slot' = NoJob /\ queue' = Tail(queue) /\ pc' = [pc EXCEPT ![j] = "none"]
      /\ UNCHANGED <<job, disk, latest, left, snapshot, world, run, crashes>>
  BY DEF Close, OnWorker, Goto
<1>2. /\ pc' \in [Job -> Place] /\ pc'[j] = "none"
      /\ \A k \in Job : k # j => pc'[k] = pc[k]
  BY <1>1 DEF Types, Place
<1>3. /\ queue' \in Seq(Job) /\ Len(queue) \in Nat /\ Len(queue) > 0
      /\ Len(queue') = Len(queue) - 1
      /\ queue[1] = j
      /\ \A i \in 1..Len(queue') : queue'[i] = queue[i + 1]
  BY <1>1 DEF Types
<1>4. Types'
  <2>1. \A k \in Job : pc'[k] \in {"start", "calling", "commit"} => left'[k] > 0
    BY <1>1, <1>2 DEF Types
  <2> QED
    BY <1>1, <1>2, <1>3, <2>1 DEF Types, InMemory
<1>5. QueueOK'
  <2>1. \A i, k \in 1..Len(queue') : queue'[i] = queue'[k] => i = k
    <3> SUFFICES ASSUME NEW i \in 1..Len(queue'), NEW k \in 1..Len(queue'), queue'[i] = queue'[k]
                 PROVE  i = k
      OBVIOUS
    <3>1. i + 1 \in 1..Len(queue) /\ k + 1 \in 1..Len(queue)
      BY <1>3
    <3>2. queue[i + 1] = queue[k + 1]
      BY <1>3
    <3> QED
      BY <3>1, <3>2 DEF QueueOK
  <2>2. ASSUME NEW k \in Job
        PROVE  pc'[k] # "none" <=> \E i \in 1..Len(queue') : queue'[i] = k
    <3>1. CASE k = j
      <4>1. ASSUME NEW i \in 1..Len(queue'), queue'[i] = j
            PROVE  FALSE
        <5>1. i + 1 \in 1..Len(queue) /\ 1 \in 1..Len(queue) /\ queue[i + 1] = queue[1]
          BY <1>3, <4>1
        <5> QED
          BY <5>1 DEF QueueOK
      <4> QED
        BY <3>1, <4>1, <1>2
    <3>2. CASE k # j
      <4>1. ASSUME NEW i \in 1..Len(queue), queue[i] = k
            PROVE  \E n \in 1..Len(queue') : queue'[n] = k
        <5>1. i # 1 /\ i - 1 \in 1..Len(queue')
          BY <1>3, <3>2, <4>1
        <5>2. queue'[i - 1] = k
          BY <1>3, <4>1, <5>1
        <5> QED
          BY <5>1, <5>2
      <4>2. ASSUME NEW n \in 1..Len(queue'), queue'[n] = k
            PROVE  \E i \in 1..Len(queue) : queue[i] = k
        <5>1. n + 1 \in 1..Len(queue) /\ queue[n + 1] = k
          BY <1>3, <4>2
        <5> QED
          BY <5>1
      <4> QED
        BY <3>2, <4>1, <4>2, <1>2 DEF QueueOK
    <3> QED
      BY <3>1, <3>2
  <2> QED
    BY <2>1, <2>2 DEF QueueOK
<1>6. AbsentIsIdle' /\ SlotReturned'
  BY <1>1, <1>2 DEF AbsentIsIdle, SlotReturned
<1>7. RunIsHeld'
  BY <1>1, <1>2, JobsAssumption DEF RunIsHeld, Types
<1>8. FirstIsAlone'
  <2>1. ASSUME NEW k \in Job, First(k)', pc'[k] # "none"
        PROVE  FALSE
    <3>1. k # j /\ disk[j] # "absent"
      BY <1>1, <1>2, <2>1 DEF AbsentIsIdle
    <3> QED
      BY <1>1, <2>1, <3>1 DEF First
  <2> QED
    BY <2>1 DEF FirstIsAlone
<1> QED
  BY <1>4, <1>5, <1>6, <1>7, <1>8
-------------------------------------------------------------------------------
(* The author's requests and a stop of the server *)

\* _start_world_build_job (file_projects.py:931-972) takes the slot for a job
\* that has no file yet, and so is in no queue.
LEMMA StartJobSafe ==
  ASSUME WJInv, NEW j \in Job, StartJob(j)
  PROVE  WJInv'
<1> USE DEF WJInv
<1> DEFINE new == [status |-> "queued", seen |-> world]
<1>1. /\ disk[j] = "absent" /\ run = NoJob
      /\ job' = [job EXCEPT ![j] = new] /\ slot' = j
      /\ disk' = [disk EXCEPT ![j] = "queued"] /\ latest' = j
      /\ queue' = Append(queue, j)
      /\ pc' = [pc EXCEPT ![j] = "queued"]
      /\ UNCHANGED <<left, snapshot, world, run, crashes>>
  BY DEF StartJob, Persist, Goto
<1>2. new \in Record /\ new # NoRecord /\ new.seen = world
  BY DEF Types, Record, NoRecord, Active
<1> HIDE DEF new
<1>3. pc[j] = "none"
  BY <1>1 DEF AbsentIsIdle
<1>4. /\ pc' \in [Job -> Place] /\ pc'[j] = "queued"
      /\ \A k \in Job : k # j => pc'[k] = pc[k]
  BY <1>1 DEF Types, Place
<1>5. /\ job' \in [Job -> Record \cup {NoRecord}] /\ job'[j] = new
      /\ \A k \in Job : k # j => job'[k] = job[k]
  BY <1>1, <1>2 DEF Types
<1>6. j \in InMemory'
  BY <1>2, <1>5 DEF InMemory
<1>7. /\ disk' \in [Job -> Active \cup Terminal \cup {"absent"}] /\ disk'[j] = "queued"
      /\ \A k \in Job : k # j => disk'[k] = disk[k]
  BY <1>1 DEF Types, Active
<1>8. /\ queue' \in Seq(Job) /\ Len(queue) \in Nat /\ Len(queue') = Len(queue) + 1
      /\ \A i \in 1..Len(queue) : queue'[i] = queue[i]
      /\ queue'[Len(queue) + 1] = j
  BY <1>1 DEF Types
<1>9. Types'
  <2>1. \A k \in Job : pc'[k] \in {"start", "calling", "commit"} => left'[k] > 0
    BY <1>1, <1>4 DEF Types
  <2> QED
    BY <1>1, <1>4, <1>5, <1>6, <1>7, <1>8, <2>1 DEF Types
<1>10. QueueOK'
  <2>1. ~ \E i \in 1..Len(queue) : queue[i] = j
    BY <1>3 DEF QueueOK
  <2>2. \A i, k \in 1..Len(queue') : queue'[i] = queue'[k] => i = k
    <3> SUFFICES ASSUME NEW i \in 1..Len(queue'), NEW k \in 1..Len(queue'),
                        queue'[i] = queue'[k]
                 PROVE  i = k
      OBVIOUS
    <3>1. /\ i \in 1..Len(queue) \/ i = Len(queue) + 1
          /\ k \in 1..Len(queue) \/ k = Len(queue) + 1
      BY <1>8
    <3> QED
      BY <3>1, <1>8, <2>1 DEF QueueOK
  <2>3. ASSUME NEW k \in Job
        PROVE  pc'[k] # "none" <=> \E i \in 1..Len(queue') : queue'[i] = k
    <3>1. CASE k = j
      BY <3>1, <1>4, <1>8
    <3>2. CASE k # j
      <4>1. (\E i \in 1..Len(queue') : queue'[i] = k) <=> (\E i \in 1..Len(queue) : queue[i] = k)
        BY <1>8, <3>2
      <4> QED
        BY <4>1, <1>4, <3>2 DEF QueueOK
    <3> QED
      BY <3>1, <3>2
  <2> QED
    BY <2>2, <2>3 DEF QueueOK
<1>11. AbsentIsIdle'
  BY <1>4, <1>7 DEF AbsentIsIdle
<1>12. RunIsHeld' /\ SlotReturned'
  BY <1>1, <1>4 DEF RunIsHeld, SlotReturned
<1>13. FirstIsAlone'
  <2> SUFFICES ASSUME NEW k \in Job, First(k)', pc'[k] # "none"
               PROVE  /\ slot' = k /\ k \in InMemory'
                      /\ pc'[k] = "queued" /\ job'[k].seen.author <= world'.author
    BY DEF FirstIsAlone, Untold, Copied
  <2>1. k = j
    BY <1>7 DEF First
  <2>2. world.author \in Nat /\ world' = world
    BY <1>1, JobsAssumption DEF Types, World
  <2> QED
    BY <2>1, <2>2, <1>1, <1>2, <1>4, <1>5, <1>6
<1> QED
  BY <1>9, <1>10, <1>11, <1>12, <1>13

\* _reconcile_world_build_job (file_projects.py:550-577) takes a record out of
\* memory only when no thread works for the slot's job: a poll that reads a file
\* finds the slot empty or held by a job other than the one it reconciles.
LEMMA PollSafe ==
  ASSUME WJInv, NEW j \in Job, Poll(j)
  PROVE  WJInv'
<1> USE DEF WJInv
<1>1. /\ slot \notin InMemory \/ j \notin InMemory
      /\ disk[j] \in Active
      /\ disk' = [disk EXCEPT ![j] = "interrupted"] /\ latest' = j
      /\ slot' = NoJob
      /\ job' = [job EXCEPT ![j] = NoRecord]
      /\ UNCHANGED <<queue, pc, left, snapshot, world, run, crashes>>
  BY DEF Poll, Reconcile, Persist
<1>2. /\ job' \in [Job -> Record \cup {NoRecord}]
      /\ \A k \in Job : k # j => job'[k] = job[k]
  BY <1>1 DEF Types
<1>3. /\ disk' \in [Job -> Active \cup Terminal \cup {"absent"}]
      /\ disk'[j] = "interrupted" /\ disk[j] # "absent"
      /\ \A k \in Job : k # j => disk'[k] = disk[k]
  BY <1>1 DEF Types, Active, Terminal
<1>4. Types'
  BY <1>1, <1>2, <1>3 DEF Types
<1>5. QueueOK' /\ RunIsHeld' /\ SlotReturned'
  BY <1>1 DEF QueueOK, RunIsHeld, SlotReturned
<1>6. AbsentIsIdle'
  BY <1>1, <1>3 DEF AbsentIsIdle
<1>7. FirstIsAlone'
  <2> SUFFICES ASSUME NEW k \in Job, First(k)', pc'[k] # "none"
               PROVE  FALSE
    BY DEF FirstIsAlone
  <2>1. k = j
    BY <1>3 DEF First
  <2>2. First(k)
    BY <2>1, <1>3 DEF First
  <2>3. slot = j /\ j \in InMemory
    BY <2>1, <2>2, <1>1 DEF FirstIsAlone
  <2> QED
    BY <2>3, <1>1
<1> QED
  BY <1>4, <1>5, <1>6, <1>7

\* The author's edit raises the current revision.
LEMMA EditWorldSafe ==
  ASSUME WJInv, EditWorld
  PROVE  WJInv'
<1> USE DEF WJInv
<1>1. /\ world.author < MaxEdits
      /\ world' = [world EXCEPT !.author = @ + 1]
      /\ UNCHANGED <<job, slot, disk, latest, queue, pc, left, snapshot, run, crashes>>
  BY DEF EditWorld, memory
<1>2. /\ world.author \in Nat /\ world' \in World /\ world'.author = world.author + 1
  <2> DEFINE more == world.author + 1
  <2>1. world.author \in Nat /\ more \in 0..MaxEdits
    BY <1>1, JobsAssumption DEF Types, World
  <2> HIDE DEF more
  <2>2. world' = [world EXCEPT !.author = more]
    BY <1>1 DEF more
  <2>3. world' \in World /\ world'.author = more
    BY <2>1, <2>2 DEF Types, World
  <2> QED
    BY <2>1, <2>3 DEF more
<1>3. Types'
  BY <1>1, <1>2 DEF Types, InMemory
<1>4. QueueOK' /\ RunIsHeld' /\ SlotReturned' /\ AbsentIsIdle'
  BY <1>1 DEF QueueOK, RunIsHeld, SlotReturned, AbsentIsIdle
<1>5. FirstIsAlone'
  <2> SUFFICES ASSUME NEW k \in Job, First(k)', pc'[k] # "none"
               PROVE  /\ slot' = k /\ k \in InMemory'
                      /\ pc'[k] \in Untold => job'[k].seen.author <= world'.author
                      /\ pc'[k] \in Copied => /\ job'[k].seen.author <= snapshot'[k]
                                              /\ snapshot'[k] <= world'.author
    BY DEF FirstIsAlone, Untold, Copied
  <2>1. First(k) /\ pc[k] # "none" /\ k \in InMemory
    BY <1>1 DEF First, FirstIsAlone
  <2>2. /\ slot = k
        /\ pc[k] \in Untold => job[k].seen.author <= world.author
        /\ pc[k] \in Copied => /\ job[k].seen.author <= snapshot[k]
                               /\ snapshot[k] <= world.author
    BY <2>1 DEF FirstIsAlone, Untold, Copied
  <2>3. job[k].seen.author \in Nat /\ snapshot[k] \in Nat
    BY <2>1, JobsAssumption DEF Types, InMemory, Record, World
  <2> QED
    BY <1>1, <1>2, <2>1, <2>2, <2>3 DEF InMemory
<1> QED
  BY <1>3, <1>4, <1>5

\* After a stop no thread is left, and the files stay.
LEMMA CrashSafe ==
  ASSUME WJInv, Crash
  PROVE  WJInv'
<1> USE DEF WJInv
<1>1. /\ crashes < MaxCrashes /\ crashes' = crashes + 1
      /\ job' = [k \in Job |-> NoRecord]
      /\ slot' = NoJob /\ queue' = <<>>
      /\ pc' = [k \in Job |-> "none"]
      /\ UNCHANGED <<disk, latest, left, snapshot, world, run>>
  BY DEF Crash
<1>2. crashes' \in 0..MaxCrashes /\ crashes' # 0
  BY <1>1, JobsAssumption DEF Types
<1>3. /\ pc' \in [Job -> Place] /\ \A k \in Job : pc'[k] = "none"
  BY <1>1 DEF Place
<1>4. Types'
  BY <1>1, <1>2, <1>3 DEF Types
<1>5. QueueOK' /\ AbsentIsIdle' /\ RunIsHeld' /\ SlotReturned' /\ FirstIsAlone'
  BY <1>1, <1>2, <1>3 DEF QueueOK, AbsentIsIdle, RunIsHeld, SlotReturned, FirstIsAlone
<1> QED
  BY <1>4, <1>5

-------------------------------------------------------------------------------
(* Every step *)

\* Every step of a thread
LEMMA WorkSafe ==
  ASSUME WJInv, NEW j \in Job, Work(j)
  PROVE  WJInv'
<1>1. CASE Check(j, "queued", "snapshot")
  BY <1>1, CheckSafe DEF Place, Untold, Copied
<1>2. CASE ReadProject(j)
  BY <1>2, ReadProjectSafe
<1>3. CASE left[j] > 0 /\ Check(j, "loop", "start")
  BY <1>3, CheckSafe DEF Place, Untold, Copied
<1>4. CASE left[j] = 0 /\ Check(j, "loop", "enriched")
  BY <1>4, CheckSafe DEF Place, Untold, Copied
<1>5. CASE StartTask(j)
  BY <1>5, StartTaskSafe
<1>6. CASE Check(j, "calling", "commit")
  <2>1. left[j] > 0
    BY <1>6 DEF Check, OnWorker, WJInv, Types
  <2> QED
    BY <1>6, <2>1, CheckSafe DEF Place, Untold, Copied
<1>7. CASE CommitTask(j)
  BY <1>7, CommitTaskSafe
<1>8. CASE Check(j, "enriched", "publish")
  BY <1>8, CheckSafe DEF Place, Untold, Copied
<1>9. CASE Publish(j)
  BY <1>9, PublishSafe
<1>10. CASE Complete(j)
  BY <1>10, CompleteSafe
<1>11. CASE GiveUp(j)
  BY <1>11, GiveUpSafe
<1>12. CASE Close(j)
  BY <1>12, CloseSafe
<1> QED
  BY <1>1, <1>2, <1>3, <1>4, <1>5, <1>6, <1>7, <1>8, <1>9, <1>10, <1>11, <1>12 DEF Work

\* The new project
LEMMA InitSafe ==
  ASSUME Init
  PROVE  WJInv
<1>1. /\ world \in World /\ 0 \in 0..MaxTasks /\ 0 \in 0..MaxEdits /\ 0 \in 0..MaxCrashes
  BY JobsAssumption DEF Init, World
<1>2. Types
  BY <1>1 DEF Init, Types, Place
<1>3. QueueOK /\ AbsentIsIdle /\ RunIsHeld /\ FirstIsAlone /\ SlotReturned
  BY DEF Init, QueueOK, AbsentIsIdle, RunIsHeld, FirstIsAlone, SlotReturned
<1> QED
  BY <1>2, <1>3 DEF WJInv

\* Every step, one lemma for each action, and stuttering
LEMMA NextSafe ==
  ASSUME WJInv, [Next]_vars
  PROVE  WJInv'
<1>1. CASE UNCHANGED vars
  <2>1. UNCHANGED <<job, slot, disk, latest, queue, pc, left, snapshot, world, run, crashes>>
    BY <1>1 DEF vars
  <2>2. Types'
    BY <2>1 DEF WJInv, Types, InMemory
  <2>3. QueueOK' /\ AbsentIsIdle' /\ RunIsHeld' /\ SlotReturned'
    BY <2>1 DEF WJInv, QueueOK, AbsentIsIdle, RunIsHeld, SlotReturned
  <2>4. FirstIsAlone'
    BY <2>1 DEF WJInv, FirstIsAlone, First, InMemory
  <2> QED
    BY <2>2, <2>3, <2>4 DEF WJInv
<1>2. ASSUME NEW j \in Job, StartJob(j)
      PROVE  WJInv'
  BY <1>2, StartJobSafe
<1>3. ASSUME NEW j \in Job, Poll(j)
      PROVE  WJInv'
  BY <1>3, PollSafe
<1>4. ASSUME NEW j \in Job, Work(j)
      PROVE  WJInv'
  BY <1>4, WorkSafe
<1>5. CASE EditWorld
  BY <1>5, EditWorldSafe
<1>6. CASE Crash
  BY <1>6, CrashSafe
<1> QED
  BY <1>1, <1>2, <1>3, <1>4, <1>5, <1>6 DEF Next

-------------------------------------------------------------------------------
(***************************************************************************)
(* WJInv holds in every state of every behaviour: the executor's queue,    *)
(* the threads, the slot and the records stay in step through every order  *)
(* of starts, polls, edits, checks and stops (file_projects.py:550-972).   *)
(***************************************************************************)
THEOREM JobsInvariant == Spec => []WJInv
<1>1. Init => WJInv
  BY InitSafe
<1>2. WJInv /\ [Next]_vars => WJInv'
  BY NextSafe
<1> QED
  BY <1>1, <1>2, PTL DEF Spec

(***************************************************************************)
(* A job that has ended has given its slot back, for any number of jobs,   *)
(* tasks, edits and stops (file_projects.py:926-928).                      *)
(***************************************************************************)
THEOREM SlotsComeBack == Spec => []SlotReturned
<1>1. WJInv => SlotReturned
  BY DEF WJInv
<1> QED
  BY <1>1, JobsInvariant, PTL

(***************************************************************************)
(* Until the server first stops, the Build Graph run of a job that has     *)
(* ended is closed: every way out of the thread between start_run and the  *)
(* end of the call closes it (runner.py:200-225).                          *)
(***************************************************************************)
THEOREM RunsAreClosed == Spec => []NoRunLeftBehind
<1>1. WJInv => NoRunLeftBehind
  BY DEF WJInv, RunIsHeld, NoRunLeftBehind
<1> QED
  BY <1>1, JobsInvariant, PTL

(***************************************************************************)
(* As long as a project has had one job, nothing lowers the author's       *)
(* revision: the publication check compares the revision the job was       *)
(* started on with the current one, and what the job copied lies between   *)
(* the two (file_projects.py:605-630, 831-865).                            *)
(***************************************************************************)
THEOREM FirstJobIsSafe == Spec => FirstJobKeepsEdits
<1> DEFINE Keeps == (\E j \in Job : First(j)) => world'.author >= world.author
<1>1. WJInv /\ [Next]_vars => [Keeps]_vars
  <2> SUFFICES ASSUME WJInv, Next, NEW f \in Job, First(f)
               PROVE  world'.author >= world.author
    OBVIOUS
  <2>1. world.author \in Nat
    BY JobsAssumption DEF WJInv, Types, World
  <2>2. CASE world' = world
    BY <2>1, <2>2
  <2>3. CASE EditWorld
    BY <2>1, <2>3, JobsAssumption DEF EditWorld, WJInv, Types, World
  <2>4. ASSUME NEW j \in Job, Publish(j)
        PROVE  world'.author >= world.author
    <3>1. pc[j] = "publish"
      BY <2>4 DEF Publish, OnWorker
    <3>2. disk[j] # "absent"
      BY <3>1 DEF WJInv, AbsentIsIdle
    <3>3. First(j)
      BY <3>2 DEF First
    <3>4. j \in InMemory /\ job[j].seen.author <= snapshot[j]
      BY <3>1, <3>3 DEF WJInv, FirstIsAlone, Untold, Copied
    <3>5. CASE AuthorEdited(j)
      BY <2>1, <2>4, <3>5 DEF Publish
    <3>6. CASE ~AuthorEdited(j)
      BY <2>4, <3>4, <3>6 DEF Publish, AuthorEdited
    <3> QED
      BY <3>5, <3>6
  <2>5. ASSUME NEW j \in Job, StartJob(j) \/ Poll(j)
        PROVE  world' = world
    BY <2>5 DEF StartJob, Poll
  <2>6. ASSUME NEW j \in Job, Work(j)
        PROVE  world' = world \/ Publish(j)
    BY <2>6 DEF Work, Check, ReadProject, StartTask, CommitTask, Complete, GiveUp, Close
  <2>7. Crash => world' = world
    BY DEF Crash
  <2> QED
    BY <2>2, <2>3, <2>4, <2>5, <2>6, <2>7 DEF Next
<1>2. Spec => [][Keeps]_vars
  BY <1>1, JobsInvariant, PTL DEF Spec
<1> QED
  BY <1>2 DEF FirstJobKeepsEdits

===============================================================================
