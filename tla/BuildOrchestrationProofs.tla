----------------------- MODULE BuildOrchestrationProofs -----------------------
(***************************************************************************)
(* Proofs about Build orchestration and the Workbench (file_projects.py,   *)
(* build_graph/service.py): everything the run of MCBuildOrchestration     *)
(* checks, for every graph, every number of runs and stops and every       *)
(* bound.  GraphOK is about the Build Graph alone; SnapshotsOK relates the *)
(* records that requests hold for putting back to what has happened to     *)
(* their tasks since; JobOK relates what the orchestration job remembers   *)
(* to the graph.  All three are needed together: the job's order of work   *)
(* (TurnInOrder) rests on AheadOfOwn to know that nobody else changed the  *)
(* graph, and that on the job's being the only one with an open run        *)
(* (JobIsAlone).                                                           *)
(***************************************************************************)
EXTENDS BuildOrchestration, BuildGraphProofs

-------------------------------------------------------------------------------
(* The inductive invariant *)

\* An open run
Live(r) == runs[r].status = "running"

\* A request or the job holds the record its task had when its run was started.
HeldOnce(held, r) ==
  /\ runs[r] # NoRecord
  /\ held.rev = runs[r].base
  /\ held.run = NoRun

\* Every request holds such a record, of a task that had an artifact.
RequestsHold ==
  \A r \in RunId : call[r] # NoCall =>
    /\ HeldOnce(call[r].held, r)
    /\ call[r].held.rev # 0
    /\ call[r].held.status \in {"ready", "stale", "validation_failed", "completed"}

\* So does the job while its run is open.
JobHolds ==
  /\ job.at = "chosen" => job.turn \in [task: Task]
  /\ job.at = "counting" => job.turn \in [task: Task, wrote: {1, 2}]
  /\ job.at = "working" =>
       LET r == job.turn.run IN
       /\ job.turn \in [task: Task, run: RunId, held: TaskState]
       /\ HeldOnce(job.turn.held, r)
       /\ job.turn.held.status \in {"ready", "stale", "validation_failed"}
       /\ runs[r].task = job.turn.task
       /\ call[r] = NoCall

\* While a job is active no run is open but its own.
JobIsAlone ==
  Active => \A r \in RunId : Live(r) => job.at = "working" /\ job.turn.run = r

\* The graph is ahead of the job by what it wrote itself, and by more once
\* somebody else changed it.
AheadOfOwn ==
  /\ job.at \in {"choosing", "chosen"} /\ job.others => job.ahead > 0
  /\ job.at = "working" => job.ahead > 0 /\ (job.others => job.ahead > 1)
  /\ job.at = "counting" =>
       job.ahead >= job.turn.wrote /\ (job.others => job.ahead > job.turn.wrote)

\* A task with an artifact was made from tasks with artifacts.
WrittenBelow(tk) ==
  \A t \in Task : tk[t].rev # 0 => \A d \in Deps[t] : tk[d].rev # 0

\* Workable, IsNext of a graph tk
WorkableIn(tk, mode) ==
  {t \in Task :
     /\ tk[t].status \in IF mode = "rebuild_stale" THEN {"stale"}
                         ELSE {"ready", "stale", "validation_failed"}
     /\ \A d \in Deps[t] : tk[d].status = "completed"}

NextIn(tk, mode, t) ==
  t \in WorkableIn(tk, mode) /\ \A u \in WorkableIn(tk, mode) : Place[t] <= Place[u]

\* Nothing that may be worked on is a task that was done, or above one.
DoneIsBelow(tk, mode, done) ==
  \A u \in done :
    /\ tk[u].rev # 0
    /\ \A t \in WorkableIn(tk, mode) : u # t /\ u \notin Descendants[t]

\* The graph as it was when the job chose its task
BeforeTurn == [task EXCEPT ![job.turn.task] = job.turn.held]

\* While nobody interferes, what the job may still work on lies below nothing it
\* has done; in the middle of a task that is said of the graph before it.
TurnInOrder ==
  Active /\ ~job.others =>
    /\ job.at = "choosing" => DoneIsBelow(task, job.mode, job.done)
    /\ job.at = "chosen" =>
         DoneIsBelow(task, job.mode, job.done) /\ NextIn(task, job.mode, job.turn.task)
    /\ job.at = "working" =>
         /\ Live(job.turn.run)
         /\ DoneIsBelow(BeforeTurn, job.mode, job.done)
         /\ NextIn(BeforeTurn, job.mode, job.turn.task)
    /\ job.at = "counting" =>
         DoneIsBelow(task, job.mode, job.done \cup {job.turn.task})

\* Putting a snapshot back can make d usable only by a run that found it usable.
NotRestorable(d) ==
  /\ task[d].status \notin Usable
  /\ task[d].status = "running" =>
       \A q \in RunId : call[q] # NoCall /\ Live(q) /\ runs[q].task = d
                          => call[q].held.status \notin Usable

\* What an open run read is at most as new as what is current.
SnapshotsAge ==
  \A r \in RunId : Live(r) =>
    \A d \in Deps[runs[r].task] :
      runs[r].deps[d] # 0 /\ runs[r].deps[d] <= task[d].rev

\* Once the task of an open run was marked stale, something the run read is
\* gone for good.
StaleIsLost ==
  \A r \in RunId : Live(r) /\ task[runs[r].task].status # "running" =>
    \E d \in Deps[runs[r].task] :
      runs[r].deps[d] < task[d].rev \/ NotRestorable(d)

\* A snapshot that may be used was made from what its run read.
HeldIsFresh ==
  \A r \in RunId :
    Live(r) /\ call[r] # NoCall /\ call[r].held.status \in Usable =>
      \A d \in Deps[runs[r].task] :
        artifact[runs[r].task][call[r].held.rev].inputs[d] = runs[r].deps[d]

GraphOK ==
  /\ TypeOK
  /\ OneWriterPerTask
  /\ NoLostRevision
  /\ UnwrittenTasks
  /\ WrittenBelow(task)

SnapshotsOK ==
  /\ RequestsHold
  /\ SnapshotsAge
  /\ ~opening => StaleIsLost /\ UsableIsFresh /\ HeldIsFresh

JobOK ==
  /\ JobHolds
  /\ JobIsAlone
  /\ AheadOfOwn
  /\ TurnInOrder

BOInv ==
  /\ BOTypeOK
  /\ GraphOK
  /\ SnapshotsOK
  /\ JobOK
  /\ ReadyAsPublished
  /\ RunsAreOwned

-------------------------------------------------------------------------------
(* What a step may do to the graph: start a run, commit a revision, put a     *)
(* record back, or nothing                                                    *)

\* The run that writes t, if any, is closed.
ClosesWriter(t) ==
  /\ runs' \in [RunId -> BuildRun \cup {NoRecord}]
  /\ \A q \in RunId :
       \/ runs'[q] = runs[q]
       \/ /\ Live(q) /\ runs[q].task = t
          /\ runs'[q] # NoRecord
          /\ runs'[q].task = t /\ runs'[q].base = runs[q].base
  /\ \A q \in RunId : runs'[q].status = "running" => runs'[q] = runs[q] /\ runs[q].task # t

\* The next revision of t, made from what is current, is written, and t's
\* descendants become stale.
Commits(t) ==
  /\ t \in Task
  /\ DependenciesComplete(task, t)
  /\ \E inputs \in Revisions :
       /\ \A d \in Deps[t] : inputs[d] = task[d].rev
       /\ WriteArtifact(t, task[t].rev, inputs)
  /\ task' = Committed(task, t)
  /\ ClosesWriter(t)

\* Run r is closed and its task gets the record s with the revision it had.
Releases(r, s) ==
  /\ Live(r)
  /\ s \in TaskState
  /\ s.rev = task[runs[r].task].rev
  /\ s.run = NoRun
  /\ s.status \in {"ready", "stale", "validation_failed", "completed"}
  /\ task' = [task EXCEPT ![runs[r].task] = s]
  /\ artifact' = artifact
  /\ ClosesWriter(runs[r].task)

\* The graph is left alone, but a run may be recorded as failed at once.
Quiet ==
  /\ task' = task
  /\ artifact' = artifact
  /\ runs' \in [RunId -> BuildRun \cup {NoRecord}]
  /\ \A q \in RunId :
       runs'[q] = runs[q] \/ (runs[q] = NoRecord /\ runs'[q].status = "failed")

\* finish_run gives the record of the run an end and leaves all others alone.
LEMMA FinishCloses ==
  ASSUME TypeOK, OneWriterPerTask, NEW r \in RunId, Live(r),
         NEW how \in {"committed", "failed", "conflict"}, runs' = Finish(runs, r, how)
  PROVE  ClosesWriter(runs[r].task)
<1>1. /\ runs \in [RunId -> BuildRun \cup {NoRecord}]
      /\ runs[r] \in BuildRun
      /\ task[runs[r].task].run = r
  BY LiveRun DEF TypeOK, Live
<1>2. /\ runs'[r] = [runs[r] EXCEPT !.status = how]
      /\ \A q \in RunId : q # r => runs'[q] = runs[q]
      /\ runs' \in [RunId -> BuildRun \cup {NoRecord}]
  BY <1>1 DEF Finish, BuildRun
<1>3. /\ runs'[r] \in BuildRun /\ runs'[r].status = how
      /\ runs'[r].task = runs[r].task /\ runs'[r].base = runs[r].base
      /\ runs'[r] # NoRecord
  BY <1>1, <1>2 DEF BuildRun, NoRecord
<1>4. ASSUME NEW q \in RunId, runs'[q].status = "running"
      PROVE  runs'[q] = runs[q] /\ runs[q].task # runs[r].task
  <2>1. q # r /\ runs'[q] = runs[q] /\ runs[q].status = "running"
    BY <1>2, <1>3, <1>4
  <2>2. task[runs[q].task].run = q
    BY <2>1, LiveRun
  <2> QED
    BY <2>1, <2>2, <1>1
<1> QED
  BY <1>2, <1>3, <1>4 DEF ClosesWriter

\* A commit beside an open run ends that run (service.py:200-223).
LEMMA SupersedeCloses ==
  ASSUME TypeOK, OneWriterPerTask, NEW t \in Task, runs' = SupersededRuns(t)
  PROVE  ClosesWriter(t)
<1>1. CASE task[t].run = NoRun
  <2>1. runs' = runs
    BY <1>1, GraphAssumption DEF SupersededRuns, TypeOK
  <2>2. ASSUME NEW q \in RunId, runs[q].status = "running"
        PROVE  runs[q].task # t
    BY <2>2, <1>1, LiveRun, GraphAssumption
  <2> QED
    BY <2>1, <2>2 DEF ClosesWriter, TypeOK
<1>2. CASE task[t].run # NoRun
  <2> DEFINE r == task[t].run
  <2>1. r \in RunId /\ Live(r) /\ runs[r].task = t
    BY <1>2 DEF OneWriterPerTask, TaskState, TypeOK, Live
  <2>2. runs' = Finish(runs, r, "conflict")
    BY <2>1 DEF SupersededRuns, Finish, TypeOK, Live
  <2> HIDE DEF r
  <2> QED
    BY <2>1, <2>2, FinishCloses
<1> QED
  BY <1>1, <1>2

\* Closing a task's writer and taking its run away keeps runs and tasks paired.
LEMMA PairedAfter ==
  ASSUME TypeOK, OneWriterPerTask, NEW t \in Task, ClosesWriter(t),
         task' \in [Task -> TaskState],
         task'[t].run = NoRun,
         \A c \in Task \ {t} : task'[c].run = task[c].run /\ task'[c].rev = task[c].rev
  PROVE  OneWriterPerTask'
<1>1. ASSUME NEW q \in RunId, runs'[q].status = "running"
      PROVE  task'[runs'[q].task].run = q /\ task'[runs'[q].task].rev = runs'[q].base
  <2>1. runs'[q] = runs[q] /\ runs[q].task # t
    BY <1>1 DEF ClosesWriter
  <2> QED
    BY <1>1, <2>1, LiveRun
<1>2. ASSUME NEW c \in Task, task'[c].run # NoRun
      PROVE  runs'[task'[c].run].status = "running" /\ runs'[task'[c].run].task = c
  <2>1. c # t /\ task[c].run = task'[c].run /\ task[c].run \in RunId
    BY <1>2 DEF TaskState
  <2>2. runs[task[c].run].status = "running" /\ runs[task[c].run].task = c
    BY <2>1, <1>2 DEF OneWriterPerTask
  <2>3. runs'[task[c].run] = runs[task[c].run]
    BY <2>1, <2>2 DEF ClosesWriter
  <2> QED
    BY <2>1, <2>2, <2>3
<1> QED
  BY <1>1, <1>2 DEF OneWriterPerTask

-------------------------------------------------------------------------------
(* The graph's part of the invariant *)

\* What GraphOK says, in the form the provers need it.
LEMMA GraphParts ==
  GraphOK => /\ task \in [Task -> TaskState]
             /\ artifact \in [Task -> Seq(Artifact)]
             /\ runs \in [RunId -> BuildRun \cup {NoRecord}]
             /\ \A c \in Task : task[c].rev \in Nat /\ task[c] \in TaskState
             /\ Unwritten(task)
             /\ NothingLost(task, artifact)
             /\ TypeOK /\ OneWriterPerTask
  BY DEF GraphOK, TypeOK, UnwrittenTasks, Unwritten, NoLostRevision, NothingLost, TaskState

\* The same for the next state: what has to be shown of a step.
LEMMA GraphPartsNext ==
  ASSUME task' \in [Task -> TaskState],
         artifact' \in [Task -> Seq(Artifact)],
         runs' \in [RunId -> BuildRun \cup {NoRecord}],
         Unwritten(task'),
         NothingLost(task', artifact'),
         OneWriterPerTask',
         WrittenBelow(task')
  PROVE  GraphOK'
  BY DEF GraphOK, TypeOK, UnwrittenTasks, Unwritten, NoLostRevision, NothingLost,
         WrittenBelow

\* start_run, for a first version or a rerun (service.py:275-323)
LEMMA StartKeepsGraph ==
  ASSUME GraphOK, NEW t \in Task, NEW r \in RunId, NEW again, StartRun(t, r, again)
  PROVE  GraphOK'
<1>1. /\ task' \in [Task -> TaskState]
      /\ task'[t].status = "running" /\ task'[t].rev = task[t].rev
      /\ \A c \in Task : c # t => task'[c] = task[c]
      /\ artifact' = artifact
      /\ runs' \in [RunId -> BuildRun \cup {NoRecord}]
      /\ OneWriterPerTask'
  BY StartedRun, GraphParts
<1>2. \A c \in Task : task'[c].rev = task[c].rev
  BY <1>1
<1>3. Unwritten(task')
  BY <1>1, GraphParts DEF Unwritten
<1>4. NothingLost(task', artifact')
  BY <1>1, <1>2, GraphParts DEF NothingLost
<1>5. WrittenBelow(task')
  BY <1>2, GraphAssumption DEF WrittenBelow, GraphOK
<1> QED
  BY <1>1, <1>3, <1>4, <1>5, GraphParts, GraphPartsNext

\* Every commit: of a run, an edit or a candidate (service.py:386-522)
LEMMA CommitKeepsGraph ==
  ASSUME GraphOK, NEW t \in Task, Commits(t)
  PROVE  GraphOK'
<1>1. PICK inputs \in Revisions : WriteArtifact(t, task[t].rev, inputs)
  BY DEF Commits
<1>2. /\ task' \in [Task -> TaskState]
      /\ Unwritten(task')
      /\ task'[t].rev = task[t].rev + 1
      /\ task'[t].run = NoRun
      /\ \A c \in Task \ {t} : task'[c].rev = task[c].rev /\ task'[c].run = task[c].run
  <2> DEFINE new == Committed(task, t)
  <2>1. /\ new \in [Task -> TaskState]
        /\ Unwritten(new)
        /\ new[t].rev = task[t].rev + 1
        /\ new[t].run = NoRun
        /\ \A c \in Task \ {t} : new[c].rev = task[c].rev /\ new[c].run = task[c].run
    BY GraphParts, CommittedFacts
  <2> QED
    BY <2>1 DEF Commits
<1>3. artifact' \in [Task -> Seq(Artifact)]
  BY <1>1, GraphParts, WrittenFacts
<1>4. NothingLost(task', artifact')
  BY <1>1, <1>2, GraphParts, NothingLostByWriting
<1>5. OneWriterPerTask' /\ runs' \in [RunId -> BuildRun \cup {NoRecord}]
  BY <1>2, GraphParts, PairedAfter DEF Commits, ClosesWriter
<1>6. WrittenBelow(task')
  <2> SUFFICES ASSUME NEW c \in Task, task'[c].rev # 0, NEW d \in Deps[c]
               PROVE  task'[d].rev # 0
    BY DEF WrittenBelow
  <2>1. d \in Task /\ task[d].rev # 0
    <3>1. CASE c = t
      BY <3>1, GraphAssumption DEF WrittenBelow, GraphOK, Commits, DependenciesComplete
    <3>2. CASE c # t
      BY <3>2, <1>2, GraphAssumption DEF WrittenBelow, GraphOK
    <3> QED
      BY <3>1, <3>2
  <2>2. CASE d = t
    BY <2>2, <1>2, GraphParts
  <2>3. CASE d # t
    BY <2>1, <2>3, <1>2
  <2> QED
    BY <2>2, <2>3
<1> QED
  BY <1>2, <1>3, <1>4, <1>5, <1>6, GraphPartsNext

\* Every end that puts a record without an artifact of its own in place
LEMMA ReleaseKeepsGraph ==
  ASSUME GraphOK, NEW r \in RunId, NEW s, Releases(r, s)
  PROVE  GraphOK'
<1> DEFINE t == runs[r].task
<1>1. t \in Task
  BY LiveRun, GraphParts DEF Releases, Live
<1>2. /\ task' \in [Task -> TaskState]
      /\ task'[t] = s /\ s.rev = task[t].rev /\ s.run = NoRun
      /\ s.status # "blocked"
      /\ \A c \in Task \ {t} : task'[c] = task[c]
      /\ artifact' = artifact
      /\ ClosesWriter(t)
  BY <1>1, GraphParts DEF Releases
<1> HIDE DEF t
<1>3. OneWriterPerTask' /\ runs' \in [RunId -> BuildRun \cup {NoRecord}]
  BY <1>1, <1>2, GraphParts, PairedAfter DEF ClosesWriter
<1>4. Unwritten(task')
  BY <1>2, GraphParts DEF Unwritten
<1>5. \A c \in Task : task'[c].rev = task[c].rev
  BY <1>2
<1>6. NothingLost(task', artifact') /\ WrittenBelow(task')
  BY <1>2, <1>5, GraphParts, GraphAssumption DEF NothingLost, WrittenBelow, GraphOK
<1> QED
  BY <1>2, <1>3, <1>4, <1>6, GraphParts, GraphPartsNext

\* Nothing, or a run recorded as failed at once
LEMMA QuietKeepsGraph ==
  ASSUME GraphOK, Quiet
  PROVE  GraphOK'
<1>1. OneWriterPerTask'
  <2>1. \A q \in RunId : runs'[q].status = "running" => runs'[q] = runs[q]
    BY DEF Quiet
  <2>2. \A c \in Task : task[c].run # NoRun =>
          task[c].run \in RunId /\ runs'[task[c].run] = runs[task[c].run]
    BY GraphParts DEF Quiet, OneWriterPerTask, TaskState, NoRecord
  <2> QED
    BY <2>1, <2>2, GraphParts DEF OneWriterPerTask, Quiet
<1> QED
  BY <1>1, GraphParts, GraphPartsNext DEF Quiet, GraphOK

-------------------------------------------------------------------------------
(* Above and below in the graph *)

\* A descendant of t depends on t or on a descendant of t.
LEMMA DescendantStep ==
  ASSUME NEW t \in Task, NEW c \in Descendants[t]
  PROVE  c \in Task /\ (t \in Deps[c] \/ Deps[c] \cap Descendants[t] # {})
<1> DEFINE S == {x \in Descendants[t] : t \in Deps[x] \/ Deps[x] \cap Descendants[t] # {}}
<1>1. Descendants[t] \subseteq Task
  BY DEF Descendants
<1>2. ClosedBelow(t, S)
  <2> SUFFICES ASSUME NEW x \in Task, t \in Deps[x] \/ Deps[x] \cap S # {}
               PROVE  x \in S
    BY DEF ClosedBelow
  <2>1. t \in Deps[x] \/ Deps[x] \cap Descendants[t] # {}
    OBVIOUS
  <2>2. ASSUME NEW U \in SUBSET Task, ClosedBelow(t, U)
        PROVE  x \in U
    <3>1. Descendants[t] \subseteq U
      BY <2>2 DEF Descendants
    <3> QED
      BY <2>1, <2>2, <3>1 DEF ClosedBelow
  <2>3. x \in Descendants[t]
    BY <2>2 DEF Descendants
  <2> QED
    BY <2>1, <2>3
<1>3. S \in SUBSET Task
  BY <1>1
<1>4. c \in S
  BY <1>2, <1>3 DEF Descendants
<1> QED
  BY <1>1, <1>4

\* A descendant of a descendant is a descendant.
LEMMA DescendantsTransitive ==
  ASSUME NEW t \in Task, NEW c \in Descendants[t], NEW u \in Descendants[c]
  PROVE  u \in Descendants[t]
<1>1. Descendants[t] \subseteq Task
  BY DEF Descendants
<1>2. u \in Task
  BY <1>1 DEF Descendants
<1>3. ASSUME NEW S \in SUBSET Task, ClosedBelow(t, S)
      PROVE  u \in S
  <2>1. c \in S
    BY <1>1, <1>3 DEF Descendants
  <2>2. ClosedBelow(c, S)
    BY <1>3, <2>1 DEF ClosedBelow
  <2> QED
    BY <1>1, <2>2 DEF Descendants
<1> QED
  BY <1>2, <1>3 DEF Descendants

\* ordered_task_ids is a topological order (definition.py:249-331).
LEMMA DescendantsLater ==
  ASSUME NEW t \in Task, NEW c \in Descendants[t]
  PROVE  Place[t] < Place[c]
<1> DEFINE S == {x \in Task : Place[t] < Place[x]}
<1>1. ClosedBelow(t, S)
  <2> SUFFICES ASSUME NEW x \in Task, NEW d \in Deps[x], d = t \/ d \in S
               PROVE  x \in S
    BY DEF ClosedBelow
  <2>1. d \in Task /\ Place[d] < Place[x] /\ Place[t] <= Place[d]
    BY GraphAssumption, OrchestrationAssumption
  <2> QED
    BY <2>1, OrchestrationAssumption
<1>2. S \in SUBSET Task
  OBVIOUS
<1>3. c \in S
  BY <1>1, <1>2 DEF Descendants
<1> QED
  BY <1>3

\* Below a task without an artifact there is none.
LEMMA NothingBelowUnwritten ==
  ASSUME NEW tk, WrittenBelow(tk), NEW t \in Task, tk[t].rev = 0, NEW c \in Descendants[t]
  PROVE  tk[c].rev = 0
<1> DEFINE S == {x \in Task : tk[x].rev = 0}
<1>1. ClosedBelow(t, S)
  BY DEF ClosedBelow, WrittenBelow
<1>2. S \in SUBSET Task
  OBVIOUS
<1> QED
  BY <1>1, <1>2 DEF Descendants

-------------------------------------------------------------------------------
(* The snapshots' part of the invariant *)

\* No request is made, one may be answered.
CallsKept ==
  \A q \in RunId : call'[q] # NoCall => call'[q] = call[q]

\* A run that is open after the writer of t was closed was open before, and is
\* not on t.
LEMMA LiveKept ==
  ASSUME NEW t, ClosesWriter(t), NEW q \in RunId, runs'[q].status = "running"
  PROVE  runs'[q] = runs[q] /\ Live(q) /\ runs[q].task # t
  BY DEF ClosesWriter, Live

\* A request's snapshot is of the record its run was started on, and runs are
\* never taken back.
LEMMA RequestsKept ==
  ASSUME RequestsHold, CallsKept,
         \A q \in RunId : runs[q] # NoRecord => runs'[q] # NoRecord /\ runs'[q].base = runs[q].base
  PROVE  RequestsHold'
  BY DEF RequestsHold, CallsKept, HeldOnce

\* So closing the writer of a task keeps what the requests hold.
LEMMA ClosingKeepsRequests ==
  ASSUME NEW t, ClosesWriter(t), RequestsHold, CallsKept
  PROVE  RequestsHold'
  BY RequestsKept DEF ClosesWriter

\* start_run: the new run reads what is current, and its caller keeps the
\* record as it was (service.py:275-323).
LEMMA StartKeepsSnapshots ==
  ASSUME GraphOK, SnapshotsOK, opening' = opening,
         NEW t \in Task, NEW r \in RunId, NEW again, StartRun(t, r, again),
         \A q \in RunId : call'[q] # NoCall =>
           \/ q # r /\ call'[q] = call[q]
           \/ q = r /\ call'[q].held = task[t] /\ task[t].rev # 0
  PROVE  SnapshotsOK'
<1>1. /\ task'[t].status = "running" /\ task'[t].rev = task[t].rev
      /\ \A c \in Task : c # t => task'[c] = task[c]
      /\ artifact' = artifact
      /\ runs'[r] = [status |-> "running", task |-> t, base |-> task[t].rev,
                     deps |-> DependencyRevisions(task, t)]
      /\ \A q \in RunId : q # r => runs'[q] = runs[q]
  BY StartedRun, GraphParts
<1>2. /\ runs[r] = NoRecord /\ task[t].run = NoRun
      /\ task[t].status \in {"ready", "stale", "validation_failed", "completed"}
      /\ DependenciesComplete(task, t)
  BY DEF StartRun
<1>3. /\ runs'[r] # NoRecord
      /\ runs'[r].task = t /\ runs'[r].base = task[t].rev
      /\ \A d \in Deps[t] : runs'[r].deps[d] = task[d].rev /\ task[d].rev # 0
  BY <1>1, <1>2, GraphAssumption DEF NoRecord, DependencyRevisions, DependenciesComplete
<1>4. \A c \in Task : task'[c].rev = task[c].rev
  BY <1>1
<1>5. ASSUME NEW q \in RunId, runs'[q].status = "running", q # r
      PROVE  Live(q) /\ runs'[q] = runs[q] /\ runs[q].task \in Task /\ runs[q].task # t
  BY <1>1, <1>2, <1>5, LiveRun, GraphParts, GraphAssumption DEF Live
<1>6. RequestsHold'
  <2> SUFFICES ASSUME NEW q \in RunId, call'[q] # NoCall
               PROVE  /\ runs'[q] # NoRecord
                      /\ call'[q].held.rev = runs'[q].base
                      /\ call'[q].held.run = NoRun
                      /\ call'[q].held.rev # 0
                      /\ call'[q].held.status
                           \in {"ready", "stale", "validation_failed", "completed"}
    BY DEF RequestsHold, HeldOnce
  <2>1. CASE q = r
    BY <2>1, <1>2, <1>3
  <2>2. CASE q # r
    BY <2>2, <1>1 DEF SnapshotsOK, RequestsHold, HeldOnce
  <2> QED
    BY <2>1, <2>2
<1>7. SnapshotsAge'
  <2> SUFFICES ASSUME NEW q \in RunId, runs'[q].status = "running", NEW d \in Deps[runs'[q].task]
               PROVE  runs'[q].deps[d] # 0 /\ runs'[q].deps[d] <= task'[d].rev
    BY DEF SnapshotsAge, Live
  <2>1. CASE q = r
    BY <2>1, <1>3, <1>4, GraphParts, GraphAssumption
  <2>2. CASE q # r
    BY <2>2, <1>4, <1>5, GraphAssumption DEF SnapshotsOK, SnapshotsAge
  <2> QED
    BY <2>1, <2>2
<1>8. ASSUME ~opening
      PROVE  StaleIsLost'
  <2> SUFFICES ASSUME NEW q \in RunId, runs'[q].status = "running",
                      task'[runs'[q].task].status # "running"
               PROVE  \E d \in Deps[runs'[q].task] :
                        \/ runs'[q].deps[d] < task'[d].rev
                        \/ /\ task'[d].status \notin Usable
                           /\ task'[d].status = "running" =>
                                \A p \in RunId :
                                  call'[p] # NoCall /\ runs'[p].status = "running"
                                    /\ runs'[p].task = d => call'[p].held.status \notin Usable
    BY DEF StaleIsLost, NotRestorable, Live
  <2>1. q # r
    BY <1>1, <1>3
  <2>2. PICK d \in Deps[runs[q].task] : runs[q].deps[d] < task[d].rev \/ NotRestorable(d)
    BY <2>1, <1>1, <1>5, <1>8 DEF SnapshotsOK, StaleIsLost
  <2>3. d \in Task
    BY <1>5, <2>1, GraphAssumption
  <2>4. CASE runs[q].deps[d] < task[d].rev
    BY <2>1, <2>4, <1>4, <1>5, <2>3
  <2>5. CASE NotRestorable(d)
    <3>1. task'[d].status \notin Usable
      BY <2>3, <2>5, <1>1 DEF NotRestorable, Usable
    <3>2. ASSUME task'[d].status = "running", NEW p \in RunId, call'[p] # NoCall,
                 runs'[p].status = "running", runs'[p].task = d
          PROVE  call'[p].held.status \notin Usable
      <4>1. CASE p = r
        BY <4>1, <3>2, <1>3, <2>5 DEF NotRestorable
      <4>2. CASE p # r
        <5>1. Live(p) /\ runs[p].task = d /\ d # t /\ call[p] = call'[p]
          BY <4>2, <3>2, <1>5
        <5>2. task[d].status = "running"
          BY <5>1, <3>2, <2>3, <1>1
        <5> QED
          BY <5>1, <5>2, <2>5, <3>2 DEF NotRestorable
      <4> QED
        BY <4>1, <4>2
    <3> QED
      BY <3>1, <3>2, <2>1, <1>5
  <2> QED
    BY <2>2, <2>4, <2>5
<1>9. ASSUME ~opening
      PROVE  UsableIsFresh'
  <2> SUFFICES ASSUME NEW c \in Task, task'[c].status \in Usable
               PROVE  /\ task'[c].rev # 0
                      /\ \A d \in Deps[c] : artifact'[c][task'[c].rev].inputs[d] = task'[d].rev
    BY DEF UsableIsFresh, Usable
  <2>1. c # t /\ task'[c] = task[c]
    BY <1>1 DEF Usable
  <2> QED
    BY <2>1, <1>1, <1>4, <1>9, GraphAssumption DEF SnapshotsOK, UsableIsFresh, Usable
<1>10. ASSUME ~opening
       PROVE  HeldIsFresh'
  <2> SUFFICES ASSUME NEW q \in RunId, runs'[q].status = "running", call'[q] # NoCall,
                      call'[q].held.status \in Usable, NEW d \in Deps[runs'[q].task]
               PROVE  artifact'[runs'[q].task][call'[q].held.rev].inputs[d] = runs'[q].deps[d]
    BY DEF HeldIsFresh, Live
  <2>1. CASE q = r
    <3>1. task[t].status \in Usable /\ call'[q].held = task[t] /\ d \in Deps[t]
      BY <2>1, <1>3
    <3>2. artifact[t][task[t].rev].inputs[d] = task[d].rev
      BY <3>1, <1>10 DEF SnapshotsOK, UsableIsFresh, Usable
    <3> QED
      BY <2>1, <3>1, <3>2, <1>1, <1>3
  <2>2. CASE q # r
    <3>1. Live(q) /\ runs'[q] = runs[q] /\ call'[q] = call[q]
      BY <2>2, <1>5
    <3>2. artifact[runs[q].task][call[q].held.rev].inputs[d] = runs[q].deps[d]
      BY <3>1, <1>10 DEF SnapshotsOK, HeldIsFresh
    <3> QED
      BY <3>1, <3>2, <1>1
  <2> QED
    BY <2>1, <2>2
<1> QED
  BY <1>6, <1>7, <1>8, <1>9, <1>10 DEF SnapshotsOK

\* A commit of t makes every revision below t stale, so an open run that is
\* marked stale has lost t itself or a task between (service.py:147-173).
LEMMA CommitKeepsSnapshots ==
  ASSUME GraphOK, SnapshotsOK, opening' = opening, CallsKept, NEW t \in Task, Commits(t)
  PROVE  SnapshotsOK'
<1>1. PICK inputs \in Revisions :
        /\ \A d \in Deps[t] : inputs[d] = task[d].rev
        /\ WriteArtifact(t, task[t].rev, inputs)
  BY DEF Commits
<1>2. /\ Unwritten(task')
      /\ task'[t].rev = task[t].rev + 1
      /\ \A c \in Task \ {t} :
           /\ task'[c].rev = task[c].rev
           /\ task'[c].run = task[c].run
           /\ task'[c].status \in Usable => task'[c] = task[c] /\ c \notin Descendants[t]
           /\ c \notin Descendants[t] /\ (task[c].rev # 0 \/ task[c].status \in Usable)
                => task'[c] = task[c]
           /\ c \in Descendants[t] /\ task[c].rev # 0 => task'[c].status = "stale"
  <2> DEFINE new == Committed(task, t)
  <2>1. /\ Unwritten(new)
        /\ new[t].rev = task[t].rev + 1
        /\ \A c \in Task \ {t} :
             /\ new[c].rev = task[c].rev
             /\ new[c].run = task[c].run
             /\ new[c].status \in Usable => new[c] = task[c] /\ c \notin Descendants[t]
             /\ c \notin Descendants[t] /\ (task[c].rev # 0 \/ task[c].status \in Usable)
                  => new[c] = task[c]
             /\ c \in Descendants[t] /\ task[c].rev # 0 => new[c].status = "stale"
    BY GraphParts, CommittedFacts
  <2> HIDE DEF new
  <2>2. task' = new
    BY DEF Commits, new
  <2> QED
    BY <2>1, <2>2
<1>3. /\ artifact'[t][task[t].rev + 1].inputs = inputs
      /\ \A c \in Task \ {t} : artifact'[c] = artifact[c]
  <2>1. /\ artifact'[t][task[t].rev + 1] = [basis |-> task[t].rev, inputs |-> inputs]
        /\ \A c \in Task \ {t} : artifact'[c] = artifact[c]
    BY <1>1, GraphParts, WrittenFacts DEF Commits
  <2> QED
    BY <2>1
<1>4. ASSUME NEW q \in RunId, runs'[q].status = "running"
      PROVE  /\ Live(q) /\ runs'[q] = runs[q]
             /\ runs[q].task \in Task \ {t}
             /\ task[runs[q].task].run = q
             /\ Deps[runs[q].task] \subseteq Task
  <2>1. Live(q) /\ runs'[q] = runs[q] /\ runs[q].task # t
    BY <1>4, LiveKept DEF Commits
  <2> QED
    BY <2>1, LiveRun, GraphParts, GraphAssumption DEF Live
<1>5. \A c \in Task : task'[c].rev \in Nat /\ task[c].rev \in Nat /\ task[c].rev <= task'[c].rev
  BY <1>2, GraphParts
<1>6. RequestsHold'
  BY ClosingKeepsRequests DEF Commits, SnapshotsOK
<1>7. SnapshotsAge'
  <2> SUFFICES ASSUME NEW q \in RunId, runs'[q].status = "running", NEW d \in Deps[runs'[q].task]
               PROVE  runs'[q].deps[d] # 0 /\ runs'[q].deps[d] <= task'[d].rev
    BY DEF SnapshotsAge, Live
  <2>1. /\ d \in Task /\ runs[q].deps[d] # 0 /\ runs[q].deps[d] <= task[d].rev
        /\ runs'[q].deps[d] = runs[q].deps[d] /\ runs[q].deps[d] \in Nat
    BY <1>4, LiveRun, GraphParts DEF SnapshotsOK, SnapshotsAge, BuildRun, Revisions, Live
  <2> QED
    BY <2>1, <1>5
<1>8. ASSUME ~opening
      PROVE  StaleIsLost'
  <2> SUFFICES ASSUME NEW q \in RunId, runs'[q].status = "running",
                      task'[runs'[q].task].status # "running"
               PROVE  \E d \in Deps[runs'[q].task] :
                        \/ runs'[q].deps[d] < task'[d].rev
                        \/ /\ task'[d].status \notin Usable
                           /\ task'[d].status = "running" =>
                                \A p \in RunId :
                                  call'[p] # NoCall /\ runs'[p].status = "running"
                                    /\ runs'[p].task = d => call'[p].held.status \notin Usable
    BY DEF StaleIsLost, NotRestorable, Live
  <2> DEFINE c == runs[q].task
  <2>1. /\ c \in Task /\ c # t /\ task[c].run = q /\ Live(q) /\ runs'[q] = runs[q]
        /\ Deps[c] \subseteq Task
        /\ \A d \in Deps[c] : runs[q].deps[d] \in Nat /\ runs[q].deps[d] # 0
                              /\ runs[q].deps[d] <= task[d].rev
    BY <1>4, LiveRun, GraphParts DEF SnapshotsOK, SnapshotsAge, BuildRun, Revisions, Live
  <2> HIDE DEF c
  <2>2. CASE task[c].status = "running"
    <3>1. c \in Descendants[t] /\ task[c].rev # 0
      <4>1. q # NoRun /\ task'[c].run = q /\ task'[c].rev = task[c].rev
        BY <1>2, <2>1, GraphAssumption
      <4>2. task[c].rev # 0
        BY <4>1, <1>2, <2>1 DEF Unwritten, c
      <4> QED
        BY <4>2, <1>2, <2>1, <2>2 DEF c
    <3>2. CASE t \in Deps[c]
      <4>1. runs[q].deps[t] < task'[t].rev
        BY <3>2, <2>1, <1>2, GraphParts
      <4> QED
        BY <3>2, <4>1, <2>1 DEF c
    <3>3. CASE t \notin Deps[c]
      <4>1. PICK d \in Deps[c] : d \in Descendants[t]
        BY <3>1, <3>3, DescendantStep
      <4>2. d \in Task /\ d # t
        BY <4>1, <2>1, GraphAssumption DEF Commits
      <4>3. task[d].rev # 0
        BY <4>1, <4>2, <2>1, GraphParts
      <4>4. task'[d].status = "stale"
        BY <4>1, <4>2, <4>3, <1>2
      <4> QED
        BY <4>4, <2>1 DEF Usable, c
    <3> QED
      BY <3>2, <3>3
  <2>3. CASE task[c].status # "running"
    <3>1. PICK d \in Deps[c] : runs[q].deps[d] < task[d].rev \/ NotRestorable(d)
      BY <2>1, <2>3, <1>8 DEF SnapshotsOK, StaleIsLost, c
    <3>2. d \in Task /\ runs[q].deps[d] \in Nat /\ runs[q].deps[d] <= task[d].rev
          /\ task[d].rev # 0
      BY <2>1, GraphParts
    <3>3. CASE runs[q].deps[d] < task[d].rev
      BY <3>2, <3>3, <1>5, <2>1 DEF c
    <3>4. CASE d = t
      BY <3>2, <3>4, <1>2, <2>1, GraphParts DEF c
    <3>5. CASE NotRestorable(d) /\ d # t
      <4>1. task'[d].status \notin Usable
        BY <3>2, <3>5, <1>2 DEF NotRestorable
      <4>2. ASSUME task'[d].status = "running", NEW p \in RunId, call'[p] # NoCall,
                   runs'[p].status = "running", runs'[p].task = d
            PROVE  call'[p].held.status \notin Usable
        <5>1. task[d].status = "running"
          BY <3>2, <3>5, <4>2, <1>2
        <5>2. Live(p) /\ runs[p].task = d /\ call[p] = call'[p]
          BY <4>2, <1>4 DEF CallsKept
        <5> QED
          BY <5>1, <5>2, <3>5, <4>2 DEF NotRestorable
      <4> QED
        BY <4>1, <4>2, <2>1 DEF c
    <3> QED
      BY <3>1, <3>3, <3>4, <3>5
  <2> QED
    BY <2>2, <2>3
<1>9. ASSUME ~opening
      PROVE  UsableIsFresh'
  <2> SUFFICES ASSUME NEW c \in Task, task'[c].status \in Usable
               PROVE  /\ task'[c].rev # 0
                      /\ \A d \in Deps[c] : artifact'[c][task'[c].rev].inputs[d] = task'[d].rev
    BY DEF UsableIsFresh, Usable
  <2>1. \A d \in Deps[c] : d \in Task /\ d # t /\ task'[d].rev = task[d].rev
    <3> SUFFICES ASSUME NEW d \in Deps[c]
                 PROVE  d \in Task /\ d # t /\ task'[d].rev = task[d].rev
      OBVIOUS
    <3>1. d \in Task /\ c \in Descendants[d] /\ c # d
      BY GraphFacts
    <3> QED
      BY <3>1, <1>2
  <2>2. CASE c = t
    BY <2>2, <2>1, <1>1, <1>2, <1>3, GraphParts
  <2>3. CASE c # t
    <3>1. task'[c] = task[c] /\ artifact'[c] = artifact[c] /\ task[c].status \in Usable
      BY <2>3, <1>2, <1>3
    <3> QED
      BY <3>1, <2>1, <1>9 DEF SnapshotsOK, UsableIsFresh, Usable
  <2> QED
    BY <2>2, <2>3
<1>10. ASSUME ~opening
       PROVE  HeldIsFresh'
  <2> SUFFICES ASSUME NEW q \in RunId, runs'[q].status = "running", call'[q] # NoCall,
                      call'[q].held.status \in Usable, NEW d \in Deps[runs'[q].task]
               PROVE  artifact'[runs'[q].task][call'[q].held.rev].inputs[d] = runs'[q].deps[d]
    BY DEF HeldIsFresh, Live
  <2>1. /\ Live(q) /\ runs'[q] = runs[q] /\ call'[q] = call[q]
        /\ artifact'[runs[q].task] = artifact[runs[q].task]
    BY <1>3, <1>4 DEF CallsKept
  <2>2. artifact[runs[q].task][call[q].held.rev].inputs[d] = runs[q].deps[d]
    BY <2>1, <1>10 DEF SnapshotsOK, HeldIsFresh
  <2> QED
    BY <2>1, <2>2
<1> QED
  BY <1>6, <1>7, <1>8, <1>9, <1>10 DEF SnapshotsOK

\* A request puts its snapshot back as usable only while its run is current.
PutBackIsCurrent(r, s) ==
  ~opening /\ s.status \in Usable =>
    RunIsCurrent(r) /\ call[r] # NoCall /\ s = call[r].held

\* What a current run read is neither older than the graph nor unusable, so
\* its task was never marked stale (service.py:364-384).
LEMMA CurrentRunIsRunning ==
  ASSUME GraphOK, SnapshotsOK, ~opening, NEW r \in RunId, Live(r), RunIsCurrent(r)
  PROVE  /\ task[runs[r].task].status = "running"
         /\ \A d \in Deps[runs[r].task] : runs[r].deps[d] = task[d].rev
<1>1. runs[r].task \in Task /\ Deps[runs[r].task] \subseteq Task
  BY LiveRun, GraphParts, GraphAssumption DEF Live
<1>2. ASSUME NEW d \in Deps[runs[r].task]
      PROVE  runs[r].deps[d] = task[d].rev /\ task[d].status = "completed"
  BY <1>1, <1>2 DEF RunIsCurrent, DependencyRevisions, DependenciesComplete
<1>3. ASSUME task[runs[r].task].status # "running"
      PROVE  FALSE
  <2>1. PICK d \in Deps[runs[r].task] : runs[r].deps[d] < task[d].rev \/ NotRestorable(d)
    BY <1>3 DEF SnapshotsOK, StaleIsLost
  <2> QED
    BY <2>1, <1>1, <1>2, GraphParts DEF NotRestorable, Usable
<1> QED
  BY <1>2, <1>3

\* fail_run, conflict_run and every other release
\* (service.py:324-362, 587-634, 673-702)
LEMMA ReleaseKeepsSnapshots ==
  ASSUME GraphOK, SnapshotsOK, opening' = opening, CallsKept,
         NEW r \in RunId, NEW s, Releases(r, s), PutBackIsCurrent(r, s)
  PROVE  SnapshotsOK'
<1> DEFINE t == runs[r].task
<1>1. /\ t \in Task /\ Live(r) /\ task[t].run = r
      /\ task'[t] = s /\ s.rev = task[t].rev
      /\ s.status \in {"ready", "stale", "validation_failed", "completed"}
      /\ \A c \in Task : c # t => task'[c] = task[c]
      /\ artifact' = artifact
      /\ ClosesWriter(t)
  BY LiveRun, GraphParts DEF Releases, Live
<1>2. \A c \in Task : task'[c].rev = task[c].rev
  BY <1>1
<1>3. ASSUME ~opening, s.status \in Usable
      PROVE  /\ task[t].status = "running"
             /\ call[r] # NoCall /\ call[r].held = s /\ s.rev # 0
             /\ \A d \in Deps[t] : artifact[t][s.rev].inputs[d] = task[d].rev
  <2>1. RunIsCurrent(r) /\ call[r] # NoCall /\ call[r].held = s
    BY <1>3 DEF PutBackIsCurrent
  <2>2. task[t].status = "running" /\ \A d \in Deps[t] : runs[r].deps[d] = task[d].rev
    BY <1>1, <1>3, <2>1, CurrentRunIsRunning
  <2>3. s.rev # 0 /\ \A d \in Deps[t] : artifact[t][s.rev].inputs[d] = runs[r].deps[d]
    BY <1>1, <1>3, <2>1 DEF SnapshotsOK, RequestsHold, HeldIsFresh
  <2> QED
    BY <2>1, <2>2, <2>3
<1> HIDE DEF t
<1>4. ASSUME NEW q \in RunId, runs'[q].status = "running"
      PROVE  /\ Live(q) /\ runs'[q] = runs[q]
             /\ runs[q].task \in Task \ {t}
             /\ Deps[runs[q].task] \subseteq Task
  <2>1. Live(q) /\ runs'[q] = runs[q] /\ runs[q].task # t
    BY <1>1, <1>4, LiveKept
  <2> QED
    BY <2>1, LiveRun, GraphParts, GraphAssumption DEF Live
<1>5. RequestsHold'
  BY <1>1, ClosingKeepsRequests DEF SnapshotsOK
<1>6. SnapshotsAge'
  BY <1>2, <1>4 DEF SnapshotsOK, SnapshotsAge, Live
<1>7. ASSUME ~opening
      PROVE  StaleIsLost'
  <2> SUFFICES ASSUME NEW q \in RunId, runs'[q].status = "running",
                      task'[runs'[q].task].status # "running"
               PROVE  \E d \in Deps[runs'[q].task] :
                        \/ runs'[q].deps[d] < task'[d].rev
                        \/ /\ task'[d].status \notin Usable
                           /\ task'[d].status = "running" =>
                                \A p \in RunId :
                                  call'[p] # NoCall /\ runs'[p].status = "running"
                                    /\ runs'[p].task = d => call'[p].held.status \notin Usable
    BY DEF StaleIsLost, NotRestorable, Live
  <2>1. PICK d \in Deps[runs[q].task] : runs[q].deps[d] < task[d].rev \/ NotRestorable(d)
    BY <1>1, <1>4, <1>7 DEF SnapshotsOK, StaleIsLost
  <2>2. d \in Task /\ runs'[q] = runs[q]
    BY <1>4
  <2>3. CASE runs[q].deps[d] < task[d].rev
    BY <2>2, <2>3, <1>2
  <2>4. CASE NotRestorable(d) /\ d = t
    <3>1. task'[t].status \notin Usable
      <4> SUFFICES ASSUME s.status \in Usable
                   PROVE  FALSE
        BY <1>1
      <4>1. task[t].status = "running" /\ call[r] # NoCall /\ call[r].held = s
        BY <1>3, <1>7
      <4> QED
        BY <4>1, <2>4, <1>1 DEF NotRestorable, t
    <3> QED
      BY <3>1, <2>2, <2>4, <1>1
  <2>5. CASE NotRestorable(d) /\ d # t
    <3>1. task'[d] = task[d]
      BY <2>2, <2>5, <1>1
    <3>2. ASSUME task[d].status = "running", NEW p \in RunId, call'[p] # NoCall,
                 runs'[p].status = "running", runs'[p].task = d
          PROVE  call'[p].held.status \notin Usable
      BY <3>2, <2>5, <1>4 DEF NotRestorable, CallsKept
    <3> QED
      BY <3>1, <3>2, <2>2, <2>5 DEF NotRestorable
  <2> QED
    BY <2>1, <2>3, <2>4, <2>5
<1>8. ASSUME ~opening
      PROVE  UsableIsFresh'
  <2> SUFFICES ASSUME NEW c \in Task, task'[c].status \in Usable
               PROVE  /\ task'[c].rev # 0
                      /\ \A d \in Deps[c] : artifact'[c][task'[c].rev].inputs[d] = task'[d].rev
    BY DEF UsableIsFresh, Usable
  <2>1. Deps[c] \subseteq Task
    BY GraphAssumption
  <2>2. CASE c = t
    BY <2>1, <2>2, <1>1, <1>2, <1>3, <1>8
  <2>3. CASE c # t
    BY <2>1, <2>3, <1>1, <1>2, <1>8 DEF SnapshotsOK, UsableIsFresh, Usable
  <2> QED
    BY <2>2, <2>3
<1>9. ASSUME ~opening
      PROVE  HeldIsFresh'
  <2> SUFFICES ASSUME NEW q \in RunId, runs'[q].status = "running", call'[q] # NoCall,
                      call'[q].held.status \in Usable, NEW d \in Deps[runs'[q].task]
               PROVE  artifact'[runs'[q].task][call'[q].held.rev].inputs[d] = runs'[q].deps[d]
    BY DEF HeldIsFresh, Live
  <2>1. Live(q) /\ runs'[q] = runs[q] /\ call'[q] = call[q] /\ artifact' = artifact
    BY <1>1, <1>4 DEF CallsKept
  <2>2. artifact[runs[q].task][call[q].held.rev].inputs[d] = runs[q].deps[d]
    BY <2>1, <1>9 DEF SnapshotsOK, HeldIsFresh
  <2> QED
    BY <2>1, <2>2
<1> QED
  BY <1>5, <1>6, <1>7, <1>8, <1>9 DEF SnapshotsOK

\* Nothing that matters to a snapshot changes.
LEMMA QuietKeepsSnapshots ==
  ASSUME GraphOK, SnapshotsOK, opening' = opening, CallsKept, Quiet
  PROVE  SnapshotsOK'
<1>1. \A q \in RunId : runs'[q].status = "running" => runs'[q] = runs[q] /\ Live(q)
  BY DEF Quiet, Live
<1>2. RequestsHold'
  BY RequestsKept DEF Quiet, SnapshotsOK
<1>3. SnapshotsAge'
  BY <1>1 DEF SnapshotsOK, SnapshotsAge, Live, Quiet
<1>4. \A d \in Task : NotRestorable(d) => NotRestorable(d)'
  BY <1>1 DEF NotRestorable, Live, Quiet, CallsKept
<1>5. ASSUME ~opening
      PROVE  StaleIsLost'
  <2> SUFFICES ASSUME NEW q \in RunId, Live(q)', (task[runs[q].task].status # "running")'
               PROVE  (\E d \in Deps[runs[q].task] :
                         runs[q].deps[d] < task[d].rev \/ NotRestorable(d))'
    BY DEF StaleIsLost
  <2>1. runs'[q] = runs[q] /\ Live(q) /\ task' = task
    BY <1>1 DEF Live, Quiet
  <2>2. PICK d \in Deps[runs[q].task] : runs[q].deps[d] < task[d].rev \/ NotRestorable(d)
    BY <2>1, <1>5 DEF SnapshotsOK, StaleIsLost
  <2>3. d \in Task
    BY <2>1, LiveRun, GraphParts, GraphAssumption DEF Live
  <2> QED
    BY <2>1, <2>2, <2>3, <1>4
<1>6. ASSUME ~opening
      PROVE  UsableIsFresh' /\ HeldIsFresh'
  <2>1. UsableIsFresh'
    BY <1>6 DEF SnapshotsOK, UsableIsFresh, Quiet
  <2> SUFFICES ASSUME NEW q \in RunId, runs'[q].status = "running", call'[q] # NoCall,
                      call'[q].held.status \in Usable, NEW d \in Deps[runs'[q].task]
               PROVE  artifact'[runs'[q].task][call'[q].held.rev].inputs[d] = runs'[q].deps[d]
    BY <2>1 DEF HeldIsFresh, Live
  <2>2. Live(q) /\ runs'[q] = runs[q] /\ call'[q] = call[q] /\ artifact' = artifact
    BY <1>1 DEF CallsKept, Quiet
  <2>3. artifact[runs[q].task][call[q].held.rev].inputs[d] = runs[q].deps[d]
    BY <2>2, <1>6 DEF SnapshotsOK, HeldIsFresh
  <2> QED
    BY <2>2, <2>3
<1> QED
  BY <1>2, <1>3, <1>5, <1>6 DEF SnapshotsOK

-------------------------------------------------------------------------------
(* What each operation does to the graph *)

\* The author's edit is a commit (service.py:703-740).
LEMMA EditIsCommit ==
  ASSUME GraphOK, NEW t \in Task, NEW seen, EditArtifact(t, seen, TRUE)
  PROVE  Commits(t)
<1> DEFINE inputs == DependencyRevisions(task, t)
<1>1. /\ WriteArtifact(t, task[t].rev, inputs)
      /\ task' = Committed(task, t)
      /\ DependenciesComplete(task, t)
      /\ runs' = SupersededRuns(t)
  BY SupersedeFirst, GraphParts DEF EditArtifact
<1>2. inputs \in Revisions /\ \A d \in Deps[t] : inputs[d] = task[d].rev
  BY GraphParts, GraphAssumption DEF DependencyRevisions, Revisions
<1>3. ClosesWriter(t)
  BY <1>1, SupersedeCloses, GraphParts
<1> HIDE DEF inputs
<1> QED
  BY <1>1, <1>2, <1>3 DEF Commits

\* A candidate without a run is a commit (service.py:523-550).
LEMMA CandidateIsCommit ==
  ASSUME GraphOK, NEW t \in Task, NEW seen, CommitCandidate(t, seen, TRUE)
  PROVE  Commits(t)
<1> DEFINE inputs == DependencyRevisions(task, t)
<1>1. /\ WriteArtifact(t, task[t].rev, inputs)
      /\ task' = Committed(task, t)
      /\ DependenciesComplete(task, t)
      /\ runs' = runs /\ task[t].run = NoRun
  BY DEF CommitCandidate
<1>2. inputs \in Revisions /\ \A d \in Deps[t] : inputs[d] = task[d].rev
  BY GraphParts, GraphAssumption DEF DependencyRevisions, Revisions
<1>3. ClosesWriter(t)
  BY <1>1, LiveRun, GraphParts, GraphAssumption DEF ClosesWriter
<1> HIDE DEF inputs
<1> QED
  BY <1>1, <1>2, <1>3 DEF Commits

\* A run's answer, if nothing it read has changed, is a commit
\* (service.py:551-586).
LEMMA RunIsCommit ==
  ASSUME GraphOK, NEW r \in RunId, CommitRun(r, runs[r].deps)
  PROVE  Commits(runs[r].task) /\ runs'[r].status = "committed"
<1>1. /\ Live(r) /\ RunIsCurrent(r) /\ runs' = Finish(runs, r, "committed")
      /\ WriteArtifact(runs[r].task, runs[r].base, runs[r].deps)
      /\ task' = Committed(task, runs[r].task)
  BY DEF CommitRun, Live
<1>2. /\ runs[r] \in BuildRun /\ runs[r].task \in Task
      /\ task[runs[r].task].rev = runs[r].base
  BY <1>1, LiveRun, GraphParts DEF Live
<1>3. /\ runs[r].deps \in Revisions
      /\ \A d \in Deps[runs[r].task] : runs[r].deps[d] = task[d].rev
      /\ DependenciesComplete(task, runs[r].task)
  BY <1>1, <1>2, GraphAssumption DEF RunIsCurrent, DependencyRevisions, BuildRun
<1>4. ClosesWriter(runs[r].task)
  BY <1>1, FinishCloses, GraphParts
<1>5. runs'[r].status = "committed"
  BY <1>1, <1>2, GraphParts DEF Finish, BuildRun
<1> QED
  BY <1>1, <1>2, <1>3, <1>4, <1>5 DEF Commits

\* A record a task may fall back to
MayHold(r, s) ==
  /\ s \in TaskState
  /\ s.rev = task[runs[r].task].rev
  /\ s.run = NoRun
  /\ s.status \in {"ready", "stale", "validation_failed", "completed"}

\* A record put back as stale may stand in the task's place
\* (service.py:606-616).
LEMMA ReleasedMayHold ==
  ASSUME GraphOK, NEW r \in RunId, Live(r)
  PROVE  /\ MayHold(r, ReleasedAsStale(r))
         /\ ReleasedAsStale(r).status = "stale"
<1>1. task[runs[r].task] \in TaskState
  BY LiveRun, GraphParts DEF Live
<1> QED
  BY <1>1 DEF MayHold, ReleasedAsStale, TaskState, Status

\* conflict_run (service.py:673-702)
LEMMA ConflictReleases ==
  ASSUME GraphOK, NEW r \in RunId, NEW s, Live(r), MayHold(r, s), Conflict(r, s)
  PROVE  Releases(r, s) /\ runs'[r].status = "conflict"
<1>1. /\ task[runs[r].task].run = r /\ runs[r] \in BuildRun
      /\ task' = [task EXCEPT ![runs[r].task] = s]
      /\ runs' = Finish(runs, r, "conflict") /\ artifact' = artifact
  BY LiveRun, GraphParts DEF Live, Conflict
<1>2. ClosesWriter(runs[r].task)
  BY <1>1, FinishCloses, GraphParts
<1>3. runs'[r].status = "conflict"
  BY <1>1, GraphParts DEF Finish, BuildRun
<1> QED
  BY <1>1, <1>2, <1>3 DEF Releases, MayHold

\* fail_run (service.py:587-634)
LEMMA FailReleases ==
  ASSUME GraphOK, NEW r \in RunId, NEW s, MayHold(r, s), FailRun(r, s)
  PROVE  Releases(r, s) /\ runs'[r].status = "failed" /\ RunIsCurrent(r)
<1>1. /\ Live(r) /\ runs[r] \in BuildRun /\ RunIsCurrent(r)
      /\ task' = [task EXCEPT ![runs[r].task] = s]
      /\ runs' = Finish(runs, r, "failed") /\ artifact' = artifact
  BY LiveRun, GraphParts DEF Live, FailRun
<1>2. ClosesWriter(runs[r].task)
  BY <1>1, FinishCloses, GraphParts
<1>3. runs'[r].status = "failed"
  BY <1>1, GraphParts DEF Finish, BuildRun
<1> QED
  BY <1>1, <1>2, <1>3 DEF Releases, MayHold

\* A change that starts no run
GraphChange ==
  \/ Quiet
  \/ \E t \in Task : Commits(t)
  \/ \E r \in RunId : \E s : Releases(r, s) /\ PutBackIsCurrent(r, s)

RunsOnlyClose ==
  \A q \in RunId :
    /\ runs[q] # NoRecord =>
         runs'[q] # NoRecord /\ runs'[q].task = runs[q].task /\ runs'[q].base = runs[q].base
    /\ runs'[q].status = "running" => runs'[q] = runs[q] /\ Live(q)

RevisionsKept == \A t \in Task : task'[t].rev = task[t].rev

\* A commit or a release opens no run.
LEMMA ClosingRuns ==
  ASSUME NEW t, ClosesWriter(t)
  PROVE  RunsOnlyClose
  BY DEF ClosesWriter, RunsOnlyClose, Live

\* Neither does a step that leaves the graph alone.
LEMMA QuietRuns ==
  ASSUME Quiet
  PROVE  RunsOnlyClose
  BY DEF Quiet, RunsOnlyClose, Live

\* A release takes no revision away.
LEMMA ReleaseKeepsRevisions ==
  ASSUME GraphOK, NEW r \in RunId, NEW s, Releases(r, s)
  PROVE  RevisionsKept
<1>1. runs[r].task \in Task
  BY LiveRun, GraphParts DEF Releases, Live
<1> QED
  BY <1>1, GraphParts DEF Releases, RevisionsKept

\* A commit, a release with a current snapshot and a quiet step keep graph and
\* snapshots.
LEMMA ChangeKeepsGraph ==
  ASSUME GraphOK, SnapshotsOK, opening' = opening, CallsKept, GraphChange
  PROVE  GraphOK' /\ SnapshotsOK' /\ RunsOnlyClose
<1>1. CASE Quiet
  BY <1>1, QuietKeepsGraph, QuietKeepsSnapshots, QuietRuns
<1>2. ASSUME NEW t \in Task, Commits(t)
      PROVE  GraphOK' /\ SnapshotsOK' /\ RunsOnlyClose
  <2>1. ClosesWriter(t)
    BY <1>2 DEF Commits
  <2> QED
    BY <1>2, <2>1, CommitKeepsGraph, CommitKeepsSnapshots, ClosingRuns
<1>3. ASSUME NEW r \in RunId, NEW s, Releases(r, s), PutBackIsCurrent(r, s)
      PROVE  GraphOK' /\ SnapshotsOK' /\ RunsOnlyClose
  <2>1. ClosesWriter(runs[r].task)
    BY <1>3 DEF Releases
  <2> QED
    BY <1>3, <2>1, ReleaseKeepsGraph, ReleaseKeepsSnapshots, ClosingRuns
<1> QED
  BY <1>1, <1>2, <1>3 DEF GraphChange

\* What a run's end may be: a commit, a release, or nothing because somebody
\* else closed the run before.
Ends(r) ==
  /\ runs'[r].status # "running"
  /\ \/ vars' = vars
     \/ Commits(runs[r].task) /\ runs[r].task \in Task /\ runs'[r].status = "committed"
     \/ RevisionsKept /\ \E s : Releases(r, s) /\ PutBackIsCurrent(r, s)

\* The end of a request is one of these.
LEMMA EndsIsChange ==
  ASSUME GraphOK, NEW r \in RunId, Ends(r)
  PROVE  GraphChange
<1>1. ASSUME vars' = vars
      PROVE  Quiet
  BY <1>1, GraphParts DEF Quiet, vars
<1> QED
  BY <1>1 DEF Ends, GraphChange

\* An answer that finds its run closed changes nothing.
LEMMA SupersededEnds ==
  ASSUME NEW r \in RunId, Superseded(r)
  PROVE  Ends(r)
  BY DEF Superseded, Ends, vars

\* An answer that is committed
LEMMA CommitEnds ==
  ASSUME GraphOK, NEW r \in RunId, CommitRun(r, runs[r].deps)
  PROVE  Ends(r)
<1>1. runs[r].task \in Task
  BY LiveRun, GraphParts DEF CommitRun
<1> QED
  BY <1>1, RunIsCommit DEF Ends

\* An answer whose sources have changed (service.py:324-362)
LEMMA RunConflictEnds ==
  ASSUME GraphOK, NEW r \in RunId, RunConflict(r)
  PROVE  Ends(r)
<1>1. Live(r) /\ Conflict(r, ReleasedAsStale(r))
  BY DEF RunConflict, Live
<1>2. MayHold(r, ReleasedAsStale(r)) /\ ReleasedAsStale(r).status \notin Usable
  BY <1>1, ReleasedMayHold DEF Usable
<1>3. Releases(r, ReleasedAsStale(r)) /\ runs'[r].status = "conflict"
  BY <1>1, <1>2, ConflictReleases
<1> QED
  BY <1>2, <1>3, ReleaseKeepsRevisions DEF Ends, PutBackIsCurrent

\* A request that gives up and puts its snapshot back
LEMMA GivingUpEnds ==
  ASSUME GraphOK, NEW r \in RunId, NEW s, MayHold(r, s), ConflictRun(r, s),
         PutBackIsCurrent(r, s)
  PROVE  Ends(r)
<1>1. Live(r) /\ Conflict(r, s)
  BY DEF ConflictRun, Live
<1>2. Releases(r, s) /\ runs'[r].status = "conflict"
  BY <1>1, ConflictReleases
<1> QED
  BY <1>2, ReleaseKeepsRevisions DEF Ends

\* A request that failed and puts its snapshot back
LEMMA FailureEnds ==
  ASSUME GraphOK, NEW r \in RunId, NEW s, MayHold(r, s), FailPreserving(r, s),
         s.status \notin Usable \/ (call[r] # NoCall /\ s = call[r].held)
  PROVE  Ends(r)
<1>1. Releases(r, s) /\ runs'[r].status = "failed" /\ RunIsCurrent(r)
  BY FailReleases DEF FailPreserving
<1> QED
  BY <1>1, ReleaseKeepsRevisions DEF Ends, PutBackIsCurrent

\* Every answer of a request is such an end.
LEMMA AnswerEnds ==
  ASSUME BOTypeOK, GraphOK, SnapshotsOK, NEW r \in RunId, Answer(r)
  PROVE  Ends(r) /\ CallsKept /\ opening' = opening
<1>1. /\ call' = [call EXCEPT ![r] = NoCall] /\ opening' = opening
      /\ call \in [RunId -> Call \cup {NoCall}]
  BY DEF Answer, BOTypeOK, WBTypeOK
<1>2. CallsKept
  BY <1>1 DEF CallsKept
<1>3. call[r] # NoCall
  BY DEF Answer, FinishRerun, FinishRepair, ModelFails, NoCall
<1>4. ASSUME Live(r)
      PROVE  MayHold(r, call[r].held)
  <2>1. call[r].held \in TaskState
    BY <1>1, <1>3 DEF Call
  <2>2. HeldOnce(call[r].held, r)
        /\ call[r].held.status \in {"ready", "stale", "validation_failed", "completed"}
    BY <1>3 DEF SnapshotsOK, RequestsHold
  <2>3. task[runs[r].task].rev = runs[r].base
    BY <1>4, LiveRun, GraphParts DEF Live
  <2> QED
    BY <2>1, <2>2, <2>3 DEF MayHold, HeldOnce
<1>5. ASSUME GiveUp(r)
      PROVE  Ends(r)
  <2>1. opening /\ Live(r) /\ ConflictRun(r, call[r].held)
    BY <1>5 DEF GiveUp, WorldMoved, ConflictRun, Live
  <2> QED
    BY <2>1, <1>4, GivingUpEnds DEF PutBackIsCurrent
<1>6. ASSUME FailPreserving(r, call[r].held)
      PROVE  Ends(r)
  <2>1. Live(r)
    BY <1>6 DEF FailPreserving, FailRun, Live
  <2> QED
    BY <2>1, <1>3, <1>4, <1>6, FailureEnds
<1>7. \/ Superseded(r) \/ GiveUp(r) \/ CommitRun(r, runs[r].deps) \/ RunConflict(r)
      \/ FailPreserving(r, call[r].held)
  BY DEF Answer, FinishRerun, FinishRepair, ModelFails
<1>8. Ends(r)
  BY <1>5, <1>6, <1>7, SupersededEnds, CommitEnds, RunConflictEnds
<1> QED
  BY <1>1, <1>2, <1>8

-------------------------------------------------------------------------------
(* The job's part of the invariant *)

\* Committing the next task in order makes only later tasks workable, and none
\* that was done or stands above one (file_projects.py:449-457).
LEMMA OnceKept ==
  ASSUME GraphOK, GraphOK', NEW w \in Task, Commits(w),
         NEW mode, NEW done \in SUBSET Task,
         NEW tk, \A c \in Task \ {w} : tk[c] = task[c],
         NextIn(tk, mode, w), DoneIsBelow(tk, mode, done)
  PROVE  DoneIsBelow(task', mode, done \cup {w})
<1>1. /\ task'[w].rev = task[w].rev + 1
      /\ task'[w].status \in {"review_required", "completed"}
      /\ \A c \in Task \ {w} :
           /\ task'[c].rev = task[c].rev
           /\ task'[c].status \in Usable => task'[c] = task[c]
           /\ c \notin Descendants[w] /\ task[c].rev # 0 => task'[c] = task[c]
  <2> DEFINE new == Committed(task, w)
  <2>1. /\ new[w].rev = task[w].rev + 1
        /\ new[w].status = IF w \in ReviewTask THEN "review_required" ELSE "completed"
        /\ \A c \in Task \ {w} :
             /\ new[c].rev = task[c].rev
             /\ new[c].status \in Usable => new[c] = task[c]
             /\ c \notin Descendants[w] /\ (task[c].rev # 0 \/ task[c].status \in Usable)
                  => new[c] = task[c]
    BY GraphParts, CommittedFacts
  <2> HIDE DEF new
  <2>2. task' = new
    BY DEF Commits, new
  <2> QED
    BY <2>1, <2>2
<1>2. w \in WorkableIn(tk, mode)
  BY DEF NextIn
<1>3. w \notin done /\ done \cap Descendants[w] = {}
  BY <1>2 DEF DoneIsBelow
<1>4. WrittenBelow(task')
  BY DEF GraphOK, WrittenBelow
<1>5. ASSUME NEW u \in done \cup {w}
      PROVE  task'[u].rev # 0
  BY <1>1, <1>3, GraphParts DEF DoneIsBelow
<1>6. ASSUME NEW u \in done \cup {w}, NEW t \in WorkableIn(task', mode)
      PROVE  u # t /\ u \notin Descendants[t]
  <2>1. t \in Task /\ t # w
    BY <1>1 DEF WorkableIn
  <2>2. CASE t \in WorkableIn(tk, mode)
    <3>1. Place[w] <= Place[t]
      BY <2>2 DEF NextIn
    <3>2. w \notin Descendants[t]
      BY <2>1, <3>1, DescendantsLater, OrchestrationAssumption
    <3> QED
      BY <2>1, <2>2, <3>2 DEF DoneIsBelow
  <2>3. CASE t \in Descendants[w]
    <3>1. w \notin Descendants[t]
      BY <2>1, <2>3, DescendantsLater, OrchestrationAssumption
    <3>2. u # w => u # t /\ u \notin Descendants[t]
      BY <1>3, <2>1, <2>3, DescendantsTransitive
    <3> QED
      BY <2>1, <3>1, <3>2
  <2>4. CASE task'[t].rev = 0
    BY <1>4, <1>5, <2>1, <2>4, NothingBelowUnwritten
  <2>5. CASE t \notin Descendants[w] /\ task'[t].rev # 0
    <3>1. task'[t] = tk[t]
      BY <1>1, <2>1, <2>5
    <3>2. ASSUME NEW d \in Deps[t]
          PROVE  tk[d].status = "completed"
      <4>1. d \in Task /\ d # w
        BY <2>1, <2>5, GraphFacts
      <4>2. task'[d].status = "completed"
        BY DEF WorkableIn
      <4> QED
        BY <4>1, <4>2, <1>1 DEF Usable
    <3>3. t \in WorkableIn(tk, mode)
      BY <2>1, <3>1, <3>2 DEF WorkableIn
    <3> QED
      BY <2>2, <3>3
  <2> QED
    BY <2>3, <2>4, <2>5
<1> QED
  BY <1>5, <1>6 DEF DoneIsBelow

\* What TurnInOrder asks of the next state, with the primes on its variables
LEMMA TurnInOrderNext ==
  ASSUME Active' /\ ~job'.others =>
           /\ job'.at = "choosing" => DoneIsBelow(task', job'.mode, job'.done)
           /\ job'.at = "chosen" =>
                /\ DoneIsBelow(task', job'.mode, job'.done)
                /\ NextIn(task', job'.mode, job'.turn.task)
           /\ job'.at = "working" =>
                LET before == [task' EXCEPT ![job'.turn.task] = job'.turn.held] IN
                /\ runs'[job'.turn.run].status = "running"
                /\ DoneIsBelow(before, job'.mode, job'.done)
                /\ NextIn(before, job'.mode, job'.turn.task)
           /\ job'.at = "counting" =>
                DoneIsBelow(task', job'.mode, job'.done \cup {job'.turn.task})
  PROVE  TurnInOrder'
  BY DEF TurnInOrder, DoneIsBelow, NextIn, WorkableIn, BeforeTurn, Live, Active

\* Without a job there is nothing to keep.
LEMMA NoJobIsFine ==
  ASSUME job' = NoJob
  PROVE  JobOK'
  BY DEF JobOK, JobHolds, JobIsAlone, AheadOfOwn, TurnInOrder, Active, NoJob

\* Nothing that happens beside a job takes its run or its snapshot from it.
LEMMA JobHoldsKept ==
  ASSUME JobHolds, CallsKept, RunsOnlyClose, job'.at = job.at, job'.turn = job.turn
  PROVE  JobHolds'
<1>1. ASSUME job.at = "working"
      PROVE  LET r == job.turn.run IN
             /\ job.turn \in [task: Task, run: RunId, held: TaskState]
             /\ runs'[r] # NoRecord /\ job.turn.held.rev = runs'[r].base
             /\ job.turn.held.run = NoRun
             /\ job.turn.held.status \in {"ready", "stale", "validation_failed"}
             /\ runs'[r].task = job.turn.task
             /\ call'[r] = NoCall
  <2>1. /\ job.turn \in [task: Task, run: RunId, held: TaskState]
        /\ HeldOnce(job.turn.held, job.turn.run)
        /\ job.turn.held.status \in {"ready", "stale", "validation_failed"}
        /\ runs[job.turn.run].task = job.turn.task
        /\ call[job.turn.run] = NoCall
    BY <1>1 DEF JobHolds
  <2>2. job.turn.run \in RunId
    BY <2>1
  <2> QED
    BY <2>1, <2>2 DEF HeldOnce, RunsOnlyClose, CallsKept
<1> QED
  BY <1>1 DEF JobHolds, HeldOnce

\* What opens no run and leaves the job where it is keeps the job alone.
LEMMA JobIsAloneKept ==
  ASSUME JobIsAlone, Active, RunsOnlyClose, job'.at = job.at, job'.turn = job.turn
  PROVE  JobIsAlone'
  BY DEF JobIsAlone, Active, RunsOnlyClose, Live

\* What opens no run, answers no request and leaves the job where it is keeps
\* open runs owned.
LEMMA OwnedKept ==
  ASSUME RunsAreOwned, RunsOnlyClose, call' = call, crashes' = crashes,
         job'.at = job.at, job'.turn = job.turn
  PROVE  RunsAreOwned'
  BY DEF RunsAreOwned, RunsOnlyClose, Live

\* What BOInv says, in the form the provers need it.
LEMMA BOParts ==
  BOInv => /\ BOTypeOK /\ WBTypeOK /\ GraphOK /\ SnapshotsOK
           /\ JobHolds /\ JobIsAlone /\ AheadOfOwn /\ TurnInOrder
           /\ ReadyAsPublished /\ RunsAreOwned
           /\ job \in Job \cup {NoJob}
           /\ left \in RunId \cup {NoRun}
           /\ ready \in BOOLEAN /\ marked \in BOOLEAN
           /\ call \in [RunId -> Call \cup {NoCall}]
           /\ opening \in Openings /\ world \in World /\ pinned \in World
           /\ crashes \in 0..MaxCrashes
  BY DEF BOInv, JobOK, BOTypeOK, WBTypeOK

\* The same for the next state: what has to be shown of a step.
LEMMA BOPartsNext ==
  ASSUME GraphOK', SnapshotsOK', JobOK', ReadyAsPublished', RunsAreOwned',
         job' \in Job \cup {NoJob}, left' \in RunId \cup {NoRun},
         ready' \in BOOLEAN, marked' \in BOOLEAN,
         call' \in [RunId -> Call \cup {NoCall}],
         opening' \in Openings, world' \in World, pinned' \in World,
         crashes' \in 0..MaxCrashes
  PROVE  BOInv'
  BY DEF BOInv, BOTypeOK, WBTypeOK, GraphOK

\* An active job's record; nobody has interfered if it finds what it expects.
LEMMA WhileActive ==
  ASSUME BOInv, Active
  PROVE  /\ job \in Job
         /\ job.mode \in Mode /\ job.done \in SUBSET Task /\ job.ahead \in 0..3
         /\ job.others \in BOOLEAN /\ job.seen \in World
         /\ job.at \in {"choosing", "chosen"} /\ AsExpected => ~job.others
         /\ job.at # "working" => \A q \in RunId : ~Live(q)
  BY BOParts DEF Job, Active, AheadOfOwn, AsExpected, JobIsAlone

\* A step that leaves graph and requests alone keeps what is said of them.
LEMMA GraphUntouched ==
  ASSUME BOInv, UNCHANGED vars, call' = call, opening' = opening
  PROVE  GraphOK' /\ SnapshotsOK' /\ RunsOnlyClose /\ CallsKept
<1>1. Quiet
  BY BOParts, GraphParts DEF vars, Quiet
<1>2. CallsKept
  BY DEF CallsKept
<1> QED
  BY <1>1, <1>2, BOParts, ChangeKeepsGraph DEF GraphChange

-------------------------------------------------------------------------------
(* The steps of the job *)

\* The start of a job (file_projects.py:4047-4118)
LEMMA StartSafe ==
  ASSUME BOInv, NEW mode \in Mode, Start(mode)
  PROVE  BOInv'
<1>1. /\ opening' = opening /\ call' = call /\ world' = world /\ pinned' = pinned
      /\ crashes' = crashes /\ ready' = ready /\ marked' = marked
      /\ left' = NoRun /\ job = NoJob
  BY DEF Start, requestVars, Active
<1>2. GraphChange
  <2>1. CASE left # NoRun /\ task[runs[left].task].run = left
    <3>1. left \in RunId /\ ConflictRun(left, ReleasedAsStale(left))
      BY <2>1, BOParts DEF Start, ReleaseInterrupted
    <3>2. Live(left) /\ Conflict(left, ReleasedAsStale(left))
      BY <3>1 DEF ConflictRun, Live
    <3>3. Releases(left, ReleasedAsStale(left)) /\ PutBackIsCurrent(left, ReleasedAsStale(left))
      BY <3>1, <3>2, BOParts, ReleasedMayHold, ConflictReleases DEF PutBackIsCurrent, Usable
    <3> QED
      BY <3>1, <3>3 DEF GraphChange
  <2>2. CASE ~(left # NoRun /\ task[runs[left].task].run = left)
    BY <2>2, BOParts, GraphParts DEF Start, ReleaseInterrupted, vars, Quiet, GraphChange
  <2> QED
    BY <2>1, <2>2
<1>3. GraphOK' /\ SnapshotsOK' /\ RunsOnlyClose
  BY <1>1, <1>2, BOParts, ChangeKeepsGraph DEF CallsKept
<1>4. JobOK' /\ job' \in Job \cup {NoJob}
  <2>1. CASE job' = NoJob
    BY <2>1, NoJobIsFine
  <2>2. CASE /\ Idle'
             /\ job' = [at |-> "choosing", mode |-> mode, seen |-> world, ahead |-> 0,
                        others |-> FALSE, done |-> {}, turn |-> NoTurn]
    <3>1. \A q \in RunId : runs'[q].status # "running"
      BY <2>2, <1>3, GraphAssumption
      DEF Idle, GraphOK, TypeOK, OneWriterPerTask, BuildRun, NoRecord
    <3>2. job' \in Job
      BY <2>2, BOParts, WorkbenchAssumption DEF Job, Turn, NoTurn
    <3>3. TurnInOrder'
      <4>1. DoneIsBelow(task', job'.mode, job'.done)
        BY <2>2 DEF DoneIsBelow
      <4> QED
        BY <2>2, <4>1, TurnInOrderNext
    <3> QED
      BY <2>2, <3>1, <3>2, <3>3 DEF JobOK, JobHolds, JobIsAlone, AheadOfOwn, Live
  <2> QED
    BY <2>1, <2>2 DEF Start
<1>5. RunsAreOwned'
  BY <1>1, <1>3, BOParts DEF RunsAreOwned, RunsOnlyClose, Live, NoJob
<1>6. ReadyAsPublished'
  BY <1>1, BOParts DEF ReadyAsPublished
<1> QED
  BY <1>1, <1>3, <1>4, <1>5, <1>6, BOParts, BOPartsNext

\* The job chooses the next task: the first in order that may be worked on, and
\* so not below one that may be worked on itself (file_projects.py:449-457).
LEMMA ChooseSafe ==
  ASSUME BOInv, NEW t \in Task, Choose(t)
  PROVE  BOInv'
<1>1. /\ job.at = "choosing" /\ AsExpected /\ IsNext(t)
      /\ job' = [job EXCEPT !.at = "chosen", !.turn = [task |-> t]]
      /\ UNCHANGED <<vars, opening, call, world, pinned, crashes, left, ready, marked>>
  BY DEF Choose, wbVars, requestVars
<1>2. Active
  BY <1>1 DEF Active, NoJob
<1>3. /\ job' \in Job /\ job'.at = "chosen" /\ job'.turn = [task |-> t]
      /\ job'.mode = job.mode /\ job'.done = job.done /\ job'.others = job.others
      /\ job'.ahead = job.ahead
  BY <1>1, <1>2, WhileActive DEF Job, Turn
<1>4. GraphOK' /\ SnapshotsOK' /\ RunsOnlyClose
  BY <1>1, GraphUntouched
<1>5. NextIn(task, job.mode, t)
  BY <1>1 DEF IsNext, Workable, NextIn, WorkableIn
<1>6. TurnInOrder'
  <2>1. ~job.others => DoneIsBelow(task, job.mode, job.done)
    BY <1>1, <1>2, BOParts DEF TurnInOrder
  <2> QED
    BY <1>1, <1>3, <1>5, <2>1, TurnInOrderNext DEF vars
<1>7. JobOK'
  <2>1. JobHolds'
    BY <1>3 DEF JobHolds
  <2>2. JobIsAlone' /\ RunsAreOwned'
    BY <1>1, <1>2, <1>4, WhileActive DEF JobIsAlone, RunsAreOwned, RunsOnlyClose, Live
  <2>3. AheadOfOwn'
    BY <1>1, <1>2, <1>3, WhileActive DEF AheadOfOwn
  <2> QED
    BY <1>6, <2>1, <2>2, <2>3 DEF JobOK
<1>8. RunsAreOwned'
  BY <1>1, <1>2, <1>4, WhileActive DEF RunsAreOwned, RunsOnlyClose, Live
<1>9. ReadyAsPublished'
  BY <1>1, BOParts DEF ReadyAsPublished
<1> QED
  BY <1>1, <1>3, <1>4, <1>7, <1>8, <1>9, BOParts, BOPartsNext

\* The job ends without touching the graph.
LEMMA EndSafe ==
  ASSUME BOInv, job.at \in {"choosing", "chosen", "counting"},
         job' = NoJob, UNCHANGED wbVars, left' = left,
         ready' \in BOOLEAN, marked' \in BOOLEAN, ReadyAsPublished'
  PROVE  BOInv'
<1>1. UNCHANGED <<vars, opening, call, world, pinned, crashes, left>>
  BY DEF wbVars, requestVars
<1>2. Active
  BY DEF Active, NoJob
<1>3. GraphOK' /\ SnapshotsOK' /\ RunsOnlyClose
  BY <1>1, GraphUntouched
<1>4. RunsAreOwned'
  BY <1>2, <1>3, WhileActive DEF RunsAreOwned, RunsOnlyClose, Live
<1> QED
  BY <1>1, <1>3, <1>4, NoJobIsFine, BOParts, BOPartsNext

\* Phase A of a task: the run is started and its id recorded
\* (file_projects.py:3805-3835).
LEMMA BeginSafe ==
  ASSUME BOInv, NEW r \in RunId, Begin(r)
  PROVE  BOInv'
<1> DEFINE t == job.turn.task
<1>1. /\ job.at = "chosen" /\ AsExpected
      /\ StartRun(t, r, task[t].rev # 0)
      /\ job' = [job EXCEPT !.at = "working", !.ahead = 1,
                            !.turn = [task |-> t, run |-> r, held |-> task[t]]]
      /\ UNCHANGED <<opening, call, world, pinned, crashes, left, ready, marked>>
  BY DEF Begin, requestVars
<1>2. Active /\ t \in Task
  BY <1>1, BOParts DEF Active, NoJob, JobHolds
<1> HIDE DEF t
<1>3. ~job.others /\ DoneIsBelow(task, job.mode, job.done) /\ NextIn(task, job.mode, t)
  BY <1>1, <1>2, WhileActive, BOParts DEF TurnInOrder, t
<1>4. task[t].status \in {"ready", "stale", "validation_failed"} /\ task[t].run = NoRun
      /\ runs[r] = NoRecord
  BY <1>1, <1>3 DEF NextIn, WorkableIn, StartRun
<1>5. /\ job' \in Job /\ job'.at = "working"
      /\ job'.turn = [task |-> t, run |-> r, held |-> task[t]]
      /\ job'.mode = job.mode /\ job'.done = job.done /\ ~job'.others
      /\ job'.ahead = 1
  <2> DEFINE turn == [task |-> t, run |-> r, held |-> task[t]]
  <2>1. turn \in Turn
    BY <1>2, BOParts, GraphParts DEF Turn
  <2>2. job' = [job EXCEPT !.at = "working", !.ahead = 1, !.turn = turn]
    BY <1>1
  <2> HIDE DEF turn
  <2>3. job \in Job
    BY <1>2, WhileActive
  <2>4. job' \in Job
    <3> DEFINE n == 1
    <3>1. n \in 0..3
      OBVIOUS
    <3>2. job' = [job EXCEPT !.at = "working", !.ahead = n, !.turn = turn]
      BY <2>2
    <3> HIDE DEF n
    <3> QED
      BY <2>1, <2>3, <3>1, <3>2 DEF Job
  <2>5. /\ job'.at = "working" /\ job'.turn = turn
        /\ job'.mode = job.mode /\ job'.done = job.done /\ job'.others = job.others
        /\ job'.ahead = 1
    BY <2>2, <2>3 DEF Job
  <2> QED
    BY <1>3, <2>4, <2>5 DEF turn
<1>6. /\ task' \in [Task -> TaskState]
      /\ \A c \in Task : c # t => task'[c] = task[c]
      /\ runs'[r] = [status |-> "running", task |-> t, base |-> task[t].rev,
                     deps |-> DependencyRevisions(task, t)]
      /\ \A q \in RunId : q # r => runs'[q] = runs[q]
  BY <1>1, <1>2, StartedRun, BOParts, GraphParts
<1>7. call[r] = NoCall
  BY <1>4, BOParts DEF SnapshotsOK, RequestsHold, HeldOnce
<1>8. GraphOK' /\ SnapshotsOK'
  BY <1>1, <1>2, <1>7, BOParts, StartKeepsGraph, StartKeepsSnapshots
<1>9. JobHolds'
  <2>1. /\ runs'[r] # NoRecord /\ runs'[r].task = t /\ runs'[r].base = task[t].rev
    BY <1>6 DEF NoRecord
  <2>2. job'.turn \in [task: Task, run: RunId, held: TaskState]
    BY <1>2, <1>5, BOParts, GraphParts
  <2> QED
    BY <1>1, <1>4, <1>5, <1>7, <2>1, <2>2 DEF JobHolds, HeldOnce
<1>10. JobIsAlone' /\ RunsAreOwned'
  <2>1. \A q \in RunId : runs'[q].status = "running" => q = r
    BY <1>1, <1>2, <1>6, WhileActive DEF Live
  <2> QED
    BY <1>5, <2>1 DEF JobIsAlone, RunsAreOwned, Live
<1>11. TurnInOrder'
  <2> DEFINE before == [task' EXCEPT ![t] = task[t]]
  <2>1. before = task
    BY <1>2, <1>6, BOParts, GraphParts
  <2>2. runs'[r].status = "running"
    BY <1>6
  <2> HIDE DEF before
  <2>3. DoneIsBelow(before, job.mode, job.done) /\ NextIn(before, job.mode, t)
    BY <1>3, <2>1
  <2> QED
    BY <1>5, <2>2, <2>3, TurnInOrderNext DEF before
<1>12. AheadOfOwn' /\ ReadyAsPublished'
  BY <1>1, <1>5, BOParts DEF AheadOfOwn, ReadyAsPublished
<1> QED
  BY <1>1, <1>5, <1>8, <1>9, <1>10, <1>11, <1>12, BOParts, BOPartsNext DEF JobOK

\* The run's id could not be recorded: the run is failed or given up.
LEMMA UnrecordedSafe ==
  ASSUME BOInv, NEW r \in RunId, Unrecorded(r)
  PROVE  BOInv'
<1> DEFINE t == job.turn.task
           failed == [status |-> "failed", task |-> t, base |-> task[t].rev,
                      deps |-> DependencyRevisions(task, t)]
<1>1. /\ job.at = "chosen" /\ AsExpected /\ runs[r] = NoRecord
      /\ runs' = [runs EXCEPT ![r] = failed]
      /\ job' = NoJob
      /\ task' = task /\ artifact' = artifact
      /\ UNCHANGED <<opening, call, world, pinned, crashes, left, ready, marked>>
  BY DEF Unrecorded, requestVars
<1>2. Active /\ t \in Task
  BY <1>1, BOParts DEF Active, NoJob, JobHolds
<1> HIDE DEF t
<1>3. failed \in BuildRun /\ failed.status = "failed"
  <2>1. DependencyRevisions(task, t) \in Revisions
    BY BOParts, GraphParts DEF DependencyRevisions, Revisions
  <2> QED
    BY <1>2, <2>1, BOParts, GraphParts DEF BuildRun
<1> HIDE DEF failed
<1>4. Quiet /\ CallsKept
  BY <1>1, <1>3, BOParts, GraphParts DEF Quiet, CallsKept
<1>5. GraphOK' /\ SnapshotsOK' /\ RunsOnlyClose
  BY <1>1, <1>4, BOParts, ChangeKeepsGraph DEF GraphChange
<1>6. RunsAreOwned'
  BY <1>1, <1>2, <1>5, WhileActive DEF RunsAreOwned, RunsOnlyClose
<1>7. ReadyAsPublished'
  BY <1>1, BOParts DEF ReadyAsPublished
<1> QED
  BY <1>1, <1>5, <1>6, <1>7, NoJobIsFine, BOParts, BOPartsNext

\* A task the project's fields already answer is committed without a model.
LEMMA ImportSafe ==
  ASSUME BOInv, Import
  PROVE  BOInv'
<1> DEFINE t == job.turn.task
<1>1. /\ job.at = "chosen" /\ AsExpected
      /\ CommitCandidate(t, task[t].rev, TRUE)
      /\ job' = [job EXCEPT !.at = "counting", !.ahead = 1,
                            !.turn = [task |-> t, wrote |-> 1]]
      /\ Demoted(TRUE) /\ Remarked
      /\ UNCHANGED <<opening, call, world, pinned, crashes, left>>
  BY DEF Import, requestVars
<1>2. Active /\ t \in Task
  BY <1>1, BOParts DEF Active, NoJob, JobHolds
<1> HIDE DEF t
<1>3. ~job.others /\ DoneIsBelow(task, job.mode, job.done) /\ NextIn(task, job.mode, t)
  BY <1>1, <1>2, WhileActive, BOParts DEF TurnInOrder, t
<1>4. /\ job' \in Job /\ job'.at = "counting"
      /\ job'.turn = [task |-> t, wrote |-> 1]
      /\ job'.mode = job.mode /\ job'.done = job.done /\ job'.others = job.others
      /\ job'.ahead = 1
  <2> DEFINE turn == [task |-> t, wrote |-> 1]
             n == 1
  <2>1. turn \in Turn /\ n \in 0..3
    BY <1>2 DEF Turn
  <2>2. job' = [job EXCEPT !.at = "counting", !.ahead = n, !.turn = turn]
    BY <1>1
  <2>3. job \in Job
    BY <1>2, WhileActive
  <2> HIDE DEF turn, n
  <2>4. /\ job' \in Job /\ job'.at = "counting" /\ job'.turn = turn
        /\ job'.mode = job.mode /\ job'.done = job.done /\ job'.others = job.others
        /\ job'.ahead = n
    BY <2>1, <2>2, <2>3 DEF Job
  <2> QED
    BY <2>4 DEF turn, n
<1>5. Commits(t) /\ CallsKept
  BY <1>1, <1>2, BOParts, CandidateIsCommit DEF CallsKept
<1>6. GraphOK' /\ SnapshotsOK' /\ RunsOnlyClose
  BY <1>1, <1>2, <1>5, BOParts, ChangeKeepsGraph DEF GraphChange
<1>7. JobHolds' /\ AheadOfOwn'
  BY <1>2, <1>3, <1>4 DEF JobHolds, AheadOfOwn
<1>8. JobIsAlone' /\ RunsAreOwned'
  BY <1>1, <1>2, <1>6, WhileActive DEF JobIsAlone, RunsAreOwned, RunsOnlyClose, Live
<1>9. TurnInOrder'
  <2>1. job.done \in SUBSET Task
    BY <1>2, WhileActive
  <2>2. DoneIsBelow(task', job.mode, job.done \cup {t})
    BY <1>2, <1>3, <1>5, <1>6, <2>1, BOParts, OnceKept
  <2> QED
    BY <1>4, <2>2, TurnInOrderNext
<1>10. ready' \in BOOLEAN /\ marked' \in BOOLEAN /\ ReadyAsPublished'
  BY <1>1 DEF Demoted, Remarked, ReadyAsPublished
<1> QED
  BY <1>1, <1>4, <1>6, <1>7, <1>8, <1>9, <1>10, BOParts, BOPartsNext DEF JobOK

\* The model's answer to the job: committed, failed, given up or superseded.
LEMMA WorkSafe ==
  ASSUME BOInv, Work
  PROVE  BOInv'
<1> DEFINE r == job.turn.run
           t == job.turn.task
<1>1. /\ job.at = "working" /\ Active
      /\ Remarked /\ marked' \in BOOLEAN
      /\ UNCHANGED <<opening, call, world, pinned, crashes, left>>
  BY DEF Work, requestVars, Remarked, Active, NoJob
<1>2. /\ r \in RunId /\ t \in Task /\ runs[r].task = t
      /\ HeldOnce(job.turn.held, r) /\ job.turn.held \in TaskState
      /\ job.turn.held.status \in {"ready", "stale", "validation_failed"}
      /\ call[r] = NoCall
  BY <1>1, BOParts DEF JobHolds
<1>3. Live(r) => MayHold(r, job.turn.held)
  <2> SUFFICES ASSUME Live(r)
               PROVE  MayHold(r, job.turn.held)
    OBVIOUS
  <2>1. task[runs[r].task].rev = runs[r].base
    BY <1>2, LiveRun, BOParts, GraphParts DEF Live
  <2> QED
    BY <1>2, <2>1 DEF MayHold, HeldOnce
<1> HIDE DEF r, t
<1>4. ASSUME NEW q \in RunId, Live(q)
      PROVE  q = r
  BY <1>1, <1>4, BOParts DEF JobIsAlone, r
<1>5. CallsKept
  BY <1>1 DEF CallsKept
<1>6. CASE /\ CommitRun(r, runs[r].deps)
           /\ job' = [job EXCEPT !.at = "counting", !.ahead = Capped(@ + 1),
                                 !.turn = [task |-> runs[r].task, wrote |-> 2]]
           /\ Demoted(TRUE)
  <2>1. Live(r) /\ Commits(t) /\ runs'[r].status = "committed"
    BY <1>2, <1>6, BOParts, RunIsCommit DEF CommitRun, Live
  <2>2. GraphOK' /\ SnapshotsOK' /\ RunsOnlyClose
    BY <1>1, <1>2, <1>5, <2>1, BOParts, ChangeKeepsGraph DEF GraphChange
  <2>3. /\ job' \in Job /\ job'.at = "counting"
        /\ job'.turn = [task |-> t, wrote |-> 2]
        /\ job'.mode = job.mode /\ job'.done = job.done /\ job'.others = job.others
        /\ job'.ahead >= 2 /\ (job.others => job'.ahead > 2)
    <3> DEFINE turn == [task |-> t, wrote |-> 2]
               n == Capped(job.ahead + 1)
    <3>1. job \in Job /\ job.ahead \in 0..3 /\ job.ahead > 0 /\ (job.others => job.ahead > 1)
      BY <1>1, BOParts, WhileActive DEF AheadOfOwn
    <3>2. n \in 0..3 /\ n >= 2 /\ (job.others => n > 2)
      BY <3>1 DEF Capped
    <3>3. turn \in Turn
      BY <1>2 DEF Turn
    <3>4. job' = [job EXCEPT !.at = "counting", !.ahead = n, !.turn = turn]
      BY <1>2, <1>6
    <3> HIDE DEF turn, n
    <3>5. /\ job' \in Job /\ job'.at = "counting" /\ job'.turn = turn
          /\ job'.mode = job.mode /\ job'.done = job.done /\ job'.others = job.others
          /\ job'.ahead = n
      BY <3>1, <3>2, <3>3, <3>4 DEF Job
    <3> QED
      BY <3>2, <3>5 DEF turn
  <2>4. JobHolds' /\ AheadOfOwn'
    BY <1>2, <2>3 DEF JobHolds, AheadOfOwn
  <2>5. JobIsAlone' /\ RunsAreOwned'
    BY <1>4, <2>1, <2>2 DEF JobIsAlone, RunsAreOwned, RunsOnlyClose, Live
  <2>6. TurnInOrder'
    <3> SUFFICES ASSUME ~job.others
                 PROVE  DoneIsBelow(task', job.mode, job.done \cup {t})
      BY <2>3, TurnInOrderNext
    <3> DEFINE before == [task EXCEPT ![t] = job.turn.held]
    <3>1. DoneIsBelow(before, job.mode, job.done) /\ NextIn(before, job.mode, t)
      BY <1>1, BOParts DEF TurnInOrder, BeforeTurn, t
    <3>2. \A c \in Task \ {t} : before[c] = task[c]
      BY BOParts, GraphParts
    <3>3. job.done \in SUBSET Task
      BY <1>1, WhileActive
    <3> HIDE DEF before
    <3> QED
      BY <1>2, <2>1, <2>2, <3>1, <3>2, <3>3, BOParts, OnceKept
  <2>7. ready' \in BOOLEAN /\ ReadyAsPublished'
    BY <1>6 DEF Demoted, ReadyAsPublished
  <2> QED
    BY <1>1, <2>2, <2>3, <2>4, <2>5, <2>6, <2>7, BOParts, BOPartsNext DEF JobOK
<1>7. ASSUME Ends(r), runs'[r].status # "committed" \/ vars' = vars, job' = NoJob, ready' = ready
      PROVE  BOInv'
  <2>1. GraphOK' /\ SnapshotsOK' /\ RunsOnlyClose
    BY <1>1, <1>2, <1>5, <1>7, BOParts, EndsIsChange, ChangeKeepsGraph
  <2>2. RunsAreOwned'
    BY <1>4, <1>7, <2>1 DEF RunsAreOwned, RunsOnlyClose, Ends
  <2>3. marked' = marked
    <3>1. RevisionsKept
      BY <1>7 DEF Ends, RevisionsKept, vars
    <3> QED
      BY <1>1, <3>1, BOParts DEF Remarked, RevisionsKept
  <2>4. ReadyAsPublished'
    BY <1>1, <1>7, <2>3, BOParts DEF ReadyAsPublished
  <2> QED
    BY <1>1, <1>7, <2>1, <2>2, <2>4, NoJobIsFine, BOParts, BOPartsNext
<1>8. CASE /\ \/ Superseded(r)
              \/ ConflictRun(r, job.turn.held)
              \/ FailPreserving(r, job.turn.held)
              \/ RunConflict(r)
           /\ job' = NoJob
           /\ ready' = ready
  <2>2. job.turn.held.status \notin Usable
    BY <1>2 DEF Usable
  <2>3. CASE Superseded(r)
    BY <1>2, <1>7, <1>8, <2>3, SupersededEnds DEF Superseded, vars
  <2>4. CASE ConflictRun(r, job.turn.held)
    <3>1. Live(r) /\ Conflict(r, job.turn.held)
      BY <2>4 DEF ConflictRun, Live
    <3>2. runs'[r].status = "conflict"
      BY <1>2, <1>3, <3>1, BOParts, ConflictReleases
    <3>3. Ends(r)
      BY <1>2, <1>3, <2>2, <2>4, <3>1, BOParts, GivingUpEnds DEF PutBackIsCurrent
    <3> QED
      BY <1>7, <1>8, <3>2, <3>3
  <2>5. CASE FailPreserving(r, job.turn.held)
    <3>1. Live(r) /\ FailRun(r, job.turn.held)
      BY <2>5 DEF FailPreserving, FailRun, Live
    <3>2. runs'[r].status = "failed"
      BY <1>2, <1>3, <3>1, BOParts, FailReleases
    <3>3. Ends(r)
      BY <1>2, <1>3, <2>2, <2>5, <3>1, BOParts, FailureEnds
    <3> QED
      BY <1>7, <1>8, <3>2, <3>3
  <2>6. CASE RunConflict(r)
    <3>1. Live(r) /\ Conflict(r, ReleasedAsStale(r))
      BY <2>6 DEF RunConflict, Live
    <3>2. runs'[r].status = "conflict"
      BY <1>2, <3>1, BOParts, ReleasedMayHold, ConflictReleases
    <3>3. Ends(r)
      BY <1>2, <2>6, BOParts, RunConflictEnds
    <3> QED
      BY <1>7, <1>8, <3>2, <3>3
  <2> QED
    BY <1>8, <2>3, <2>4, <2>5, <2>6
<1> QED
  BY <1>6, <1>8 DEF Work, r

\* What was written is counted, or the job stops (file_projects.py:4007-4016).
LEMMA CountSafe ==
  ASSUME BOInv, Count
  PROVE  BOInv'
<1>1. /\ job.at = "counting"
      /\ UNCHANGED <<vars, opening, call, world, pinned, crashes, left, ready, marked>>
  BY DEF Count, wbVars, requestVars
<1>2. Active
  BY <1>1 DEF Active, NoJob
<1>3. CASE job.ahead # job.turn.wrote
  <2>1. job' = NoJob /\ UNCHANGED wbVars /\ left' = left
    BY <1>3 DEF Count
  <2>2. ready' \in BOOLEAN /\ marked' \in BOOLEAN /\ ReadyAsPublished'
    BY <1>1, BOParts DEF ReadyAsPublished
  <2> QED
    BY <1>1, <2>1, <2>2, EndSafe
<1>4. CASE job.ahead = job.turn.wrote
  <2>1. ~job.others /\ job.turn.task \in Task
    BY <1>1, <1>2, <1>4, BOParts, WhileActive DEF AheadOfOwn, JobHolds
  <2>2. /\ job' \in Job /\ job'.at = "choosing"
        /\ job'.mode = job.mode /\ job'.done = job.done \cup {job.turn.task}
        /\ job'.others = job.others /\ job'.ahead = 0
    <3> DEFINE done == job.done \cup {job.turn.task}
               n == 0
    <3>1. job \in Job /\ done \in SUBSET Task /\ n \in 0..3 /\ NoTurn \in Turn
      BY <1>2, <2>1, WhileActive, WorkbenchAssumption DEF Turn, NoTurn
    <3>2. job' = [job EXCEPT !.at = "choosing", !.ahead = n, !.done = done, !.turn = NoTurn]
      <4>1. job' = [job EXCEPT !.at = "choosing", !.ahead = 0,
                               !.done = @ \cup {job.turn.task}, !.turn = NoTurn]
        BY <1>4 DEF Count
      <4> QED
        BY <3>1, <4>1 DEF Job
    <3> HIDE DEF done, n
    <3>3. /\ job' \in Job /\ job'.at = "choosing"
          /\ job'.mode = job.mode /\ job'.done = done
          /\ job'.others = job.others /\ job'.ahead = n
      BY <3>1, <3>2 DEF Job
    <3> QED
      BY <3>3 DEF done, n
  <2>3. GraphOK' /\ SnapshotsOK' /\ RunsOnlyClose
    BY <1>1, GraphUntouched
  <2>4. JobHolds' /\ AheadOfOwn'
    BY <2>1, <2>2 DEF JobHolds, AheadOfOwn
  <2>5. JobIsAlone' /\ RunsAreOwned'
    BY <1>1, <1>2, <2>3, WhileActive DEF JobIsAlone, RunsAreOwned, RunsOnlyClose, Live
  <2>6. TurnInOrder'
    <3>1. DoneIsBelow(task, job.mode, job.done \cup {job.turn.task})
      BY <1>1, <1>2, <2>1, BOParts DEF TurnInOrder
    <3> QED
      BY <1>1, <2>2, <3>1, TurnInOrderNext DEF vars
  <2>7. ReadyAsPublished'
    BY <1>1, BOParts DEF ReadyAsPublished
  <2> QED
    BY <1>1, <2>2, <2>3, <2>4, <2>5, <2>6, <2>7, BOParts, BOPartsNext DEF JobOK
<1> QED
  BY <1>3, <1>4

-------------------------------------------------------------------------------
(* The steps beside the job *)

\* While a job is active no request is waiting for an answer that counts.
LEMMA RequestAnsweredSafe ==
  ASSUME BOInv, NEW r \in RunId, RequestAnswered(r)
  PROVE  BOInv'
<1>1. /\ Answer(r) /\ job' = job /\ left' = left
      /\ Demoted(runs'[r].status = "committed") /\ Remarked
      /\ call' = [call EXCEPT ![r] = NoCall]
      /\ UNCHANGED <<opening, world, pinned, crashes>>
  BY DEF RequestAnswered, Answer
<1>2. Ends(r) /\ CallsKept
  BY <1>1, BOParts, AnswerEnds
<1>3. GraphOK' /\ SnapshotsOK' /\ RunsOnlyClose
  BY <1>1, <1>2, BOParts, EndsIsChange, ChangeKeepsGraph
<1>4. call' \in [RunId -> Call \cup {NoCall}] /\ \A q \in RunId : q # r => call'[q] = call[q]
  BY <1>1, BOParts
<1>5. RunsAreOwned'
  BY <1>1, <1>2, <1>3, <1>4, BOParts DEF RunsAreOwned, RunsOnlyClose, Ends, Live
<1>6. ready' \in BOOLEAN /\ marked' \in BOOLEAN
  BY <1>1, BOParts DEF Demoted, Remarked
<1>7. ReadyAsPublished'
  <2>1. CASE runs'[r].status = "committed"
    BY <1>1, <2>1 DEF Demoted, ReadyAsPublished
  <2>2. CASE runs'[r].status # "committed"
    <3>1. RevisionsKept
      BY <1>2, <2>2 DEF Ends, RevisionsKept, vars
    <3>2. marked' = marked
      BY <1>1, <3>1, BOParts DEF Remarked, RevisionsKept
    <3>3. ready' => ready
      BY <1>1 DEF Demoted
    <3> QED
      BY <1>1, <3>2, <3>3, BOParts DEF ReadyAsPublished
  <2> QED
    BY <2>1, <2>2
<1>8. CASE ~Active
  BY <1>1, <1>3, <1>4, <1>5, <1>6, <1>7, <1>8, NoJobIsFine, BOParts, BOPartsNext DEF Active
<1>9. CASE Active
  <2>1. ~Live(r)
    <3> SUFFICES ASSUME Live(r)
                 PROVE  FALSE
      OBVIOUS
    <3>1. job.at = "working" /\ job.turn.run = r
      BY <1>9, BOParts DEF JobIsAlone
    <3>2. call[r] = NoCall
      BY <3>1, BOParts DEF JobHolds
    <3> QED
      BY <1>1, <3>2 DEF Answer, FinishRerun, FinishRepair, ModelFails, NoCall
  <2>2. vars' = vars
    <3>1. runs[r].status # "running"
      BY <2>1 DEF Live
    <3> QED
      BY <1>1, <3>1 DEF Answer, FinishRerun, FinishRepair, ModelFails, Superseded, GiveUp,
         ConflictRun, CommitRun, RunConflict, FailPreserving, FailRun
  <2>3. task' = task /\ runs' = runs
    BY <2>2 DEF vars
  <2>4. JobHolds' /\ JobIsAlone'
    BY <1>1, <1>2, <1>3, <1>9, BOParts, JobHoldsKept, JobIsAloneKept
  <2>5. AheadOfOwn' /\ TurnInOrder'
    <3>1. job' = job
      BY <1>1
    <3>2. AheadOfOwn'
      BY <3>1, BOParts DEF AheadOfOwn
    <3>3. TurnInOrder'
      BY <2>3, <3>1, BOParts
      DEF TurnInOrder, DoneIsBelow, NextIn, WorkableIn, BeforeTurn, Live, Active
    <3> QED
      BY <3>2, <3>3
  <2> QED
    BY <1>1, <1>3, <1>4, <1>5, <1>6, <1>7, <2>4, <2>5, BOParts, BOPartsNext DEF JobOK
<1> QED
  BY <1>8, <1>9

\* Requests are admitted only without an active job.
LEMMA RequestAdmittedSafe ==
  ASSUME BOInv, RequestAdmitted
  PROVE  BOInv'
<1>1. PICK r \in RunId, t \in Task, kind \in {"rerun", "repair"} : Admit(t, r, kind)
  BY DEF RequestAdmitted
<1>2. /\ task[t].rev # 0 /\ StartRun(t, r, TRUE)
      /\ call' = [call EXCEPT ![r] = [kind |-> kind, held |-> task[t], seen |-> world]]
      /\ UNCHANGED <<opening, world, pinned, crashes>>
  BY <1>1 DEF Admit
<1>3. job' = NoJob /\ job = NoJob /\ UNCHANGED <<left, ready, marked>>
  BY DEF RequestAdmitted, jobVars, Active
<1>4. /\ call' \in [RunId -> Call \cup {NoCall}]
      /\ call'[r].held = task[t]
      /\ call'[r] # NoCall
      /\ \A q \in RunId : q # r => call'[q] = call[q]
  <2> DEFINE request == [kind |-> kind, held |-> task[t], seen |-> world]
  <2>1. request \in Call /\ request.held = task[t] /\ request # NoCall
    BY BOParts, GraphParts DEF Call, NoCall
  <2>2. call' = [call EXCEPT ![r] = request]
    BY <1>2
  <2> HIDE DEF request
  <2> QED
    BY <2>1, <2>2, BOParts
<1>5. GraphOK' /\ SnapshotsOK'
  BY <1>2, <1>4, BOParts, StartKeepsGraph, StartKeepsSnapshots
<1>6. RunsAreOwned'
  <2>1. \A q \in RunId : q # r => runs'[q] = runs[q]
    BY <1>2, StartedRun, BOParts, GraphParts
  <2> QED
    BY <1>2, <1>3, <1>4, <2>1, BOParts DEF RunsAreOwned, NoJob
<1>7. ReadyAsPublished'
  BY <1>2, <1>3, BOParts DEF ReadyAsPublished
<1> QED
  BY <1>2, <1>3, <1>4, <1>5, <1>6, <1>7, NoJobIsFine, BOParts, BOPartsNext

\* The author edits an artifact: while a job is active that is the difference it
\* will find.
LEMMA TaskEditedSafe ==
  ASSUME BOInv, TaskEdited
  PROVE  BOInv'
<1>1. PICK t \in Task, seen \in 0..MaxRevision : EditTask(t, seen)
  BY DEF TaskEdited
<1>2. /\ EditArtifact(t, seen, TRUE)
      /\ UNCHANGED <<opening, call, world, pinned, crashes, left>>
      /\ job' = IF Active THEN [job EXCEPT !.ahead = Capped(@ + 1), !.others = TRUE] ELSE job
      /\ Demoted(TRUE) /\ Remarked
  BY <1>1 DEF TaskEdited, EditTask, requestVars
<1>3. CallsKept /\ GraphChange
  BY <1>2, BOParts, EditIsCommit DEF CallsKept, GraphChange
<1>4. GraphOK' /\ SnapshotsOK' /\ RunsOnlyClose
  BY <1>2, <1>3, BOParts, ChangeKeepsGraph
<1>5. ready' \in BOOLEAN /\ marked' \in BOOLEAN /\ ReadyAsPublished'
  BY <1>2 DEF Demoted, Remarked, ReadyAsPublished
<1>6. CASE ~Active
  <2>1. RunsAreOwned'
    BY <1>2, <1>4, <1>6, BOParts, OwnedKept
  <2> QED
    BY <1>2, <1>4, <1>5, <1>6, <2>1, NoJobIsFine, BOParts, BOPartsNext DEF Active
<1>7. CASE Active
  <2>1. /\ job' \in Job /\ job'.at = job.at /\ job'.turn = job.turn
        /\ job'.others = TRUE /\ job'.ahead = Capped(job.ahead + 1)
    <3> DEFINE n == Capped(job.ahead + 1)
    <3>1. job \in Job /\ job.ahead \in 0..3
      BY <1>7, WhileActive
    <3>2. n \in 0..3
      BY <3>1 DEF Capped
    <3>3. job' = [job EXCEPT !.ahead = n, !.others = TRUE]
      BY <1>2, <1>7, <3>1
    <3> HIDE DEF n
    <3>4. /\ job' \in Job /\ job'.at = job.at /\ job'.turn = job.turn
          /\ job'.others = TRUE /\ job'.ahead = n
      BY <3>1, <3>2, <3>3 DEF Job
    <3> QED
      BY <3>4 DEF n
  <2>2. JobHolds' /\ JobIsAlone'
    BY <1>3, <1>4, <1>7, <2>1, BOParts, JobHoldsKept, JobIsAloneKept
  <2>3. RunsAreOwned'
    BY <1>2, <1>4, <2>1, BOParts, OwnedKept
  <2>4. AheadOfOwn'
    <3>1. job.ahead \in 0..3 /\ AheadOfOwn
      BY <1>7, BOParts, WhileActive
    <3>2. job.at = "counting" => job.turn.wrote \in {1, 2}
      BY BOParts DEF JobHolds
    <3> QED
      BY <2>1, <3>1, <3>2 DEF AheadOfOwn, Capped
  <2>5. TurnInOrder'
    BY <2>1, TurnInOrderNext
  <2> QED
    BY <1>2, <1>4, <1>5, <2>1, <2>2, <2>3, <2>4, <2>5, BOParts, BOPartsNext DEF JobOK
<1> QED
  BY <1>6, <1>7

\* The author edits the project's fields.
LEMMA ProjectEditedSafe ==
  ASSUME BOInv, ProjectEdited
  PROVE  BOInv'
<1>1. /\ world' = 1 - world
      /\ UNCHANGED <<vars, opening, call, pinned, crashes, job, left, ready, marked>>
  BY DEF ProjectEdited, EditProject, jobVars
<1>2. world' \in World
  BY <1>1, BOParts DEF World
<1>3. GraphOK' /\ SnapshotsOK' /\ RunsOnlyClose /\ CallsKept
  BY <1>1, GraphUntouched
<1>4. JobOK'
  <2>1. JobHolds'
    BY <1>1, <1>3, BOParts, JobHoldsKept
  <2>2. JobIsAlone' /\ AheadOfOwn' /\ TurnInOrder'
    BY <1>1, BOParts
    DEF vars, JobIsAlone, AheadOfOwn, TurnInOrder, DoneIsBelow, NextIn, WorkableIn, BeforeTurn,
        Live, Active
  <2> QED
    BY <2>1, <2>2 DEF JobOK
<1>5. RunsAreOwned' /\ ReadyAsPublished'
  BY <1>1, <1>3, BOParts, OwnedKept DEF ReadyAsPublished
<1> QED
  BY <1>1, <1>2, <1>3, <1>4, <1>5, BOParts, BOPartsNext

\* The root is synchronized with the project only without an active job.
LEMMA InputSynchronizedSafe ==
  ASSUME BOInv, InputSynchronized
  PROVE  BOInv'
<1>1. /\ CommitCandidate(Root, task[Root].rev, TRUE)
      /\ pinned' = world /\ job = NoJob /\ job' = NoJob
      /\ Demoted(opening) /\ Remarked
      /\ UNCHANGED <<opening, call, world, crashes, left>>
  BY DEF InputSynchronized, SyncInput, Active
<1>2. CallsKept /\ GraphChange
  BY <1>1, BOParts, CandidateIsCommit, WorkbenchAssumption DEF CallsKept, GraphChange
<1>3. GraphOK' /\ SnapshotsOK' /\ RunsOnlyClose
  BY <1>1, <1>2, BOParts, ChangeKeepsGraph
<1>4. RunsAreOwned'
  BY <1>1, <1>3, BOParts, OwnedKept
<1>5. ready' \in BOOLEAN /\ marked' \in BOOLEAN /\ ReadyAsPublished'
  BY <1>1, BOParts DEF Demoted, Remarked, ReadyAsPublished
<1> QED
  BY <1>1, <1>3, <1>4, <1>5, NoJobIsFine, BOParts, BOPartsNext

\* The server stops: requests and job are gone, runs and records stay.
LEMMA StopSafe ==
  ASSUME BOInv, Stop
  PROVE  BOInv'
<1>1. /\ crashes < MaxCrashes /\ crashes' = crashes + 1
      /\ call' = [r \in RunId |-> NoCall]
      /\ UNCHANGED <<vars, opening, world, pinned, marked>>
      /\ job' = NoJob
      /\ left' = IF job.at = "working" THEN job.turn.run ELSE left
      /\ ready' \in {ready, FALSE}
  BY DEF Stop, Crash
<1>2. CallsKept /\ GraphChange
  BY <1>1, BOParts, GraphParts DEF CallsKept, GraphChange, Quiet, vars
<1>3. GraphOK' /\ SnapshotsOK' /\ RunsOnlyClose
  BY <1>1, <1>2, BOParts, ChangeKeepsGraph
<1>4. crashes' \in 0..MaxCrashes /\ crashes' # 0
  BY <1>1, BOParts, WorkbenchAssumption
<1>5. left' \in RunId \cup {NoRun}
  BY <1>1, BOParts DEF JobHolds
<1>6. RunsAreOwned' /\ ReadyAsPublished'
  <2>1. ready' = ready \/ ready' = FALSE
    BY <1>1
  <2> QED
    BY <1>1, <1>4, <2>1, BOParts DEF RunsAreOwned, ReadyAsPublished
<1>7. call' \in [RunId -> Call \cup {NoCall}] /\ ready' \in BOOLEAN
  BY <1>1, BOParts
<1> QED
  BY <1>1, <1>3, <1>4, <1>5, <1>6, <1>7, NoJobIsFine, BOParts, BOPartsNext

\* The server stops between the start of a run and the record of its id.
LEMMA StopUnrecordedSafe ==
  ASSUME BOInv, StopUnrecorded
  PROVE  BOInv'
<1> DEFINE t == job.turn.task
<1>1. PICK r \in RunId : StartRun(t, r, task[t].rev # 0)
  BY DEF StopUnrecorded
<1>2. /\ job.at = "chosen"
      /\ crashes < MaxCrashes /\ crashes' = crashes + 1
      /\ job' = NoJob /\ call' = [q \in RunId |-> NoCall]
      /\ UNCHANGED <<opening, world, pinned, left, ready, marked>>
  BY DEF StopUnrecorded
<1>3. t \in Task
  BY <1>2, BOParts DEF JobHolds
<1> HIDE DEF t
<1>4. GraphOK' /\ SnapshotsOK'
  <2>1. \A q \in RunId : call'[q] = NoCall
    BY <1>2
  <2> QED
    BY <1>1, <1>2, <1>3, <2>1, BOParts, StartKeepsGraph, StartKeepsSnapshots
<1>5. crashes' \in 0..MaxCrashes /\ crashes' # 0
  BY <1>2, BOParts, WorkbenchAssumption
<1>6. RunsAreOwned' /\ ReadyAsPublished'
  BY <1>2, <1>5, BOParts DEF RunsAreOwned, ReadyAsPublished
<1>7. call' \in [RunId -> Call \cup {NoCall}]
  BY <1>2
<1> QED
  BY <1>2, <1>4, <1>5, <1>6, <1>7, NoJobIsFine, BOParts, BOPartsNext

-------------------------------------------------------------------------------
(* What any step does to the graph *)

GraphStep ==
  GraphChange \/ \E t \in Task, r \in RunId : StartRun(t, r, TRUE)

\* Each step of the job is one of the steps of the graph above.
LEMMA JobGraphStep ==
  ASSUME BOInv, JobStep
  PROVE  GraphStep
<1>1. ASSUME UNCHANGED vars
      PROVE  GraphStep
  BY <1>1, BOParts, GraphParts DEF GraphStep, GraphChange, Quiet, vars
<1>2. ASSUME NEW r \in RunId, Begin(r)
      PROVE  GraphStep
  <2>1. job.turn.task \in Task /\ StartRun(job.turn.task, r, TRUE)
    BY <1>2, BOParts DEF Begin, JobHolds, StartRun
  <2> QED
    BY <2>1 DEF GraphStep
<1>3. ASSUME NEW r \in RunId, Unrecorded(r)
      PROVE  GraphStep
  <2> DEFINE t == job.turn.task
             failed == [status |-> "failed", task |-> t, base |-> task[t].rev,
                        deps |-> DependencyRevisions(task, t)]
  <2>1. /\ runs[r] = NoRecord /\ t \in Task
        /\ runs' = [runs EXCEPT ![r] = failed]
        /\ task' = task /\ artifact' = artifact
    BY <1>3, BOParts DEF Unrecorded, JobHolds
  <2>2. failed \in BuildRun /\ failed.status = "failed"
    <3>1. DependencyRevisions(task, t) \in Revisions
      BY BOParts, GraphParts DEF DependencyRevisions, Revisions
    <3> QED
      BY <2>1, <3>1, BOParts, GraphParts DEF BuildRun
  <2> HIDE DEF failed
  <2> QED
    BY <2>1, <2>2, BOParts, GraphParts DEF GraphStep, GraphChange, Quiet
<1>4. CASE Import
  <2>1. job.turn.task \in Task
    BY <1>4, BOParts DEF Import, JobHolds
  <2> QED
    BY <1>4, <2>1, BOParts, CandidateIsCommit DEF Import, GraphStep, GraphChange
<1>5. CASE Work
  <2> DEFINE r == job.turn.run
  <2>1. /\ r \in RunId /\ HeldOnce(job.turn.held, r) /\ job.turn.held \in TaskState
        /\ job.turn.held.status \in {"ready", "stale", "validation_failed"}
    BY <1>5, BOParts DEF Work, JobHolds
  <2>2. Live(r) => MayHold(r, job.turn.held)
    <3> SUFFICES ASSUME Live(r)
                 PROVE  MayHold(r, job.turn.held)
      OBVIOUS
    <3>1. task[runs[r].task].rev = runs[r].base
      BY <2>1, LiveRun, BOParts, GraphParts DEF Live
    <3> QED
      BY <2>1, <3>1 DEF MayHold, HeldOnce
  <2>3. \/ CommitRun(r, runs[r].deps) \/ Superseded(r) \/ ConflictRun(r, job.turn.held)
        \/ FailPreserving(r, job.turn.held) \/ RunConflict(r)
    BY <1>5 DEF Work
  <2> HIDE DEF r
  <2>4. ConflictRun(r, job.turn.held) => Live(r)
    BY DEF ConflictRun, Live
  <2>5. FailPreserving(r, job.turn.held) => Live(r)
    BY DEF FailPreserving, FailRun, Live
  <2>6. job.turn.held.status \notin Usable
    BY <2>1 DEF Usable
  <2>7. Ends(r)
    BY <2>1, <2>2, <2>3, <2>4, <2>5, <2>6, BOParts, CommitEnds, SupersededEnds, GivingUpEnds,
       FailureEnds, RunConflictEnds DEF PutBackIsCurrent
  <2> QED
    BY <2>1, <2>7, BOParts, EndsIsChange DEF GraphStep
<1> QED
  BY <1>1, <1>2, <1>3, <1>4, <1>5 DEF JobStep, Choose, Publish, StopHere, Count, wbVars

\* And so is every other step.
LEMMA AnyGraphStep ==
  ASSUME BOInv, BONext
  PROVE  GraphStep
<1>1. ASSUME UNCHANGED vars
      PROVE  GraphStep
  BY <1>1, BOParts, GraphParts DEF GraphStep, GraphChange, Quiet, vars
<1>2. ASSUME NEW mode \in Mode, Start(mode)
      PROVE  GraphStep
  <2>1. CASE left # NoRun /\ task[runs[left].task].run = left
    <3>1. left \in RunId /\ ConflictRun(left, ReleasedAsStale(left))
      BY <1>2, <2>1, BOParts DEF Start, ReleaseInterrupted
    <3>2. Live(left) /\ Conflict(left, ReleasedAsStale(left))
      BY <3>1 DEF ConflictRun, Live
    <3> QED
      BY <3>1, <3>2, BOParts, ReleasedMayHold, ConflictReleases
      DEF PutBackIsCurrent, Usable, GraphStep, GraphChange
  <2>2. CASE ~(left # NoRun /\ task[runs[left].task].run = left)
    BY <1>1, <1>2, <2>2 DEF Start, ReleaseInterrupted
  <2> QED
    BY <2>1, <2>2
<1>3. ASSUME NEW r \in RunId, RequestAnswered(r)
      PROVE  GraphStep
  BY <1>3, BOParts, AnswerEnds, EndsIsChange DEF RequestAnswered, GraphStep
<1>4. CASE RequestAdmitted
  BY <1>4 DEF RequestAdmitted, Admit, GraphStep
<1>5. CASE TaskEdited
  BY <1>5, BOParts, EditIsCommit DEF TaskEdited, EditTask, GraphStep, GraphChange
<1>6. CASE InputSynchronized
  BY <1>6, BOParts, CandidateIsCommit, WorkbenchAssumption
  DEF InputSynchronized, SyncInput, GraphStep, GraphChange
<1>7. CASE StopUnrecorded
  <2>1. job.turn.task \in Task
    BY <1>7, BOParts DEF StopUnrecorded, JobHolds
  <2> QED
    BY <1>7, <2>1 DEF StopUnrecorded, StartRun, GraphStep
<1>8. CASE JobStep
  BY <1>8, JobGraphStep
<1>9. CASE ProjectEdited \/ Stop
  BY <1>1, <1>9 DEF ProjectEdited, EditProject, Stop, Crash
<1> QED
  BY <1>2, <1>3, <1>4, <1>5, <1>6, <1>7, <1>8, <1>9 DEF BONext

\* No revision goes back, and without the opening graph no task is revived.
LEMMA GraphStepSafe ==
  ASSUME GraphOK, SnapshotsOK, GraphStep
  PROVE  /\ \A t \in Task : task'[t].rev >= task[t].rev
         /\ ~opening => NoRevival
<1>1. CASE Quiet
  BY <1>1, GraphParts DEF Quiet, NoRevival, Usable
<1>2. ASSUME NEW t \in Task, Commits(t)
      PROVE  /\ \A c \in Task : task'[c].rev >= task[c].rev
             /\ NoRevival
  <2> DEFINE new == Committed(task, t)
  <2>1. /\ new[t].rev = task[t].rev + 1
        /\ \A c \in Task \ {t} : /\ new[c].rev = task[c].rev
                                 /\ new[c].status \in Usable => new[c] = task[c]
    BY GraphParts, CommittedFacts
  <2> HIDE DEF new
  <2>2. task' = new
    BY <1>2 DEF Commits, new
  <2> QED
    BY <2>1, <2>2, GraphParts DEF NoRevival, Usable
<1>3. ASSUME NEW r \in RunId, NEW s, Releases(r, s), PutBackIsCurrent(r, s)
      PROVE  /\ \A c \in Task : task'[c].rev >= task[c].rev
             /\ ~opening => NoRevival
  <2>1. \A c \in Task : task'[c].rev >= task[c].rev
    BY <1>3, ReleaseKeepsRevisions, GraphParts DEF RevisionsKept
  <2>2. ASSUME ~opening
        PROVE  NoRevival
    <3>1. s.status \in Usable => task[runs[r].task].status = "running"
      BY <1>3, <2>2, CurrentRunIsRunning DEF PutBackIsCurrent, Releases
    <3> QED
      BY <1>3, <3>1, GraphParts DEF Releases, NoRevival, Usable
  <2> QED
    BY <2>1, <2>2
<1>4. ASSUME NEW t \in Task, NEW r \in RunId, StartRun(t, r, TRUE)
      PROVE  /\ \A c \in Task : task'[c].rev >= task[c].rev
             /\ NoRevival
  <2>1. /\ task'[t].status = "running" /\ task'[t].rev = task[t].rev
        /\ \A c \in Task : c # t => task'[c] = task[c]
    BY <1>4, StartedRun, GraphParts
  <2>2. \A c \in Task : task'[c].rev >= task[c].rev
    BY <2>1, GraphParts
  <2>3. NoRevival
    <3> SUFFICES ASSUME NEW c \in Task, task[c].status = "stale", task'[c].status \in Usable
                 PROVE  FALSE
      BY DEF NoRevival
    <3> QED
      BY <2>1 DEF Usable
  <2> QED
    BY <2>2, <2>3
<1> QED
  BY <1>1, <1>2, <1>3, <1>4 DEF GraphStep, GraphChange

-------------------------------------------------------------------------------
(* The theorems *)

\* The new project
LEMMA BOInitialState == BOInit => BOInv
<1> SUFFICES ASSUME BOInit
             PROVE  BOInv
  OBVIOUS
<1>1. /\ IInv
      /\ \A t \in Task : task[t].rev = 0 /\ task[t].status \in {"ready", "blocked"}
      /\ \A r \in RunId : runs[r] = NoRecord
  BY InitialState DEF BOInit, WBInit, Init
<1>2. /\ opening \in Openings /\ call = [r \in RunId |-> NoCall]
      /\ world = 0 /\ pinned = 0 /\ crashes = 0
      /\ job = NoJob /\ left = NoRun /\ ready = FALSE /\ marked = FALSE
  BY DEF BOInit, WBInit
<1>3. GraphOK
  BY <1>1 DEF GraphOK, IInv, WrittenBelow
<1>4. \A r \in RunId : call[r] = NoCall /\ ~Live(r)
  BY <1>1, <1>2 DEF Live, NoRecord
<1>5. SnapshotsOK
  BY <1>1, <1>4 DEF SnapshotsOK, RequestsHold, SnapshotsAge, StaleIsLost, HeldIsFresh, IInv
<1>6. JobOK
  BY <1>2 DEF JobOK, JobHolds, JobIsAlone, AheadOfOwn, TurnInOrder, Active, NoJob
<1>7. BOTypeOK
  <2>1. call \in [RunId -> Call \cup {NoCall}] /\ crashes \in 0..MaxCrashes
    BY <1>2, WorkbenchAssumption
  <2>2. ready \in BOOLEAN /\ marked \in BOOLEAN
    BY <1>2
  <2> QED
    BY <1>2, <1>3, <2>1, <2>2 DEF BOTypeOK, WBTypeOK, GraphOK, World
<1>8. ReadyAsPublished /\ RunsAreOwned
  BY <1>2, <1>4 DEF ReadyAsPublished, RunsAreOwned, Live
<1> QED
  BY <1>3, <1>5, <1>6, <1>7, <1>8 DEF BOInv

\* Every step, one lemma for each action
LEMMA BOStepSafe ==
  ASSUME BOInv, BONext
  PROVE  BOInv'
<1>1. CASE Publish
  <2>1. /\ job.at = "choosing" /\ job' = NoJob /\ UNCHANGED wbVars /\ left' = left
        /\ ready' = TRUE /\ marked' = TRUE
    BY <1>1 DEF Publish
  <2>2. ready' \in BOOLEAN /\ marked' \in BOOLEAN /\ ReadyAsPublished'
    BY <2>1 DEF ReadyAsPublished
  <2> QED
    BY <2>1, <2>2, EndSafe
<1>2. CASE StopHere
  <2>1. /\ job.at \in {"choosing", "chosen"} /\ job' = NoJob /\ UNCHANGED wbVars /\ left' = left
        /\ ready' = ready /\ marked' = marked /\ opening' = opening
    BY <1>2 DEF StopHere, wbVars, requestVars
  <2>2. ready' \in BOOLEAN /\ marked' \in BOOLEAN /\ ReadyAsPublished'
    BY <2>1, BOParts DEF ReadyAsPublished
  <2> QED
    BY <2>1, <2>2, EndSafe
<1>3. CASE JobStep
  BY <1>1, <1>2, <1>3, ChooseSafe, BeginSafe, UnrecordedSafe, ImportSafe, WorkSafe, CountSafe
  DEF JobStep
<1> QED
  BY <1>3, StartSafe, RequestAnsweredSafe, RequestAdmittedSafe, TaskEditedSafe,
     ProjectEditedSafe, InputSynchronizedSafe, StopSafe, StopUnrecordedSafe DEF BONext

\* Stuttering
LEMMA BOStutterSafe ==
  ASSUME BOInv, UNCHANGED boVars
  PROVE  BOInv'
<1>1. UNCHANGED <<vars, opening, call, world, pinned, crashes, job, left, ready, marked>>
  BY DEF boVars, wbVars, requestVars, jobVars
<1>2. GraphOK' /\ SnapshotsOK' /\ RunsOnlyClose /\ CallsKept
  BY <1>1, GraphUntouched
<1>3. JobHolds'
  BY <1>1, <1>2, BOParts, JobHoldsKept
<1>4. JobIsAlone' /\ AheadOfOwn' /\ TurnInOrder'
  BY <1>1, BOParts
  DEF vars, JobIsAlone, AheadOfOwn, TurnInOrder, DoneIsBelow, NextIn, WorkableIn, BeforeTurn,
      Live, Active
<1>5. RunsAreOwned' /\ ReadyAsPublished'
  BY <1>1, <1>2, BOParts, OwnedKept DEF ReadyAsPublished
<1> QED
  BY <1>1, <1>2, <1>3, <1>4, <1>5, BOParts, BOPartsNext DEF JobOK

(***************************************************************************)
(* BOInv holds in every state of Build Graph, Workbench and orchestration  *)
(* together, for any graph, any number of runs and any number of stops:    *)
(* what the job carries from one look at the graph to the next agrees with *)
(* the graph, or the job will notice (file_projects.py:3767-4045,          *)
(* service.py:275-740).                                                    *)
(***************************************************************************)
THEOREM BOInvariant == BOSpec => []BOInv
<1>1. BOInv /\ [BONext]_boVars => BOInv'
  BY BOStepSafe, BOStutterSafe
<1> QED
  BY BOInitialState, <1>1, PTL DEF BOSpec

(***************************************************************************)
(* Every variable keeps its type.  In particular a record that a request   *)
(* or a job puts back is one a task may have (service.py:606-616).         *)
(***************************************************************************)
THEOREM BuildTypeCorrect == BOSpec => []BOTypeOK
<1>1. BOInv => BOTypeOK
  BY BOParts
<1> QED
  BY BOInvariant, <1>1, PTL

(***************************************************************************)
(* Without the opening graph, what may be used was made from what is       *)
(* current, although requests and jobs put old records back                *)
(* (service.py:346-358, file_projects.py:3056-3065).                       *)
(***************************************************************************)
THEOREM FreshWithoutOpening == BOSpec => []FreshUnlessOpening
<1>1. BOInv => FreshUnlessOpening
  BY BOParts DEF SnapshotsOK, FreshUnlessOpening
<1> QED
  BY BOInvariant, <1>1, PTL

(***************************************************************************)
(* With the opening graph, a project labelled ready holds every revision   *)
(* the graph holds: each way to write an artifact takes the label away     *)
(* first, and a job publishes under the lock it compared the graph under   *)
(* (file_projects.py:3054-3056, 3936-3972).                                *)
(***************************************************************************)
THEOREM ReadinessIsEarned == BOSpec => []ReadyAsPublished
<1>1. BOInv => ReadyAsPublished
  BY BOParts
<1> QED
  BY BOInvariant, <1>1, PTL

(***************************************************************************)
(* Until the server first stops, an open run is a request's or the job's   *)
(* (service.py:682-686).                                                   *)
(***************************************************************************)
THEOREM NoRunIsForgotten == BOSpec => []RunsAreOwned
<1>1. BOInv => RunsAreOwned
  BY BOParts
<1> QED
  BY BOInvariant, <1>1, PTL

(***************************************************************************)
(* Without the opening graph a stale artifact becomes usable only as a new *)
(* revision: a request whose task was made stale by a newer dependency     *)
(* does not get its snapshot back as completed (service.py:346-358,        *)
(* 606-616).                                                               *)
(***************************************************************************)
THEOREM NoRevivalWithoutOpening == BOSpec => NoRevivalUnlessOpening
<1>1. BOInv /\ [BONext]_boVars =>
        [\A t \in Task :
           (~opening /\ task[t].status = "stale"
              /\ task'[t].status \in {"completed", "review_required"})
             => task'[t].rev = task[t].rev + 1]_wbVars
  <2> SUFFICES ASSUME BOInv, BONext
               PROVE  \A t \in Task :
                        (~opening /\ task[t].status = "stale"
                           /\ task'[t].status \in {"completed", "review_required"})
                          => task'[t].rev = task[t].rev + 1
    BY DEF boVars
  <2>1. ~opening => NoRevival
    BY AnyGraphStep, GraphStepSafe, BOParts
  <2> QED
    BY <2>1 DEF NoRevival, Usable
<1> QED
  BY BOInvariant, <1>1, PTL DEF BOSpec, NoRevivalUnlessOpening

(***************************************************************************)
(* No step of anybody takes a committed revision away                      *)
(* (service.py:606-616).                                                   *)
(***************************************************************************)
THEOREM RevisionsOnlyGrow == BOSpec => RevisionsNeverGoBack
<1>1. BOInv /\ [BONext]_boVars => [\A t \in Task : task'[t].rev >= task[t].rev]_wbVars
  <2> SUFFICES ASSUME BOInv, BONext
               PROVE  \A t \in Task : task'[t].rev >= task[t].rev
    BY DEF boVars
  <2> QED
    BY AnyGraphStep, GraphStepSafe, BOParts
<1> QED
  BY BOInvariant, <1>1, PTL DEF BOSpec, RevisionsNeverGoBack

\* A job begins a task only from its choice, and when graph and project are what
\* it expects (file_projects.py:3777-3780, 3936-3941).
LEMMA BeginsAsExpected ==
  ASSUME BOInv, BONext, Begins
  PROVE  job.at = "chosen" /\ AsExpected
<1>1. job.at = "chosen" /\ job'.at \in {"working", "counting"}
  BY DEF Begins
<1>2. /\ job # NoJob
      /\ job' # job /\ job' # NoJob
      /\ job'.at # job.at
  BY <1>1 DEF NoJob
<1>3. ~TaskEdited
  <2> SUFFICES ASSUME TaskEdited
               PROVE  FALSE
    OBVIOUS
  <2>1. job' = [job EXCEPT !.ahead = Capped(@ + 1), !.others = TRUE]
    BY <1>2 DEF TaskEdited, Active
  <2>2. job \in Job
    BY <1>2, BOParts
  <2>3. job'.at = job.at
    BY <2>1, <2>2 DEF Job
  <2> QED
    BY <1>2, <2>3
<1>4. JobStep
  BY <1>2, <1>3 DEF BONext, Start, RequestAnswered, RequestAdmitted, ProjectEdited,
     InputSynchronized, Stop, StopUnrecorded, Active, jobVars
<1>5. (\E r \in RunId : Begin(r)) \/ Import
  BY <1>1, <1>2, <1>4 DEF JobStep, Choose, Publish, StopHere, Unrecorded, Work, Count
<1> QED
  BY <1>1, <1>5 DEF Begin, Import

(***************************************************************************)
(* Once somebody else changed the graph, the job begins no task and        *)
(* publishes nothing: its own revisions never make up for the other's      *)
(* (file_projects.py:3777-3780, 3936-3941, 4010-4013).                     *)
(***************************************************************************)
THEOREM StopsForAnyone == BOSpec => StopsForOthers
<1>1. BOInv /\ [BONext]_boVars => [(Begins \/ Publishes) => ~job.others]_boVars
  <2> SUFFICES ASSUME BOInv, BONext, Begins \/ Publishes
               PROVE  ~job.others
    OBVIOUS
  <2>1. CASE Begins
    <3>1. job.at = "chosen" /\ AsExpected
      BY <2>1, BeginsAsExpected
    <3> QED
      BY <3>1, WhileActive DEF Active, NoJob
  <2>2. CASE Publishes
    <3>1. Active /\ ready' /\ ~ready
      BY <2>2 DEF Publishes
    <3>2. Publish
      BY <3>1 DEF BONext, JobStep, Start, Choose, StopHere, Begin, Unrecorded, Import, Work,
         Count, RequestAnswered, RequestAdmitted, TaskEdited, ProjectEdited,
         InputSynchronized, Stop, StopUnrecorded, Demoted, jobVars
    <3>3. job.at = "choosing" /\ AsExpected
      BY <3>2 DEF Publish
    <3> QED
      BY <3>1, <3>3, WhileActive
  <2> QED
    BY <2>1, <2>2
<1> QED
  BY BOInvariant, <1>1, PTL DEF BOSpec, StopsForOthers

(***************************************************************************)
(* A job begins no task it has written.  The task it writes is the first   *)
(* that may be worked on, so everything its commit makes stale comes later *)
(* in the order, and nothing done before does (file_projects.py:449-457).  *)
(***************************************************************************)
THEOREM NoTaskTwice == BOSpec => EachTaskOnce
<1>1. BOInv /\ [BONext]_boVars => [Begins => job.turn.task \notin job.done]_boVars
  <2> SUFFICES ASSUME BOInv, BONext, Begins
               PROVE  job.turn.task \notin job.done
    OBVIOUS
  <2>1. job.at = "chosen" /\ AsExpected
    BY BeginsAsExpected
  <2>2. Active
    BY <2>1 DEF Active, NoJob
  <2>3. DoneIsBelow(task, job.mode, job.done) /\ NextIn(task, job.mode, job.turn.task)
    BY <2>1, <2>2, WhileActive, BOParts DEF TurnInOrder
  <2> QED
    BY <2>3 DEF DoneIsBelow, NextIn
<1> QED
  BY BOInvariant, <1>1, PTL DEF BOSpec, EachTaskOnce

===============================================================================
