------------------------- MODULE ContinuousGeneration -------------------------
(***************************************************************************)
(* Continuous generation of chapters:                                      *)
(* apps/api/services/continuous_generation.py and its routes in            *)
(* apps/api/routes/file_projects.py.                                       *)
(*                                                                         *)
(* One book.  A job lives in its JSON file (latest.json is a copy of the   *)
(* file saved last) and, while the process lasts, in the book's            *)
(* registration and on a one-worker executor.  Requests read the file,     *)
(* repair their copy against the book, save it and resume a job nobody     *)
(* works on, and hold no lock from one of these steps to the next; the     *)
(* author starts jobs, asks to stop them and confirms chapters of his own; *)
(* the server may stop.                                                    *)
(*                                                                         *)
(* Atomic is what one lock covers: an update of a job or a stop request    *)
(* (_JOB_FILE_LOCK, load and save), a look at the registration or a change *)
(* of it (_file_generation_jobs_lock).  The check of the guarded routes    *)
(* keeps the second lock over several steps of the first.                  *)
(*                                                                         *)
(* Abstracted: a job's messages, reasons and review warnings; completed,   *)
(* stopped and failed to one status, ended, since every test of a status   *)
(* asks only whether the job has ended; the outline gates, a generation    *)
(* and a confirmation to their outcomes; saving the two copies of a job is *)
(* one step, and so is registering and submitting it, and so are the reads *)
(* and the repair a runner begins with: whatever falls in between them is  *)
(* the same as before or after.                                            *)
(***************************************************************************)
EXTENDS Naturals, Sequences, FiniteSets

CONSTANTS
  Job,          \* job ids
  NoJob,
  Request,      \* requests that read a job, served at the same time
  Guard,        \* the check of the guarded routes, which take turns at it
  Count,        \* requested_count of every job
  MaxChapter,   \* bound: chapters of the book
  MaxCrashes    \* bound: how often the server stops

ASSUME ContinuousAssumption ==
  /\ NoJob \notin Job /\ Guard \notin Request
  /\ Count \in Nat \ {0}
  /\ MaxChapter \in Nat /\ MaxCrashes \in Nat

VARIABLES
  chapter,     \* current_chapter of the official state
  file,        \* the jobs' files
  latest,      \* the job latest.json is about
  registered,  \* _active_continuous_generation_jobs[story]
  queue,       \* submitted jobs; the head is on the worker
  pc,          \* where each job's runner is
  next,        \* next_chapter of each runner
  draft,       \* chapter of each runner's candidate
  req,         \* the requests being served
  asked,       \* the author's own candidate that passed the check, or 0
  wrote,       \* history: chapters each job has confirmed
  late,        \* history: 0, or 1 + chapters confirmed since the job was asked to stop
  overtaken,   \* history: jobs a repair was saved for that was no longer of their record
  crashes

vars == <<chapter, file, latest, registered, queue, pc, next, draft, req,
          asked, wrote, late, overtaken, crashes>>
disk == <<file, latest>>
runner == <<queue, pc, next, draft>>
history == <<wrote, late, overtaken>>

Active == {"queued", "running", "stopping"}
Terminal == {"ended"}   \* completed, stopped or failed
SafeRecovery == {"queued", "between_chapters"}
Phase == SafeRecovery \cup {"checking_outline", "generating", "confirming"}

Record == [status: Active \cup Terminal, phase: Phase, stop: BOOLEAN,
           start: 1..MaxChapter+1, done: SUBSET (1..MaxChapter), count: Nat]
NoRecord == [status |-> "absent"]
Exists(j) == file[j] # NoRecord

Idle == [at |-> "idle"]
Kind == {"get", "stop"}

Place == {"none", "queued", "prepare", "loop", "gate", "generating",
          "generated", "confirming", "confirmed", "closing"}

Init ==
  /\ chapter = 0
  /\ file = [j \in Job |-> NoRecord]
  /\ latest = NoJob
  /\ registered = NoJob
  /\ queue = <<>>
  /\ pc = [j \in Job |-> "none"]
  /\ next = [j \in Job |-> 0]
  /\ draft = [j \in Job |-> 0]
  /\ req = [r \in Request \cup {Guard} |-> Idle]
  /\ asked = 0
  /\ wrote = [j \in Job |-> 0]
  /\ late = [j \in Job |-> 0]
  /\ overtaken = {}
  /\ crashes = 0

-------------------------------------------------------------------------------
(* The job store *)

Save(j, record) == file' = [file EXCEPT ![j] = record] /\ latest' = j

\* update(job_id, status=..., phase=...): the other fields are kept
Update(j, status, phase) ==
  Save(j, [file[j] EXCEPT !.status = status, !.phase = phase])

\* Mutant: an interrupted chapter is taken up again
RepairedAnyway(record) ==
  IF record.status \in Active /\ record.phase \notin SafeRecovery
  THEN [record EXCEPT !.phase = "between_chapters"]
  ELSE record

\* reconcile: one confirmed chapter beyond the count is counted; a job between
\* two chapters may go on; anything else is stopped.  A terminal record stays.
\* The chapter is counted even if it is on the list already, after chapters of
\* the author's own have left a gap there.
Repaired(record) ==
  LET expected == record.start - 1 + Cardinality(record.done)
      count == Cardinality(record.done) + 1
  IN CASE record.status \notin Active -> record
       [] /\ record.status \in Active
          /\ chapter = expected + 1
          /\ record.phase \in {"generating", "confirming"} ->
            [record EXCEPT !.done = @ \cup {chapter}, !.count = count,
              !.phase = "between_chapters",
              !.status = IF count >= Count THEN "ended" ELSE @]
       [] /\ record.status \in Active
          /\ ~(chapter = expected + 1 /\ record.phase \in {"generating", "confirming"})
          /\ chapter # expected \/ record.phase \notin SafeRecovery ->
            [record EXCEPT !.status = "ended"]
       [] OTHER -> record

Reconcile(j, record) ==
  IF Repaired(record) = record THEN UNCHANGED disk ELSE Save(j, Repaired(record))

-------------------------------------------------------------------------------
(* A request takes up a job: GET .../{job_id}, GET .../current, POST         *)
(* .../{job_id}/stop, and the check of the guarded routes for the latest job *)

\* `seen` is what was read and `copy` what it is repaired to.  Of a copy that
\* needs no more saving, the rest asks only whether it is active and in a phase
\* from which it can be resumed.
Reading(at, kind, j, seen) == [at |-> at, kind |-> kind, job |-> j, seen |-> seen]
Saving(kind, j, seen, copy) ==
  [at |-> "save", kind |-> kind, job |-> j, seen |-> seen, copy |-> copy]
Settled(kind, j, copy) ==
  [at |-> "settled", kind |-> kind, job |-> j,
   copy |-> IF copy.status \notin Active THEN "ended"
            ELSE IF copy.phase \in SafeRecovery THEN "waiting" ELSE "interrupted"]

\* Nobody is between the first and the last step of the check of a guarded route
Unlocked == req[Guard] = Idle

\* Reading a job that has ended changes nothing
Read(r, j, kind) ==
  /\ req[r] = Idle
  /\ file[j].status \in Active
  /\ req' = [req EXCEPT ![r] = Reading("read", kind, j, file[j])]
  /\ UNCHANGED <<chapter, disk, registered, runner, asked, history, crashes>>

\* Only a job that is not the registered one is reconciled
Look(r) ==
  /\ req[r].at = "read" /\ Unlocked
  /\ LET q == req[r] IN
     req' = [req EXCEPT ![r] = IF registered = q.job THEN Settled(q.kind, q.job, q.seen)
                               ELSE Reading("unregistered", q.kind, q.job, q.seen)]
  /\ UNCHANGED <<chapter, disk, registered, runner, asked, history, crashes>>

\* _continuous_generation_active_locked: nothing is registered since the start
LookAtLatest ==
  /\ Unlocked
  /\ registered = NoJob /\ latest # NoJob
  /\ req' = [req EXCEPT ![Guard] = Reading("unregistered", "guard", latest, file[latest])]
  /\ UNCHANGED <<chapter, disk, registered, runner, asked, history, crashes>>

\* The repair of the copy, against the book as it is now
Repair(r) ==
  /\ req[r].at = "unregistered"
  /\ LET q == req[r]
         copy == Repaired(q.seen)
     IN req' = [req EXCEPT ![r] = IF copy = q.seen THEN Settled(q.kind, q.job, copy)
                                  ELSE Saving(q.kind, q.job, q.seen, copy)]
  /\ UNCHANGED <<chapter, disk, registered, runner, asked, history, crashes>>

\* The job was saved or taken up since it was read, and the repair says otherwise
Overtaken(r) ==
  LET j == req[r].job IN
  file[j] # req[r].copy /\ (file[j] # req[r].seen \/ registered = j)

\* which is saved whatever became of the job
SaveRepair(r) ==
  /\ req[r].at = "save"
  /\ Save(req[r].job, req[r].copy)
  /\ req' = [req EXCEPT ![r] = Settled(req[r].kind, req[r].job, req[r].copy)]
  /\ overtaken' = IF Overtaken(r) THEN overtaken \cup {req[r].job} ELSE overtaken
  /\ UNCHANGED <<chapter, registered, runner, asked, wrote, late, crashes>>

Resume(r) ==
  /\ req[r].at = "settled" /\ req[r].kind = "get" /\ Unlocked
  /\ req' = [req EXCEPT ![r] = Idle]
  /\ LET j == req[r].job IN
     IF req[r].copy = "waiting" /\ registered = NoJob
     THEN /\ registered' = j
          /\ queue' = Append(queue, j)
          /\ pc' = [pc EXCEPT ![j] = "queued"]
     ELSE UNCHANGED <<registered, queue, pc>>
  /\ UNCHANGED <<chapter, disk, next, draft, asked, history, crashes>>

Told(j) == late' = [late EXCEPT ![j] = IF @ = 0 THEN 1 ELSE @]

\* Mutant: a stop request only changes what is displayed
RequestStopShown(r) ==
  /\ req[r].at = "settled" /\ req[r].kind = "stop"
  /\ req' = [req EXCEPT ![r] = Idle]
  /\ LET j == req[r].job IN
     IF file[j].status \in Terminal THEN UNCHANGED <<disk, late>>
     ELSE Save(j, [file[j] EXCEPT !.status = "stopping"]) /\ Told(j)
  /\ UNCHANGED <<chapter, registered, runner, asked, wrote, overtaken, crashes>>

\* Mutant: a finished job can be asked to stop
RequestStopAlways(r) ==
  /\ req[r].at = "settled" /\ req[r].kind = "stop"
  /\ req' = [req EXCEPT ![r] = Idle]
  /\ LET j == req[r].job IN
     Save(j, [file[j] EXCEPT !.stop = TRUE, !.status = "stopping"]) /\ Told(j)
  /\ UNCHANGED <<chapter, registered, runner, asked, wrote, overtaken, crashes>>

\* request_stop, on the file as it is now
RequestStop(r) ==
  /\ req[r].at = "settled" /\ req[r].kind = "stop"
  /\ req' = [req EXCEPT ![r] = Idle]
  /\ LET j == req[r].job IN
     IF file[j].status \in Terminal THEN UNCHANGED <<disk, late>>
     ELSE Save(j, [file[j] EXCEPT !.stop = TRUE, !.status = "stopping"]) /\ Told(j)
  /\ UNCHANGED <<chapter, registered, runner, asked, wrote, overtaken, crashes>>

-------------------------------------------------------------------------------
(* The guarded routes                                                        *)

\* The check has come to its verdict: of the registered job, or of the latest
\* one if none is registered
Decided == registered # NoJob \/ latest = NoJob \/ req[Guard].at = "settled"

\* Mutant: a job told to stop no longer counts
BusyUnlessStopping ==
  IF registered # NoJob THEN file[registered].status \in {"queued", "running"}
  ELSE FALSE

Busy ==
  IF registered # NoJob THEN file[registered].status \in Active
  ELSE req[Guard] # Idle /\ req[Guard].copy # "ended"

Released == req' = [req EXCEPT ![Guard] = Idle]

\* A job that is active is registered, whether it has a runner or not
Refused ==
  /\ Decided /\ Busy
  /\ registered' = IF registered # NoJob THEN registered ELSE req[Guard].job
  /\ Released
  /\ UNCHANGED <<chapter, disk, runner, asked, history, crashes>>

New == [status |-> "queued", phase |-> "queued", stop |-> FALSE,
        start |-> chapter + 1, done |-> {}, count |-> 0]

\* Mutant: a job is registered and not submitted
StartUnsubmitted(j) ==
  /\ Decided /\ ~Busy
  /\ ~Exists(j)
  /\ chapter < MaxChapter
  /\ Save(j, New)
  /\ registered' = j
  /\ Released
  /\ UNCHANGED <<chapter, runner, asked, history, crashes>>

\* start_continuous_generation_job
Start(j) ==
  /\ Decided /\ ~Busy
  /\ ~Exists(j)
  /\ chapter < MaxChapter
  /\ Save(j, New)
  /\ registered' = j
  /\ queue' = Append(queue, j)
  /\ pc' = [pc EXCEPT ![j] = "queued"]
  /\ Released
  /\ UNCHANGED <<chapter, next, draft, asked, history, crashes>>

\* Confirming a candidate by hand: the check, and later the confirmation
Ask ==
  /\ Decided /\ ~Busy
  /\ asked = 0
  /\ chapter < MaxChapter
  /\ asked' = chapter + 1
  /\ Released
  /\ UNCHANGED <<chapter, disk, registered, runner, history, crashes>>

ConfirmByHand ==
  /\ asked # 0
  /\ chapter' = IF asked > chapter THEN asked ELSE chapter
  /\ asked' = 0
  /\ UNCHANGED <<disk, registered, runner, req, history, crashes>>

\* Any other guarded route does nothing to a job
Allowed ==
  /\ Decided /\ ~Busy /\ ~Unlocked
  /\ Released
  /\ UNCHANGED <<chapter, disk, registered, runner, asked, history, crashes>>

-------------------------------------------------------------------------------
Crash ==
  /\ crashes < MaxCrashes
  /\ crashes' = crashes + 1
  /\ registered' = NoJob
  /\ queue' = <<>>
  /\ pc' = [j \in Job |-> "none"]
  /\ req' = [r \in Request \cup {Guard} |-> Idle]
  /\ asked' = 0
  /\ next' = [j \in Job |-> 0]
  /\ draft' = [j \in Job |-> 0]
  /\ UNCHANGED <<chapter, disk, history>>

-------------------------------------------------------------------------------
(* ContinuousGenerationRunner.run                                            *)

OnWorker(j, place) == queue # <<>> /\ Head(queue) = j /\ pc[j] = place
Goto(j, place) == pc' = [pc EXCEPT ![j] = place]

\* Load, reconcile, and return at once from a job that has ended
Load(j) ==
  /\ OnWorker(j, "queued")
  /\ Reconcile(j, file[j])
  /\ Goto(j, IF Repaired(file[j]).status \in Terminal THEN "closing" ELSE "prepare")
  /\ UNCHANGED <<chapter, registered, queue, next, draft, req, asked, history, crashes>>

Prepare(j) ==
  /\ OnWorker(j, "prepare")
  /\ Update(j, "running", file[j].phase)
  /\ Goto(j, "loop")
  /\ UNCHANGED <<chapter, registered, queue, next, draft, req, asked, history, crashes>>

\* The checks before a chapter: a stop request, the count, the outline gates
Check(j) ==
  /\ OnWorker(j, "loop")
  /\ \/ /\ file[j].stop
        /\ Update(j, "ended", file[j].phase)
        /\ Goto(j, "closing") /\ UNCHANGED next
     \/ /\ ~file[j].stop /\ file[j].count >= Count
        /\ Update(j, "ended", "between_chapters")
        /\ Goto(j, "closing") /\ UNCHANGED next
     \/ /\ ~file[j].stop /\ file[j].count < Count
        /\ Update(j, "ended", "checking_outline")
        /\ Goto(j, "closing") /\ UNCHANGED next
     \/ /\ ~file[j].stop /\ file[j].count < Count
        /\ chapter < MaxChapter
        /\ next' = [next EXCEPT ![j] = chapter + 1]
        /\ Goto(j, "gate") /\ UNCHANGED disk
  /\ UNCHANGED <<chapter, registered, queue, draft, req, asked, history, crashes>>

Announce(j) ==
  /\ OnWorker(j, "gate")
  /\ Update(j, "running", "generating")
  /\ Goto(j, "generating")
  /\ UNCHANGED <<chapter, registered, queue, next, draft, req, asked, history, crashes>>

\* generate_next_chapter reads the current chapter for itself
Generate(j) ==
  /\ OnWorker(j, "generating")
  /\ \/ /\ chapter < MaxChapter
        /\ draft' = [draft EXCEPT ![j] = chapter + 1]
        /\ Goto(j, "generated") /\ UNCHANGED disk
     \/ /\ Update(j, "ended", file[j].phase)
        /\ Goto(j, "closing") /\ UNCHANGED draft
  /\ UNCHANGED <<chapter, registered, queue, next, req, asked, history, crashes>>

Submit(j) ==
  /\ OnWorker(j, "generated")
  /\ Update(j, file[j].status, "confirming")
  /\ Goto(j, "confirming")
  /\ UNCHANGED <<chapter, registered, queue, next, draft, req, asked, history, crashes>>

\* confirm_candidate, once more with its warnings accepted if need be.  A
\* candidate for a chapter the book already has is refused; so may any other be.
Confirm(j) ==
  /\ OnWorker(j, "confirming")
  /\ \/ /\ draft[j] > chapter
        /\ chapter' = draft[j]
        /\ wrote' = [wrote EXCEPT ![j] = @ + 1]
        /\ late' = [late EXCEPT ![j] = IF @ = 0 THEN 0 ELSE @ + 1]
        /\ Goto(j, "confirmed") /\ UNCHANGED <<disk, overtaken>>
     \/ /\ Update(j, "ended", file[j].phase)
        /\ Goto(j, "closing") /\ UNCHANGED <<chapter, history>>
  /\ UNCHANGED <<registered, queue, next, draft, req, asked, crashes>>

\* Mutant: the chapter after the confirmed one is recorded
AccountNext(j) ==
  /\ OnWorker(j, "confirmed")
  /\ Save(j, [file[j] EXCEPT !.done = @ \cup ({chapter + 1} \cap (1..MaxChapter)),
                             !.count = @ + 1, !.phase = "between_chapters"])
  /\ Goto(j, "loop")
  /\ UNCHANGED <<chapter, registered, queue, next, draft, req, asked, history, crashes>>

Account(j) ==
  /\ OnWorker(j, "confirmed")
  /\ Save(j, [file[j] EXCEPT !.done = @ \cup {next[j]}, !.phase = "between_chapters",
                             !.count = IF next[j] \in file[j].done THEN @ ELSE @ + 1])
  /\ Goto(j, "loop")
  /\ UNCHANGED <<chapter, registered, queue, next, draft, req, asked, history, crashes>>

\* The finally clause clears its own registration only
Close(j) ==
  /\ OnWorker(j, "closing") /\ Unlocked
  /\ registered' = IF registered = j THEN NoJob ELSE registered
  /\ queue' = Tail(queue)
  /\ Goto(j, "none")
  /\ next' = [next EXCEPT ![j] = 0]
  /\ draft' = [draft EXCEPT ![j] = 0]
  /\ UNCHANGED <<chapter, disk, req, asked, history, crashes>>

Work(j) ==
  \/ Load(j) \/ Prepare(j) \/ Check(j) \/ Announce(j) \/ Generate(j)
  \/ Submit(j) \/ Confirm(j) \/ Account(j) \/ Close(j)

Serve(r) == Look(r) \/ Resume(r) \/ RequestStop(r)

Next ==
  \/ \E r \in Request, j \in Job, kind \in Kind : Read(r, j, kind)
  \/ \E r \in Request : Serve(r)
  \/ LookAtLatest
  \/ \E r \in Request \cup {Guard} : Repair(r) \/ SaveRepair(r)
  \/ \E j \in Job : Start(j) \/ Work(j)
  \/ Refused \/ Ask \/ Allowed
  \/ ConfirmByHand
  \/ Crash

Spec == Init /\ [][Next]_vars

-------------------------------------------------------------------------------
TypeOK ==
  /\ chapter \in 0..MaxChapter
  /\ file \in [Job -> Record \cup {NoRecord}]
  /\ latest \in Job \cup {NoJob}
  /\ registered \in Job \cup {NoJob}
  /\ queue \in Seq(Job)
  /\ pc \in [Job -> Place]
  /\ \A j \in Job : pc[j] # "none" <=> \E i \in 1..Len(queue) : queue[i] = j
  /\ \A i, k \in 1..Len(queue) : queue[i] = queue[k] => i = k
  /\ next \in [Job -> 0..MaxChapter]
  /\ draft \in [Job -> 0..MaxChapter]
  /\ asked \in 0..MaxChapter
  /\ crashes \in 0..MaxCrashes

(***************************************************************************)
(* A chapter a job reports as completed is in the book, through restarts   *)
(* and chapters the author confirms meanwhile                              *)
(* (continuous_generation.py:133-147, 388-400).                            *)
(***************************************************************************)
CompletedAreOfficial == \A j \in Job : Exists(j) => file[j].done \subseteq 1..chapter

(***************************************************************************)
(* Excepted below are the jobs that were overtaken: a request had read the *)
(* record, the job went on, and the repair of the old copy was saved over  *)
(* it.  What becomes of these is the subject of the run that fails.         *)
(***************************************************************************)

(***************************************************************************)
(* A job confirms no more chapters than it was asked for, however often it *)
(* is interrupted and resumed: a chapter confirmed just before a restart   *)
(* is counted, not written again (continuous_generation.py:115-159).       *)
(***************************************************************************)
NeverMoreThanAsked == \A j \in Job \ overtaken : wrote[j] <= Count

(***************************************************************************)
(* Once it was told to stop, a job confirms at most the chapter it is      *)
(* about to write (continuous_generation.py:186-194).                      *)
(***************************************************************************)
StopIsHeeded == \A j \in Job \ overtaken : late[j] <= 2

(***************************************************************************)
(* A job that has ended stays as it is, also for the requests that read it *)
(* while it was at work (continuous_generation.py:98-99, 124-125).         *)
(***************************************************************************)
TerminalStays ==
  [][\A j \in Job : file[j].status \in Terminal
       => file'[j].status \in Terminal \/ j \in overtaken']_vars

(***************************************************************************)
(* Recovery leaves terminal jobs unchanged, of every job, overtaken or not *)
(* (file_projects.py:2349-2371).                                           *)
(***************************************************************************)
EveryTerminalStays ==
  [][\A j \in Job : file[j].status \in Terminal => file'[j].status \in Terminal]_vars

(***************************************************************************)
(* Of one book, at most one unfinished job is submitted: a second is       *)
(* started only when the first has ended (file_projects.py:2275-2294).     *)
(***************************************************************************)
OneJobAtWork ==
  Cardinality({j \in Job \ overtaken : pc[j] # "none" /\ file[j].status \in Active}) <= 1

(***************************************************************************)
(* Unless the server stops, every active job has its runner, queued or at  *)
(* work, and a runner that is about to leave has ended its job: no job is  *)
(* left active for a worker that never comes                               *)
(* (file_projects.py:1286-1300, 2275-2300).                                *)
(***************************************************************************)
ActiveIsWorkedOn ==
  \A j \in Job \ overtaken : file[j].status \in Active =>
    pc[j] \notin {"none", "closing"} \/ (crashes > 0 /\ pc[j] = "none")

===============================================================================
