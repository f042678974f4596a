-------------------------- MODULE FileGenerationJobs --------------------------
(***************************************************************************)
(* The jobs that write or review one chapter of a book: the file           *)
(* generation jobs of apps/api/routes/file_projects.py.                    *)
(*                                                                         *)
(* A job lives in memory, in its JSON file (latest.json is a copy of the   *)
(* file saved last), perhaps in the book's slot, and on an executor with   *)
(* one worker.  Two locks matter: the jobs lock (_file_generation_jobs_    *)
(* lock), held for one step of bookkeeping, and the book's project lock.   *)
(* Admitting a review takes the second inside the first; the worker takes  *)
(* the first to report progress, and some operations report while they     *)
(* hold the second.                                                        *)
(*                                                                         *)
(* Abstracted: progress messages and steps; what a job writes to whether   *)
(* the book gains a chapter; time to "the job has been quiet for too       *)
(* long"; outline, plan and opening gates to a refusal; a continuous job   *)
(* (ContinuousGeneration) to whether one is active.                        *)
(***************************************************************************)
EXTENDS Naturals, Sequences

CONSTANTS
  Job,          \* job ids
  NoJob,
  Kinds,        \* what authors ask for
  MaxChapter,   \* bound: chapters of the book
  MaxCrashes,   \* bound: how often the server stops
  MaxFaults     \* bound: files that cannot be written, submissions that fail

\* author: a draft of the next chapter (candidate_only).  directions: opening
\* directions.  review: a recheck or a revision of a draft.  plain: the next
\* chapter, confirmed at once, and a contextual review.  rewrite: regenerate,
\* polish and expand, which hold the project lock while the model works, and a
\* review repair, which saves its draft and reports it in one transaction.
Kind == {"author", "directions", "review", "plain", "rewrite"}
Authored == {"author", "directions", "review"}   \* author_job in report_progress
Direct == {"directions", "review"}               \* admitted under both locks

ASSUME FileJobsAssumption ==
  /\ NoJob \notin Job
  /\ Kinds \subseteq Kind
  /\ MaxChapter \in Nat /\ MaxCrashes \in Nat /\ MaxFaults \in Nat

VARIABLES
  mem,         \* _file_generation_jobs
  disk,        \* the jobs' files
  latest,      \* the job latest.json is about
  slot,        \* _active_file_generation_jobs[story]
  queue,       \* the executor; the head is on the worker
  at,          \* where the worker is with it
  door,        \* the kind of job whose admission holds the jobs lock, or "open"
  project,     \* the worker holds the project lock
  request,     \* start_file_generation_job between its two lock sections, or after
  chapter,     \* current_chapter
  continuous,  \* a continuous job is active
  session,     \* _file_generation_session: which process this is
  faults

vars == <<mem, disk, latest, slot, queue, at, door, project, request,
          chapter, continuous, session, faults>>
files == <<disk, latest>>
records == <<mem, disk, latest, slot>>
worker == <<queue, at, project>>
outside == <<chapter, continuous, session, faults>>

Active == {"queued", "running"}
Status == Active \cup {"done", "completed", "failed", "interrupted"}
Record == [kind: Kind, status: Status, session: 0..MaxCrashes, from: 0..MaxChapter]
NoRecord == [kind |-> "absent", status |-> "absent"]
NoRequest == [at |-> "none"]
Worked == queue # <<>>
This == Head(queue)
Alone == door = "open"

-------------------------------------------------------------------------------
(* _reconcile_file_generation_job_locked                                     *)

\* A job whose worker died with an earlier process
Left(r) == r.kind \in Authored /\ r.session # session

\* Mutant: a review is taken for a job that writes the chapter
OvertakenAnyway(r) == chapter > r.from

\* The book has gained a chapter since; callers that know the book look
Overtaken(r) == chapter > r.from /\ r.kind # "review"

\* A quiet model call still belongs to this process
Live(j, r, owner) == r.kind \in Authored /\ r.session = session /\ owner = j

Reconciled(j, r, owner, known, quiet) ==
  LET how == CASE r.status \notin Active -> r.status
               [] r.status \in Active /\ Left(r) -> "interrupted"
               [] r.status \in Active /\ ~Left(r) /\ known /\ Overtaken(r) -> "completed"
               [] r.status \in Active /\ ~Left(r) /\ ~(known /\ Overtaken(r))
                  /\ quiet /\ ~Live(j, r, owner) -> "failed"
               [] OTHER -> r.status
  IN [r EXCEPT !.status = how]

Save(j, r) == disk' = [disk EXCEPT ![j] = r] /\ latest' = j

\* The record r of job j was looked at while `owner` held the slot
Look(j, r, owner, known, quiet) ==
  LET now == Reconciled(j, r, owner, known, quiet) IN
  /\ mem' = [mem EXCEPT ![j] = now]
  /\ IF now = r
     THEN slot' = owner /\ UNCHANGED files
     ELSE slot' = (IF owner = j THEN NoJob ELSE owner) /\ Save(j, now)

\* _normal_generation_active_locked, and what it leaves behind
Occupied(quiet) ==
  slot # NoJob /\ Reconciled(slot, mem[slot], slot, TRUE, quiet).status \in Active

LookAtSlot(quiet) ==
  IF slot = NoJob THEN UNCHANGED records ELSE Look(slot, mem[slot], slot, TRUE, quiet)

\* What such a look leaves in memory and, if it ends the job, in its file
Seen(quiet) ==
  [j \in Job |-> IF j = slot THEN Reconciled(j, mem[j], slot, TRUE, quiet) ELSE mem[j]]
Kept(quiet) == [j \in Job |-> IF Seen(quiet)[j] = mem[j] THEN disk[j] ELSE Seen(quiet)[j]]

-------------------------------------------------------------------------------
Init ==
  /\ mem = [j \in Job |-> NoRecord] /\ disk = mem
  /\ latest = NoJob /\ slot = NoJob
  /\ queue = <<>> /\ at = "idle"
  /\ door = "open" /\ project = FALSE
  /\ request = NoRequest
  /\ chapter \in 0..MaxChapter
  /\ continuous = FALSE
  /\ session = 0 /\ faults = 0

Fresh(j) == mem[j] = NoRecord /\ disk[j] = NoRecord
New(kind) == [kind |-> kind, status |-> "queued", session |-> session, from |-> chapter]
Fault == faults < MaxFaults /\ faults' = faults + 1

\* Mutant: the job is visible before it is known to be saved
AdmitEarly(j) ==
  /\ door # "open" /\ ~project /\ Fresh(j)
  /\ mem' = [mem EXCEPT ![j] = New(door)]
  /\ slot' = j
  /\ \/ Save(j, New(door)) /\ queue' = Append(queue, j) /\ UNCHANGED faults
     \/ Fault /\ UNCHANGED <<files, queue>>
  /\ door' = "open"
  /\ UNCHANGED <<at, project, request, chapter, continuous, session>>

\* start_candidate_review_job, start_opening_direction_job: the checks, then
\* the project lock, both inside the jobs lock
Enter(kind, quiet) ==
  /\ Alone /\ kind \in Kinds \cap Direct
  /\ kind = "directions" => chapter = 0
  /\ IF Occupied(quiet) \/ continuous THEN UNCHANGED door ELSE door' = kind
  /\ LookAtSlot(quiet)
  /\ UNCHANGED <<worker, request, outside>>

Admit(j) ==
  /\ door # "open" /\ ~project /\ Fresh(j)
  /\ mem' = [mem EXCEPT ![j] = New(door)]
  /\ slot' = j
  /\ Save(j, New(door))
  /\ queue' = Append(queue, j)
  /\ door' = "open"
  /\ UNCHANGED <<at, project, request, outside>>

\* The executor does not take it: the slot and the job are given up at once
AdmitUnsubmitted(j) ==
  /\ door # "open" /\ ~project /\ Fresh(j)
  /\ Fault
  /\ LET r == [New(door) EXCEPT !.status = "failed"] IN
     /\ mem' = [mem EXCEPT ![j] = r]
     /\ Save(j, r)
  /\ slot' = NoJob
  /\ door' = "open"
  /\ UNCHANGED <<worker, request, chapter, continuous, session>>

\* The draft is not pending any more, the sources have changed, or the job
\* cannot be saved
Refuse ==
  /\ door # "open" /\ ~project
  /\ door' = "open"
  /\ UNCHANGED <<records, worker, request, outside>>

\* start_file_generation_job: the first lock section
Ask(kind) ==
  /\ Alone /\ request = NoRequest /\ kind \in Kinds \ Direct
  /\ ~continuous
  /\ request' = [at |-> "asked", kind |-> kind]
  /\ UNCHANGED <<records, worker, door, outside>>

\* The second; a job that is still active answers the request, one that the
\* look ends is saved before the new one
Register(j, quiet) ==
  /\ Alone /\ request.at = "asked" /\ Fresh(j)
  /\ ~Occupied(quiet)
  /\ LET k == request.kind IN
     /\ slot' = j
     /\ mem' = [Seen(quiet) EXCEPT ![j] = New(k)]
     /\ \/ /\ disk' = [Kept(quiet) EXCEPT ![j] = New(k)] /\ latest' = j
           /\ request' = [at |-> "submit", job |-> j] /\ UNCHANGED faults
        \/ /\ disk' = Kept(quiet)
           /\ latest' = IF Seen(quiet) = mem THEN latest ELSE slot
           /\ request' = NoRequest /\ Fault
  /\ UNCHANGED <<worker, door, chapter, continuous, session>>

AnswerWithActive(quiet) ==
  /\ Alone /\ request.at = "asked"
  /\ LookAtSlot(quiet)
  /\ request' = NoRequest
  /\ UNCHANGED <<worker, door, outside>>

\* A reserved job that an earlier process left behind is asked for by its id,
\* whatever the slot holds.  Only quick continuation reserves ids, and what it
\* reserves is the next chapter (continuation_imports.py:942-946): the branches
\* for other operations are never taken.
Restore(j) ==
  /\ Alone /\ request = NoRequest /\ ~continuous
  /\ mem[j] = NoRecord /\ disk[j].kind = "plain" /\ disk[j].status \in Active
  /\ mem' = [mem EXCEPT ![j] = disk[j]]
  /\ slot' = j
  /\ request' = [at |-> "submit", job |-> j]
  /\ UNCHANGED <<files, worker, door, outside>>

Submit ==
  /\ request.at = "submit"
  /\ queue' = Append(queue, request.job)
  /\ request' = NoRequest
  /\ UNCHANGED <<records, at, project, door, outside>>

\* Mutant: the refusal is only reported to the author
SubmitFailsSilently ==
  /\ Alone /\ request.at = "submit"
  /\ Fault
  /\ request' = NoRequest
  /\ UNCHANGED <<records, worker, door, chapter, continuous, session>>

\* The executor does not take it
SubmitFails ==
  /\ Alone /\ request.at = "submit"
  /\ Fault
  /\ LET r == [mem[request.job] EXCEPT !.status = "failed"] IN
     /\ mem' = [mem EXCEPT ![request.job] = r]
     /\ Save(request.job, r)
  /\ slot' = IF slot = request.job THEN NoJob ELSE slot
  /\ request' = NoRequest
  /\ UNCHANGED <<worker, door, chapter, continuous, session>>

-------------------------------------------------------------------------------
(* GET .../current and GET .../{job_id}: neither looks at the book           *)

Known == {j \in Job : mem[j] # NoRecord}

ReadCurrent(quiet) ==
  /\ Alone
  /\ \/ slot # NoJob /\ Look(slot, mem[slot], slot, FALSE, quiet)
     \/ slot = NoJob /\ \E j \in Known : Look(j, mem[j], slot, FALSE, quiet)
     \/ /\ slot = NoJob /\ Known = {} /\ latest # NoJob
        /\ LET r == disk[latest] IN
           Look(latest, r, IF r.status \in Active THEN latest ELSE NoJob, FALSE, quiet)
  /\ UNCHANGED <<worker, door, request, outside>>

ReadOne(j, quiet) ==
  /\ Alone
  /\ \/ mem[j] # NoRecord /\ Look(j, mem[j], slot, FALSE, quiet)
     \/ mem[j] = NoRecord /\ disk[j] # NoRecord /\ Look(j, disk[j], slot, FALSE, quiet)
  /\ UNCHANGED <<worker, door, request, outside>>

-------------------------------------------------------------------------------
(* The worker: _run_file_generation_job                                      *)

\* _update_file_generation_job
Update(status) ==
  LET r == [mem[This] EXCEPT !.status = status] IN
  mem' = [mem EXCEPT ![This] = r] /\ Save(This, r)

\* report_progress: a stage that finishes does not finish an author's job
Report(shown) == Update(IF mem[This].kind \in Authored THEN "running" ELSE shown)

Begin ==
  /\ Alone /\ Worked /\ at = "idle"
  /\ Report("running")
  /\ at' = "model"
  /\ UNCHANGED <<slot, queue, project, door, request, outside>>

ReportStage(shown) ==
  /\ Alone /\ Worked /\ at \in {"model", "written"}
  /\ Report(shown)
  /\ UNCHANGED <<slot, worker, door, request, outside>>

TakeProject ==
  /\ Worked /\ at = "model" /\ ~project
  /\ project' = TRUE /\ at' = "holding"
  /\ UNCHANGED <<records, queue, door, request, outside>>

\* The operations that report progress while they hold the project lock: those
\* that hold it throughout (file_project_store.py:8275-8400,
\* chapter_generation_workflow.py:199-646) and the draft of a review repair
\* (review_repair.py:256-264).  The others report before or after their
\* transaction (file_project_store.py:7527-7542, contextual_prose_review.py:230-256).
MayReportHolding == Worked /\ at = "holding" /\ mem[This].kind = "rewrite"

WantToReport ==
  /\ MayReportHolding
  /\ at' = "reporting"
  /\ UNCHANGED <<records, queue, project, door, request, outside>>

ReportHolding(shown) ==
  /\ Alone /\ Worked /\ at = "reporting"
  /\ Report(shown)
  /\ at' = "holding"
  /\ UNCHANGED <<slot, queue, project, door, request, outside>>

\* Only a plain job confirms what it wrote
Write ==
  /\ Worked /\ at = "holding"
  /\ \/ UNCHANGED chapter
     \/ mem[This].kind = "plain" /\ chapter < MaxChapter /\ chapter' = chapter + 1
  /\ project' = FALSE /\ at' = "written"
  /\ UNCHANGED <<records, queue, door, request, continuous, session, faults>>

Finish(status) ==
  /\ Alone /\ Worked
  /\ \/ at = "written"
     \/ at = "model" /\ status = "failed"
  /\ Update(status)
  /\ at' = "over"
  /\ UNCHANGED <<slot, queue, project, door, request, outside>>

\* The finally clause frees its own slot only
Release ==
  /\ Alone /\ Worked /\ at = "over"
  /\ slot' = IF slot = This THEN NoJob ELSE slot
  /\ queue' = Tail(queue)
  /\ at' = "idle"
  /\ UNCHANGED <<mem, files, project, door, request, outside>>

Work ==
  \/ Begin \/ TakeProject \/ WantToReport \/ Write \/ Release
  \/ \E shown \in {"running", "done"} : ReportStage(shown) \/ ReportHolding(shown)
  \/ \E status \in {"completed", "failed"} : Finish(status)

-------------------------------------------------------------------------------
(* The rest of the server                                                    *)

\* Mutant: whether a job is being written is not asked
StartContinuousAnyway(quiet) ==
  /\ Alone /\ ~continuous
  /\ continuous' = TRUE
  /\ UNCHANGED <<records, worker, door, request, chapter, session, faults>>

\* start_continuous_generation_job
StartContinuous(quiet) ==
  /\ Alone /\ ~continuous
  /\ continuous' = ~Occupied(quiet)
  /\ LookAtSlot(quiet)
  /\ UNCHANGED <<worker, door, request, chapter, session, faults>>

EndContinuous ==
  /\ continuous /\ continuous' = FALSE
  /\ UNCHANGED <<records, worker, door, request, chapter, session, faults>>

\* By an author (confirm_candidate) or a continuous job
ConfirmChapter ==
  /\ ~project /\ chapter < MaxChapter
  /\ chapter' = chapter + 1
  /\ UNCHANGED <<records, worker, door, request, continuous, session, faults>>

Crash ==
  /\ session < MaxCrashes
  /\ session' = session + 1
  /\ mem' = [j \in Job |-> NoRecord]
  /\ slot' = NoJob
  /\ queue' = <<>> /\ at' = "idle" /\ project' = FALSE
  /\ door' = "open" /\ request' = NoRequest
  /\ UNCHANGED <<files, chapter, continuous, faults>>

Serve(quiet) ==
  \/ \E kind \in Kinds : Enter(kind, quiet)
  \/ \E j \in Job : Register(j, quiet)
  \/ AnswerWithActive(quiet)
  \/ ReadCurrent(quiet)
  \/ \E j \in Job : ReadOne(j, quiet)
  \/ StartContinuous(quiet)

Next ==
  \/ \E quiet \in BOOLEAN : Serve(quiet)
  \/ \E kind \in Kinds : Ask(kind)
  \/ \E j \in Job : Admit(j) \/ AdmitUnsubmitted(j) \/ Restore(j)
  \/ Refuse \/ Submit \/ SubmitFails
  \/ Work
  \/ EndContinuous \/ ConfirmChapter \/ Crash

Spec == Init /\ [][Next]_vars

-------------------------------------------------------------------------------
Places == {"idle", "model", "holding", "reporting", "written", "over"}

TypeOK ==
  /\ mem \in [Job -> Record \cup {NoRecord}] /\ disk \in [Job -> Record \cup {NoRecord}]
  /\ latest \in Job \cup {NoJob}
  /\ slot \in Job \cup {NoJob} /\ (slot # NoJob => mem[slot] # NoRecord)
  /\ queue \in Seq(Job) /\ at \in Places /\ (at # "idle" => Worked)
  /\ door \in Direct \cup {"open"}
  /\ project \in BOOLEAN /\ (project <=> at \in {"holding", "reporting"})
  /\ chapter \in 0..MaxChapter /\ continuous \in BOOLEAN
  /\ session \in 0..MaxCrashes /\ faults \in 0..MaxFaults

(***************************************************************************)
(* "Progress callbacks acquire the executor's job lock.  Keep them outside *)
(* the project transaction to preserve admission lock order"               *)
(* (file_project_store.py:7540-7541): the worker never waits for the jobs  *)
(* lock, inside the project lock, while an admission waits for the project *)
(* lock inside the jobs lock.                                              *)
(***************************************************************************)
Deadlocked == at = "reporting" /\ door # "open"
NoLockCycle == ~Deadlocked

(***************************************************************************)
(* While this process works on a review it is shown as active and keeps    *)
(* the slot, whatever is confirmed and however quiet its model is: "a      *)
(* quiet model call still belongs to this process.  Releasing its slot on  *)
(* elapsed time would allow a second writer" (file_projects.py:1407-1408). *)
(* (A job restored by its id takes the slot from it.)                      *)
(***************************************************************************)
Submitted(j) == \E i \in 1..Len(queue) : queue[i] = j
Restored == \E k \in Job : mem[k] # NoRecord /\ mem[k].kind = "plain" /\ mem[k].session # session
ReviewKeepsItsSlot ==
  \A j \in Job :
    /\ Submitted(j) /\ mem[j].kind = "review" /\ ~(at = "over" /\ This = j)
    /\ ~Restored
    => slot = j /\ mem[j].status \in Active

(***************************************************************************)
(* "A persistence failure cannot leave an active job that was never        *)
(* submitted" (file_projects.py:2252-2253): a review or a preparation of   *)
(* directions that holds the slot is on the executor.                      *)
(***************************************************************************)
AdmittedIsSubmitted ==
  slot # NoJob /\ mem[slot].kind \in Direct /\ mem[slot].status \in Active => Submitted(slot)

(***************************************************************************)
(* A review or a preparation of directions is never active beside a        *)
(* continuous job: each looks for the other under the jobs lock, which it  *)
(* keeps until it is registered itself (file_projects.py:2188-2226,        *)
(* 2271-2294).                                                             *)
(***************************************************************************)
ReviewNotBesideContinuous ==
  continuous /\ slot # NoJob /\ mem[slot].status \in Active => mem[slot].kind \notin Direct

(***************************************************************************)
(* No job on record stays active for ever.  One that is neither on the     *)
(* executor nor on its way there is ended by the next page that asks for   *)
(* it once the time a job may be quiet is over: it was left by an earlier  *)
(* process, lost its slot, or was never taken (file_projects.py:1367-1435, *)
(* 2150-2156).                                                             *)
(***************************************************************************)
OnItsWay(j) == Submitted(j) \/ (request.at = "submit" /\ request.job = j)
NoJobLeftActive ==
  \A j \in Job : disk[j].status \in Active /\ ~OnItsWay(j) =>
    Reconciled(j, disk[j], slot, FALSE, TRUE).status \notin Active

===============================================================================
