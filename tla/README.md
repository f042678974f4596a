# Novelflow engine: verification project

The Novelflow engine turns a writing project (a directory of JSON and Markdown
files) into a long novel, chapter by chapter, with language models doing the
writing and an author correcting it. Its API is one process: request threads,
a few one-worker executors, in-memory job tables, a re-entrant lock per project,
and files. What is hard in it is not the text but who may write what, and when:
model calls take minutes and run outside every lock, authors edit meanwhile, and
the server may be restarted at any point.

This directory models that part of it in TLA+. Paths below are relative to the
repository; `FP` stands for `apps/api/routes/file_projects.py`, `service.py` for
`packages/story_core/build_graph/service.py`, `FPS` for
`packages/story_core/file_project_store.py`.

| Module | Models | Checked by | Proved in |
|---|---|---|---|
| `BuildGraph` | the task graph, its runs and artifacts (`build_graph/`) | `MCBuildGraph.cfg` | `BuildGraphProofs` |
| `VersionedPlan`, `BuildGraphRefinement` | what readers of a plan are promised; that `BuildGraph` keeps it | `MCBuildGraph.cfg` | `BuildGraphProofs` |
| `BuildWorkbench` | rerun, AI repair and edits over `BuildGraph` | `MCBuildWorkbenchRevived.cfg`, and below | with the next |
| `BuildOrchestration` | the job that writes task after task and publishes, beside `BuildWorkbench` | `MCBuildOrchestration.cfg` | `BuildOrchestrationProofs` |
| `WorldBuildJobs` | background world-build jobs | 2 cfgs | `WorldBuildJobsProofs` |
| `ContinuousGeneration` | background multi-chapter generation | 2 cfgs | `ContinuousGenerationProofs` |
| `FileGenerationJobs` | background jobs that write or review one chapter | 2 cfgs | `FileGenerationJobsProofs` |
| `CandidateReview` | drafts between the model and the book | 1 cfg | `CandidateReviewProofs` |
| `ChapterFiles` | how a chapter reaches the disk, file by file | 1 cfg | `ChapterFilesProofs` |
| `ConfirmedBook` | whole operations or nothing, implemented by `ChapterFiles` | same cfg | `ChapterFilesProofs` |
| `ContinuationImport` | an imported novel, from its chapters to a book | 1 cfg | `ContinuationImportProofs` |

Run a configuration with `tlc -config MCX.cfg X` (for the three
Build modules `X` is `MCBuildGraph`, `MCBuildWorkbench` or `MCBuildOrchestration`, for
`ContinuousGeneration` it is `MCContinuousGeneration`), and the
proofs of a module with `tlapm <Module>Proofs.tla`.

## Inventory

**Build Graph kernel** (`build_graph/service.py`, `store.py`, `definition.py`,
`validation.py`, `contracts.py`). *State*: a manifest with one record per task
(status, current artifact revision, active run, dependency revisions), a record
per run, immutable artifact files. *Operations*: start, commit, fail and conflict a
run; commit a candidate, edit, revalidate or invalidate an artifact, accept a
review. Each runs under the project lock; a run's owner holds nothing between
start and commit. *Correct if*: one writer per task; no revision lost; what is
marked usable was built from what its dependencies say now; nothing waits for
something that already happened.

**Build workbench** (`FP` 3444-3742, 4160-4332; `opening_build/runtime.py`).
Admits a rerun or repair under the lock and remembers the task's record, calls
the model unlocked, and finishes under the lock, putting the remembered record
back if nothing is committed. *State*: the request's local variables. *Hard*:
the remembered record is stale by then. *Correct if*: putting it back takes
nothing away and makes nothing stale usable; every run is closed.

**World-build jobs** (`FP` 365-393, 550-972; `world_build/runner.py`). *State*:
records in memory, their copies on disk, one slot per project, a one-worker
executor, the project's world fields. *Operations*: start, poll (which
reconciles a record that memory does not know), the job's thread. *Correct if*:
the author's edits survive, the slot and the run are handed back, every job ends.

**Continuous generation** (`apps/api/services/continuous_generation.py`, `FP`
1232-1347, 2268-2372, 4782-4829). *State*: job files and `latest.json`, a table of
registered jobs, a one-worker executor, the number of confirmed chapters.
*Operations*: start, read (which repairs the record and may resume the job),
stop, the runner. *Hard*: a read holds no lock from loading the record to resuming
the job. *Correct if*: chapters counted are in the book, no job writes
more than asked or after being stopped, one job works on a book, an ended job stays
ended.

**Candidates** (`candidate_editing.py`, `review_repair.py`,
`contextual_prose_review.py`, `candidate_draft.py`, `candidate_store.py`). A draft
is generated, edited, revised by a model, rechecked, and at last confirmed or
discarded. *State*: one file per draft with its status and its review binding
(digest of the reviewed text, source fingerprint, base chapter). *Hard*: reviews and
revisions take minutes without the lock. *Correct if*: a review is only valid for what
it saw, edits do not overtake each other, a decision stands.

**Confirmation on disk** (`FPS` 7568-7842, `FPS` 7105-7147, `project_transaction.py`,
`snapshot_store.py`). A draft becomes a chapter: the text, several ledgers, a
snapshot, canon, receipt and the candidate's status change together and are rolled
back if the body raises. *Correct if*: all of it or nothing; confirmed means all
of it is there, also after a process stop.

**File generation jobs** (`FP` 975-1625, 1909-2265, 4850-4896). One chapter, opening
directions or a candidate's review in the background. *State*: jobs in memory and
on disk, a slot per book, a one-worker executor, the jobs lock. *Operations*: start
(two admission paths), read (which reconciles), report, finish. *Hard*: two locks, a
fifteen-minute stale timeout, restarts. *Correct if*: the locks are taken in one
order, a job at work keeps its slot, an admitted job is submitted, nothing stays
active for ever.

**Continuation import** (`apps/api/routes/continuation_imports.py`,
`continuation_sessions.py`, `continuation_analysis.py`, `continuation_project.py`). An
existing novel is uploaded, analysed, and converted to a project. *State*: a session
file with a revision, two leases, the export root with its staging directories and its
trash. *Hard*: the record of a conversion can be erased, and the trash is out of its sight.
*Correct if*: the analysis is of these chapters, no second book is made beside the first
and no second first job in it, however often the request is repeated, and what
is recorded is what was published.

**Build orchestration** (`FP` 396-457, 3767-4139). One job per project writes the
tasks that are ready, stale or failed, one after the other, and publishes the plan
when all are completed. *State*: the job in memory, its copy in `latest.json` (which
names the run it waits for), the project's stage and its materialization marker.
*Hard*: the lock is held for one look at a time, edits go on in between, and a
stop leaves a run behind. *Correct if*: the job stops once others change the
graph, comes to an end, leaves no run open, and a project called ready has what
the graph holds.

**Ending planning** (`apps/api/services/ending_planning.py`): one job per
project with a version check before it saves. Not modelled.

**The rest**: the chapter pipeline, outline planning, canon, materialization,
project creation, model gateway, publishing, novel-type library, the older SQLite
API, the web client, scripts. Sequential, pure data, or I/O; see the `components`
of `PROJECT.json` for the reason of each.

**Interaction.** All of them meet in the project directory, under
`project_update_lock`. World-build jobs, orchestrations and the workbench all
drive the Build Graph and exclude each other by asking for the others' slots and
for active runs. Continuous generation calls the chapter pipeline and candidate
confirmation and excludes hand confirmation by asking for a registered job; it and
the file generation jobs look for each other under the jobs lock. What a file
generation job does to drafts is `CandidateReview`, what a confirmation does to files
is `ChapterFiles`, and the first job of an imported book is admitted as in
`FileGenerationJobs`.

## BuildGraph

`task`, `runs` and `artifact` are the manifest's tasks and runs and the artifact
files. A task record keeps `status`, `rev` (0: none), `run` and `deps` (its
dependency revisions); a run record its task, the revision it started from, the
dependency revisions it noted, its status; an artifact the revision its writer had
read (`basis`) and the dependency revisions its writer was given (`inputs`). Each action is one public method of `BuildGraphService`, with
the propagation it ends in: `MarkDescendantsStale` (the breadth-first walk, as
the set of descendants), then `RefreshUnmaterialized` (one pass in topological
order; since it only switches between ready and blocked and reads completed, the
order does not matter and it is one function). A payload is only a validator's
verdict (`passed`) and the inputs it was made from; `review_policy` is
`ReviewTask`.

`Author` collects what edits, imports and reviews may ask for, `Runner` what the
owner of a run may. Runners of `BuildGraph` fail and conflict their runs without a
saved record, as `world_build/runner.py` does; `BuildWorkbench` uses the other form.

What is checked: `OneWriterPerTask`, `NoLostRevision`, `UsableIsFresh`,
`NoTaskLeftBlocked`, `StaleNeedsNewRevision`. The instance is a root, a reviewed section built from it and an
aggregate of both, so there is a chain, a shared dependency and a two-parent
task; two runs, so one can be superseded by a second on the same task or work
beside it; two revisions per task, so that something can be edited under a run,
and its dependents go stale. 126,104 states. The theorems lift the bounds.

`VersionedPlan` says what this is for, without runs, statuses or files: each task has
a ledger of revisions, each entered with the dependency revisions current at
that moment, and becomes usable only by a new entry, possibly after an author's
consent (`Publish`, `Offer`, `Accept`); it may lose that at any time (`Withdraw`). A new entry
takes usability from everything below. `BuildGraphRefinement` maps the artifacts to
the ledger, completed to usable and review_required to offered, and `ImplementsPlan`
checks that `BuildGraph` implements it. A run that starts, fails or is superseded is
a stutter; a commit maps to an entry, and there the run's *noted* inputs must be the
current ones.

## BuildWorkbench

Extends `BuildGraph` with `call` (a request that waits for its model: the record
it remembers and the project revision it saw), `world` (the project fields, by
their hash), `pinned` (the world an opening graph was planned from) and restarts.
`Admit`, `Answer` (`FinishRerun`, `FinishRepair`, `ModelFails`) are phases A, C and
the failures of B; `EditTask`, `EditProject`, `SyncInput` are the author's routes.
Whether the project has an opening graph decides which checks apply, and never
changes (`Openings` says which kinds start). The properties are checked with the
job of the next section beside it.

* Without an opening graph, `FreshUnlessOpening` and `NoRevivalUnlessOpening`: the
  promises of `BuildGraph` hold although records are put back. The reason is that
  there a record is only put back by `fail_run` and by a failing `commit_run`, and both
  first ask whether the run still owns the revisions it started from
  (`RunIsCurrent`): if anything upstream moved, the run becomes a conflict and the
  task stale. The opening graph adds a way to put it back without asking
  (`workbench_revived`, see Findings).
* With and without: `RevisionsNeverGoBack`, and `RunsAreOwned`: an open run is that of
  a request in memory or of the job. With the weak fairness of `Answer` (a model call
  has a timeout and all its exceptions are caught) that is what lets every run end. A
  stop of the server strands runs, hence `crashes = 0`.

## BuildOrchestration

Extends `BuildWorkbench` with `job`, `left` (the run `latest.json` names for an
interrupted job), `ready` (`pipeline_stage` is `environment_ready`) and `marked` (the
marker names the current revisions). Every place where the code takes the lock is an
action: `Start`, `Choose`, `Publish`, `Begin` or `Import`, `Work`, `Count`. The job
expects a graph revision and adds its own persists to it; `ahead` is how far the
graph is ahead of that, and an edit moves it. Starting a run and recording its id is
one step, which a stop may cut in two (`StopUnrecorded`) and a failing write ends
(`Unrecorded`). For deterministic tasks these are two lock sections; the instance has
none. `StopHere` collects every reason to end before a task is begun, of which the
code has many (something unexpected, blocked, an error, materialized fields edited).

The job and the workbench share the graph: requests and synchronization are refused
beside a job and a job beside an open run, but an author's edits of tasks and project are not
refused, and a request whose run an edit took away may still wait for its model.

* `StopsForOthers`: `others` is a history variable, set by every edit beside the
  job; the code knows only the sum it expects. An edit in the middle of the job's
  own run, or after its commit and before it counts, must not be taken for its own.
* `EachTaskOnce`: a commit makes only later tasks stale, so no mode goes round.
* `ReadyAsPublished`: edits, requests, jobs and synchronization each take the label
  away before they write; a stop in between leaves the label off, never on.
  Restricted to opening projects, because a world-build job changes the graph
  under the label.

A chain of three tasks, two runs, two revisions, two contents of the project fields,
one restart, both kinds of project; 2,199,404 states up to exchanging runs. Two runs let a
stranded run and its successor, or a request and the job, meet; an edit of an
independent task needs a fourth task, and is to the job what an edit after its commit is.

## WorldBuildJobs

`job`, `slot`: the tables in memory; `disk`, `latest`: the job's file and
`latest.json`; `queue`, `pc`: the executor and each thread's place; `snapshot`,
`left`: the thread's copy of the project and the tasks it finds to do; `world`:
the last author edit included in the fields and the last job published; `run`: whose
Build Graph run is active. Every point where the code asks whether the job was
cancelled or the project edited is a `Check` of its own, and every pair of them
is separated by a step, so edits, polls, second jobs and restarts fall between.
Handlers that hold the jobs lock throughout are one action.

`FirstJobKeepsEdits` is what the author is promised, restricted to a project's
first job, because the promise fails once a job has ended beside another
(`world_jobs_overwrite`). `SlotReturned`, `NoRunLeftBehind` and
`EveryJobEnds` hold for all. Fairness: the worker works, because model calls are
bounded, and the page that shows a job polls it: only a poll can notice that a
job did not survive a restart. Two jobs, two tasks, two edits, one restart: a
second job is needed for a wrongly cleared slot, a second edit for the case the
comment at `FP` 816-826 describes. 40,128 states.

## ContinuousGeneration

`file`, `latest`: job files; `registered`, `queue`, `pc`: the table, the executor and
each runner's place; `chapter`: the official chapter; `next` and `draft`: the
chapter the runner announced and the one the pipeline wrote, which the code reads
separately; `req`: the requests that read a job, each with the copy it has, and the
check that guarded routes (start, confirmation by hand, trash) make of the latest job;
`asked`: a confirmation by hand between its check and its write; `wrote`, `late`: history,
chapters a job confirmed, and those since it was told to stop. `Repaired` is `reconcile`; it may
put a chapter on a job's list a second time (`continuous_generation.py` 135-147), so `count`
may exceed the number of different chapters, `done`, by one. Completed, stopped and failed are
one status, `ended`: every test of a status asks only for that.

A request goes through `Read` (load the record), `Look` (is it registered?), `Repair` (read the
book and reconcile the copy), `SaveRepair` and `Resume` or `RequestStop`, as the code does
without a lock over any two of these steps (`FP` 2311-2372). Runners, restarts, other requests
and chapters confirmed by hand come in between. The check of the guarded routes
is the same repair inside the jobs lock, so requests' looks at the table wait for it
(`Unlocked`) but the runner's saves do not. It ends in `Refused`, `Start`, `Ask` or `Allowed`.

The repair of an old copy is saved over whatever the job has become. `overtaken`, a
history variable, collects the jobs to which that has happened: the file or the registration had
changed since the record was read, and the saved copy differed from the file.
`continuous_overtaken` shows what it does to them: an ended job is active again. Such a job may then
lose its stop request, work beside a new one, or stay active without a runner. The properties of the passing run
therefore except these jobs, and only these; `CompletedAreOfficial` excepts none. For every
other job they hold with requests at any point between read and resume:

* `StopIsHeeded`: a job may confirm one chapter after a stop request (the flag is read once per
  chapter) and that is what the code means by stopping after the current chapter.
* `OneJobAtWork`, `TerminalStays`: between a start, a resume and a job about to close.
* `ActiveIsWorkedOn` says as an invariant what is left of liveness here: an active job is
  with a runner, and a runner about to leave has ended it, unless the server was
  restarted. After a restart a job may stay active (see Also observed), so no
  liveness is claimed and the specification states no fairness.
* `NeverMoreThanAsked`: a chapter confirmed just before a restart is counted, not written again.

Two jobs, each asked for two chapters, one request beside the guarded check, one restart. Two
jobs share two chapters; a job that is alone may get to a third, one more than
it was asked for (`SharedChapters`). 2,327,093 states up to exchanging the jobs: nothing but the
order of their starts tells them apart. One request suffices to overtake a job; the theorems cover
any number of jobs, requests, chapters and restarts.

## FileGenerationJobs

`mem`, `disk`, `latest`: the job table, the jobs' files and `latest.json`; `slot`: the
book's active job; `queue`, `at`: the executor and where its worker is; `door`: the
admission that holds the jobs lock, when it waits for the project lock inside it;
`project`: the worker holds the project lock; `request`: `start_file_generation_job`
between its two lock sections; `session`: which process this is. A handler that holds
the jobs lock throughout is one action, except the admission of reviews and opening
directions (`Enter`, then `Admit`, `AdmitUnsubmitted` or `Refuse`), which waits for the project lock
meanwhile. `Reconciled` is `_reconcile_file_generation_job_locked`: a job of another
process is interrupted, one whose chapter is there completed, one that has been quiet
for fifteen minutes failed unless this process works on it. Time is a choice: whenever a
job is looked at it may have been quiet long enough.

Kinds of jobs differ in where they report and what they hold: `plain`, `author`,
`directions`, `review` keep their reports outside the project lock; `rewrite` stands for the
jobs that hold the lock while the model works, and for a review repair, which reports inside
the transaction that saves its draft (`review_repair.py` 256-264). That they deadlock with
an admission is what `file_jobs_deadlock` shows. `Restore` takes up a job by its id; only
quick-continue reserves ids, and only for the next chapter (`continuation_imports.py` 942-946), so
only `plain` jobs are restored. A job that registration finds in the slot and ends is saved
before the new one (`Seen`, `Kept`).

`ReviewKeepsItsSlot`, `AdmittedIsSubmitted`, `ReviewNotBesideContinuous` and `NoJobLeftActive` quote
what they check. The first three speak of reviews (and directions), which alone are
promised that; what may happen to other jobs is under Also observed. `NoJobLeftActive` is the
safety half of "every job is shown as ended in the end": a record nobody works on is one
the next read ends. Two jobs of any kind, one chapter
gained meanwhile, one restart, one file or submission that fails: 1,682,734 states.

## CandidateReview

`draft` is the sequence of drafts saved, with status, chapter, what it was made from
(`parent`, `base`) and its review binding (`state`, `source`, `sealed`); `text` the
draft each chapter of the book holds; `source` a version number for what the source
fingerprint covers; `job` the worker's local variables between two lock sections;
`fresh`, `revived` are history. A changed body is a new draft, so the digest of a
body is the draft's number and the digest of its report how often it was reviewed.
Every operation that calls a model is split there: `StartRecheck` / `StoreReview`,
`StartRevision` / `SaveRevision`, `StartRepair` / `SaveRepair`, `ReadForContext` /
`HashFile` / `StoreNotes`, and the author's routes fall in between. Two cases end in a
recheck instead: a model that gives the body back as it was (`KeepBody`), and a contextual review
of a repair nobody has checked (`RecheckForContext`). Left out are an edit by hand
that keeps the body, which changes nothing, and the contextual review of a confirmed chapter,
which changes that chapter's report and no draft.

`ReviewedAsConfirmed` is about the whole chain of digests: whatever is edited, a
draft that needs a review is confirmed only if its last review read this draft, the
sources as they are and the text it replaces. `EditsInLine`: an edit by hand
and a revision by a model from the same draft do not both come through.
`OnlyNotesRevive`: a decided draft is changed back only by a contextual review, which
reads the draft before it hashes the file (see Also observed). One chapter, three
drafts (an edit, a rival and a repair), one edit of the sources, one review of facts and
one in context: 3,967,665 states; two chapters add nothing, since
drafts of different chapters meet only in `source`.

## ChapterFiles

`disk` gives for each file the operation that wrote it and whether it is whole;
`tx` is the operation holding the project lock: the files it still has to write
(`Plan`, in the order of the code), what it would put back (`held`) and how far the
rollback is. An operation is a confirmation of a new chapter, of a rewrite or of an
expression repair, a direct write of either, or a save of the Build Graph. Every write may raise; the
rollback deletes the files created and rewrites the others one by one; it may fail
or the process may stop (`MaxFaults` bounds only these two). Files written in place tear.

`AllOrNothing` is the refinement of `ConfirmedBook`: as seen by whoever takes the lock
next, files change by whole operations. Its damage step is where the code has
nothing to offer: a failed rollback, a process stop, and `persist_bundle` called
outside a transaction. `ConfirmedMeansWritten` holds even then: the candidate is
marked last, so a candidate that says confirmed has all files of its confirmation.
Two chapters (a rewrite of the first has a later one to rebase), three operations,
one fault: 700,775 states.

## ContinuationImport

`session` is the session file; `fresh` the tasks and requests whose copy has its
revision (every save bumps it, so a comparison of revisions is membership);
`task`, `lease` the analysis tasks; `request` the handlers of create-project and
quick-continue and where they are; `shelf` the books under the export root, `trash`
those in `.trash`, `leftover` whether a staging directory stayed behind; `projects`, `jobs`,
`moved`, `restored` are history: what was published and started, what went to the trash
and what came back; `asked` numbers the generations. Each save under the session's lock is an
action of its own, and everything between two of them interleaves: chapters replaced during an
analysis, two requests claiming the same conversion, a request repeated after the server
stopped anywhere.

A book is made in two steps under the conversion lease: `Stage` looks for another book of the
session (`NotConvertedYet`, what `_assert_session_not_converted` sees: the directories of
the export root) and writes a staging directory, `Publish` renames it. `Trash`,
`RestoreProject` and `DeleteTrashed` take no lease and do not know of the session, so a book may leave
and come back at any point. The routes refuse to move a book with a job at work; a job is
here the fact that it was started, so a book may be moved when its job is over.

`AnalysisOfTheseChapters`, `BookAsConfirmed` and `RecordedAsPublished` relate the session to a task
or to what was published outside of it. `OneBookPerSession` and `OneJobPerBook` say
how much of "one book, one first job" the code keeps. After a conversion, trash, new chapters
and another conversion there are two books, and both are live once the first is restored. What
holds is that no book is made beside one that is there: of the books on the shelf all
but one came back from the trash. And a book that was never in the trash gets at most one
first job, although replacing the chapters erases the reservation: the reservation is only made
for a conversion on record, and none can be recorded for the book again.

Two tasks, two requests, two versions of the chapters, two generations, one restart:
3,418,044 states. A third request is beyond a few minutes; the cases it
would add (a second resume) start from a state in which the first is over.

## Deadlock

All configurations say `CHECK_DEADLOCK FALSE`. Revisions, edits, chapters and
restarts are bounded, and there is a state in which nobody wants anything: the
system may stop there. What must not get stuck is stated by `NoTaskLeftBlocked`,
`RunsAreOwned`, `EveryJobEnds`, `ActiveIsWorkedOn`, `NoJobLeftActive` and `NoLockCycle`.

## Findings

Each is a run TLC finds violated; `PROJECT.json` quotes the text it contradicts.

1. `workbench_revived`: a conflicted rerun puts "completed" back over a stale mark.
2. `world_jobs_overwrite`: a job taken for a leftover publishes over an edit.
3. `continuous_overtaken`: an ended job becomes active again, by a request that read its
   record before it ended. By the same sequence a stop request is lost: a page copies the record
   while a chapter is written, the job is told to stop, counts the chapter, stops and closes;
   the page repairs its old copy, saves it without the flag and resumes the job, which writes
   another chapter (`FP` 2311-2371, `continuous_generation.py` 93-104, 186-194).
4. `file_jobs_deadlock`: a rewrite reports progress under the project lock while the
   admission of a review waits for that lock inside the jobs lock.

## Also observed

Met while modelling and present in the models, with no run of their own.

* Of two reruns admitted together, of a task and of one it depends on, the second
  conflicts and its task becomes stale; if the first then fails, nothing has changed
  and yet the project, still labelled ready, has a stale task (`service.py` 344-384).
* After a stop between the start of an orchestrated run and the record of its id, the
  next orchestration finds an open run that is not its own and refuses. An edit of
  the task frees it; a deterministic task cannot be edited (`FP` 3829-3831, 3643-3644).
* A failed rerun puts its task back to completed without the refresh; a task that
  was blocked meanwhile stays blocked (`service.py` 611-633).
* After a restart in the middle of a task no world-build job can be started: the dead
  job's run is still active in the graph (`FP` 947-950).
* A continuous job that survives a restart, registered by a request that only asks
  whether one is active, never gets a runner (`FP` 1332-1347, 2345-2371).
* A continuous job revived by an out-of-date repair (finding 3) may work beside one
  started meanwhile, and when it was the stop route that revived it, stays active without a runner.
* A candidate decided while a contextual review reads it is saved as pending again
  (`contextual_prose_review.py` 202-253).
* After a process stop in the middle of a confirmation the pending candidate may be
  refused for good, because the chapter is already there (`FPS` 7568-7602).
* `start_file_generation_job` registers an author's job before it saves it; if saving
  fails, the job stays active in memory until the restart (`FP` 2127-2129). It
  also asks for other jobs in one lock section and registers in the next (`FP` 1931,
  2056), and a job restored by its id takes the slot whatever it holds (`FP` 2010-2053).
* A job is shown as completed when the chapter it is for appears, whoever wrote it
  (`FP` 1383).
* A quick-continue whose claim outlives it (an I/O error, a stop) leaves the session
  claimed: if its analysis was never confirmed it can be neither edited nor converted
  (`continuation_imports.py` 872-880, 951-980).
* A create-project resumed beside its claimer can mark as failed a conversion whose
  book the other publishes (`continuation_imports.py` 672-679, 714-733).
* Replacing the chapters after a conversion erases the record of it; only the
  project directory on disk then prevents a second book (`continuation_sessions.py`
  738-743). Moved to the trash it does not: the session is converted again, and restoring
  the first leaves two (`continuation_project.py` 1058, `file_project_lifecycle.py` 28-112). A
  book restored while its claim is used again can also get a second first job.
* A stop while a book is written, or a staging directory that cannot be removed, leaves a
  directory under the export root that the look for other books finds
  (`file_project_creation.py` 330-346). No conversion of that session succeeds any more.

## Proofs

Eight modules of theorems, one beside each component (`BuildWorkbench` and
`BuildOrchestration` share one); each is checked from nothing in about three minutes or
less. They lift the bounds of the instances: any finite acyclic graph, any number of jobs,
requests, runs, drafts, chapters, operations, edits and stops. What
they assume is the named assumption of each module, which TLC evaluates on the instance
(constants are sets of the right kind and numbers), and nothing else. All follow one plan. The properties are not inductive; an invariant that is
was found, checked by TLC as an invariant of the instance (the numbers below), and proved:
it holds initially, each action keeps it (one lemma per action or group of actions that
differ in a word), and it implies the properties. Action properties follow from it and one step.

**`BuildGraphProofs`**: `IInv`, hence `TypeOK`, `OneWriterPerTask`, `NoLostRevision`,
`UsableIsFresh`, `NoTaskLeftBlocked`, `StaleNeedsNewRevision`. What the properties lack is
`UnwrittenTasks`: a blocked task has no artifact and no run, and a task with a run and
no artifact is running. Without it the refresh, which skips tasks with a run or
with certain statuses, could skip a blocked one. `GraphFacts`, `MarkFacts`,
`RefreshFacts`, `PropagateFacts` say what the two passes do to a record and what they leave
alone; `CommitSound`, `PropagateSound`, `HandOver` that writing a revision, and giving a
task to or taking it from a run, keep the part of the invariant about tasks;
`ClosedRun`, `SupersededRun` the same for runs. Freshness is where the argument is
interesting: a run commits the dependency revisions it noted when it started, and
`RunIsCurrent` compares them with the graph at commit; the artifact's descendants are then
marked stale, so no other usable task depends on the revision that was replaced.

The same module proves `Implementation`, that `Spec` implements `VersionedPlan`.
Each action maps to `Publish`, `Offer`, `Accept`, `Withdraw` or a stutter, in any state of
`IInv`. A commit is an entry of the plan (`CommitIsEntry`) because the run is current:
what it noted is what the ledger says now. That the statuses a reader sees change in the
task and its descendants only is `CommitStatuses`.

**`BuildOrchestrationProofs`**: `BOInv`, in three parts, 2,199,404 states, hence all that
`workbench` checks: `FreshUnlessOpening`, `ReadyAsPublished`, `RunsAreOwned`,
`NoRevivalUnlessOpening`, `RevisionsNeverGoBack`, `StopsForOthers`, `EachTaskOnce`, for
projects with and without an opening graph. `GraphOK` is about the graph alone. In an
opening project a record put back may be out of date, so `UsableIsFresh` and with it
`IInv` fail there; what is left, and enough for the rest, is that a task that has an
artifact has them above it (`WrittenBelow`). `SnapshotsOK` is about the records held for
putting back: one that may be used was made from what its run read (`HeldIsFresh`), and
once a running task is marked stale something its run read is gone for good
(`StaleIsLost`), so that `RunIsCurrent` refuses to put the record back. `JobOK`
is about what the job remembers: the graph is ahead of it by what it wrote itself, and by
more once others changed it (`AheadOfOwn`), no run is open but its own
(`JobIsAlone`), and while nobody interferes what it may still work on lies below nothing
it has done (`TurnInOrder`), of which `EachTaskOnce` is a consequence.

**`WorldBuildJobsProofs`**: `WJInv`, 40,128 states, hence `SlotReturned`, `NoRunLeftBehind`
and `FirstJobKeepsEdits`. `QueueOK` (the executor holds a job once, and exactly those that
have a thread) makes the slot come back; `RunIsHeld` says at which places of its
thread a job may own the graph's run; `FirstIsAlone` that what a project's first job copied
lies between the edit it was started on and the current one.

**`FileGenerationJobsProofs`**: `FJInv`, 1,682,734 states; hence the four invariants of
`file_jobs`.
`DoorOK` says what still holds of what an admission looked for when it gets the project lock,
`FilesOK` that memory and files agree, `SlotOnItsWay` that an author's job in the slot is on
the executor or about to be given to it.

**`ContinuousGenerationProofs`**: two invariants, 2,327,093 states. `BookInv` is about all jobs (chapter numbers of a runner stay in order, copies name
chapters of the book) and gives `CompletedAreOfficial`. `RunInv` is about the jobs that no
out-of-date repair was saved for, and gives `NeverMoreThanAsked`, `StopIsHeeded`,
`OneJobAtWork`, `ActiveIsWorkedOn`, `TerminalStays`. Such a job at work is the registered one
(`Registration`); its record says where its runner is (`Announced`); of the chapters it
confirmed at most one is missing on its list (`Accounted`), the one `reconcile` may add; and
its flag is set once it was told to stop (`Stopping`). None of this survives a stale save, so
the interesting part is `Faithful`: what a request holds of an active job that is not
registered is as good as its file. A job that ended, or was taken up, since the request read it
is not such a job; saving the old copy over it is what puts it among the `overtaken`.

**`CandidateReviewProofs`**: `CRInv`, 3,967,665 states; hence `EditsInLine`, `ReviewedAsConfirmed`,
`OnlyNotesRevive`. `SealedIsFresh` says that a draft which looks confirmable was reviewed
against what is now true: the text of the book only changes with the sources, so a review
that was given the present sources was given the present text (`Saw`). A contextual
review saves the copy it read; that this brings back nothing but the status is because
beside it only statuses change and drafts are added (`Beside`, `JobKept`).

**`ChapterFilesProofs`**: `CFInv`, 700,775 states, hence `ConfirmedMeansWritten`, and with it
`AllOrNothing`: `ChapterFiles` implements `ConfirmedBook`. `WritingOK` says that the disk is
what was read when the lock was taken with the plan up to its current step written over it;
the versions read are all older, so a file that has the new version is in that part of
the plan. `PlanIs` has what is used of the six plans, each put together from parts
(`NewChapterIs`, `RewrittenIs`, `AftermathIs`, ...): a marker is only written in the last step
(`MarkedLast`), whole or not at all, and what a confirmation writes is among what it can put back
(`Recoverable`). The first gives `ConfirmedMeansWritten` even for a stop in the middle, where
nothing is put back; the second that a rollback that comes to its end has restored every
file (`AsHeld`), so that to the next operation nothing happened. An operation that is done is one
`Publish` of `ConfirmedBook`; every other step is damage or a stutter.

**`ContinuationImportProofs`**: `CIInv`, 3,418,044 states, hence the six properties of
`continuation_import`. A project id is claimed once, by the request that drew it
(`Spent`); while a claim lasts nobody but its holders saves the session, so a copy made
under it is the session's; between the look for another book and the rename only what comes
back from the trash is added to the shelf; and a job in play needs a book, which, once its
reservation is forgotten, can be neither claimed nor recorded again.

Only model-checked is `EveryJobEnds` (the prover has no rules for fairness and ENABLED);
every other property of a passing run is a theorem. That
the breadth-first walk computes `Descendants` would be an induction over the
graph; `Descendants` is defined by closed sets instead, and the proofs use only the
closure. `TypeOK` of the modules whose instances bound a queue or a counter is replaced in
the proofs by types without those bounds.

## Abstractions that matter

* Except in `ChapterFiles`, a write under the project lock is one step.
* A model answers, fails or times out; its text is not modelled.
* `WorldBuildJobs` keeps one graph run, not the graph; the graph under it is
  `BuildGraph`.
* The opening graph's lock on consumed plans, and the readiness check that can
  refuse a commit, are not in `BuildWorkbench`; nor is the authority of an opening
  build in `CandidateReview`.
* Two files of one job (its own and `latest.json`) are written in one step.
* Digests do not collide; a digest is what was digested.

## Not modelled

Ending planning (a job of the same shape as the modelled ones); the next volume of an
opening project already in execution; uploads, parsing and the outline bootstrap of an imported novel; and the
greater part of the repository by size, which is prompts, text checks, merging of
ledgers and projections of outlines: sequential functions of their input without
state that anyone else sees, where a model would repeat the code. `file_project_store.py`
and `file_projects.py` are modelled where they lock, write, admit and reconcile.

## Plan

1. The chapters of an opening project in `BuildWorkbench`, and with them its execution
   phase and the extension by a volume (`FP` 3047-3056, `opening_build/execution.py`).
