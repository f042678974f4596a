-------------------------- MODULE ContinuationImport --------------------------
(***************************************************************************)
(* One import session of an existing novel, from the scanned chapters to   *)
(* the book made of them: packages/story_core/continuation_sessions.py,    *)
(* continuation_analysis.py, continuation_project.py and the handlers of   *)
(* apps/api/routes/continuation_imports.py.                                *)
(*                                                                         *)
(* The session is one JSON file with a revision; every save is made under  *)
(* the session's lock and bumps the revision.  Background tasks analyse    *)
(* the chapters, the author edits chapters and analysis, and the requests  *)
(* create-project and quick-continue convert the session into a book and,  *)
(* for the second, start its first generation job.  A book stands on the   *)
(* shelf, the export root, until the author moves it to the trash, from    *)
(* where it may come back (apps/api/services/file_project_lifecycle.py).   *)
(*                                                                         *)
(* Abstracted: the revision to the set `fresh` of those whose copy of the  *)
(* session is still the saved one (every save bumps it, so two revisions   *)
(* are equal exactly when nothing was saved in between); chapters to a     *)
(* version, an analysis to the version it is of and to who wrote it;       *)
(* batches of chapters to saves that change nothing a property sees; the   *)
(* source files' fingerprints, open questions of the analysis and invalid  *)
(* settings to a refusal; a job to the fact that it was started, so that a *)
(* book whose job has started may be moved at once, its job being over.    *)
(***************************************************************************)
EXTENDS Naturals, FiniteSets

CONSTANTS
  Task,            \* background tasks
  Request,         \* create-project and quick-continue requests; each also
                   \* names the project id and the job id it draws
  NoOne,
  MaxEdits,        \* bound: versions of the chapters
  MaxGenerations,  \* bound: analyses asked for
  MaxCrashes       \* bound: how often the server stops

ASSUME ContinuationAssumption ==
  /\ NoOne \notin Task \cup Request
  /\ Task \cap Request = {}
  /\ MaxEdits \in Nat /\ MaxGenerations \in Nat /\ MaxCrashes \in Nat

VARIABLES
  session,   \* session.json
  fresh,     \* whose copy of it has the saved revision
  task,      \* the background tasks
  lease,     \* the task that holds the session's analysis lease
  request,   \* the handlers at work
  projects,  \* history: the books ever published from this session
  shelf,     \* the project ids that are directories of the export root
  trash,     \* those of its .trash
  leftover,  \* a staging directory that nobody will rename is in the export root
  moved,     \* history: the projects ever moved to the trash
  restored,  \* history: those on the shelf that came back from there
  jobs,      \* history: first generation jobs, with the project they started in
  asked,     \* analyses asked for so far; names the generations
  crashes

saved == <<session, fresh>>
analysing == <<task, lease, asked>>
library == <<shelf, trash, moved, restored>>
converting == <<request, projects, library, leftover, jobs>>
vars == <<saved, analysing, converting, crashes>>

Version == 0..MaxEdits
Analysis == [of: Version, by: {"model", "author"}]
NoAnalysis == [by |-> "none"]
NotConverted == [status |-> "none"]
NotReserved == [status |-> "none"]
NoTask == [at |-> "none"]
Unsent == [at |-> "none"]
Done == [at |-> "done"]

-------------------------------------------------------------------------------
(* The session store                                                         *)

\* Mutant: a conversion in progress does not keep anyone from saving
OpenAnyway == session.status \in {"parsed", "analyzing", "ready", "failed"}

\* What update() asks of the session: it refuses while a conversion holds it
Open == session.conversion.status # "claimed"

\* _write_session with the next revision; `who` go on with the copy they get back
SaveSession(s, who) == session' = s /\ fresh' = who

\* The project's own directory
Exists(p) == p \in shelf
Published(p) == \E b \in projects : b.id = p

\* The claim of finalize_project_conversion and fail_project_conversion
ClaimedFor(p) == session.conversion = [status |-> "claimed", project |-> p]
SetConversion(status, p) ==
  [session EXCEPT !.conversion = [status |-> status, project |-> p]]

-------------------------------------------------------------------------------
Init ==
  /\ session = [status |-> "parsed", chapters |-> 0, analysis |-> NoAnalysis,
                generation |-> 0, job |-> "none", confirmed |-> FALSE,
                conversion |-> NotConverted, quick |-> NotReserved]
  /\ fresh = {}
  /\ task = [t \in Task |-> NoTask] /\ lease = NoOne
  /\ request = [r \in Request |-> Unsent]
  /\ projects = {} /\ jobs = {}
  /\ shelf = {} /\ trash = {} /\ leftover = FALSE
  /\ moved = {} /\ restored = {}
  /\ asked = 0 /\ crashes = 0

-------------------------------------------------------------------------------
(* The author                                                                *)

\* Mutant: the new chapters keep what was noted about the old ones
ReplaceKeepingProgress ==
  /\ Open /\ session.chapters < MaxEdits
  /\ SaveSession([session EXCEPT !.chapters = @ + 1, !.status = "parsed",
                                 !.analysis = NoAnalysis], {})
  /\ UNCHANGED <<analysing, converting, crashes>>

\* PUT chapters: all progress is forgotten, the conversion's too
ReplaceChapters ==
  /\ Open /\ session.chapters < MaxEdits
  /\ SaveSession([session EXCEPT !.chapters = @ + 1, !.status = "parsed",
                                 !.analysis = NoAnalysis,
                                 !.generation = 0, !.job = "none", !.confirmed = FALSE,
                                 !.conversion = NotConverted, !.quick = NotReserved], {})
  /\ UNCHANGED <<analysing, converting, crashes>>

\* trash_project: its place in the trash must be free.  The routes refuse a book
\* with a job at work; neither they nor the session know of each other.
Trash(p) ==
  /\ Exists(p) /\ p \notin trash
  /\ shelf' = shelf \ {p} /\ trash' = trash \cup {p}
  /\ moved' = moved \cup {p} /\ restored' = restored \ {p}
  /\ UNCHANGED <<saved, analysing, request, projects, leftover, jobs, crashes>>

\* restore_project: back to where it was, if nothing else is there
RestoreProject(p) ==
  /\ p \in trash /\ ~Exists(p)
  /\ shelf' = shelf \cup {p} /\ trash' = trash \ {p} /\ restored' = restored \cup {p}
  /\ UNCHANGED <<saved, analysing, request, projects, leftover, moved, jobs, crashes>>

\* delete_trashed_project
DeleteTrashed(p) ==
  /\ p \in trash
  /\ trash' = trash \ {p}
  /\ UNCHANGED <<saved, analysing, request, projects, shelf, leftover, moved, restored, jobs,
                 crashes>>

\* PUT analysis: an edit of the analysis in its current revision confirms it
UpdateAnalysis ==
  /\ Open /\ session.status = "ready"
  /\ SaveSession([session EXCEPT !.analysis.by = "author", !.confirmed = TRUE], {})
  /\ UNCHANGED <<analysing, converting, crashes>>

-------------------------------------------------------------------------------
(* The analysis                                                              *)

\* The session still waits for the generation of task t in state `state`
Mine(t, state) ==
  /\ session.status = "analyzing"
  /\ session.generation = task[t].generation
  /\ session.job = state

Goes(t, to) == task' = [task EXCEPT ![t].at = to]
NewTask(t, g) == task' = [task EXCEPT ![t] = [at |-> "waiting", generation |-> g, chapters |-> 0]]

\* POST analyze: a queued generation without a worker gets another task
RequeueGeneration(t) ==
  /\ task[t] = NoTask
  /\ session.status = "analyzing" /\ session.generation # 0 /\ session.job = "queued"
  /\ lease = NoOne
  /\ NewTask(t, session.generation)
  /\ UNCHANGED <<saved, lease, asked, converting, crashes>>

\* POST analyze: a new generation, also instead of one whose worker is gone
QueueNewGeneration(t) ==
  /\ task[t] = NoTask /\ asked < MaxGenerations /\ Open
  /\ \/ session.status \in {"parsed", "failed"}
     \/ /\ session.status = "analyzing" /\ lease = NoOne
        /\ session.generation = 0 \/ session.job # "queued"
  /\ asked' = asked + 1
  /\ SaveSession([session EXCEPT !.status = "analyzing", !.analysis = NoAnalysis,
                                 !.generation = asked + 1, !.job = "queued"], {})
  /\ NewTask(t, asked + 1)
  /\ UNCHANGED <<lease, converting, crashes>>

\* _wait_for_analysis_lease: the lease, or the time is up or the session
\* waits for another generation by now
TakeLease(t) ==
  /\ task[t].at = "waiting" /\ lease = NoOne
  /\ lease' = t
  /\ Goes(t, "leased")
  /\ UNCHANGED <<saved, asked, converting, crashes>>

StopWaiting(t) ==
  /\ task[t].at = "waiting"
  /\ task' = [task EXCEPT ![t] = NoTask]
  /\ UNCHANGED <<saved, lease, asked, converting, crashes>>

\* Mutant: a task that comes too late forgets to release the lease
ClaimAnalysisJobBare(t) ==
  /\ task[t].at = "leased"
  /\ IF Mine(t, "queued") /\ Open
     THEN SaveSession([session EXCEPT !.job = "running"], {}) /\ Goes(t, "claimed")
     ELSE task' = [task EXCEPT ![t] = NoTask] /\ UNCHANGED saved
  /\ UNCHANGED <<lease, asked, converting, crashes>>

ClaimAnalysisJob(t) ==
  /\ task[t].at = "leased"
  /\ IF Mine(t, "queued") /\ Open
     THEN SaveSession([session EXCEPT !.job = "running"], {}) /\ Goes(t, "claimed")
     ELSE Goes(t, "leaving") /\ UNCHANGED saved
  /\ UNCHANGED <<lease, asked, converting, crashes>>

\* run_continuation_analysis reads the session and keeps its chapters
ReadChapters(t) ==
  /\ task[t].at = "claimed"
  /\ IF session.status = "ready"
     THEN Goes(t, "leaving") /\ UNCHANGED fresh
     ELSE /\ task' = [task EXCEPT ![t].at = "read", ![t].chapters = session.chapters]
          /\ fresh' = fresh \cup {t}
  /\ UNCHANGED <<session, lease, asked, converting, crashes>>

Begin(t) ==
  /\ task[t].at = "read" /\ t \in fresh /\ Open
  /\ SaveSession([session EXCEPT !.status = "analyzing", !.analysis = NoAnalysis], {t})
  /\ Goes(t, "working")
  /\ UNCHANGED <<lease, asked, converting, crashes>>

\* A batch of chapters is analysed
Checkpoint(t) ==
  /\ task[t].at = "working" /\ t \in fresh /\ Open
  /\ SaveSession(session, {t})
  /\ UNCHANGED <<analysing, converting, crashes>>

Analysed(t) == [of |-> task[t].chapters, by |-> "model"]

\* Mutant: the analysis is saved over whatever the session has become
FinishAnyway(t) ==
  /\ task[t].at = "working" /\ Open
  /\ SaveSession([session EXCEPT !.status = "ready", !.analysis = Analysed(t)], {})
  /\ Goes(t, "leaving")
  /\ UNCHANGED <<lease, asked, converting, crashes>>

Finish(t) ==
  /\ task[t].at = "working" /\ t \in fresh /\ Open
  /\ SaveSession([session EXCEPT !.status = "ready", !.analysis = Analysed(t)], {})
  /\ Goes(t, "leaving")
  /\ UNCHANGED <<lease, asked, converting, crashes>>

\* The model fails or a save is refused: the session is marked as failed if
\* nothing was saved since, or if it still waits for this very generation
FailAnalysis(t) ==
  /\ task[t].at \in {"claimed", "read", "working"}
  /\ IF Open /\ ((task[t].at = "working" /\ t \in fresh) \/ Mine(t, "running"))
     THEN SaveSession([session EXCEPT !.status = "failed", !.analysis = NoAnalysis], {})
     ELSE UNCHANGED saved
  /\ Goes(t, "leaving")
  /\ UNCHANGED <<lease, asked, converting, crashes>>

ReleaseLease(t) ==
  /\ task[t].at = "leaving"
  /\ lease' = NoOne
  /\ task' = [task EXCEPT ![t] = NoTask]
  /\ UNCHANGED <<saved, asked, converting, crashes>>

-------------------------------------------------------------------------------
(* The conversion                                                            *)

\* A request that works for project p with the session as it is now; `here`:
\* it made the claim itself; `known`: the state of the conversion as it saw it
Converting(kind, to, p, here, known) ==
  [at |-> to, kind |-> kind, project |-> p, here |-> here, known |-> known,
   published |-> FALSE, job |-> NoOne,
   chapters |-> session.chapters, analysis |-> session.analysis,
   confirmed |-> session.confirmed]

Moves(r, to) == request' = [request EXCEPT ![r].at = to]
Ends(r) == request' = [request EXCEPT ![r] = Done]

\* claim_project_conversion, but for the revision
Claimable == session.conversion.status \notin {"claimed", "succeeded"} /\ session.status = "ready"

\* create-project: the revision the author saw is the saved one
OpenCreate(r) ==
  /\ request[r] = Unsent
  /\ \/ /\ Claimable /\ session.confirmed
        /\ SaveSession(SetConversion("claimed", r), {})
        /\ request' = [request EXCEPT ![r] = Converting("create", "look", r, TRUE, "claimed")]
     \/ /\ ~Open
        /\ request' = [request EXCEPT ![r] =
             Converting("create", "look", session.conversion.project, FALSE, "claimed")]
        /\ UNCHANGED saved
  /\ UNCHANGED <<analysing, projects, library, leftover, jobs, crashes>>

\* quick-continue reads the session; a finished one has its answer already
OpenQuick(r) ==
  /\ request[r] = Unsent
  /\ session.quick.status # "started" /\ session.status = "ready"
  /\ LET s == session.conversion.status IN
     IF s \in {"claimed", "succeeded"}
     THEN /\ request' = [request EXCEPT ![r] =
               Converting("quick", IF s = "claimed" THEN "wait" ELSE "look",
                          session.conversion.project, FALSE, s)]
          /\ UNCHANGED fresh
     ELSE /\ request' = [request EXCEPT ![r] = Converting("quick", "claim", r, FALSE, s)]
          /\ fresh' = fresh \cup {r}
  /\ UNCHANGED <<session, analysing, projects, library, leftover, jobs, crashes>>

ClaimQuick(r) ==
  /\ request[r].at = "claim"
  /\ \/ /\ session.conversion.status \in {"claimed", "succeeded"}
        /\ Moves(r, "adopt") /\ UNCHANGED saved
     \/ /\ Claimable /\ r \in fresh
        /\ SaveSession(SetConversion("claimed", r), {})
        /\ request' = [request EXCEPT ![r] = Converting("quick", "look", r, TRUE, "none")]
     \/ /\ Open /\ r \notin fresh
        /\ Ends(r) /\ UNCHANGED saved
  /\ UNCHANGED <<analysing, projects, library, leftover, jobs, crashes>>

\* Somebody else's conversion was in the way: it is read once more
AdoptConversion(r) ==
  /\ request[r].at = "adopt"
  /\ LET c == session.conversion IN
     IF c = NotConverted
     THEN Ends(r)
     ELSE request' = [request EXCEPT ![r] =
            Converting("quick", IF c.status = "claimed" THEN "wait" ELSE "look",
                       c.project, FALSE, c.status)]
  /\ UNCHANGED <<saved, analysing, projects, library, leftover, jobs, crashes>>

\* Thirty seconds for the owner of the claim
WaitForOwner(r) ==
  /\ request[r].at = "wait"
  /\ \/ /\ session.conversion.status = "succeeded" \/ Exists(request[r].project)
        /\ request' = [request EXCEPT ![r] =
             Converting("quick", "look", request[r].project, FALSE, session.conversion.status)]
     \/ Ends(r)
  /\ UNCHANGED <<saved, analysing, projects, library, leftover, jobs, crashes>>

\* _existing_claimed_project
LookForProject(r) ==
  /\ request[r].at = "look"
  /\ LET q == request[r] IN
     IF Exists(q.project)
     THEN request' = [request EXCEPT ![r].at = "finalize",
                                     ![r].published = (q.kind = "create")]
     ELSE IF q.known = "succeeded" THEN Ends(r) ELSE Moves(r, "create")
  /\ UNCHANGED <<saved, analysing, projects, library, leftover, jobs, crashes>>

\* create_continuation_project's own checks of the copy it is given
Acceptable(q) == q.analysis # NoAnalysis /\ (q.kind = "quick" \/ q.confirmed)

Book(q) == [id |-> q.project, via |-> q.kind, chapters |-> q.chapters, analysis |-> q.analysis]

\* The conversion lease is held from the look for another book to the rename.
Unleased == \A q \in Request : request[q].at # "staged"

\* _assert_session_not_converted: no directory of the export root is of this
\* session.  The trash is out of its sight; a staging directory is not.
NotConvertedYet == shelf = {} /\ ~leftover

\* Mutant: only the project's own directory is looked for
StageBeside(r) ==
  /\ request[r].at = "create" /\ Acceptable(request[r]) /\ Unleased
  /\ ~Exists(request[r].project)
  /\ Moves(r, "staged")
  /\ UNCHANGED <<saved, analysing, projects, library, leftover, jobs, crashes>>

\* Under the conversion lease the book is written to a directory of its own
Stage(r) ==
  /\ request[r].at = "create" /\ Acceptable(request[r]) /\ Unleased
  /\ NotConvertedYet
  /\ Moves(r, "staged")
  /\ UNCHANGED <<saved, analysing, projects, library, leftover, jobs, crashes>>

\* which is renamed into place
Publish(r) ==
  /\ request[r].at = "staged" /\ ~Exists(request[r].project)
  /\ projects' = projects \cup {Book(request[r])}
  /\ shelf' = shelf \cup {request[r].project}
  /\ request' = [request EXCEPT ![r].at = "finalize", ![r].published = TRUE]
  /\ UNCHANGED <<saved, analysing, trash, leftover, moved, restored, jobs, crashes>>

\* FileExistsError: what a request does with a session that has a book
MeetsBook(r) ==
  LET q == request[r] IN
  CASE q.kind = "create" /\ q.here -> Moves(r, "fail")
    [] q.kind = "create" /\ ~q.here /\ Exists(q.project) -> Moves(r, "finalize")
    [] q.kind = "quick" /\ Exists(q.project) -> Moves(r, "settle")
    [] OTHER -> Ends(r)

Collide(r) ==
  /\ request[r].at = "create" /\ Acceptable(request[r]) /\ Unleased
  /\ ~NotConvertedYet
  /\ MeetsBook(r)
  /\ UNCHANGED <<saved, analysing, projects, library, leftover, jobs, crashes>>

\* Whoever cannot publish removes the staging directory, as far as he can
StagingGone == UNCHANGED leftover \/ leftover' = TRUE

\* The book was restored while another copy of it was written
CollideStaged(r) ==
  /\ request[r].at = "staged" /\ Exists(request[r].project)
  /\ MeetsBook(r)
  /\ StagingGone
  /\ UNCHANGED <<saved, analysing, projects, library, jobs, crashes>>

\* ValueError: the settings or the copy are refused; OSError: only the answer
\* says so, and the claim stays
CannotPublish(r) ==
  /\ request[r].at \in {"create", "staged"}
  /\ \/ request[r].here /\ Moves(r, "fail")
     \/ Ends(r)
  /\ IF request[r].at = "staged" THEN StagingGone ELSE UNCHANGED leftover
  /\ UNCHANGED <<saved, analysing, projects, library, jobs, crashes>>

\* fail_project_conversion; a claim that is gone is left alone
FailConversion(r) ==
  /\ request[r].at = "fail"
  /\ IF ClaimedFor(request[r].project)
     THEN SaveSession(SetConversion("failed", request[r].project), {})
     ELSE UNCHANGED saved
  /\ Ends(r)
  /\ UNCHANGED <<analysing, projects, library, leftover, jobs, crashes>>

\* A ValueError of a request that is past the creation
GivesUp(r) ==
  IF request[r].kind = "quick" /\ request[r].here /\ ~request[r].published
  THEN Moves(r, "fail") ELSE Ends(r)

\* finalize_project_conversion
FinalizeConversion(r) ==
  /\ request[r].at = "finalize"
  /\ LET q == request[r] IN
     \/ /\ ClaimedFor(q.project)
        /\ SaveSession(SetConversion("succeeded", q.project), {})
        /\ IF q.kind = "quick" THEN Moves(r, "reserve") ELSE Ends(r)
     \/ /\ ~ClaimedFor(q.project)
        /\ IF q.kind = "quick" /\ session.conversion.status = "succeeded"
           THEN Moves(r, "reserve") ELSE GivesUp(r)
        /\ UNCHANGED saved
  /\ UNCHANGED <<analysing, projects, library, leftover, jobs, crashes>>

\* The last thing a quick continuation does that met a finished book
SettleConversion(r) ==
  /\ request[r].at = "settle"
  /\ IF ClaimedFor(request[r].project)
     THEN SaveSession(SetConversion("succeeded", request[r].project), {})
     ELSE UNCHANGED saved
  /\ Ends(r)
  /\ UNCHANGED <<analysing, projects, library, leftover, jobs, crashes>>

-------------------------------------------------------------------------------
(* The generation job of a quick continuation                                *)

Reservation(r, status, job) ==
  [session EXCEPT !.quick = [status |-> status, project |-> request[r].project, job |-> job]]
ConvertedTo(p) == session.conversion = [status |-> "succeeded", project |-> p]
Starts(r, job) == request' = [request EXCEPT ![r].at = "start", ![r].job = job]

\* Mutant: a reservation counts only once its job has started
ReserveAnew(r) ==
  /\ request[r].at = "reserve"
  /\ \/ /\ session.quick.status = "started"
        /\ Starts(r, session.quick.job) /\ UNCHANGED saved
     \/ /\ session.quick.status # "started" /\ ConvertedTo(request[r].project)
        /\ SaveSession(Reservation(r, "starting", r), {}) /\ Starts(r, r)
     \/ /\ session.quick.status # "started" /\ ~ConvertedTo(request[r].project)
        /\ GivesUp(r) /\ UNCHANGED saved
  /\ UNCHANGED <<analysing, projects, library, leftover, jobs, crashes>>

\* reserve_quick_continuation: the first reservation is everybody's
Reserve(r) ==
  /\ request[r].at = "reserve"
  /\ \/ /\ session.quick # NotReserved
        /\ Starts(r, session.quick.job) /\ UNCHANGED saved
     \/ /\ session.quick = NotReserved /\ ConvertedTo(request[r].project)
        /\ SaveSession(Reservation(r, "starting", r), {}) /\ Starts(r, r)
     \/ /\ session.quick = NotReserved /\ ~ConvertedTo(request[r].project)
        /\ GivesUp(r) /\ UNCHANGED saved
  /\ UNCHANGED <<analysing, projects, library, leftover, jobs, crashes>>

\* start_file_generation_job with the reserved id: a job known in memory is
\* answered; one found in the project's files is submitted again, any other is
\* new; a gate refuses, another job is active or the project is not there
StartJob(r) ==
  /\ request[r].at = "start"
  /\ \/ /\ Exists(request[r].project)
        /\ \/ jobs' = jobs \cup {[id |-> request[r].job, project |-> request[r].project]}
           \/ (\E j \in jobs : j.id = request[r].job) /\ UNCHANGED jobs
        /\ Moves(r, "complete")
     \/ Ends(r) /\ UNCHANGED jobs
  /\ UNCHANGED <<saved, analysing, projects, library, leftover, crashes>>

\* complete_quick_continuation
CompleteQuick(r) ==
  /\ request[r].at = "complete"
  /\ LET q == request[r] IN
     IF session.quick # NotReserved /\ session.quick.project = q.project
        /\ session.quick.job = q.job
     THEN SaveSession(Reservation(r, "started", q.job), {}) /\ Ends(r)
     ELSE GivesUp(r) /\ UNCHANGED saved
  /\ UNCHANGED <<analysing, projects, library, leftover, jobs, crashes>>

\* session.json cannot be written: the claim or the reservation stays as it is
CannotSave(r) ==
  /\ request[r].at \in {"fail", "finalize", "settle", "reserve", "complete"}
  /\ Ends(r)
  /\ UNCHANGED <<saved, analysing, projects, library, leftover, jobs, crashes>>

-------------------------------------------------------------------------------
\* The process stops: its tasks and requests are gone, and their leases; a
\* staging directory stays, and counts once the project file is in it
Crash ==
  /\ crashes < MaxCrashes /\ crashes' = crashes + 1
  /\ task' = [t \in Task |-> NoTask] /\ lease' = NoOne
  /\ request' = [r \in Request |-> IF request[r] = Unsent THEN Unsent ELSE Done]
  /\ fresh' = {}
  /\ IF Unleased THEN UNCHANGED leftover ELSE StagingGone
  /\ UNCHANGED <<session, asked, projects, library, jobs>>

Analysing(t) ==
  \/ RequeueGeneration(t) \/ QueueNewGeneration(t)
  \/ TakeLease(t) \/ StopWaiting(t) \/ ClaimAnalysisJob(t)
  \/ ReadChapters(t) \/ Begin(t) \/ Checkpoint(t) \/ Finish(t) \/ FailAnalysis(t)
  \/ ReleaseLease(t)

ConvertingStep(r) ==
  \/ OpenCreate(r) \/ OpenQuick(r) \/ ClaimQuick(r) \/ AdoptConversion(r) \/ WaitForOwner(r)
  \/ LookForProject(r)
  \/ Stage(r) \/ Publish(r) \/ Collide(r) \/ CollideStaged(r) \/ CannotPublish(r)
  \/ FailConversion(r) \/ FinalizeConversion(r) \/ SettleConversion(r)
  \/ Reserve(r) \/ StartJob(r) \/ CompleteQuick(r) \/ CannotSave(r)

Next ==
  \/ ReplaceChapters \/ UpdateAnalysis
  \/ \E p \in Request : Trash(p) \/ RestoreProject(p) \/ DeleteTrashed(p)
  \/ \E t \in Task : Analysing(t)
  \/ \E r \in Request : ConvertingStep(r)
  \/ Crash

Spec == Init /\ [][Next]_vars

-------------------------------------------------------------------------------
(* Properties                                                                *)

Conversion == [status: {"claimed", "succeeded", "failed"}, project: Request]
AnalysisOrNone == Analysis \cup {NoAnalysis}
Working == {"leased", "claimed", "read", "working", "leaving"}

\* Every variable has its type; an analysis is there exactly in a ready
\* session, and the lease has one owner, the task that is past waiting.
TypeOK ==
  /\ session \in [status: {"parsed", "analyzing", "ready", "failed"}, chapters: Version,
                  analysis: AnalysisOrNone, generation: 0..MaxGenerations,
                  job: {"none", "queued", "running"}, confirmed: BOOLEAN,
                  conversion: Conversion \cup {NotConverted},
                  quick: [status: {"starting", "started"}, project: Request, job: Request]
                         \cup {NotReserved}]
  /\ session.analysis # NoAnalysis <=> session.status = "ready"
  /\ task \in [Task -> {NoTask} \cup [at: {"waiting"} \cup Working,
                                      generation: 1..MaxGenerations, chapters: Version]]
  /\ lease \in Task \cup {NoOne}
  /\ \A t \in Task : lease = t <=> task[t].at \in Working
  /\ jobs \subseteq [id: Request, project: Request]
  /\ \A b \in projects : b.id \in Request /\ b.analysis \in Analysis
  /\ \A p \in shelf \cup trash : Published(p)
  /\ leftover \in BOOLEAN /\ moved \subseteq Request /\ restored \subseteq shelf
  /\ fresh \subseteq Task \cup Request
  /\ asked \in 0..MaxGenerations /\ crashes \in 0..MaxCrashes

\* The analysis in the session is of the chapters in the session, whoever
\* edited them while a task was at work and however late its answer is.
AnalysisOfTheseChapters == session.status = "ready" => session.analysis.of = session.chapters

\* However often its conversion is claimed, and forgotten when the chapters are
\* replaced, a session never becomes two books beside each other: of those on
\* the shelf all but one came back from the trash.
OneBookPerSession == \A p, q \in shelf \ restored : p = q

\* create-project makes a book only of an analysis the author has confirmed,
\* and confirmed for the chapters that go into the book.
BookAsConfirmed ==
  \A b \in projects : b.via = "create" => b.analysis = [of |-> b.chapters, by |-> "author"]

\* A book that was never in the trash gets at most one first job, however often
\* the request is repeated, and whatever else becomes of the session.
OneJobPerBook ==
  \A i, k \in jobs : i.project = k.project /\ i.project \notin moved => i = k

\* When a conversion is recorded as succeeded its book was published, and is
\* made of the chapters and the analysis the session has at that moment.
RecordedAsPublished ==
  [][session'.conversion.status = "succeeded" /\ session.conversion # session'.conversion
     => [id |-> session'.conversion.project, chapters |-> session.chapters,
         analysis |-> session.analysis]
        \in {[id |-> b.id, chapters |-> b.chapters, analysis |-> b.analysis] : b \in projects}]_vars
===============================================================================
