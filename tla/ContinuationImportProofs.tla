----------------------- MODULE ContinuationImportProofs -----------------------
(***************************************************************************)
(* Proofs about the import of a novel (continuation_sessions.py,           *)
(* continuation_analysis.py and the routes of continuation_imports.py),    *)
(* for every number of tasks, requests, edits, generations and stops.      *)
(*                                                                         *)
(* AnalysisInv is about the session and the tasks that analyse it: what a  *)
(* task with a fresh copy works on is what the session holds.              *)
(* ConversionInv is about requests, books and jobs.  It rests on three     *)
(* facts: a project id is claimed once, by the request that drew it        *)
(* (Spent); while a claim lasts nobody but its holders saves the session,  *)
(* so every copy made under it is the session's; and while a book is       *)
(* written the shelf holds at most what came back from the trash.          *)
(***************************************************************************)
EXTENDS ContinuationImport, TLAPS

-------------------------------------------------------------------------------
(* The inductive invariant *)

Reserved == [status: {"starting", "started"}, project: Request, job: Request]
Session == [status: {"parsed", "analyzing", "ready", "failed"}, chapters: Version,
            analysis: AnalysisOrNone, generation: 0..MaxGenerations,
            job: {"none", "queued", "running"}, confirmed: BOOLEAN,
            conversion: Conversion \cup {NotConverted},
            quick: Reserved \cup {NotReserved}]

\* Only a ready session has an analysis, is confirmed or was ever converted.
SessionOK ==
  /\ session \in Session
  /\ session.analysis # NoAnalysis <=> session.status = "ready"
  /\ session.confirmed => session.status = "ready" /\ session.analysis.by = "author"
  /\ session.conversion # NotConverted => session.status = "ready"
  /\ AnalysisOfTheseChapters

TaskRecord == [at: {"waiting"} \cup Working, generation: 1..MaxGenerations, chapters: Version]

TasksOK ==
  /\ task \in [Task -> {NoTask} \cup TaskRecord]
  /\ lease \in Task \cup {NoOne}
  /\ \A t \in Task : lease = t <=> task[t].at \in Working
  /\ fresh \subseteq Task \cup Request
  /\ asked \in 0..MaxGenerations /\ crashes \in 0..MaxCrashes

\* A task whose copy of the session is the saved one has read its chapters.
CopyOK(t) ==
  /\ task[t].at = "read" => task[t].chapters = session.chapters /\ session.status # "ready"
  /\ task[t].at = "working" => task[t].chapters = session.chapters /\ session.status = "analyzing"

AnalysisInv == SessionOK /\ TasksOK /\ \A t \in Task \cap fresh : CopyOK(t)

Place == {"look", "claim", "wait", "adopt", "create", "staged", "finalize", "fail",
          "settle", "reserve", "start", "complete"}
Handler == [at: Place, kind: {"create", "quick"}, project: Request, here: BOOLEAN,
            known: {"none", "claimed", "succeeded", "failed"}, published: BOOLEAN,
            job: Request \cup {NoOne}, chapters: Version, analysis: AnalysisOrNone,
            confirmed: BOOLEAN]

\* The request that drew project p cannot claim it any more.
Spent(p) == request[p] # Unsent /\ request[p].at # "claim"

\* What a request carries is what some session said, and of the session as it
\* is while its project is claimed.
HandlerOK(r) ==
  LET q == request[r] IN
  /\ q \in Handler
  /\ q.analysis \in Analysis => q.analysis.of = q.chapters
  /\ q.confirmed => q.analysis \in Analysis /\ q.analysis.by = "author"
  /\ IF q.at = "claim" THEN q.project = r ELSE Spent(q.project)
  /\ q.at \in {"finalize", "settle", "reserve", "start", "complete"} => Published(q.project)
  /\ q.at = "staged" => Acceptable(q)
  /\ q.at \in {"start", "complete"} => q.job \in Request
  /\ q.at \in {"look", "create", "staged"} /\ ClaimedFor(q.project) =>
       q.chapters = session.chapters /\ q.analysis = session.analysis

RequestsOK ==
  /\ request \in [Request -> {Unsent, Done} \cup Handler]
  /\ \A r \in Request : request[r] \in {Unsent, Done} \/ HandlerOK(r)

BookRecord == [id: Request, via: {"create", "quick"}, chapters: Version, analysis: Analysis]

\* A book was claimed for; the one that is being claimed is the session's.
BooksOK ==
  /\ projects \subseteq BookRecord
  /\ BookAsConfirmed
  /\ \A b \in projects : Spent(b.id)
  /\ \A b \in projects : ClaimedFor(b.id) =>
       b.chapters = session.chapters /\ b.analysis = session.analysis

\* A book that was never moved is where it was published, and nothing beside
\* those that came back from the trash is there while another is written.
ShelfOK ==
  /\ \A p \in shelf \cup trash : Published(p)
  /\ restored \subseteq shelf /\ restored \cup trash \subseteq moved /\ moved \subseteq Request
  /\ \A p \in Request : Published(p) => p \in shelf \cup moved
  /\ OneBookPerSession
  /\ \A r \in Request : request[r].at = "staged" => shelf \subseteq restored
  /\ \A r, u \in Request : request[r].at = "staged" /\ request[u].at = "staged" => r = u

ConversionOK ==
  session.conversion # NotConverted =>
    /\ Spent(session.conversion.project)
    /\ session.conversion.status = "succeeded" => Published(session.conversion.project)

\* Job k was started in project p, or is about to be
InPlay(p, k) ==
  \/ [id |-> k, project |-> p] \in jobs
  \/ \E r \in Request : /\ request[r].at \in {"start", "complete"}
                       /\ request[r].project = p /\ request[r].job = k

\* The reservation is of this job, or there is none and will be none while
\* nothing else is published: whatever is claimed or recorded has no book.
ReservedIs(k) ==
  IF session.quick # NotReserved THEN session.quick.job = k
  ELSE session.conversion.status \in {"claimed", "succeeded"}
         => ~Published(session.conversion.project)

\* In a project that was never moved there is one such job.
JobsOK ==
  /\ jobs \subseteq [id: Request, project: Request]
  /\ \A p \in Request \ moved : \A i \in Request : InPlay(p, i) =>
       /\ Published(p)
       /\ \A k \in Request : InPlay(p, k) => i = k
       /\ ReservedIs(i)

ConversionInv == RequestsOK /\ BooksOK /\ ShelfOK /\ ConversionOK /\ JobsOK

CIInv == AnalysisInv /\ ConversionInv

-------------------------------------------------------------------------------
(* Records *)

\* The assumptions on the constants, one by one
LEMMA Constants ==
  /\ NoOne \notin Task /\ NoOne \notin Request /\ Task \cap Request = {}
  /\ MaxEdits \in Nat /\ MaxGenerations \in Nat /\ MaxCrashes \in Nat
  BY ContinuationAssumption

\* What a conversion, a reservation and an analysis are told from their absence by
LEMMA Values ==
  /\ \A c \in Conversion : /\ c # NotConverted /\ c.project \in Request
                           /\ c.status \in {"claimed", "succeeded", "failed"}
  /\ NotConverted.status = "none"
  /\ \A q \in Reserved : /\ q # NotReserved /\ q.project \in Request /\ q.job \in Request
                         /\ q.status \in {"starting", "started"}
  /\ \A a \in Analysis : a # NoAnalysis /\ a.of \in Version /\ a.by \in {"model", "author"}
  /\ NoAnalysis \notin Analysis
  BY DEF Conversion, NotConverted, Reserved, NotReserved, Analysis, NoAnalysis

\* The types of the session's fields
LEMMA SessionFields ==
  ASSUME NEW s \in Session
  PROVE  /\ s.status \in {"parsed", "analyzing", "ready", "failed"} /\ s.chapters \in Version
         /\ s.analysis \in AnalysisOrNone /\ s.generation \in 0..MaxGenerations
         /\ s.job \in {"none", "queued", "running"} /\ s.confirmed \in BOOLEAN
         /\ s.conversion \in Conversion \cup {NotConverted}
         /\ s.quick \in Reserved \cup {NotReserved}
  BY DEF Session

\* The types of a handler's fields; it is neither unsent nor done.
LEMMA HandlerFields ==
  ASSUME NEW q \in Handler
  PROVE  /\ q.at \in Place /\ q.kind \in {"create", "quick"} /\ q.project \in Request
         /\ q.here \in BOOLEAN /\ q.known \in {"none", "claimed", "succeeded", "failed"}
         /\ q.published \in BOOLEAN /\ q.job \in Request \cup {NoOne} /\ q.chapters \in Version
         /\ q.analysis \in AnalysisOrNone /\ q.confirmed \in BOOLEAN
         /\ q # Unsent /\ q # Done
  BY DEF Handler, Place, Unsent, Done

\* A task that is somewhere is a record; one that is not has no place to work in.
LEMMA TaskFields ==
  ASSUME NEW x \in {NoTask} \cup TaskRecord
  PROVE  /\ x = NoTask \/ x \in TaskRecord
         /\ x.at # "none" => x \in TaskRecord
         /\ x \in TaskRecord => /\ x.at \in {"waiting"} \cup Working /\ x.at # "none"
                                /\ x.generation \in 1..MaxGenerations /\ x.chapters \in Version
         /\ NoTask.at = "none" /\ "none" \notin Working /\ "waiting" \notin Working
  BY DEF TaskRecord, NoTask, Working

\* A task that takes another place keeps its generation and its chapters.
LEMMA Moved ==
  ASSUME NEW x \in TaskRecord, NEW to \in {"waiting"} \cup Working
  PROVE  LET y == [x EXCEPT !.at = to] IN
         y \in TaskRecord /\ y.at = to /\ y.chapters = x.chapters /\ y.generation = x.generation
  BY DEF TaskRecord

-------------------------------------------------------------------------------
(* Steps of the author and of the tasks *)

\* A task takes another place.
LEMMA TasksMove ==
  ASSUME TasksOK, NEW t \in Task, NEW x \in {NoTask} \cup TaskRecord,
         task' = [task EXCEPT ![t] = x], lease' \in Task \cup {NoOne},
         lease' = t <=> x.at \in Working,
         \A u \in Task : u # t => (lease' = u <=> lease = u),
         fresh' \subseteq Task \cup Request, asked' \in 0..MaxGenerations, crashes' = crashes
  PROVE  /\ TasksOK' /\ task'[t] = x
         /\ \A u \in Task : u # t => task'[u] = task[u]
<1>1. /\ task \in [Task -> {NoTask} \cup TaskRecord] /\ crashes \in 0..MaxCrashes
      /\ \A u \in Task : lease = u <=> task[u].at \in Working
  BY DEF TasksOK
<1>2. /\ task' \in [Task -> {NoTask} \cup TaskRecord] /\ task'[t] = x
      /\ \A u \in Task : u # t => task'[u] = task[u]
  BY <1>1
<1>3. \A u \in Task : lease' = u <=> task'[u].at \in Working
  BY <1>1, <1>2
<1> QED
  BY <1>1, <1>2, <1>3 DEF TasksOK

\* A task that leaves, or that only waits, needs no copy.
LEMMA CopiesKept ==
  ASSUME AnalysisInv, NEW t \in Task, session' = session, fresh' \subseteq fresh,
         \A u \in Task : u # t => task'[u] = task[u],
         task'[t].at \notin {"read", "working"}
  PROVE  \A u \in Task \cap fresh' : CopyOK(u)'
  BY DEF AnalysisInv, CopyOK

\* No step of theirs touches a session that is being converted, nor a conversion.
LEMMA ConversionKept ==
  ASSUME CIInv, UNCHANGED <<request, projects, library, jobs>>,
         session'.conversion = session.conversion, session'.quick = session.quick,
         session.conversion.status = "claimed" =>
           session'.chapters = session.chapters /\ session'.analysis = session.analysis
  PROVE  ConversionInv'
<1>1. \A p : /\ ClaimedFor(p)' <=> ClaimedFor(p)
             /\ ClaimedFor(p) => session'.chapters = session.chapters
                                 /\ session'.analysis = session.analysis
  BY DEF ClaimedFor
<1>2. \A p : (Spent(p)' <=> Spent(p)) /\ (Published(p)' <=> Published(p))
  BY DEF Spent, Published
<1>3. RequestsOK'
  <2>1. ASSUME NEW r \in Request, HandlerOK(r)
        PROVE  HandlerOK(r)'
    BY <1>1, <1>2, <2>1 DEF HandlerOK
  <2> QED
    BY <2>1 DEF CIInv, ConversionInv, RequestsOK
<1>4. BooksOK'
  BY <1>1, <1>2 DEF CIInv, ConversionInv, BooksOK, BookAsConfirmed
<1>5. ConversionOK'
  BY <1>2 DEF CIInv, ConversionInv, ConversionOK
<1>6. JobsOK'
  <2>1. \A p, k : (InPlay(p, k)' <=> InPlay(p, k)) /\ (ReservedIs(k)' <=> ReservedIs(k))
    BY <1>2 DEF InPlay, ReservedIs
  <2> QED
    BY <1>2, <2>1 DEF CIInv, ConversionInv, JobsOK, library
<1>7. ShelfOK'
  BY <1>2 DEF CIInv, ConversionInv, ShelfOK, OneBookPerSession, library
<1> QED
  BY <1>3, <1>4, <1>5, <1>6, <1>7 DEF ConversionInv

\* New chapters: nothing is claimed, recorded or reserved any more.
LEMMA ConversionForgotten ==
  ASSUME CIInv, UNCHANGED <<request, projects, library, jobs>>,
         session'.conversion = NotConverted, session'.quick = NotReserved
  PROVE  ConversionInv'
<1>1. \A p : ~ClaimedFor(p)'
  BY Values DEF ClaimedFor, NotConverted
<1>2. \A p : (Spent(p)' <=> Spent(p)) /\ (Published(p)' <=> Published(p))
  BY DEF Spent, Published
<1>3. RequestsOK'
  <2>1. ASSUME NEW r \in Request, HandlerOK(r)
        PROVE  HandlerOK(r)'
    BY <1>1, <1>2, <2>1 DEF HandlerOK
  <2> QED
    BY <2>1 DEF CIInv, ConversionInv, RequestsOK
<1>4. BooksOK'
  BY <1>1, <1>2 DEF CIInv, ConversionInv, BooksOK, BookAsConfirmed
<1>5. ConversionOK'
  BY DEF ConversionOK
<1>6. JobsOK'
  <2>1. \A p, k : InPlay(p, k)' <=> InPlay(p, k)
    BY DEF InPlay
  <2>2. \A k : ReservedIs(k)'
    BY Values DEF ReservedIs
  <2> QED
    BY <1>2, <2>1, <2>2 DEF CIInv, ConversionInv, JobsOK, library
<1>7. ShelfOK'
  BY <1>2 DEF CIInv, ConversionInv, ShelfOK, OneBookPerSession, library
<1> QED
  BY <1>3, <1>4, <1>5, <1>6, <1>7 DEF ConversionInv

\* replace_chapters (continuation_sessions.py)
LEMMA ReplaceChaptersSafe ==
  ASSUME CIInv, ReplaceChapters
  PROVE  CIInv'
<1> DEFINE s == [session EXCEPT !.chapters = @ + 1, !.status = "parsed",
                   !.analysis = NoAnalysis,
                   !.generation = 0, !.job = "none", !.confirmed = FALSE,
                   !.conversion = NotConverted, !.quick = NotReserved]
<1>1. /\ session' = s /\ fresh' = {} /\ session.chapters < MaxEdits
      /\ UNCHANGED <<task, lease, asked, request, projects, library, jobs, crashes>>
  BY DEF ReplaceChapters, SaveSession, analysing, converting
<1>2. session \in Session /\ TasksOK
  BY DEF CIInv, AnalysisInv, SessionOK
<1>3. session.chapters + 1 \in Version /\ 0 \in 0..MaxGenerations /\ NoAnalysis \in AnalysisOrNone
  BY <1>1, <1>2, SessionFields, Constants DEF Version, AnalysisOrNone
<1>4. /\ s \in Session /\ s.status = "parsed" /\ s.analysis = NoAnalysis /\ ~s.confirmed
      /\ s.conversion = NotConverted /\ s.quick = NotReserved
  BY <1>2, <1>3 DEF Session
<1> HIDE DEF s
<1>5. SessionOK'
  BY <1>1, <1>4 DEF SessionOK, AnalysisOfTheseChapters
<1>6. AnalysisInv'
  BY <1>1, <1>2, <1>5 DEF AnalysisInv, TasksOK
<1> QED
  BY <1>1, <1>4, <1>6, ConversionForgotten DEF CIInv

\* update_analysis (continuation_sessions.py)
LEMMA UpdateAnalysisSafe ==
  ASSUME CIInv, UpdateAnalysis
  PROVE  CIInv'
<1> DEFINE a == [session.analysis EXCEPT !.by = "author"]
           s == [session EXCEPT !.analysis = a, !.confirmed = TRUE]
<1>1. /\ session' = s /\ fresh' = {} /\ session.status = "ready"
      /\ session.conversion.status # "claimed"
      /\ UNCHANGED <<task, lease, asked, request, projects, library, jobs, crashes>>
  BY DEF UpdateAnalysis, SaveSession, Open, analysing, converting
<1>2. session \in Session /\ TasksOK /\ SessionOK
  BY DEF CIInv, AnalysisInv, SessionOK
<1>3. session.analysis \in Analysis /\ session.analysis.of = session.chapters
  BY <1>1, <1>2, SessionFields DEF SessionOK, AnalysisOrNone, AnalysisOfTheseChapters
<1>4. a \in Analysis /\ a.by = "author" /\ a.of = session.chapters
  BY <1>3 DEF Analysis
<1> HIDE DEF a
<1>5. a \in AnalysisOrNone /\ a # NoAnalysis
  BY <1>4, Values DEF AnalysisOrNone
<1>6. /\ s \in Session /\ s.status = "ready" /\ s.analysis = a /\ s.chapters = session.chapters
      /\ s.conversion = session.conversion /\ s.quick = session.quick
  BY <1>1, <1>2, <1>5 DEF Session
<1> HIDE DEF s
<1>7. SessionOK'
  BY <1>1, <1>4, <1>5, <1>6 DEF SessionOK, AnalysisOfTheseChapters
<1>8. AnalysisInv'
  BY <1>1, <1>2, <1>7 DEF AnalysisInv, TasksOK
<1> QED
  BY <1>1, <1>6, <1>8, ConversionKept DEF CIInv

\* POST analyze for a generation that has no worker
LEMMA RequeueSafe ==
  ASSUME CIInv, NEW t \in Task, RequeueGeneration(t)
  PROVE  CIInv'
<1> DEFINE x == [at |-> "waiting", generation |-> session.generation, chapters |-> 0]
<1>1. /\ task[t] = NoTask /\ session.generation # 0 /\ lease = NoOne
      /\ task' = [task EXCEPT ![t] = x]
      /\ UNCHANGED <<session, fresh, lease, asked, request, projects, library, jobs, crashes>>
  BY DEF RequeueGeneration, NewTask, saved, converting
<1>2. TasksOK /\ SessionOK /\ session \in Session
  BY DEF CIInv, AnalysisInv, SessionOK
<1>3. session.generation \in 1..MaxGenerations /\ 0 \in Version
  BY <1>1, <1>2, SessionFields, Constants DEF Version
<1>4. x \in TaskRecord /\ x.at = "waiting" /\ x.at \notin Working
  BY <1>3 DEF TaskRecord, Working
<1> HIDE DEF x
<1>5. TasksOK' /\ task'[t] = x /\ \A u \in Task : u # t => task'[u] = task[u]
  BY <1>1, <1>2, <1>4, TasksMove, Constants DEF TasksOK
<1>6. AnalysisInv'
  BY <1>1, <1>2, <1>4, <1>5, CopiesKept
     DEF CIInv, AnalysisInv, SessionOK, AnalysisOfTheseChapters
<1> QED
  BY <1>1, <1>6, ConversionKept DEF CIInv

\* POST analyze for a new generation
LEMMA QueueSafe ==
  ASSUME CIInv, NEW t \in Task, QueueNewGeneration(t)
  PROVE  CIInv'
<1> DEFINE s == [session EXCEPT !.status = "analyzing", !.analysis = NoAnalysis,
                   !.generation = asked + 1, !.job = "queued"]
           x == [at |-> "waiting", generation |-> asked + 1, chapters |-> 0]
<1>1. /\ task[t] = NoTask /\ asked < MaxGenerations /\ session.conversion.status # "claimed"
      /\ session.status # "ready" /\ asked' = asked + 1 /\ session' = s /\ fresh' = {}
      /\ task' = [task EXCEPT ![t] = x]
      /\ UNCHANGED <<lease, request, projects, library, jobs, crashes>>
  BY DEF QueueNewGeneration, NewTask, SaveSession, Open, converting
<1>2. TasksOK /\ SessionOK /\ session \in Session
  BY DEF CIInv, AnalysisInv, SessionOK
<1>3. /\ asked + 1 \in 1..MaxGenerations /\ asked + 1 \in 0..MaxGenerations /\ 0 \in Version
      /\ NoAnalysis \in AnalysisOrNone
  BY <1>1, <1>2, Constants DEF Version, TasksOK, AnalysisOrNone
<1>4. x \in TaskRecord /\ x.at = "waiting" /\ x.at \notin Working
  BY <1>3 DEF TaskRecord, Working
<1>5. /\ s \in Session /\ s.status = "analyzing" /\ s.analysis = NoAnalysis
      /\ s.chapters = session.chapters /\ s.confirmed = session.confirmed
      /\ s.conversion = session.conversion /\ s.quick = session.quick
  BY <1>2, <1>3 DEF Session
<1> HIDE DEF x, s
<1>6. TasksOK'
  <2>1. lease # t
    BY <1>1, <1>2, TaskFields DEF TasksOK
  <2> QED
    BY <1>1, <1>2, <1>3, <1>4, <2>1, TasksMove DEF TasksOK
<1>7. SessionOK'
  BY <1>1, <1>2, <1>5 DEF SessionOK, AnalysisOfTheseChapters
<1>8. AnalysisInv'
  BY <1>1, <1>6, <1>7 DEF AnalysisInv
<1> QED
  BY <1>1, <1>5, <1>8, ConversionKept DEF CIInv

\* A task takes the lease, or goes.
LEMMA TakeLeaseSafe ==
  ASSUME CIInv, NEW t \in Task, TakeLease(t)
  PROVE  CIInv'
<1> DEFINE x == [task[t] EXCEPT !.at = "leased"]
<1>1. /\ task[t].at = "waiting" /\ lease = NoOne /\ lease' = t /\ task' = [task EXCEPT ![t] = x]
      /\ UNCHANGED <<session, fresh, asked, request, projects, library, jobs, crashes>>
  BY DEF TakeLease, Goes, saved, converting
<1>2. TasksOK /\ SessionOK
  BY DEF CIInv, AnalysisInv
<1>3. "leased" \in Working /\ task[t] \in TaskRecord
  BY <1>1, <1>2, TaskFields DEF TasksOK, Working
<1>4. x \in TaskRecord /\ x.at = "leased"
  BY <1>3, Moved
<1> HIDE DEF x
<1>5. TasksOK' /\ task'[t] = x /\ \A u \in Task : u # t => task'[u] = task[u]
  BY <1>1, <1>2, <1>3, <1>4, TasksMove, Constants DEF TasksOK
<1>6. AnalysisInv'
  BY <1>1, <1>2, <1>4, <1>5, CopiesKept
     DEF CIInv, AnalysisInv, SessionOK, AnalysisOfTheseChapters
<1> QED
  BY <1>1, <1>6, ConversionKept DEF CIInv

\* The time is up, or the session waits for another generation.
LEMMA StopWaitingSafe ==
  ASSUME CIInv, NEW t \in Task, StopWaiting(t)
  PROVE  CIInv'
<1>1. /\ task[t].at = "waiting" /\ task' = [task EXCEPT ![t] = NoTask]
      /\ UNCHANGED <<session, fresh, lease, asked, request, projects, library, jobs, crashes>>
  BY DEF StopWaiting, saved, converting
<1>2. TasksOK /\ SessionOK
  BY DEF CIInv, AnalysisInv
<1>3. lease # t
  BY <1>1, <1>2, TaskFields DEF TasksOK
<1>4. TasksOK' /\ task'[t] = NoTask /\ \A u \in Task : u # t => task'[u] = task[u]
  BY <1>1, <1>2, <1>3, TasksMove, TaskFields DEF TasksOK
<1>5. AnalysisInv'
  BY <1>1, <1>2, <1>4, TaskFields, CopiesKept
     DEF CIInv, AnalysisInv, SessionOK, AnalysisOfTheseChapters, NoTask
<1> QED
  BY <1>1, <1>5, ConversionKept DEF CIInv

\* The task that holds the lease gives it back.
LEMMA ReleaseLeaseSafe ==
  ASSUME CIInv, NEW t \in Task, ReleaseLease(t)
  PROVE  CIInv'
<1>1. /\ task[t].at = "leaving" /\ lease' = NoOne /\ task' = [task EXCEPT ![t] = NoTask]
      /\ UNCHANGED <<session, fresh, asked, request, projects, library, jobs, crashes>>
  BY DEF ReleaseLease, saved, converting
<1>2. TasksOK /\ SessionOK
  BY DEF CIInv, AnalysisInv
<1>3. lease = t /\ "leaving" \in Working
  BY <1>1, <1>2 DEF TasksOK, Working
<1>4. TasksOK' /\ task'[t] = NoTask /\ \A u \in Task : u # t => task'[u] = task[u]
  BY <1>1, <1>2, <1>3, TasksMove, TaskFields, Constants DEF TasksOK
<1>5. AnalysisInv'
  BY <1>1, <1>2, <1>4, TaskFields, CopiesKept
     DEF CIInv, AnalysisInv, SessionOK, AnalysisOfTheseChapters, NoTask
<1> QED
  BY <1>1, <1>5, ConversionKept DEF CIInv

\* A task goes on with, or without, a copy of the session; what it saves keeps
\* the copies of the others out, and its own true.
LEMMA TaskGoesOn ==
  ASSUME CIInv, NEW t \in Task, NEW x \in TaskRecord, NEW s \in Session,
         task[t].at \in Working, x.at \in Working,
         task' = [task EXCEPT ![t] = x], session' = s,
         lease' = lease, asked' = asked, crashes' = crashes,
         UNCHANGED <<request, projects, library, jobs>>,
         SessionOK',
         \/ session' = session /\ fresh' \subseteq fresh \cup {t}
         \/ fresh' \subseteq {t},
         t \in fresh' => CopyOK(t)',
         s.conversion = session.conversion, s.quick = session.quick,
         session.conversion.status = "claimed" =>
           s.chapters = session.chapters /\ s.analysis = session.analysis
  PROVE  CIInv'
<1>1. TasksOK
  BY DEF CIInv, AnalysisInv
<1>2. lease = t
  BY <1>1 DEF TasksOK
<1>3. fresh' \subseteq Task \cup Request
  BY <1>1 DEF TasksOK
<1>4. /\ TasksOK' /\ task'[t] = x
      /\ \A u \in Task : u # t => task'[u] = task[u]
  <2>1. lease' \in Task \cup {NoOne} /\ asked' \in 0..MaxGenerations /\ lease' = t
        /\ \A u \in Task : u # t => (lease' = u <=> lease = u)
    BY <1>1, <1>2 DEF TasksOK
  <2> QED
    BY <1>1, <1>3, <2>1, TasksMove
<1>5. \A u \in Task \cap fresh' : CopyOK(u)'
  <2>1. ASSUME NEW u \in Task \cap fresh', u # t
        PROVE  CopyOK(u)'
    <3>1. session' = session /\ u \in fresh
      BY <2>1
    <3>2. CopyOK(u)
      BY <3>1 DEF CIInv, AnalysisInv
    <3> QED
      BY <1>4, <2>1, <3>1, <3>2 DEF CopyOK
  <2> QED
    BY <2>1
<1>6. AnalysisInv'
  BY <1>4, <1>5 DEF AnalysisInv
<1>7. ConversionInv'
  BY ConversionKept
<1> QED
  BY <1>6, <1>7 DEF CIInv

\* _claim_analysis_job (continuation_sessions.py)
LEMMA ClaimAnalysisJobSafe ==
  ASSUME CIInv, NEW t \in Task, ClaimAnalysisJob(t)
  PROVE  CIInv'
<1> DEFINE goes(to) == [task[t] EXCEPT !.at = to]
           s == [session EXCEPT !.job = "running"]
<1>1. /\ task[t].at = "leased"
      /\ UNCHANGED <<lease, asked, request, projects, library, jobs, crashes>>
  BY DEF ClaimAnalysisJob, converting
<1>2. /\ SessionOK /\ session \in Session /\ TasksOK
      /\ {"leased", "claimed", "leaving"} \subseteq Working
  BY DEF CIInv, AnalysisInv, SessionOK, Working
<1>3. task[t] \in TaskRecord
  BY <1>1, <1>2, TaskFields DEF TasksOK
<1>4. \A to \in Working : goes(to) \in TaskRecord /\ goes(to).at = to
  BY <1>3, Moved
<1>5. /\ s \in Session /\ s.status = session.status /\ s.chapters = session.chapters
      /\ s.analysis = session.analysis /\ s.confirmed = session.confirmed
      /\ s.conversion = session.conversion /\ s.quick = session.quick
  BY <1>2 DEF Session
<1>6. CASE /\ session' = s /\ fresh' = {}
           /\ task' = [task EXCEPT ![t] = goes("claimed")]
  <2> HIDE DEF s, goes
  <2>1. SessionOK'
    BY <1>2, <1>5, <1>6 DEF SessionOK, AnalysisOfTheseChapters
  <2> QED
    BY <1>1, <1>2, <1>4, <1>5, <1>6, <2>1, TaskGoesOn
<1>7. CASE /\ session' = session /\ fresh' = fresh
           /\ task' = [task EXCEPT ![t] = goes("leaving")]
  <2>1. goes("leaving") \in TaskRecord /\ goes("leaving").at = "leaving"
    BY <1>2, <1>4
  <2> HIDE DEF goes
  <2>2. SessionOK'
    BY <1>2, <1>7 DEF SessionOK, AnalysisOfTheseChapters
  <2>3. task'[t] = goes("leaving")
    BY <1>2, <1>7 DEF TasksOK
  <2>4. CopyOK(t)'
    BY <2>1, <2>3 DEF CopyOK
  <2> QED
    BY <1>1, <1>2, <1>7, <2>1, <2>2, <2>4, TaskGoesOn
<1> QED
  BY <1>6, <1>7 DEF ClaimAnalysisJob, SaveSession, Goes, saved

\* run_continuation_analysis reads the session (continuation_analysis.py)
LEMMA ReadChaptersSafe ==
  ASSUME CIInv, NEW t \in Task, ReadChapters(t)
  PROVE  CIInv'
<1> DEFINE left == [task[t] EXCEPT !.at = "leaving"]
           read == [task[t] EXCEPT !.at = "read", !.chapters = session.chapters]
<1>1. /\ task[t].at = "claimed"
      /\ UNCHANGED <<session, lease, asked, request, projects, library, jobs, crashes>>
      /\ \/ /\ session.status = "ready" /\ fresh' = fresh
            /\ task' = [task EXCEPT ![t] = left]
         \/ /\ session.status # "ready" /\ fresh' = fresh \cup {t}
            /\ task' = [task EXCEPT ![t] = read]
  BY DEF ReadChapters, Goes, converting
<1>2. /\ SessionOK /\ session \in Session /\ TasksOK
      /\ {"claimed", "read", "leaving"} \subseteq Working
  BY DEF CIInv, AnalysisInv, SessionOK, Working
<1>3. task[t] \in TaskRecord /\ session.chapters \in Version
  BY <1>1, <1>2, TaskFields, SessionFields DEF TasksOK
<1>4. left \in TaskRecord /\ left.at = "leaving"
  BY <1>2, <1>3, Moved
<1>5. read \in TaskRecord /\ read.at = "read" /\ read.chapters = session.chapters
  BY <1>2, <1>3 DEF TaskRecord
<1> HIDE DEF left, read
<1>6. SessionOK'
  BY <1>1, <1>2 DEF SessionOK, AnalysisOfTheseChapters
<1>7. CASE fresh' = fresh /\ task' = [task EXCEPT ![t] = left]
  <2>1. task'[t] = left
    BY <1>2, <1>7 DEF TasksOK
  <2>2. CopyOK(t)'
    BY <1>4, <2>1 DEF CopyOK
  <2> QED
    BY <1>1, <1>2, <1>4, <1>6, <1>7, <2>2, TaskGoesOn
<1>8. CASE session.status # "ready" /\ fresh' = fresh \cup {t} /\ task' = [task EXCEPT ![t] = read]
  <2>1. task'[t] = read
    BY <1>2, <1>8 DEF TasksOK
  <2>2. CopyOK(t)'
    BY <1>1, <1>5, <1>8, <2>1 DEF CopyOK
  <2> QED
    BY <1>1, <1>2, <1>5, <1>6, <1>8, <2>2, TaskGoesOn
<1> QED
  BY <1>1, <1>7, <1>8

\* begin_analysis of the copy the task has read
LEMMA BeginSafe ==
  ASSUME CIInv, NEW t \in Task, Begin(t)
  PROVE  CIInv'
<1> DEFINE x == [task[t] EXCEPT !.at = "working"]
           s == [session EXCEPT !.status = "analyzing", !.analysis = NoAnalysis]
<1>1. /\ task[t].at = "read" /\ t \in fresh /\ session.conversion.status # "claimed"
      /\ session' = s /\ fresh' = {t} /\ task' = [task EXCEPT ![t] = x]
      /\ UNCHANGED <<lease, asked, request, projects, library, jobs, crashes>>
  BY DEF Begin, SaveSession, Open, Goes, converting
<1>2. /\ SessionOK /\ session \in Session /\ TasksOK /\ {"read", "working"} \subseteq Working
      /\ NoAnalysis \in AnalysisOrNone
  BY DEF CIInv, AnalysisInv, SessionOK, Working, AnalysisOrNone
<1>3. task[t] \in TaskRecord
  BY <1>1, <1>2, TaskFields DEF TasksOK
<1>4. x \in TaskRecord /\ x.at = "working" /\ x.chapters = task[t].chapters
  BY <1>2, <1>3, Moved
<1>5. task[t].chapters = session.chapters /\ session.status # "ready"
  BY <1>1 DEF CIInv, AnalysisInv, CopyOK
<1>6. /\ s \in Session /\ s.status = "analyzing" /\ s.analysis = NoAnalysis
      /\ s.chapters = session.chapters /\ s.confirmed = session.confirmed
      /\ s.conversion = session.conversion /\ s.quick = session.quick
  BY <1>2 DEF Session
<1> HIDE DEF x, s
<1>7. SessionOK'
  BY <1>1, <1>2, <1>5, <1>6 DEF SessionOK, AnalysisOfTheseChapters
<1>8. task'[t] = x
  BY <1>1, <1>2 DEF TasksOK
<1>9. CopyOK(t)'
  BY <1>1, <1>4, <1>5, <1>6, <1>8 DEF CopyOK
<1> QED
  BY <1>1, <1>2, <1>4, <1>6, <1>7, <1>9, TaskGoesOn

\* checkpoint_analysis: only the revision changes.
LEMMA CheckpointSafe ==
  ASSUME CIInv, NEW t \in Task, Checkpoint(t)
  PROVE  CIInv'
<1>1. /\ t \in fresh /\ fresh' = {t}
      /\ UNCHANGED <<session, task, lease, asked, request, projects, library, jobs, crashes>>
  BY DEF Checkpoint, SaveSession, analysing, converting
<1>2. AnalysisInv'
  BY <1>1 DEF CIInv, AnalysisInv, SessionOK, AnalysisOfTheseChapters, TasksOK, CopyOK
<1> QED
  BY <1>1, <1>2, ConversionKept DEF CIInv

\* finish_analysis of the copy the task has worked on
LEMMA FinishSafe ==
  ASSUME CIInv, NEW t \in Task, Finish(t)
  PROVE  CIInv'
<1> DEFINE x == [task[t] EXCEPT !.at = "leaving"]
           a == Analysed(t)
           s == [session EXCEPT !.status = "ready", !.analysis = a]
<1>1. /\ task[t].at = "working" /\ t \in fresh /\ session.conversion.status # "claimed"
      /\ session' = s /\ fresh' = {} /\ task' = [task EXCEPT ![t] = x]
      /\ UNCHANGED <<lease, asked, request, projects, library, jobs, crashes>>
  BY DEF Finish, SaveSession, Open, Goes, converting
<1>2. /\ SessionOK /\ session \in Session /\ TasksOK /\ {"working", "leaving"} \subseteq Working
  BY DEF CIInv, AnalysisInv, SessionOK, Working
<1>3. task[t] \in TaskRecord /\ task[t].chapters \in Version
  BY <1>1, <1>2, TaskFields DEF TasksOK
<1>4. x \in TaskRecord /\ x.at = "leaving"
  BY <1>2, <1>3, Moved
<1>5. task[t].chapters = session.chapters /\ session.status = "analyzing"
  BY <1>1 DEF CIInv, AnalysisInv, CopyOK
<1>6. a \in Analysis /\ a.of = session.chapters
  BY <1>3, <1>5 DEF Analysed, Analysis
<1> HIDE DEF a
<1>7. a \in AnalysisOrNone /\ a # NoAnalysis
  BY <1>6, Values DEF AnalysisOrNone
<1>8. /\ s \in Session /\ s.status = "ready" /\ s.analysis = a
      /\ s.chapters = session.chapters /\ s.confirmed = session.confirmed
      /\ s.conversion = session.conversion /\ s.quick = session.quick
  BY <1>2, <1>7 DEF Session
<1> HIDE DEF x, s
<1>9. SessionOK'
  BY <1>1, <1>2, <1>5, <1>6, <1>7, <1>8 DEF SessionOK, AnalysisOfTheseChapters
<1> QED
  BY <1>1, <1>2, <1>4, <1>8, <1>9, TaskGoesOn

\* fail_analysis, of the own copy or by the generation
LEMMA FailAnalysisSafe ==
  ASSUME CIInv, NEW t \in Task, FailAnalysis(t)
  PROVE  CIInv'
<1> DEFINE x == [task[t] EXCEPT !.at = "leaving"]
           s == [session EXCEPT !.status = "failed", !.analysis = NoAnalysis]
<1>1. /\ task[t].at \in {"claimed", "read", "working"} /\ task' = [task EXCEPT ![t] = x]
      /\ UNCHANGED <<lease, asked, request, projects, library, jobs, crashes>>
  BY DEF FailAnalysis, Goes, converting
<1>2. /\ SessionOK /\ session \in Session /\ TasksOK
      /\ {"claimed", "read", "working", "leaving"} \subseteq Working
      /\ NoAnalysis \in AnalysisOrNone
  BY DEF CIInv, AnalysisInv, SessionOK, Working, AnalysisOrNone
<1>3. task[t] \in TaskRecord
  BY <1>1, <1>2, TaskFields DEF TasksOK
<1>4. x \in TaskRecord /\ x.at = "leaving"
  BY <1>2, <1>3, Moved
<1>5. /\ s \in Session /\ s.status = "failed" /\ s.analysis = NoAnalysis
      /\ s.chapters = session.chapters /\ s.confirmed = session.confirmed
      /\ s.conversion = session.conversion /\ s.quick = session.quick
  BY <1>2 DEF Session
<1>6. CASE /\ session.conversion.status # "claimed" /\ session' = s /\ fresh' = {}
           /\ (task[t].at = "working" /\ t \in fresh) \/ session.status = "analyzing"
  <2> HIDE DEF x, s
  <2>1. session.status = "analyzing"
    BY <1>6 DEF CIInv, AnalysisInv, CopyOK
  <2>2. SessionOK'
    BY <1>2, <1>5, <1>6, <2>1 DEF SessionOK, AnalysisOfTheseChapters
  <2> QED
    BY <1>1, <1>2, <1>4, <1>5, <1>6, <2>2, TaskGoesOn
<1>7. CASE session' = session /\ fresh' = fresh
  <2> HIDE DEF x, s
  <2>1. SessionOK'
    BY <1>2, <1>7 DEF SessionOK, AnalysisOfTheseChapters
  <2>2. task'[t] = x
    BY <1>1, <1>2 DEF TasksOK
  <2>3. CopyOK(t)'
    BY <1>4, <2>2 DEF CopyOK
  <2> QED
    BY <1>1, <1>2, <1>4, <1>7, <2>1, <2>3, TaskGoesOn
<1> QED
  BY <1>6, <1>7 DEF FailAnalysis, SaveSession, Open, Mine, saved

-------------------------------------------------------------------------------
(* Steps of the requests: what they have in common *)

\* They leave what the tasks work on as it is.
LEMMA AnalysisKept ==
  ASSUME CIInv, UNCHANGED <<task, lease, asked, crashes>>, session' \in Session,
         session'.status = session.status, session'.chapters = session.chapters,
         session'.analysis = session.analysis, session'.confirmed = session.confirmed,
         session'.conversion # NotConverted => session.status = "ready",
         fresh' \subseteq fresh \cup Request
  PROVE  AnalysisInv'
<1>1. SessionOK /\ TasksOK /\ \A t \in Task \cap fresh : CopyOK(t)
  BY DEF CIInv, AnalysisInv
<1>2. SessionOK'
  BY <1>1 DEF SessionOK, AnalysisOfTheseChapters
<1>3. TasksOK'
  BY <1>1 DEF TasksOK
<1>4. \A t \in Task \cap fresh' : CopyOK(t)'
  BY <1>1, Constants DEF CopyOK
<1> QED
  BY <1>2, <1>3, <1>4 DEF AnalysisInv

\* A conversion is recorded in the session, and nothing else.
LEMMA ConversionSet ==
  ASSUME session \in Session, NEW st \in {"claimed", "succeeded", "failed"}, NEW p \in Request,
         session' = SetConversion(st, p)
  PROVE  /\ session' \in Session
         /\ session'.status = session.status /\ session'.chapters = session.chapters
         /\ session'.analysis = session.analysis /\ session'.confirmed = session.confirmed
         /\ session'.quick = session.quick
         /\ session'.conversion = [status |-> st, project |-> p]
         /\ session'.conversion.status = st /\ session'.conversion.project = p
         /\ session'.conversion # NotConverted
         /\ \A x : ClaimedFor(x)' <=> st = "claimed" /\ x = p
<1> DEFINE c == [status |-> st, project |-> p]
<1>1. c \in Conversion /\ c.status = st /\ c.project = p
      /\ \A x : c = [status |-> "claimed", project |-> x] <=> st = "claimed" /\ x = p
  BY DEF Conversion
<1>2. session' = [session EXCEPT !.conversion = c]
  BY DEF SetConversion
<1> HIDE DEF c
<1>3. /\ session' \in Session /\ session'.conversion = c
      /\ session'.status = session.status /\ session'.chapters = session.chapters
      /\ session'.analysis = session.analysis /\ session'.confirmed = session.confirmed
      /\ session'.quick = session.quick
  BY <1>1, <1>2 DEF Session
<1>4. c # NotConverted
  BY <1>1, Values
<1>5. \A x : ClaimedFor(x)' <=> st = "claimed" /\ x = p
  BY <1>1, <1>3 DEF ClaimedFor
<1> QED
  BY <1>1, <1>3, <1>4, <1>5 DEF c

\* A reservation is recorded in the session, and nothing else.
LEMMA ReservationSet ==
  ASSUME session \in Session, NEW st \in {"starting", "started"}, NEW p \in Request,
         NEW k \in Request,
         session' = [session EXCEPT !.quick = [status |-> st, project |-> p, job |-> k]]
  PROVE  /\ session' \in Session
         /\ session'.status = session.status /\ session'.chapters = session.chapters
         /\ session'.analysis = session.analysis /\ session'.confirmed = session.confirmed
         /\ session'.conversion = session.conversion
         /\ session'.quick # NotReserved /\ session'.quick.job = k
         /\ \A x : ClaimedFor(x)' <=> ClaimedFor(x)
<1> DEFINE q == [status |-> st, project |-> p, job |-> k]
<1>1. q \in Reserved /\ q.job = k
  BY DEF Reserved
<1> HIDE DEF q
<1>2. /\ session' \in Session /\ session'.quick = q
      /\ session'.status = session.status /\ session'.chapters = session.chapters
      /\ session'.analysis = session.analysis /\ session'.confirmed = session.confirmed
      /\ session'.conversion = session.conversion
  BY <1>1 DEF Session, q
<1> QED
  BY <1>1, <1>2, Values DEF ClaimedFor

\* The handler at work in a place other than `done`
LEMMA AtWork ==
  ASSUME RequestsOK, NEW r \in Request, request[r].at \in Place
  PROVE  request[r] \in Handler /\ HandlerOK(r)
<1>1. Unsent.at \notin Place /\ Done.at \notin Place
  BY DEF Unsent, Done, Place
<1> QED
  BY <1>1 DEF RequestsOK, HandlerOK

\* A request that has drawn its id, or is done, never becomes one that has not.
LEMMA SpentStays ==
  ASSUME RequestsOK, NEW r \in Request, NEW q \in Handler \cup {Done},
         request' = [request EXCEPT ![r] = q], q.at = "claim" => ~Spent(r)
  PROVE  /\ request'[r] = q /\ \A u \in Request : u # r => request'[u] = request[u]
         /\ request' \in [Request -> {Unsent, Done} \cup Handler]
         /\ q.at # "claim" => Spent(r)'
         /\ \A p \in Request : Spent(p) => Spent(p)'
<1>1. request \in [Request -> {Unsent, Done} \cup Handler]
  BY DEF RequestsOK
<1>2. /\ request'[r] = q /\ \A u \in Request : u # r => request'[u] = request[u]
      /\ request' \in [Request -> {Unsent, Done} \cup Handler]
  BY <1>1
<1>3. q # Unsent
  BY HandlerFields DEF Done, Unsent
<1>4. q.at # "claim" => Spent(r)'
  BY <1>2, <1>3 DEF Spent
<1>5. ASSUME NEW p \in Request, Spent(p)
      PROVE  Spent(p)'
  <2>1. CASE p = r
    BY <1>4, <1>5, <2>1
  <2>2. CASE p # r
    BY <1>2, <1>5, <2>2 DEF Spent
  <2> QED
    BY <2>1, <2>2
<1> QED
  BY <1>2, <1>4, <1>5

\* A step of one request: nobody else's facts are disturbed, as long as a new
\* claim is for an id nobody has worked for.
LEMMA OthersKept ==
  ASSUME CIInv, NEW r \in Request, NEW q \in Handler \cup {Done},
         request' = [request EXCEPT ![r] = q], q.at = "claim" => ~Spent(r),
         projects \subseteq projects',
         session'.chapters = session.chapters, session'.analysis = session.analysis,
         \A p \in Request : ClaimedFor(p)' => ClaimedFor(p) \/ ~Spent(p),
         q = Done \/ HandlerOK(r)'
  PROVE  RequestsOK'
<1>1. RequestsOK
  BY DEF CIInv, ConversionInv
<1>2. /\ request'[r] = q /\ \A u \in Request : u # r => request'[u] = request[u]
      /\ request' \in [Request -> {Unsent, Done} \cup Handler]
      /\ \A p \in Request : Spent(p) => Spent(p)'
  BY <1>1, SpentStays
<1>3. \A p : Published(p) => Published(p)'
  BY DEF Published
<1>4. ASSUME NEW u \in Request, u # r
      PROVE  request'[u] \in {Unsent, Done} \/ HandlerOK(u)'
  <2>1. request'[u] = request[u]
    BY <1>2, <1>4
  <2>2. CASE request[u] \in {Unsent, Done}
    BY <2>1, <2>2
  <2>3. CASE HandlerOK(u)
    <3>1. request[u].project \in Request
      BY <2>3, HandlerFields DEF HandlerOK
    <3>2. request[u].at # "claim" => Spent(request[u].project)
      BY <2>3 DEF HandlerOK
    <3>3. \A p \in Request : Spent(p) /\ ClaimedFor(p)' => ClaimedFor(p)
      OBVIOUS
    <3> QED
      BY <1>2, <1>3, <2>1, <2>3, <3>1, <3>2, <3>3 DEF HandlerOK
  <2> QED
    BY <1>1, <2>2, <2>3 DEF RequestsOK
<1>5. request'[r] \in {Unsent, Done} \/ HandlerOK(r)'
  BY <1>2
<1> QED
  BY <1>2, <1>4, <1>5 DEF RequestsOK

\* A request that begins, or begins again, with the session as it is now
LEMMA HandlerBegins ==
  ASSUME CIInv, NEW r \in Request, NEW q \in Handler, request'[r] = q,
         q.chapters = session.chapters, q.analysis = session.analysis,
         q.confirmed = session.confirmed,
         session'.chapters = session.chapters, session'.analysis = session.analysis,
         projects' = projects,
         \/ q.at = "claim" /\ q.project = r
         \/ q.at \in {"look", "wait"} /\ Spent(q.project)'
  PROVE  HandlerOK(r)'
<1>1. SessionOK /\ session \in Session
  BY DEF CIInv, AnalysisInv, SessionOK
<1>2. /\ session.analysis \in Analysis => session.analysis.of = session.chapters
      /\ session.status = "ready" => session.analysis \in Analysis
      /\ session.confirmed => session.analysis \in Analysis /\ session.analysis.by = "author"
  <2>1. session.analysis \in AnalysisOrNone
    BY <1>1, SessionFields
  <2> QED
    BY <1>1, <2>1, Values DEF SessionOK, AnalysisOrNone, AnalysisOfTheseChapters
<1> QED
  BY <1>2 DEF HandlerOK

\* A request that goes on with the copy it has
LEMMA HandlerGoesOn ==
  ASSUME CIInv, NEW r \in Request, request[r].at \in Place \ {"claim"},
         NEW q \in Handler, request'[r] = q,
         q.project = request[r].project, q.chapters = request[r].chapters,
         q.analysis = request[r].analysis, q.confirmed = request[r].confirmed,
         q.at \in Place \ {"claim", "look"}, Spent(q.project)',
         q.at = "create" => request[r].at = "look",
         q.at = "staged" => request[r].at = "create" /\ Acceptable(q),
         q.at \in {"finalize", "settle", "reserve", "start", "complete"} => Published(q.project)',
         q.at \in {"start", "complete"} => q.job \in Request,
         session'.chapters = session.chapters, session'.analysis = session.analysis,
         \A p \in Request : ClaimedFor(p)' => ClaimedFor(p) \/ ~Spent(p)
  PROVE  HandlerOK(r)'
<1>1. request[r] \in Handler /\ HandlerOK(r)
  BY AtWork DEF CIInv, ConversionInv
<1>2. q.project \in Request /\ Spent(q.project)
  BY <1>1, HandlerFields DEF HandlerOK
<1>3. ClaimedFor(q.project)' => ClaimedFor(q.project)
  BY <1>2
<1> QED
  BY <1>1, <1>3 DEF HandlerOK

\* The books stay, and what is known of them.
LEMMA BooksKept ==
  ASSUME BooksOK, projects' = projects,
         session'.chapters = session.chapters, session'.analysis = session.analysis,
         \A p \in Request : Spent(p) => Spent(p)',
         \A p \in Request : ClaimedFor(p)' => ClaimedFor(p) \/ ~Spent(p)
  PROVE  BooksOK'
<1>1. \A b \in projects : b.id \in Request /\ Spent(b.id)
  BY DEF BooksOK, BookRecord
<1> QED
  BY <1>1 DEF BooksOK, BookAsConfirmed

\* A conversion that is recorded stays as true as it was.
LEMMA RecordKept ==
  ASSUME ConversionOK, session \in Session, session'.conversion = session.conversion,
         projects \subseteq projects', \A p \in Request : Spent(p) => Spent(p)'
  PROVE  ConversionOK'
<1>1. session.conversion # NotConverted => session.conversion.project \in Request
  BY SessionFields, Values
<1>2. \A p : Published(p) => Published(p)'
  BY DEF Published
<1> QED
  BY <1>1, <1>2 DEF ConversionOK

\* The shelf stays, and nobody begins to write a book unless it is clear.
LEMMA ShelfKept ==
  ASSUME ShelfOK, UNCHANGED <<projects, library>>, NEW r \in Request,
         \A u \in Request : u # r => request'[u] = request[u],
         request'[r].at = "staged" => shelf \subseteq restored /\ Unleased
  PROVE  ShelfOK'
<1>1. \A p : Published(p)' <=> Published(p)
  BY DEF Published
<1>2. UNCHANGED <<shelf, trash, moved, restored>>
  BY DEF library
<1> QED
  BY <1>1, <1>2 DEF ShelfOK, OneBookPerSession, Unleased

\* No other job comes into play, and the reservation stays or is of those there are.
LEMMA JobsKept ==
  ASSUME JobsOK, jobs' \subseteq [id: Request, project: Request],
         projects \subseteq projects', moved \subseteq moved',
         \A p \in Request \ moved' : \A k \in Request :
           InPlay(p, k)' => InPlay(p, k) /\ ReservedIs(k)'
  PROVE  JobsOK'
<1>1. \A p : Published(p) => Published(p)'
  BY DEF Published
<1> QED
  BY <1>1 DEF JobsOK

\* A request moves: the job it may carry to its start was in play before.
LEMMA InPlayKept ==
  ASSUME RequestsOK, NEW r \in Request, NEW q \in Handler \cup {Done},
         request' = [request EXCEPT ![r] = q], jobs' = jobs,
         q.at \in {"start", "complete"} => InPlay(q.project, q.job)
  PROVE  \A p, k \in Request : InPlay(p, k)' => InPlay(p, k)
<1>1. request'[r] = q /\ \A u \in Request : u # r => request'[u] = request[u]
  BY DEF RequestsOK
<1> QED
  BY <1>1 DEF InPlay

\* Steps that save nothing
LEMMA RequestOnly ==
  ASSUME CIInv, NEW r \in Request, NEW q \in Handler \cup {Done},
         request' = [request EXCEPT ![r] = q], session' = session,
         fresh' \subseteq fresh \cup Request,
         UNCHANGED <<task, lease, asked, projects, library, jobs, crashes>>,
         q.at = "claim" => ~Spent(r),
         q = Done \/ HandlerOK(r)',
         q.at = "staged" => shelf \subseteq restored /\ Unleased,
         q.at \in {"start", "complete"} => InPlay(q.project, q.job)
  PROVE  CIInv'
<1>1. /\ SessionOK /\ session \in Session /\ RequestsOK /\ BooksOK /\ ShelfOK
      /\ ConversionOK /\ JobsOK
  BY DEF CIInv, AnalysisInv, SessionOK, ConversionInv
<1>2. \A p : ClaimedFor(p)' => ClaimedFor(p)
  BY DEF ClaimedFor
<1>3. \A p \in Request : Spent(p) => Spent(p)'
  BY <1>1, SpentStays
<1>4. AnalysisInv'
  BY <1>1, AnalysisKept DEF SessionOK
<1>5. RequestsOK'
  BY <1>2, OthersKept
<1>6. BooksOK' /\ ConversionOK'
  BY <1>1, <1>2, <1>3, BooksKept, RecordKept
<1>7. JobsOK'
  <2>1. \A p, k \in Request : InPlay(p, k)' => InPlay(p, k)
    BY <1>1, InPlayKept
  <2>2. \A k : ReservedIs(k)' <=> ReservedIs(k)
    BY DEF ReservedIs, Published
  <2>3. jobs' \subseteq [id: Request, project: Request] /\ moved' = moved
    BY <1>1 DEF JobsOK, library
  <2>4. \A p \in Request \ moved' : \A k \in Request :
          InPlay(p, k)' => InPlay(p, k) /\ ReservedIs(k)'
    BY <1>1, <2>1, <2>2, <2>3 DEF JobsOK
  <2> QED
    BY <1>1, <2>3, <2>4, JobsKept
<1>8. ShelfOK'
  <2>1. request'[r] = q /\ \A u \in Request : u # r => request'[u] = request[u]
    BY <1>1 DEF RequestsOK
  <2> QED
    BY <1>1, <2>1, ShelfKept
<1> QED
  BY <1>4, <1>5, <1>6, <1>7, <1>8 DEF CIInv, ConversionInv

\* What a claim says of the session
LEMMA ClaimFacts ==
  ASSUME CIInv, NEW p \in Request, ClaimedFor(p)
  PROVE  /\ session.conversion # NotConverted
         /\ session.conversion.status = "claimed" /\ session.conversion.project = p
         /\ session.status = "ready" /\ Spent(p)
<1>1. /\ session.conversion.status = "claimed" /\ session.conversion.project = p
  BY DEF ClaimedFor
<1>2. session.conversion # NotConverted
  BY <1>1, Values
<1> QED
  BY <1>1, <1>2 DEF CIInv, AnalysisInv, SessionOK, ConversionInv, ConversionOK

\* Steps that record the state of the conversion: a claim for an id that is
\* drawn with it, or what becomes of a claim
LEMMA RecordStep ==
  ASSUME CIInv, NEW r \in Request, NEW q \in Handler \cup {Done},
         NEW st \in {"claimed", "succeeded", "failed"}, NEW p \in Request,
         request' = [request EXCEPT ![r] = q], session' = SetConversion(st, p), fresh' = {},
         UNCHANGED <<task, lease, asked, projects, library, jobs, crashes>>,
         session.status = "ready",
         \/ st = "claimed" /\ p = r /\ ~Spent(r)
         \/ st # "claimed" /\ ClaimedFor(p),
         st = "succeeded" => Published(p),
         q.at \notin {"claim", "staged", "start", "complete"},
         q = Done \/ HandlerOK(r)'
  PROVE  CIInv'
<1>1. /\ SessionOK /\ session \in Session /\ RequestsOK /\ BooksOK /\ ShelfOK
      /\ ConversionOK /\ JobsOK
  BY DEF CIInv, AnalysisInv, SessionOK, ConversionInv
<1>2. /\ session' \in Session
      /\ session'.status = session.status /\ session'.chapters = session.chapters
      /\ session'.analysis = session.analysis /\ session'.confirmed = session.confirmed
      /\ session'.quick = session.quick
      /\ session'.conversion.status = st /\ session'.conversion.project = p
      /\ session'.conversion # NotConverted
      /\ \A x : ClaimedFor(x)' <=> st = "claimed" /\ x = p
  BY <1>1, ConversionSet
<1>3. \A x \in Request : ClaimedFor(x)' => ClaimedFor(x) \/ ~Spent(x)
  BY <1>2
<1>4. (\A x \in Request : Spent(x) => Spent(x)') /\ Spent(r)'
  BY <1>1, SpentStays
<1>5. Spent(p)'
  BY <1>4, ClaimFacts
<1>6. AnalysisInv'
  BY <1>1, <1>2, AnalysisKept
<1>7. RequestsOK'
  BY <1>2, <1>3, OthersKept
<1>8. BooksOK'
  BY <1>1, <1>2, <1>3, <1>4, BooksKept
<1>9. \A x : Published(x)' <=> Published(x)
  BY DEF Published
<1>10. ConversionOK'
  BY <1>2, <1>5, <1>9 DEF ConversionOK
<1>11. JobsOK'
  <2>1. \A x, k \in Request : InPlay(x, k)' => InPlay(x, k)
    BY <1>1, InPlayKept
  <2>2. ASSUME NEW k \in Request, ReservedIs(k)
        PROVE  ReservedIs(k)'
    <3>1. CASE st = "claimed"
      <4>1. ~Published(p)
        BY <1>1, <3>1 DEF BooksOK, Published
      <4> QED
        BY <1>2, <1>9, <2>2, <4>1 DEF ReservedIs
    <3>2. CASE st = "succeeded"
      <4>1. ClaimedFor(p) /\ session.conversion.status = "claimed"
            /\ session.conversion.project = p
        BY <3>2, ClaimFacts
      <4> QED
        BY <1>2, <1>9, <2>2, <4>1 DEF ReservedIs
    <3>3. CASE st = "failed"
      BY <1>2, <2>2, <3>3 DEF ReservedIs
    <3> QED
      BY <3>1, <3>2, <3>3
  <2>3. jobs' \subseteq [id: Request, project: Request] /\ moved' = moved
    BY <1>1 DEF JobsOK, library
  <2>4. \A x \in Request \ moved' : \A k \in Request :
          InPlay(x, k)' => InPlay(x, k) /\ ReservedIs(k)'
    BY <1>1, <2>1, <2>2, <2>3 DEF JobsOK
  <2> QED
    BY <1>1, <2>3, <2>4, JobsKept
<1>12. ShelfOK'
  <2>1. request'[r] = q /\ \A u \in Request : u # r => request'[u] = request[u]
    BY <1>1 DEF RequestsOK
  <2> QED
    BY <1>1, <2>1, ShelfKept
<1> QED
  BY <1>6, <1>7, <1>8, <1>10, <1>11, <1>12 DEF CIInv, ConversionInv

-------------------------------------------------------------------------------
(* Steps of the requests: the claim and the book *)

\* A request that takes another place keeps the rest.
LEMMA GoesTo ==
  ASSUME NEW x \in Handler, NEW to \in Place
  PROVE  LET y == [x EXCEPT !.at = to] IN
         /\ y \in Handler /\ y.at = to /\ y.kind = x.kind /\ y.project = x.project
         /\ y.chapters = x.chapters /\ y.analysis = x.analysis /\ y.confirmed = x.confirmed
         /\ y.job = x.job
  BY DEF Handler

\* The request moves to a place where it has nothing new to know.
LEMMA MovesSafe ==
  ASSUME CIInv, NEW r \in Request, NEW to \in {"create", "finalize", "fail", "settle", "reserve"},
         request[r].at \in Place \ {"claim"}, Moves(r, to),
         UNCHANGED <<session, fresh, task, lease, asked, projects, library, jobs, crashes>>,
         to = "create" => request[r].at = "look",
         to \in {"finalize", "settle", "reserve"} => Published(request[r].project)
  PROVE  CIInv'
<1>1. RequestsOK
  BY DEF CIInv, ConversionInv
<1>2. request[r] \in Handler /\ HandlerOK(r)
  BY <1>1, AtWork
<1> DEFINE there == [request[r] EXCEPT !.at = to]
<1>3. /\ there \in Handler /\ there.at = to /\ there.project = request[r].project
      /\ there.chapters = request[r].chapters /\ there.analysis = request[r].analysis
      /\ there.confirmed = request[r].confirmed
  <2>1. to \in Place
    BY DEF Place
  <2> QED
    BY <1>2, <2>1, GoesTo
<1>4. request' = [request EXCEPT ![r] = there]
  BY DEF Moves
<1> HIDE DEF there
<1> PICK q \in Handler : q = there
  BY <1>3
<1>5. q.project \in Request /\ Spent(q.project)
  BY <1>2, <1>3, HandlerFields DEF HandlerOK
<1>6. request'[r] = q /\ Spent(q.project)'
  BY <1>1, <1>3, <1>4, <1>5, SpentStays
<1>7. \A p : (ClaimedFor(p)' => ClaimedFor(p)) /\ (Published(p)' <=> Published(p))
  BY DEF ClaimedFor, Published
<1>8. HandlerOK(r)'
  <2>1. q.at \in Place \ {"claim", "look", "staged"}
    BY <1>3 DEF Place
  <2> QED
    BY <1>3, <1>6, <1>7, <2>1, HandlerGoesOn
<1> QED
  BY <1>3, <1>4, <1>8, RequestOnly

\* The request is answered.
LEMMA EndsSafe ==
  ASSUME CIInv, NEW r \in Request, request' = [request EXCEPT ![r] = Done],
         UNCHANGED <<session, fresh, task, lease, asked, projects, library, jobs, crashes>>
  PROVE  CIInv'
  BY RequestOnly DEF Done

\* create-project opens (continuation_imports.py)
LEMMA OpenCreateSafe ==
  ASSUME CIInv, NEW r \in Request, OpenCreate(r)
  PROVE  CIInv'
<1>1. /\ SessionOK /\ session \in Session /\ RequestsOK
      /\ session.chapters \in Version /\ session.analysis \in AnalysisOrNone
      /\ session.confirmed \in BOOLEAN
      /\ session.conversion \in Conversion \cup {NotConverted}
      /\ UNCHANGED <<task, lease, asked, projects, library, jobs, crashes>>
      /\ request[r] = Unsent
  BY SessionFields DEF CIInv, AnalysisInv, SessionOK, ConversionInv, OpenCreate, analysing
<1>2. ~Spent(r)
  BY <1>1 DEF Spent
<1>3. CASE /\ session.status = "ready"
           /\ SaveSession(SetConversion("claimed", r), {})
           /\ request' = [request EXCEPT
                ![r] = Converting("create", "look", r, TRUE, "claimed")]
  <2> DEFINE q == Converting("create", "look", r, TRUE, "claimed")
  <2>1. /\ q \in Handler /\ q.at = "look" /\ q.project = r
        /\ q.chapters = session.chapters /\ q.analysis = session.analysis
        /\ q.confirmed = session.confirmed
    BY <1>1 DEF Converting, Handler, Place
  <2>2. request' = [request EXCEPT ![r] = q]
    BY <1>3
  <2> HIDE DEF q
  <2>3. request'[r] = q /\ Spent(r)'
    BY <1>1, <2>1, <2>2, SpentStays
  <2>4. session' = SetConversion("claimed", r) /\ fresh' = {}
    BY <1>3 DEF SaveSession
  <2>5. session'.chapters = session.chapters /\ session'.analysis = session.analysis
    BY <1>1, <2>4, ConversionSet
  <2>6. HandlerOK(r)'
    BY <1>1, <1>3, <2>1, <2>3, <2>5, HandlerBegins
  <2> QED
    BY <1>1, <1>2, <1>3, <2>1, <2>2, <2>4, <2>6, RecordStep
<1>4. CASE /\ ~Open /\ UNCHANGED saved
           /\ request' = [request EXCEPT ![r] =
                Converting("create", "look", session.conversion.project, FALSE, "claimed")]
  <2>1. session.conversion # NotConverted /\ session.conversion.project \in Request
    BY <1>1, <1>4, Values DEF Open
  <2> PICK p \in Request : p = session.conversion.project
    BY <2>1
  <2>2. Spent(p) /\ session.status = "ready"
    BY <1>1, <2>1 DEF CIInv, ConversionInv, ConversionOK, SessionOK
  <2> DEFINE now == Converting("create", "look", p, FALSE, "claimed")
  <2>3. /\ now \in Handler /\ now.at = "look" /\ now.project = p
        /\ now.chapters = session.chapters /\ now.analysis = session.analysis
        /\ now.confirmed = session.confirmed
    BY <1>1, <2>1 DEF Converting, Handler, Place
  <2>4. request' = [request EXCEPT ![r] = now] /\ session' = session /\ fresh' = fresh
    BY <1>4 DEF saved
  <2> HIDE DEF now
  <2> PICK q \in Handler : q = now
    BY <2>3
  <2>5. request'[r] = q /\ Spent(p)'
    BY <1>1, <1>2, <2>1, <2>2, <2>3, <2>4, SpentStays
  <2>6. HandlerOK(r)'
    <3>1. q.at \in {"look", "wait"} /\ Spent(q.project)'
      BY <2>3, <2>5
    <3> QED
      BY <1>1, <2>2, <2>3, <2>4, <2>5, <3>1, HandlerBegins
  <2> QED
    BY <1>1, <2>3, <2>4, <2>6, RequestOnly
<1> QED
  BY <1>3, <1>4 DEF OpenCreate, Claimable

\* quick-continue opens
LEMMA OpenQuickSafe ==
  ASSUME CIInv, NEW r \in Request, OpenQuick(r)
  PROVE  CIInv'
<1> DEFINE st == session.conversion.status
<1>1. /\ SessionOK /\ session \in Session /\ RequestsOK
      /\ session.chapters \in Version /\ session.analysis \in AnalysisOrNone
      /\ session.confirmed \in BOOLEAN
      /\ session.conversion \in Conversion \cup {NotConverted}
      /\ UNCHANGED <<session, task, lease, asked, projects, library, jobs, crashes>>
      /\ request[r] = Unsent /\ session.status = "ready"
  BY SessionFields DEF CIInv, AnalysisInv, SessionOK, ConversionInv, OpenQuick, analysing
<1>2. ~Spent(r)
  BY <1>1 DEF Spent
<1>3. st \in {"none", "claimed", "succeeded", "failed"}
  BY <1>1, Values
<1>4. CASE st \in {"claimed", "succeeded"}
  <2> DEFINE to == IF st = "claimed" THEN "wait" ELSE "look"
  <2>1. session.conversion # NotConverted /\ session.conversion.project \in Request
    BY <1>1, <1>4, Values
  <2> PICK p \in Request : p = session.conversion.project
    BY <2>1
  <2>2. Spent(p)
    BY <2>1 DEF CIInv, ConversionInv, ConversionOK
  <2>3. to \in {"look", "wait"}
    OBVIOUS
  <2>4. request' = [request EXCEPT ![r] = Converting("quick", to, p, FALSE, st)] /\ fresh' = fresh
    BY <1>4 DEF OpenQuick
  <2> HIDE DEF to, st
  <2> DEFINE now == Converting("quick", to, p, FALSE, st)
  <2>5. /\ now \in Handler /\ now.at = to /\ now.project = p
        /\ now.chapters = session.chapters /\ now.analysis = session.analysis
        /\ now.confirmed = session.confirmed
        /\ request' = [request EXCEPT ![r] = now]
    BY <1>1, <1>3, <2>1, <2>3, <2>4 DEF Converting, Handler, Place
  <2> HIDE DEF now
  <2> PICK q \in Handler : q = now
    BY <2>5
  <2>6. request'[r] = q /\ Spent(p)'
    BY <1>1, <1>2, <2>1, <2>2, <2>3, <2>4, <2>5, SpentStays
  <2>7. HandlerOK(r)'
    <3>1. q.at \in {"look", "wait"} /\ Spent(q.project)'
      BY <2>3, <2>5, <2>6
    <3> QED
      BY <1>1, <2>5, <2>6, <3>1, HandlerBegins
  <2> QED
    BY <1>1, <2>3, <2>4, <2>5, <2>7, RequestOnly
<1>5. CASE st \notin {"claimed", "succeeded"}
  <2> DEFINE q == Converting("quick", "claim", r, FALSE, st)
  <2>1. request' = [request EXCEPT ![r] = q] /\ fresh' = fresh \cup {r}
    BY <1>5 DEF OpenQuick
  <2> HIDE DEF st
  <2>2. /\ q \in Handler /\ q.at = "claim" /\ q.project = r
        /\ q.chapters = session.chapters /\ q.analysis = session.analysis
        /\ q.confirmed = session.confirmed
    BY <1>1, <1>3 DEF Converting, Handler, Place
  <2> HIDE DEF q
  <2>3. request'[r] = q
    BY <1>1, <1>2, <2>1, <2>2, SpentStays
  <2>4. HandlerOK(r)'
    BY <1>1, <2>2, <2>3, HandlerBegins
  <2> QED
    BY <1>1, <1>2, <2>1, <2>2, <2>4, RequestOnly
<1> QED
  BY <1>4, <1>5

\* quick-continue claims the conversion, or finds that it cannot.
LEMMA ClaimQuickSafe ==
  ASSUME CIInv, NEW r \in Request, ClaimQuick(r)
  PROVE  CIInv'
<1>1. /\ SessionOK /\ session \in Session /\ RequestsOK
      /\ session.chapters \in Version /\ session.analysis \in AnalysisOrNone
      /\ session.confirmed \in BOOLEAN
      /\ UNCHANGED <<task, lease, asked, projects, library, jobs, crashes>>
      /\ request[r].at = "claim"
  BY SessionFields DEF CIInv, AnalysisInv, SessionOK, ConversionInv, ClaimQuick, analysing
<1>2. ~Spent(r)
  BY <1>1 DEF Spent
<1>3. request[r] \in Handler /\ HandlerOK(r) /\ request[r].project = r
  BY <1>1, AtWork DEF Place, HandlerOK
<1>4. CASE Moves(r, "adopt") /\ UNCHANGED saved
  <2> DEFINE q == [request[r] EXCEPT !.at = "adopt"]
  <2>1. /\ q \in Handler /\ q.at = "adopt" /\ q.project = r
        /\ q.chapters = request[r].chapters /\ q.analysis = request[r].analysis
        /\ q.confirmed = request[r].confirmed
    <3>1. "adopt" \in Place
      BY DEF Place
    <3> QED
      BY <1>3, <3>1, GoesTo
  <2>2. request' = [request EXCEPT ![r] = q] /\ session' = session /\ fresh' = fresh
    BY <1>4 DEF Moves, saved
  <2> HIDE DEF q
  <2>3. request'[r] = q /\ Spent(r)'
    BY <1>1, <2>1, <2>2, SpentStays
  <2>4. HandlerOK(r)'
    BY <1>3, <2>1, <2>3 DEF HandlerOK
  <2> QED
    BY <1>1, <2>1, <2>2, <2>4, RequestOnly
<1>5. CASE /\ session.status = "ready"
           /\ SaveSession(SetConversion("claimed", r), {})
           /\ request' = [request EXCEPT ![r] = Converting("quick", "look", r, TRUE, "none")]
  <2> DEFINE q == Converting("quick", "look", r, TRUE, "none")
  <2>1. /\ q \in Handler /\ q.at = "look" /\ q.project = r
        /\ q.chapters = session.chapters /\ q.analysis = session.analysis
        /\ q.confirmed = session.confirmed
    BY <1>1 DEF Converting, Handler, Place
  <2>2. request' = [request EXCEPT ![r] = q]
    BY <1>5
  <2> HIDE DEF q
  <2>3. request'[r] = q /\ Spent(r)'
    BY <1>1, <2>1, <2>2, SpentStays
  <2>4. session' = SetConversion("claimed", r) /\ fresh' = {}
    BY <1>5 DEF SaveSession
  <2>5. session'.chapters = session.chapters /\ session'.analysis = session.analysis
    BY <1>1, <2>4, ConversionSet
  <2>6. HandlerOK(r)'
    BY <1>1, <1>5, <2>1, <2>3, <2>5, HandlerBegins
  <2> QED
    BY <1>1, <1>2, <1>5, <2>1, <2>2, <2>4, <2>6, RecordStep
<1>6. CASE Ends(r) /\ UNCHANGED saved
  BY <1>1, <1>6, EndsSafe DEF Ends, saved
<1> QED
  BY <1>4, <1>5, <1>6 DEF ClaimQuick, Claimable

\* A request looks at the session again: at the conversion that is in the way.
LEMMA BeginsAgain ==
  ASSUME CIInv, NEW r \in Request, NEW q \in Handler, request' = [request EXCEPT ![r] = q],
         UNCHANGED <<session, fresh, task, lease, asked, projects, library, jobs, crashes>>,
         q.chapters = session.chapters, q.analysis = session.analysis,
         q.confirmed = session.confirmed,
         q.at \in {"look", "wait"}, Spent(q.project)
  PROVE  CIInv'
<1>1. RequestsOK
  BY DEF CIInv, ConversionInv
<1>2. q.project \in Request
  BY HandlerFields
<1>3. request'[r] = q /\ Spent(q.project)'
  BY <1>1, <1>2, SpentStays
<1>4. HandlerOK(r)'
  BY <1>3, HandlerBegins
<1> QED
  BY <1>4, RequestOnly

\* The conversion that was in the way is read once more.
LEMMA AdoptConversionSafe ==
  ASSUME CIInv, NEW r \in Request, AdoptConversion(r)
  PROVE  CIInv'
<1> DEFINE c == session.conversion
           to == IF c.status = "claimed" THEN "wait" ELSE "look"
           now == Converting("quick", to, c.project, FALSE, c.status)
<1>1. /\ SessionOK /\ session \in Session
      /\ session.chapters \in Version /\ session.analysis \in AnalysisOrNone
      /\ session.confirmed \in BOOLEAN
      /\ session.conversion \in Conversion \cup {NotConverted}
      /\ UNCHANGED <<session, fresh, task, lease, asked, projects, library, jobs, crashes>>
  BY SessionFields DEF CIInv, AnalysisInv, SessionOK, AdoptConversion, saved, analysing
<1>2. CASE c = NotConverted
  BY <1>1, <1>2, EndsSafe DEF AdoptConversion, Ends
<1>3. CASE c # NotConverted
  <2>1. /\ c.project \in Request /\ c.status \in {"claimed", "succeeded", "failed"}
        /\ session.status = "ready" /\ Spent(c.project)
    BY <1>1, <1>3, Values DEF CIInv, ConversionInv, ConversionOK, SessionOK
  <2>2. request' = [request EXCEPT ![r] = now]
    BY <1>3 DEF AdoptConversion
  <2>3. to \in {"look", "wait"}
    OBVIOUS
  <2> HIDE DEF to, c
  <2>4. /\ now \in Handler /\ now.at = to /\ now.project = c.project
        /\ now.chapters = session.chapters /\ now.analysis = session.analysis
        /\ now.confirmed = session.confirmed
    BY <1>1, <2>1, <2>3 DEF Converting, Handler, Place
  <2> HIDE DEF now
  <2> PICK q \in Handler : q = now
    BY <2>4
  <2> QED
    BY <1>1, <2>1, <2>2, <2>3, <2>4, BeginsAgain
<1> QED
  BY <1>2, <1>3

\* The owner of the claim is waited for.
LEMMA WaitForOwnerSafe ==
  ASSUME CIInv, NEW r \in Request, WaitForOwner(r)
  PROVE  CIInv'
<1> DEFINE st == session.conversion.status
           now == Converting("quick", "look", request[r].project, FALSE, st)
<1>1. /\ SessionOK /\ session \in Session /\ RequestsOK
      /\ session.chapters \in Version /\ session.analysis \in AnalysisOrNone
      /\ session.confirmed \in BOOLEAN
      /\ session.conversion \in Conversion \cup {NotConverted}
      /\ UNCHANGED <<session, fresh, task, lease, asked, projects, library, jobs, crashes>>
      /\ request[r].at = "wait"
  BY SessionFields
     DEF CIInv, AnalysisInv, SessionOK, ConversionInv, WaitForOwner, saved, analysing
<1>2. HandlerOK(r) /\ request[r].project \in Request /\ Spent(request[r].project)
  BY <1>1, AtWork, HandlerFields DEF Place, HandlerOK
<1>3. CASE request' = [request EXCEPT ![r] = now]
  <2>1. st \in {"none", "claimed", "succeeded", "failed"}
    BY <1>1, Values
  <2>3. request' = [request EXCEPT ![r] = now]
    BY <1>3
  <2> HIDE DEF st
  <2>4. /\ now \in Handler /\ now.at = "look" /\ now.project = request[r].project
        /\ now.chapters = session.chapters /\ now.analysis = session.analysis
        /\ now.confirmed = session.confirmed
    BY <1>1, <1>2, <2>1 DEF Converting, Handler, Place
  <2> HIDE DEF now
  <2> PICK q \in Handler : q = now
    BY <2>4
  <2> QED
    BY <1>1, <1>2, <2>3, <2>4, BeginsAgain
<1>4. CASE Ends(r)
  BY <1>1, <1>4, EndsSafe DEF Ends
<1> QED
  BY <1>3, <1>4 DEF WaitForOwner

\* _existing_claimed_project
LEMMA LookForProjectSafe ==
  ASSUME CIInv, NEW r \in Request, LookForProject(r)
  PROVE  CIInv'
<1>1. /\ RequestsOK /\ ShelfOK
      /\ UNCHANGED <<session, fresh, task, lease, asked, projects, library, jobs, crashes>>
      /\ request[r].at = "look" /\ request[r].at \in Place \ {"claim"}
  BY DEF CIInv, ConversionInv, LookForProject, saved, analysing, Place
<1>2. request[r] \in Handler /\ HandlerOK(r)
  BY <1>1, AtWork DEF Place
<1>3. CASE Exists(request[r].project)
  <2> DEFINE x == [request[r] EXCEPT !.at = "finalize",
                                     !.published = (request[r].kind = "create")]
  <2>1. request' = [request EXCEPT ![r] = x]
    BY <1>3 DEF LookForProject
  <2>2. /\ x \in Handler /\ x.at = "finalize" /\ x.project = request[r].project
        /\ x.chapters = request[r].chapters /\ x.analysis = request[r].analysis
        /\ x.confirmed = request[r].confirmed
    BY <1>2 DEF Handler, Place
  <2> HIDE DEF x
  <2> PICK q \in Handler : q = x
    BY <2>2
  <2>3. q.project \in Request /\ Spent(q.project) /\ Published(q.project)
    BY <1>1, <1>2, <1>3, <2>2, HandlerFields DEF HandlerOK, ShelfOK, Exists
  <2>4. request'[r] = q /\ Spent(q.project)'
    BY <1>1, <2>1, <2>2, <2>3, SpentStays
  <2>5. \A p : (ClaimedFor(p)' => ClaimedFor(p)) /\ (Published(p)' <=> Published(p))
    BY <1>1 DEF ClaimedFor, Published
  <2>6. HandlerOK(r)'
    <3>1. request[r].at \in Place \ {"claim"} /\ q.at \in Place \ {"claim", "look", "staged"}
      BY <1>1, <2>2 DEF Place
    <3> QED
      BY <1>1, <2>2, <2>3, <2>4, <2>5, <3>1, HandlerGoesOn
  <2> QED
    BY <1>1, <2>1, <2>2, <2>6, RequestOnly
<1>4. CASE ~Exists(request[r].project) /\ Moves(r, "create")
  BY <1>1, <1>4, MovesSafe
<1>5. CASE Ends(r)
  BY <1>1, <1>5, EndsSafe DEF Ends
<1> QED
  BY <1>3, <1>4, <1>5 DEF LookForProject

\* The shelf is clear of books of this session (_assert_session_not_converted).
LEMMA StageSafe ==
  ASSUME CIInv, NEW r \in Request, Stage(r)
  PROVE  CIInv'
<1> DEFINE x == [request[r] EXCEPT !.at = "staged"]
<1>1. /\ RequestsOK
      /\ UNCHANGED <<session, fresh, task, lease, asked, projects, library, jobs, crashes>>
      /\ request[r].at = "create" /\ Acceptable(request[r]) /\ Unleased /\ shelf = {}
      /\ request' = [request EXCEPT ![r] = x]
  BY DEF CIInv, ConversionInv, Stage, NotConvertedYet, Moves, saved, analysing
<1>2. request[r] \in Handler /\ HandlerOK(r)
  BY <1>1, AtWork DEF Place
<1>3. /\ x \in Handler /\ x.at = "staged" /\ x.project = request[r].project
      /\ x.chapters = request[r].chapters /\ x.analysis = request[r].analysis
      /\ x.confirmed = request[r].confirmed /\ x.kind = request[r].kind
  BY <1>2 DEF Handler, Place
<1> HIDE DEF x
<1> PICK q \in Handler : q = x
  BY <1>3
<1>4. q.project \in Request /\ Spent(q.project)
  BY <1>1, <1>2, <1>3, HandlerFields DEF HandlerOK
<1>5. request'[r] = q /\ Spent(q.project)'
  BY <1>1, <1>3, <1>4, SpentStays
<1>6. \A p : ClaimedFor(p)' => ClaimedFor(p)
  BY <1>1 DEF ClaimedFor
<1>7. HandlerOK(r)'
  <2>1. request[r].at \in Place \ {"claim"} /\ q.at \in Place \ {"claim", "look"}
    BY <1>1, <1>3 DEF Place
  <2>2. Acceptable(q)
    BY <1>1, <1>3 DEF Acceptable
  <2> QED
    BY <1>1, <1>3, <1>5, <1>6, <2>1, <2>2, HandlerGoesOn
<1> QED
  BY <1>1, <1>3, <1>7, RequestOnly

\* create_continuation_project (continuation_project.py)
LEMMA PublishSafe ==
  ASSUME CIInv, NEW r \in Request, Publish(r)
  PROVE  CIInv'
<1> DEFINE x == [request[r] EXCEPT !.at = "finalize", !.published = TRUE]
           b == Book(request[r])
<1>1. /\ SessionOK /\ session \in Session
      /\ RequestsOK /\ BooksOK /\ ShelfOK /\ ConversionOK /\ JobsOK
      /\ UNCHANGED <<session, fresh, task, lease, asked, trash, moved, restored, jobs, crashes>>
      /\ request[r].at = "staged"
      /\ projects' = projects \cup {b} /\ request' = [request EXCEPT ![r] = x]
      /\ shelf' = shelf \cup {request[r].project}
  BY DEF CIInv, AnalysisInv, SessionOK, ConversionInv, Publish, saved, analysing
<1>2. request[r] \in Handler /\ HandlerOK(r) /\ Acceptable(request[r])
  BY <1>1, AtWork DEF Place, HandlerOK
<1>3. /\ x \in Handler /\ x.at = "finalize" /\ x.project = request[r].project
      /\ x.chapters = request[r].chapters /\ x.analysis = request[r].analysis
      /\ x.confirmed = request[r].confirmed
  BY <1>2 DEF Handler, Place
<1> HIDE DEF x
<1> PICK q \in Handler : q = x
  BY <1>3
<1>4. /\ request[r].project \in Request /\ request[r].kind \in {"create", "quick"}
      /\ request[r].chapters \in Version /\ request[r].analysis \in Analysis
      /\ Spent(request[r].project)
  BY <1>1, <1>2, HandlerFields DEF HandlerOK, Acceptable, AnalysisOrNone
<1>5. /\ b \in BookRecord /\ b.id = request[r].project /\ b.via = request[r].kind
      /\ b.chapters = request[r].chapters /\ b.analysis = request[r].analysis
  BY <1>4 DEF Book, BookRecord
<1>6. b.via = "create" => b.analysis = [of |-> b.chapters, by |-> "author"]
  <2>1. b.via = "create" => request[r].confirmed
    BY <1>2, <1>5 DEF Acceptable
  <2>2. b.via = "create" => b.analysis \in Analysis /\ b.analysis.of = b.chapters
                            /\ b.analysis.by = "author"
    BY <1>2, <1>4, <1>5, <2>1 DEF HandlerOK
  <2> QED
    BY <2>2 DEF Analysis
<1>7. ClaimedFor(b.id) => b.chapters = session.chapters /\ b.analysis = session.analysis
  BY <1>1, <1>2, <1>5 DEF HandlerOK
<1> HIDE DEF b
<1> PICK book \in BookRecord : book = b
  BY <1>5
<1>8. /\ q.project = book.id /\ Spent(book.id) /\ book.id \in Request
      /\ shelf' = shelf \cup {book.id} /\ projects' = projects \cup {book}
  BY <1>1, <1>3, <1>4, <1>5
<1>9. /\ request'[r] = q /\ \A u \in Request : u # r => request'[u] = request[u]
      /\ \A p \in Request : Spent(p) => Spent(p)'
  BY <1>1, <1>3, SpentStays
<1>10. \A p : ClaimedFor(p)' <=> ClaimedFor(p)
  BY <1>1 DEF ClaimedFor
<1>11. \A p : Published(p)' <=> Published(p) \/ p = book.id
  BY <1>8 DEF Published
<1>12. HandlerOK(r)'
  <2>1. request[r].at \in Place \ {"claim"} /\ q.at \in Place \ {"claim", "look", "staged", "create"}
    BY <1>1, <1>3 DEF Place
  <2>2. Spent(q.project)' /\ Published(q.project)'
    BY <1>8, <1>9, <1>11
  <2> QED
    BY <1>1, <1>3, <1>9, <1>10, <2>1, <2>2, HandlerGoesOn
<1>13. RequestsOK'
  BY <1>1, <1>3, <1>10, <1>12, OthersKept
<1>14. BooksOK'
  <2>1. \A c \in projects : c.id \in Request
    BY <1>1 DEF BooksOK, BookRecord
  <2>2. BookAsConfirmed'
    BY <1>1, <1>6, <1>8 DEF BooksOK, BookAsConfirmed
  <2>3. projects' \subseteq BookRecord /\ \A c \in projects' : Spent(c.id)'
    BY <1>1, <1>8, <1>9, <2>1 DEF BooksOK
  <2>4. \A c \in projects' : ClaimedFor(c.id)' =>
          c.chapters = session'.chapters /\ c.analysis = session'.analysis
    BY <1>1, <1>7, <1>8, <1>10 DEF BooksOK
  <2> QED
    BY <2>2, <2>3, <2>4 DEF BooksOK
<1>15. ShelfOK'
  <2>1. shelf \subseteq restored /\ \A u \in Request : u # r => request[u].at # "staged"
    BY <1>1 DEF ShelfOK
  <2>2. \A u \in Request : request'[u].at # "staged"
    BY <1>3, <1>9, <2>1
  <2>3. OneBookPerSession'
    BY <1>1, <1>8, <2>1 DEF OneBookPerSession
  <2> QED
    BY <1>1, <1>8, <1>11, <2>2, <2>3 DEF ShelfOK
<1>16. ConversionOK'
  BY <1>1, <1>9, RecordKept
<1>17. JobsOK'
  <2>1. \A p, k \in Request : InPlay(p, k)' => InPlay(p, k)
    BY <1>1, <1>3, InPlayKept
  <2>2. \A p \in Request \ moved : \A k \in Request : ~InPlay(p, k)
    <3>1. ASSUME NEW p \in Request \ moved, NEW k \in Request, InPlay(p, k)
          PROVE  p \in shelf
      BY <1>1, <3>1 DEF JobsOK, ShelfOK
    <3> QED
      BY <1>1, <3>1 DEF ShelfOK
  <2> QED
    BY <1>1, <2>1, <2>2, JobsKept DEF JobsOK
<1>18. AnalysisInv'
  BY <1>1, AnalysisKept DEF SessionOK
<1> QED
  BY <1>13, <1>14, <1>15, <1>16, <1>17, <1>18 DEF CIInv, ConversionInv

\* FileExistsError, in whatever place
LEMMA MeetsBookSafe ==
  ASSUME CIInv, NEW r \in Request, MeetsBook(r), request[r].at \in Place \ {"claim"},
         UNCHANGED <<session, fresh, task, lease, asked, projects, library, jobs, crashes>>
  PROVE  CIInv'
<1>1. Exists(request[r].project) => Published(request[r].project)
  BY DEF CIInv, ConversionInv, ShelfOK, Exists
<1>2. CASE Moves(r, "fail")
  BY <1>2, MovesSafe
<1>3. CASE Exists(request[r].project) /\ Moves(r, "finalize")
  BY <1>1, <1>3, MovesSafe
<1>4. CASE Exists(request[r].project) /\ Moves(r, "settle")
  BY <1>1, <1>4, MovesSafe
<1>5. CASE Ends(r)
  BY <1>5, EndsSafe DEF Ends
<1> QED
  BY <1>2, <1>3, <1>4, <1>5 DEF MeetsBook

\* The session has a book already, or the restored one is in the way.
LEMMA CollideSafe ==
  ASSUME CIInv, NEW r \in Request, Collide(r) \/ CollideStaged(r)
  PROVE  CIInv'
<1>1. /\ UNCHANGED <<session, fresh, task, lease, asked, projects, library, jobs, crashes>>
      /\ request[r].at \in Place \ {"claim"} /\ MeetsBook(r)
  BY DEF Collide, CollideStaged, saved, analysing, Place
<1> QED
  BY <1>1, MeetsBookSafe

\* The copy or the settings are refused, or the disk is.
LEMMA CannotPublishSafe ==
  ASSUME CIInv, NEW r \in Request, CannotPublish(r)
  PROVE  CIInv'
<1>1. /\ UNCHANGED <<session, fresh, task, lease, asked, projects, library, jobs, crashes>>
      /\ request[r].at \in Place \ {"claim"}
  BY DEF CannotPublish, saved, analysing, Place
<1>2. CASE Moves(r, "fail")
  BY <1>1, <1>2, MovesSafe
<1>3. CASE Ends(r)
  BY <1>1, <1>3, EndsSafe DEF Ends
<1> QED
  BY <1>2, <1>3 DEF CannotPublish

\* fail_project_conversion and finalize_project_conversion: what became of the claim
LEMMA ResultSafe ==
  ASSUME CIInv, NEW r \in Request, NEW st \in {"succeeded", "failed"},
         request[r].at \in Place \ {"claim"},
         ClaimedFor(request[r].project),
         SaveSession(SetConversion(st, request[r].project), {}),
         st = "succeeded" => Published(request[r].project),
         Ends(r) \/ (Moves(r, "reserve") /\ st = "succeeded"),
         UNCHANGED <<task, lease, asked, projects, library, jobs, crashes>>
  PROVE  CIInv'
<1>1. RequestsOK /\ session \in Session
  BY DEF CIInv, AnalysisInv, SessionOK, ConversionInv
<1>2. request[r] \in Handler /\ HandlerOK(r)
  BY <1>1, AtWork
<1> PICK p \in Request : p = request[r].project
  BY <1>2, HandlerFields
<1>3. ClaimedFor(p) /\ session.status = "ready" /\ Spent(p)
  BY ClaimFacts
<1>4. session' = SetConversion(st, p) /\ fresh' = {}
  BY DEF SaveSession
<1>5. CASE Ends(r)
  <2>1. Done.at \notin {"claim", "staged", "start", "complete"} /\ Done \in Handler \cup {Done}
    BY DEF Done
  <2>2. request' = [request EXCEPT ![r] = Done]
    BY <1>5 DEF Ends
  <2> QED
    BY <1>3, <1>4, <2>1, <2>2, RecordStep
<1>6. CASE Moves(r, "reserve") /\ st = "succeeded"
  <2> DEFINE there == [request[r] EXCEPT !.at = "reserve"]
  <2>1. "reserve" \in Place \ {"claim", "look", "staged"}
    BY DEF Place
  <2>2. /\ there \in Handler /\ there.at = "reserve" /\ there.project = p
        /\ there.chapters = request[r].chapters /\ there.analysis = request[r].analysis
        /\ there.confirmed = request[r].confirmed
    BY <1>2, <2>1, GoesTo
  <2>3. request' = [request EXCEPT ![r] = there]
    BY <1>6 DEF Moves
  <2> HIDE DEF there
  <2> PICK q \in Handler : q = there
    BY <2>2
  <2>4. request'[r] = q /\ Spent(q.project)'
    <3>1. q.at # "claim" /\ q.project = p
      BY <2>2
    <3>2. request'[r] = q /\ \A x \in Request : Spent(x) => Spent(x)'
      BY <1>1, <2>3, <3>1, SpentStays
    <3> QED
      BY <1>3, <3>1, <3>2
  <2>5. /\ session'.chapters = session.chapters /\ session'.analysis = session.analysis
        /\ \A x \in Request : ~ClaimedFor(x)'
    BY <1>1, <1>4, ConversionSet
  <2>6. Published(q.project)'
    BY <1>6, <2>2 DEF Published
  <2>7. HandlerOK(r)'
    BY <2>1, <2>2, <2>4, <2>5, <2>6, HandlerGoesOn
  <2> QED
    BY <1>3, <1>4, <1>6, <2>2, <2>3, <2>7, RecordStep
<1> QED
  BY <1>5, <1>6

\* A request that is past the creation of the book gives up.
LEMMA GivesUpSafe ==
  ASSUME CIInv, NEW r \in Request, GivesUp(r), request[r].at \in Place \ {"claim"},
         UNCHANGED <<session, fresh, task, lease, asked, projects, library, jobs, crashes>>
  PROVE  CIInv'
<1>1. CASE Moves(r, "fail")
  BY <1>1, MovesSafe
<1>2. CASE Ends(r)
  BY <1>2, EndsSafe DEF Ends
<1> QED
  BY <1>1, <1>2 DEF GivesUp

\* fail_project_conversion
LEMMA FailConversionSafe ==
  ASSUME CIInv, NEW r \in Request, FailConversion(r)
  PROVE  CIInv'
<1>1. /\ UNCHANGED <<task, lease, asked, projects, library, jobs, crashes>>
      /\ request[r].at \in Place \ {"claim"} /\ Ends(r)
  BY DEF FailConversion, analysing, Place
<1>2. CASE /\ ClaimedFor(request[r].project)
           /\ SaveSession(SetConversion("failed", request[r].project), {})
  BY <1>1, <1>2, ResultSafe
<1>3. CASE UNCHANGED saved
  BY <1>1, <1>3, EndsSafe DEF Ends, saved
<1> QED
  BY <1>2, <1>3 DEF FailConversion

\* finalize_project_conversion
LEMMA FinalizeConversionSafe ==
  ASSUME CIInv, NEW r \in Request, FinalizeConversion(r)
  PROVE  CIInv'
<1>1. /\ UNCHANGED <<task, lease, asked, projects, library, jobs, crashes>>
      /\ request[r].at \in Place \ {"claim"} /\ request[r].at = "finalize"
  BY DEF FinalizeConversion, analysing, Place
<1>2. Published(request[r].project)
  BY <1>1, AtWork DEF CIInv, ConversionInv, HandlerOK
<1>3. CASE /\ ClaimedFor(request[r].project)
           /\ SaveSession(SetConversion("succeeded", request[r].project), {})
           /\ Ends(r) \/ Moves(r, "reserve")
  BY <1>1, <1>2, <1>3, ResultSafe
<1>4. CASE UNCHANGED saved /\ Moves(r, "reserve")
  BY <1>1, <1>2, <1>4, MovesSafe DEF saved
<1>5. CASE UNCHANGED saved /\ GivesUp(r)
  BY <1>1, <1>5, GivesUpSafe DEF saved
<1> QED
  BY <1>3, <1>4, <1>5 DEF FinalizeConversion

\* The last thing a quick continuation does that met a finished book
LEMMA SettleConversionSafe ==
  ASSUME CIInv, NEW r \in Request, SettleConversion(r)
  PROVE  CIInv'
<1>1. /\ UNCHANGED <<task, lease, asked, projects, library, jobs, crashes>>
      /\ request[r].at \in Place \ {"claim"} /\ request[r].at = "settle" /\ Ends(r)
  BY DEF SettleConversion, analysing, Place
<1>2. Published(request[r].project)
  BY <1>1, AtWork DEF CIInv, ConversionInv, HandlerOK
<1>3. CASE /\ ClaimedFor(request[r].project)
           /\ SaveSession(SetConversion("succeeded", request[r].project), {})
  BY <1>1, <1>2, <1>3, ResultSafe
<1>4. CASE UNCHANGED saved
  BY <1>1, <1>4, EndsSafe DEF Ends, saved
<1> QED
  BY <1>3, <1>4 DEF SettleConversion

\* session.json cannot be written: the session stays as it is.
LEMMA CannotSaveSafe ==
  ASSUME CIInv, NEW r \in Request, CannotSave(r)
  PROVE  CIInv'
  BY EndsSafe DEF CannotSave, Ends, saved, analysing

-------------------------------------------------------------------------------
(* Steps of the requests: the job *)

\* A step with the reservation or the job of a finished conversion
LEMMA QuickStep ==
  ASSUME CIInv, NEW r \in Request, NEW q \in Handler \cup {Done},
         request' = [request EXCEPT ![r] = q], session' \in Session,
         session'.status = session.status, session'.chapters = session.chapters,
         session'.analysis = session.analysis, session'.confirmed = session.confirmed,
         session'.conversion = session.conversion,
         fresh' \subseteq fresh \cup Request,
         UNCHANGED <<task, lease, asked, projects, library, crashes>>,
         request[r].at \in {"reserve", "start", "complete"},
         \/ q = Done
         \/ /\ q.at \in {"start", "complete"} /\ q.job \in Request
            /\ q.project = request[r].project /\ q.chapters = request[r].chapters
            /\ q.analysis = request[r].analysis /\ q.confirmed = request[r].confirmed,
         JobsOK'
  PROVE  CIInv'
<1>1. /\ SessionOK /\ session \in Session /\ RequestsOK /\ BooksOK /\ ShelfOK /\ ConversionOK
      /\ request[r].at \in Place \ {"claim"}
  BY DEF CIInv, AnalysisInv, SessionOK, ConversionInv, Place
<1>2. request[r] \in Handler /\ HandlerOK(r)
  BY <1>1, AtWork
<1>3. q.at \notin {"claim", "staged"}
  BY DEF Done
<1>4. \A p : (ClaimedFor(p)' <=> ClaimedFor(p)) /\ (Published(p)' <=> Published(p))
  BY DEF ClaimedFor, Published
<1>5. /\ request'[r] = q /\ \A p \in Request : Spent(p) => Spent(p)'
      /\ \A u \in Request : u # r => request'[u] = request[u]
  BY <1>1, <1>3, SpentStays DEF RequestsOK
<1>6. q = Done \/ HandlerOK(r)'
  <2>1. ASSUME q # Done
        PROVE  HandlerOK(r)'
    <3>1. q \in Handler /\ q.at \in Place \ {"claim", "look", "create", "staged"}
      BY <2>1 DEF Place
    <3>2. q.project \in Request /\ Spent(q.project) /\ Published(q.project)
      BY <1>2, <2>1, HandlerFields DEF HandlerOK
    <3>3. Spent(q.project)' /\ Published(q.project)'
      BY <1>4, <1>5, <3>2
    <3> QED
      BY <1>1, <1>4, <1>5, <2>1, <3>1, <3>3, HandlerGoesOn
  <2> QED
    BY <2>1
<1>7. RequestsOK'
  BY <1>3, <1>4, <1>6, OthersKept
<1>8. BooksOK' /\ ConversionOK'
  BY <1>1, <1>4, <1>5, BooksKept, RecordKept
<1>9. AnalysisInv'
  BY <1>1, AnalysisKept DEF SessionOK
<1>10. ShelfOK'
  BY <1>1, <1>3, <1>5, ShelfKept
<1> QED
  BY <1>7, <1>8, <1>9, <1>10 DEF CIInv, ConversionInv

\* reserve_quick_continuation
LEMMA ReserveSafe ==
  ASSUME CIInv, NEW r \in Request, Reserve(r)
  PROVE  CIInv'
<1>1. /\ SessionOK /\ session \in Session /\ RequestsOK /\ JobsOK
      /\ UNCHANGED <<task, lease, asked, projects, library, jobs, crashes>>
      /\ request[r].at \in Place \ {"claim"} /\ request[r].at = "reserve"
  BY DEF CIInv, AnalysisInv, SessionOK, ConversionInv, Reserve, analysing, Place
<1>2. /\ request[r] \in Handler /\ HandlerOK(r) /\ request[r].project \in Request
      /\ Published(request[r].project)
  BY <1>1, AtWork, HandlerFields DEF HandlerOK
<1>3. ASSUME NEW k \in Request
      PROVE  LET x == [request[r] EXCEPT !.at = "start", !.job = k] IN
             /\ x \in Handler /\ x.at = "start" /\ x.job = k
             /\ x.project = request[r].project /\ x.chapters = request[r].chapters
             /\ x.analysis = request[r].analysis /\ x.confirmed = request[r].confirmed
  BY <1>2 DEF Handler, Place
<1>4. CASE session.quick # NotReserved /\ Starts(r, session.quick.job) /\ UNCHANGED saved
  <2>1. session.quick.job \in Request
    BY <1>1, <1>4, SessionFields, Values
  <2> PICK k \in Request : k = session.quick.job
    BY <2>1
  <2> DEFINE x == [request[r] EXCEPT !.at = "start", !.job = k]
  <2>2. /\ x \in Handler /\ x.at = "start" /\ x.job = k
        /\ x.project = request[r].project /\ x.chapters = request[r].chapters
        /\ x.analysis = request[r].analysis /\ x.confirmed = request[r].confirmed
    BY <1>3
  <2>3. request' = [request EXCEPT ![r] = x] /\ session' = session /\ fresh' = fresh
    BY <1>4 DEF Starts, saved
  <2> HIDE DEF x
  <2> PICK q \in Handler : q = x
    BY <2>2
  <2>4. request'[r] = q /\ \A u \in Request : u # r => request'[u] = request[u]
    BY <1>1, <2>3 DEF RequestsOK
  <2>5. \A p, i \in Request :
          InPlay(p, i)' => InPlay(p, i) \/ (p = request[r].project /\ i = session.quick.job)
    BY <1>1, <2>2, <2>4 DEF InPlay
  <2>6. JobsOK'
    <3>1. \A i : (ReservedIs(i)' <=> ReservedIs(i)) /\ (ReservedIs(i) <=> session.quick.job = i)
      BY <1>4, <2>3 DEF ReservedIs
    <3>2. \A p : Published(p)' <=> Published(p)
      BY <1>1 DEF Published
    <3>3. \A p \in Request \ moved : \A i \in Request :
            InPlay(p, i)' => Published(p) /\ i = session.quick.job
      BY <1>1, <1>2, <2>5, <3>1 DEF JobsOK
    <3> QED
      BY <1>1, <3>1, <3>2, <3>3 DEF JobsOK, library
  <2> QED
    BY <1>1, <2>2, <2>3, <2>6, QuickStep
<1>5. CASE /\ session.quick = NotReserved /\ ConvertedTo(request[r].project)
           /\ SaveSession(Reservation(r, "starting", r), {}) /\ Starts(r, r)
  <2> DEFINE x == [request[r] EXCEPT !.at = "start", !.job = r]
  <2>1. /\ x \in Handler /\ x.at = "start" /\ x.job = r
        /\ x.project = request[r].project /\ x.chapters = request[r].chapters
        /\ x.analysis = request[r].analysis /\ x.confirmed = request[r].confirmed
    BY <1>3
  <2>2. /\ request' = [request EXCEPT ![r] = x] /\ fresh' = {}
        /\ session' = [session EXCEPT !.quick = [status |-> "starting",
                                                 project |-> request[r].project, job |-> r]]
    BY <1>5 DEF Starts, SaveSession, Reservation
  <2> HIDE DEF x
  <2> PICK q \in Handler : q = x
    BY <2>1
  <2>3. /\ session' \in Session
        /\ session'.status = session.status /\ session'.chapters = session.chapters
        /\ session'.analysis = session.analysis /\ session'.confirmed = session.confirmed
        /\ session'.conversion = session.conversion
        /\ session'.quick # NotReserved /\ session'.quick.job = r
    BY <1>1, <1>2, <2>2, ReservationSet
  <2>4. \A p \in Request \ moved : \A k \in Request : ~InPlay(p, k)
    <3>1. session.conversion.status = "succeeded" /\ session.conversion.project = request[r].project
      BY <1>5 DEF ConvertedTo
    <3>2. \A k : ~ReservedIs(k)
      BY <1>2, <1>5, <3>1 DEF ReservedIs
    <3> QED
      BY <1>1, <3>2 DEF JobsOK
  <2>5. request'[r] = q /\ \A u \in Request : u # r => request'[u] = request[u]
    BY <1>1, <2>2 DEF RequestsOK
  <2>6. \A p \in Request \ moved : \A k \in Request :
          InPlay(p, k)' => p = request[r].project /\ k = r
    BY <1>1, <2>1, <2>4, <2>5 DEF InPlay
  <2>7. ReservedIs(r)' /\ \A p : Published(p)' <=> Published(p)
    BY <1>1, <2>3 DEF ReservedIs, Published
  <2>8. JobsOK'
    BY <1>1, <1>2, <2>6, <2>7 DEF JobsOK, library
  <2> QED
    BY <1>1, <2>1, <2>2, <2>3, <2>8, QuickStep
<1>6. CASE GivesUp(r) /\ UNCHANGED saved
  BY <1>1, <1>6, GivesUpSafe DEF saved
<1> QED
  BY <1>4, <1>5, <1>6 DEF Reserve

\* start_file_generation_job with the reserved id
LEMMA StartJobSafe ==
  ASSUME CIInv, NEW r \in Request, StartJob(r)
  PROVE  CIInv'
<1>1. /\ SessionOK /\ session \in Session /\ RequestsOK /\ JobsOK
      /\ UNCHANGED <<session, fresh, task, lease, asked, projects, library, crashes>>
      /\ request[r].at \in Place \ {"claim"} /\ request[r].at = "start"
  BY DEF CIInv, AnalysisInv, SessionOK, ConversionInv, StartJob, saved, analysing, Place
<1>2. /\ request[r] \in Handler /\ HandlerOK(r) /\ request[r].job \in Request
      /\ request[r].project \in Request
  BY <1>1, AtWork, HandlerFields DEF HandlerOK
<1>3. CASE /\ Moves(r, "complete")
           /\ \/ jobs' = jobs \cup {[id |-> request[r].job, project |-> request[r].project]}
              \/ jobs' = jobs
  <2> DEFINE x == [request[r] EXCEPT !.at = "complete"]
  <2>1. /\ x \in Handler /\ x.at = "complete" /\ x.job = request[r].job
        /\ x.project = request[r].project /\ x.chapters = request[r].chapters
        /\ x.analysis = request[r].analysis /\ x.confirmed = request[r].confirmed
    BY <1>2, GoesTo DEF Place
  <2>2. request' = [request EXCEPT ![r] = x]
    BY <1>3 DEF Moves
  <2> HIDE DEF x
  <2> PICK q \in Handler : q = x
    BY <2>1
  <2>3. request'[r] = q /\ \A u \in Request : u # r => request'[u] = request[u]
    BY <1>1, <2>2 DEF RequestsOK
  <2>4. InPlay(request[r].project, request[r].job)
    BY <1>1 DEF InPlay
  <2>5. \A p, k \in Request : InPlay(p, k)' => InPlay(p, k)
    BY <1>1, <1>3, <2>1, <2>3, <2>4 DEF InPlay
  <2>6. JobsOK'
    <3>1. jobs' \subseteq [id: Request, project: Request] /\ moved' = moved
      BY <1>1, <1>2, <1>3 DEF JobsOK, library
    <3>2. \A k : ReservedIs(k)' <=> ReservedIs(k)
      BY <1>1 DEF ReservedIs, Published
    <3>3. \A p \in Request \ moved' : \A k \in Request :
            InPlay(p, k)' => InPlay(p, k) /\ ReservedIs(k)'
      BY <1>1, <2>5, <3>1, <3>2 DEF JobsOK
    <3> QED
      BY <1>1, <3>1, <3>3, JobsKept
  <2> QED
    BY <1>1, <1>2, <2>1, <2>2, <2>6, QuickStep
<1>4. CASE Ends(r) /\ UNCHANGED jobs
  BY <1>1, <1>4, EndsSafe DEF Ends
<1> QED
  BY <1>3, <1>4 DEF StartJob

\* complete_quick_continuation
LEMMA CompleteQuickSafe ==
  ASSUME CIInv, NEW r \in Request, CompleteQuick(r)
  PROVE  CIInv'
<1>1. /\ SessionOK /\ session \in Session /\ RequestsOK /\ JobsOK
      /\ UNCHANGED <<task, lease, asked, projects, library, jobs, crashes>>
      /\ request[r].at \in Place \ {"claim"} /\ request[r].at = "complete"
  BY DEF CIInv, AnalysisInv, SessionOK, ConversionInv, CompleteQuick, analysing, Place
<1>2. request[r] \in Handler /\ request[r].project \in Request /\ request[r].job \in Request
  BY <1>1, AtWork, HandlerFields DEF HandlerOK
<1>3. CASE /\ session.quick # NotReserved /\ session.quick.job = request[r].job
           /\ SaveSession(Reservation(r, "started", request[r].job), {}) /\ Ends(r)
  <2> PICK k \in Request : k = request[r].job
    BY <1>2
  <2>1. /\ request' = [request EXCEPT ![r] = Done] /\ fresh' = {}
        /\ session' = [session EXCEPT !.quick = [status |-> "started",
                                                 project |-> request[r].project, job |-> k]]
    BY <1>3 DEF Ends, SaveSession, Reservation
  <2>2. /\ session' \in Session
        /\ session'.status = session.status /\ session'.chapters = session.chapters
        /\ session'.analysis = session.analysis /\ session'.confirmed = session.confirmed
        /\ session'.conversion = session.conversion
        /\ session'.quick # NotReserved /\ session'.quick.job = k
    BY <1>1, <1>2, <2>1, ReservationSet
  <2>3. request'[r] = Done /\ \A u \in Request : u # r => request'[u] = request[u]
    BY <1>1, <2>1 DEF RequestsOK
  <2>4. \A p, i \in Request : InPlay(p, i)' => InPlay(p, i)
    BY <1>1, <2>3 DEF InPlay, Done
  <2>5. JobsOK'
    <3>1. \A i : ReservedIs(i)' <=> ReservedIs(i)
      BY <1>3, <2>2 DEF ReservedIs
    <3>2. jobs' \subseteq [id: Request, project: Request] /\ moved' = moved
      BY <1>1 DEF JobsOK, library
    <3>3. \A p \in Request \ moved' : \A i \in Request :
            InPlay(p, i)' => InPlay(p, i) /\ ReservedIs(i)'
      BY <1>1, <2>4, <3>1, <3>2 DEF JobsOK
    <3> QED
      BY <1>1, <3>2, <3>3, JobsKept
  <2> QED
    BY <1>1, <2>1, <2>2, <2>5, QuickStep
<1>4. CASE GivesUp(r) /\ UNCHANGED saved
  BY <1>1, <1>4, GivesUpSafe DEF saved
<1> QED
  BY <1>3, <1>4 DEF CompleteQuick

-------------------------------------------------------------------------------
(* A stop of the server, the first state, and every step *)

\* Only the session, the books and the jobs are left.
LEMMA CrashSafe ==
  ASSUME CIInv, Crash
  PROVE  CIInv'
<1>1. /\ SessionOK /\ session \in Session /\ TasksOK
      /\ RequestsOK /\ BooksOK /\ ShelfOK /\ ConversionOK /\ JobsOK
      /\ crashes < MaxCrashes /\ crashes' = crashes + 1
      /\ task' = [t \in Task |-> NoTask] /\ lease' = NoOne /\ fresh' = {}
      /\ request' = [r \in Request |-> IF request[r] = Unsent THEN Unsent ELSE Done]
      /\ UNCHANGED <<session, projects, library, jobs, asked>>
  BY DEF CIInv, AnalysisInv, SessionOK, ConversionInv, Crash
<1>2. AnalysisInv'
  <2>1. crashes' \in 0..MaxCrashes
    BY <1>1, Constants DEF TasksOK
  <2>2. TasksOK'
    BY <1>1, <2>1, TaskFields, Constants DEF TasksOK, NoTask
  <2>3. SessionOK'
    BY <1>1 DEF SessionOK, AnalysisOfTheseChapters
  <2> QED
    BY <1>1, <2>2, <2>3 DEF AnalysisInv
<1>3. \A r \in Request : request'[r] \in {Unsent, Done}
  BY <1>1
<1>4. \A p \in Request : Spent(p) => Spent(p)'
  BY <1>1 DEF Spent, Unsent, Done
<1>5. \A p : (ClaimedFor(p)' <=> ClaimedFor(p)) /\ (Published(p)' <=> Published(p))
  BY <1>1 DEF ClaimedFor, Published
<1>6. RequestsOK'
  <2>1. request' \in [Request -> {Unsent, Done} \cup Handler]
    BY <1>1
  <2> QED
    BY <1>3, <2>1 DEF RequestsOK
<1>7. BooksOK' /\ ConversionOK'
  BY <1>1, <1>4, <1>5, BooksKept, RecordKept
<1>8. JobsOK'
  <2>1. \A p, k \in Request : InPlay(p, k)' => InPlay(p, k)
    BY <1>1, <1>3 DEF InPlay, Unsent, Done
  <2>2. \A k : ReservedIs(k)' <=> ReservedIs(k)
    BY <1>1 DEF ReservedIs, Published
  <2>3. jobs' \subseteq [id: Request, project: Request] /\ moved' = moved
    BY <1>1 DEF JobsOK, library
  <2>4. \A p \in Request \ moved' : \A k \in Request :
          InPlay(p, k)' => InPlay(p, k) /\ ReservedIs(k)'
    BY <1>1, <2>1, <2>2, <2>3 DEF JobsOK
  <2> QED
    BY <1>1, <2>3, <2>4, JobsKept
<1>9. ShelfOK'
  <2>1. \A r \in Request : request'[r].at # "staged"
    BY <1>3 DEF Unsent, Done
  <2> QED
    BY <1>1, <1>5, <2>1 DEF ShelfOK, OneBookPerSession, library
<1> QED
  BY <1>2, <1>6, <1>7, <1>8, <1>9 DEF CIInv, ConversionInv

\* The author moves a book to the trash, takes one out of it or deletes it there
\* (file_project_lifecycle.py): the session and what is done with it stay.
LEMMA LibrarySafe ==
  ASSUME CIInv, NEW p \in Request, Trash(p) \/ RestoreProject(p) \/ DeleteTrashed(p)
  PROVE  CIInv'
<1>1. /\ RequestsOK /\ BooksOK /\ ShelfOK /\ ConversionOK /\ JobsOK
      /\ UNCHANGED <<session, fresh, task, lease, asked, request, projects, jobs, crashes>>
      /\ moved \subseteq moved' /\ shelf' \ restored' \subseteq shelf \ restored
  BY DEF CIInv, ConversionInv, Trash, RestoreProject, DeleteTrashed, Exists, saved, analysing
<1>2. \A x : /\ ClaimedFor(x)' <=> ClaimedFor(x)
             /\ Spent(x)' <=> Spent(x)
             /\ Published(x)' <=> Published(x)
  BY <1>1 DEF ClaimedFor, Spent, Published
<1>3. AnalysisInv'
  BY <1>1 DEF CIInv, AnalysisInv, SessionOK, AnalysisOfTheseChapters, TasksOK, CopyOK
<1>4. RequestsOK'
  <2>1. ASSUME NEW r \in Request, HandlerOK(r)
        PROVE  HandlerOK(r)'
    BY <1>1, <1>2, <2>1 DEF HandlerOK
  <2> QED
    BY <1>1, <2>1 DEF RequestsOK
<1>5. BooksOK' /\ ConversionOK'
  BY <1>1, <1>2 DEF BooksOK, BookAsConfirmed, ConversionOK
<1>6. JobsOK'
  <2>1. \A x, k : (InPlay(x, k)' <=> InPlay(x, k)) /\ (ReservedIs(k)' <=> ReservedIs(k))
    BY <1>1, <1>2 DEF InPlay, ReservedIs
  <2> QED
    BY <1>1, <1>2, <2>1 DEF JobsOK
<1>7. ShelfOK'
  <2>1. OneBookPerSession' /\ \A r \in Request : request'[r].at = "staged" => shelf' \subseteq restored'
    BY <1>1 DEF ShelfOK, OneBookPerSession
  <2>2. /\ shelf' \cup trash' \subseteq shelf \cup trash /\ restored' \subseteq shelf'
        /\ restored' \cup trash' \subseteq moved' /\ moved' \subseteq Request
        /\ shelf \cup moved \subseteq shelf' \cup moved'
    BY <1>1 DEF ShelfOK, Trash, RestoreProject, DeleteTrashed, Exists
  <2> QED
    BY <1>1, <1>2, <2>1, <2>2 DEF ShelfOK
<1> QED
  BY <1>3, <1>4, <1>5, <1>6, <1>7 DEF CIInv, ConversionInv

\* A scanned session that nobody has worked on
LEMMA Initially == Init => CIInv
<1> SUFFICES ASSUME Init
             PROVE  CIInv
  OBVIOUS
<1>1. session \in Session
  BY Constants DEF Init, Session, Version, AnalysisOrNone
<1>2. /\ session.status = "parsed" /\ session.analysis = NoAnalysis /\ ~session.confirmed
      /\ session.conversion = NotConverted /\ session.quick = NotReserved
  BY DEF Init
<1>3. SessionOK
  BY <1>1, <1>2 DEF SessionOK, AnalysisOfTheseChapters
<1>4. TasksOK
  BY TaskFields, Constants DEF Init, TasksOK, NoTask
<1>5. AnalysisInv
  BY <1>3, <1>4 DEF AnalysisInv, Init
<1>6. RequestsOK
  BY DEF Init, RequestsOK
<1>7. BooksOK
  BY DEF Init, BooksOK, BookAsConfirmed
<1>8. ConversionOK
  BY <1>2 DEF ConversionOK
<1>9. JobsOK
  BY DEF Init, JobsOK, InPlay, Unsent
<1>10. ShelfOK
  BY DEF Init, ShelfOK, OneBookPerSession, Published, Unsent
<1> QED
  BY <1>5, <1>6, <1>7, <1>8, <1>9, <1>10 DEF CIInv, ConversionInv

\* A step that changes nothing
LEMMA Standstill == CIInv /\ UNCHANGED vars => CIInv'
<1> SUFFICES ASSUME CIInv, UNCHANGED vars
             PROVE  CIInv'
  OBVIOUS
<1>1. UNCHANGED <<session, fresh, task, lease, request, projects, library, jobs, asked, crashes>>
  BY DEF vars, saved, analysing, converting
<1>2. AnalysisInv'
  BY <1>1 DEF CIInv, AnalysisInv, SessionOK, AnalysisOfTheseChapters, TasksOK, CopyOK
<1> QED
  BY <1>1, <1>2, ConversionKept DEF CIInv

\* Every step keeps the invariant.
LEMMA Inductive == CIInv /\ [Next]_vars => CIInv'
<1> SUFFICES ASSUME CIInv, [Next]_vars
             PROVE  CIInv'
  OBVIOUS
<1>1. CASE ReplaceChapters
  BY <1>1, ReplaceChaptersSafe
<1>2. CASE UpdateAnalysis
  BY <1>2, UpdateAnalysisSafe
<1>3. ASSUME NEW t \in Task, Analysing(t)
      PROVE  CIInv'
  BY <1>3, RequeueSafe, QueueSafe, TakeLeaseSafe, StopWaitingSafe, ClaimAnalysisJobSafe,
     ReadChaptersSafe, BeginSafe, CheckpointSafe, FinishSafe, FailAnalysisSafe,
     ReleaseLeaseSafe
     DEF Analysing
<1>4. ASSUME NEW r \in Request, ConvertingStep(r)
      PROVE  CIInv'
  BY <1>4, OpenCreateSafe, OpenQuickSafe, ClaimQuickSafe, AdoptConversionSafe,
     WaitForOwnerSafe, LookForProjectSafe, StageSafe, PublishSafe, CollideSafe,
     CannotPublishSafe,
     FailConversionSafe, FinalizeConversionSafe, SettleConversionSafe, ReserveSafe,
     StartJobSafe, CompleteQuickSafe, CannotSaveSafe
     DEF ConvertingStep
<1>5. CASE Crash
  BY <1>5, CrashSafe
<1>6. CASE UNCHANGED vars
  BY <1>6, Standstill
<1>7. ASSUME NEW p \in Request, Trash(p) \/ RestoreProject(p) \/ DeleteTrashed(p)
      PROVE  CIInv'
  BY <1>7, LibrarySafe
<1> QED
  BY <1>1, <1>2, <1>3, <1>4, <1>5, <1>6, <1>7 DEF Next

-------------------------------------------------------------------------------
(* The theorems *)

\* Whatever the author, the tasks and the requests do, and wherever the server
\* stops: a task that holds the saved session works on its chapters, a claimed
\* project id is nobody else's, and what is claimed, published and reserved
\* fits together (continuation_sessions.py, continuation_project.py).
THEOREM ImportInvariant == Spec => []CIInv
  BY Initially, Inductive, PTL DEF Spec

\* A staging directory is there for good or it is not.
LEMMA LeftoverType == Spec => [](leftover \in BOOLEAN)
<1>1. Init => leftover \in BOOLEAN
  BY DEF Init
<1>2. leftover \in BOOLEAN /\ [Next]_vars => (leftover \in BOOLEAN)'
  <2> SUFFICES ASSUME leftover \in BOOLEAN, Next, leftover' # leftover
               PROVE  leftover' \in BOOLEAN
    BY DEF vars, converting
  <2>1. ASSUME NEW t \in Task
        PROVE  ~Analysing(t)
    BY DEF Analysing, RequeueGeneration, QueueNewGeneration, TakeLease, StopWaiting,
           ClaimAnalysisJob, ReadChapters, Begin, Checkpoint, Finish, FailAnalysis,
           ReleaseLease, converting
  <2>2. ASSUME NEW p \in Request
        PROVE  ~(Trash(p) \/ RestoreProject(p) \/ DeleteTrashed(p))
    BY DEF Trash, RestoreProject, DeleteTrashed
  <2>3. CASE Crash
    BY <2>3 DEF Crash, StagingGone
  <2>4. ASSUME NEW r \in Request, ConvertingStep(r)
        PROVE  leftover' \in BOOLEAN
    <3>1. CollideStaged(r) \/ CannotPublish(r)
      BY <2>4 DEF ConvertingStep, OpenCreate, OpenQuick, ClaimQuick, AdoptConversion,
         WaitForOwner, LookForProject, Stage, Publish, Collide, FailConversion,
         FinalizeConversion, SettleConversion, Reserve, StartJob, CompleteQuick, CannotSave
    <3> QED
      BY <3>1 DEF CollideStaged, CannotPublish, StagingGone
  <2>5. ~ReplaceChapters /\ ~UpdateAnalysis
    BY DEF ReplaceChapters, UpdateAnalysis, converting
  <2> QED
    BY <2>1, <2>2, <2>3, <2>4, <2>5 DEF Next
<1> QED
  BY <1>1, <1>2, PTL DEF Spec

\* The session, the tasks and the lease have their types, and the lease belongs
\* to the one task that is past waiting (ContinuationAnalysisLease).
THEOREM ImportTypeCorrect == Spec => []TypeOK
<1>1. CIInv /\ leftover \in BOOLEAN => TypeOK
  BY DEF CIInv, AnalysisInv, SessionOK, TasksOK, ConversionInv, BooksOK, ShelfOK, JobsOK,
         TypeOK, Session, Reserved, TaskRecord, BookRecord
<1> QED
  BY <1>1, ImportInvariant, LeftoverType, PTL

\* The analysis in the session is of its chapters, however late a task comes
\* (begin_analysis, finish_analysis, replace_chapters).
THEOREM AnalysisIsCurrent == Spec => []AnalysisOfTheseChapters
<1>1. CIInv => AnalysisOfTheseChapters
  BY DEF CIInv, AnalysisInv, SessionOK
<1> QED
  BY <1>1, ImportInvariant, PTL

\* However often the conversion is claimed and forgotten, and whatever goes to
\* the trash and comes back: no book is made beside another one of the session,
\* only beside what came back meanwhile (claim_project_conversion and
\* _assert_session_not_converted in continuation_project.py).
THEOREM OneBook == Spec => []OneBookPerSession
<1>1. CIInv => OneBookPerSession
  BY DEF CIInv, ConversionInv, ShelfOK
<1> QED
  BY <1>1, ImportInvariant, PTL

\* create-project publishes what the author confirmed, for the chapters in the
\* book (create_continuation_project).
THEOREM PublishedAsConfirmed == Spec => []BookAsConfirmed
<1>1. CIInv => BookAsConfirmed
  BY DEF CIInv, ConversionInv, BooksOK
<1> QED
  BY <1>1, ImportInvariant, PTL

\* A book that was never in the trash has one first job at most: a reservation
\* that is forgotten with the old chapters is not made again for the book, which
\* no later conversion can be recorded for (reserve_quick_continuation).
THEOREM OneJob == Spec => []OneJobPerBook
<1>1. CIInv => OneJobPerBook
  <2> SUFFICES ASSUME CIInv, NEW i \in jobs, NEW k \in jobs,
                      i.project = k.project, i.project \notin moved
               PROVE  i = k
    BY DEF OneJobPerBook
  <2>1. JobsOK
    BY DEF CIInv, ConversionInv
  <2>2. /\ i.id \in Request /\ i.project \in Request /\ i = [id |-> i.id, project |-> i.project]
        /\ k.id \in Request /\ k = [id |-> k.id, project |-> i.project]
    BY <2>1 DEF JobsOK
  <2>3. InPlay(i.project, i.id) /\ InPlay(i.project, k.id)
    BY <2>2 DEF InPlay
  <2> QED
    BY <2>1, <2>2, <2>3 DEF JobsOK
<1> QED
  BY <1>1, ImportInvariant, PTL

-------------------------------------------------------------------------------
(* What is recorded of a conversion *)

Recorded ==
  session'.conversion.status = "succeeded" /\ session.conversion # session'.conversion
    => [id |-> session'.conversion.project, chapters |-> session.chapters,
        analysis |-> session.analysis]
       \in {[id |-> b.id, chapters |-> b.chapters, analysis |-> b.analysis] : b \in projects}

\* Success is recorded for the claimed project, once its book is there.
LEMMA SuccessIsPublished ==
  ASSUME CIInv, NEW r \in Request, request[r].at \in {"finalize", "settle"},
         ClaimedFor(request[r].project),
         session' = SetConversion("succeeded", request[r].project)
  PROVE  Recorded
<1>1. /\ SessionOK /\ session \in Session /\ RequestsOK /\ BooksOK /\ request[r].at \in Place
  BY DEF CIInv, AnalysisInv, SessionOK, ConversionInv, Place
<1>2. HandlerOK(r) /\ request[r].project \in Request /\ Published(request[r].project)
  BY <1>1, AtWork, HandlerFields DEF HandlerOK
<1> PICK p \in Request : p = request[r].project
  BY <1>2
<1>3. session'.conversion.project = p
  BY <1>1, ConversionSet
<1> PICK b \in projects : b.id = p
  BY <1>2 DEF Published
<1>4. b.chapters = session.chapters /\ b.analysis = session.analysis
  BY <1>1 DEF BooksOK
<1> QED
  BY <1>3, <1>4 DEF Recorded

\* No task touches the conversion.
LEMMA TasksRecordNothing ==
  ASSUME CIInv, NEW t \in Task, Analysing(t)
  PROVE  session'.conversion = session.conversion
<1>1. session \in Session
  BY DEF CIInv, AnalysisInv, SessionOK
<1>2. CASE RequeueGeneration(t) \/ TakeLease(t) \/ StopWaiting(t) \/ ReadChapters(t)
           \/ Checkpoint(t) \/ ReleaseLease(t)
  BY <1>2 DEF RequeueGeneration, TakeLease, StopWaiting, ReadChapters, Checkpoint,
              ReleaseLease, SaveSession, saved
<1>3. CASE QueueNewGeneration(t)
  BY <1>1, <1>3 DEF QueueNewGeneration, SaveSession, Session
<1>4. CASE ClaimAnalysisJob(t)
  BY <1>1, <1>4 DEF ClaimAnalysisJob, SaveSession, Session, saved
<1>5. CASE Begin(t)
  BY <1>1, <1>5 DEF Begin, SaveSession, Session
<1>6. CASE Finish(t)
  BY <1>1, <1>6 DEF Finish, SaveSession, Session
<1>7. CASE FailAnalysis(t)
  BY <1>1, <1>7 DEF FailAnalysis, SaveSession, Session, saved
<1> QED
  BY <1>2, <1>3, <1>4, <1>5, <1>6, <1>7 DEF Analysing

\* A request that records a success has its book.
LEMMA RequestsRecord ==
  ASSUME CIInv, NEW r \in Request, ConvertingStep(r)
  PROVE  Recorded
<1>1. session \in Session /\ RequestsOK
  BY DEF CIInv, AnalysisInv, SessionOK, ConversionInv
<1>2. ASSUME session'.conversion = session.conversion
      PROVE  Recorded
  BY <1>2 DEF Recorded
<1>3. ASSUME NEW st \in {"claimed", "failed"}, NEW p \in Request,
             session' = SetConversion(st, p)
      PROVE  Recorded
  <2>1. session'.conversion.status = st
    BY <1>1, <1>3, ConversionSet
  <2> QED
    BY <2>1 DEF Recorded
<1>4. CASE OpenCreate(r) \/ ClaimQuick(r)
  BY <1>2, <1>3, <1>4 DEF OpenCreate, ClaimQuick, SaveSession, saved
<1>5. CASE FailConversion(r)
  <2>1. request[r].project \in Request
    BY <1>1, <1>5, AtWork, HandlerFields DEF FailConversion, Place
  <2> QED
    BY <1>2, <1>3, <1>5, <2>1 DEF FailConversion, SaveSession, saved
<1>6. CASE FinalizeConversion(r) \/ SettleConversion(r)
  <2>1. CASE session' = session
    BY <1>2, <2>1
  <2>2. CASE /\ ClaimedFor(request[r].project)
             /\ session' = SetConversion("succeeded", request[r].project)
    <3>1. request[r].at \in {"finalize", "settle"}
      BY <1>6 DEF FinalizeConversion, SettleConversion
    <3> QED
      BY <2>2, <3>1, SuccessIsPublished
  <2> QED
    BY <1>6, <2>1, <2>2 DEF FinalizeConversion, SettleConversion, SaveSession, saved
<1>7. CASE Reserve(r) \/ CompleteQuick(r)
  <2>1. session' = session
        \/ \E q : session' = [session EXCEPT !.quick = q]
    BY <1>7 DEF Reserve, CompleteQuick, SaveSession, Reservation, saved
  <2>2. session'.conversion = session.conversion
    BY <1>1, <2>1 DEF Session
  <2> QED
    BY <1>2, <2>2
<1>8. CASE \/ OpenQuick(r) \/ AdoptConversion(r) \/ WaitForOwner(r) \/ LookForProject(r)
           \/ Stage(r) \/ Publish(r) \/ Collide(r) \/ CollideStaged(r) \/ CannotPublish(r)
           \/ StartJob(r) \/ CannotSave(r)
  <2>1. session' = session
    BY <1>8 DEF OpenQuick, AdoptConversion, WaitForOwner, LookForProject, Stage, Publish,
                Collide, CollideStaged, CannotPublish, StartJob, CannotSave, saved
  <2> QED
    BY <1>2, <2>1
<1> QED
  BY <1>4, <1>5, <1>6, <1>7, <1>8 DEF ConvertingStep

\* A conversion is recorded as succeeded for a book that is there, and is made
\* of the chapters and the analysis the session has at that moment
\* (finalize_project_conversion).
THEOREM SuccessIsOfTheBook == Spec => RecordedAsPublished
<1>1. CIInv /\ [Next]_vars => [Recorded]_vars
  <2> SUFFICES ASSUME CIInv, Next
               PROVE  Recorded
    OBVIOUS
  <2>1. session \in Session
    BY DEF CIInv, AnalysisInv, SessionOK
  <2>2. CASE ReplaceChapters
    <3>1. session'.conversion.status = "none"
      BY <2>1, <2>2 DEF ReplaceChapters, SaveSession, Session, NotConverted
    <3> QED
      BY <3>1 DEF Recorded
  <2>3. CASE UpdateAnalysis
    <3>1. session'.conversion = session.conversion
      BY <2>1, <2>3 DEF UpdateAnalysis, SaveSession, Session
    <3> QED
      BY <3>1 DEF Recorded
  <2>4. ASSUME NEW t \in Task, Analysing(t)
        PROVE  Recorded
    BY <2>4, TasksRecordNothing DEF Recorded
  <2>5. ASSUME NEW r \in Request, ConvertingStep(r)
        PROVE  Recorded
    BY <2>5, RequestsRecord
  <2>6. CASE Crash
    BY <2>6 DEF Crash, Recorded
  <2>7. ASSUME NEW p \in Request, Trash(p) \/ RestoreProject(p) \/ DeleteTrashed(p)
        PROVE  Recorded
    BY <2>7 DEF Trash, RestoreProject, DeleteTrashed, Recorded, saved
  <2> QED
    BY <2>2, <2>3, <2>4, <2>5, <2>6, <2>7 DEF Next
<1>2. RecordedAsPublished <=> [][Recorded]_vars
  BY DEF RecordedAsPublished, Recorded
<1> QED
  BY <1>1, <1>2, ImportInvariant, PTL DEF Spec

===============================================================================
