---------------------- MODULE ContinuousGenerationProofs ----------------------
(***************************************************************************)
(* Proofs about continuous generation (continuous_generation.py and its    *)
(* routes), for every number of jobs, requests, chapters and stops.        *)
(*                                                                         *)
(* BookInv is about every job: a runner's chapter numbers stay in order,   *)
(* so what it records is in the book.  RunInv is about the jobs that were  *)
(* not overtaken, whatever became of the others: only the registered job   *)
(* is at work, and at most one chapter it wrote is missing on its list     *)
(* (Tally).  What carries it through a request's unlocked steps is that    *)
(* nothing but a request touches an active job that is not registered, so  *)
(* that what the request holds is as good as the file (Faithful).          *)
(***************************************************************************)
EXTENDS ContinuousGeneration, TLAPS, FiniteSetTheorems

\* A request being served: it has read the job, has a repair to save, or is done
\* with the record
Reader == Request \cup {Guard}
Purpose == Kind \cup {"guard"}
Readings == [at: {"read", "unregistered"}, kind: Purpose, job: Job, seen: Record]
Savings == [at: {"save"}, kind: Purpose, job: Job, seen: Record, copy: Record]
Settlements == [at: {"settled"}, kind: Purpose, job: Job,
                copy: {"ended", "waiting", "interrupted"}]
Served == Readings \cup Savings \cup Settlements

Types ==
  /\ chapter \in 0..MaxChapter
  /\ file \in [Job -> Record \cup {NoRecord}]
  /\ latest \in Job \cup {NoJob} /\ (latest # NoJob => Exists(latest))
  /\ registered \in Job \cup {NoJob} /\ (registered # NoJob => Exists(registered))
  /\ queue \in Seq(Job)
  /\ pc \in [Job -> Place]
  /\ \A j \in Job : pc[j] # "none" => Exists(j)
  /\ next \in [Job -> 0..MaxChapter]
  /\ draft \in [Job -> 0..MaxChapter]
  /\ req \in [Reader -> {Idle} \cup Served]
  /\ \A r \in Reader : req[r] # Idle => Exists(req[r].job)
  /\ asked \in 0..MaxChapter
  /\ wrote \in [Job -> Nat] /\ late \in [Job -> Nat]
  /\ crashes \in 0..MaxCrashes

\* The executor holds a job once, and the job submitted last is registered.
QueueOK ==
  /\ \A i, k \in 1..Len(queue) : queue[i] = queue[k] => i = k
  /\ \A j \in Job : pc[j] # "none" <=> \E i \in 1..Len(queue) : queue[i] = j
  /\ queue # <<>> => registered = queue[Len(queue)]

\* What is read, and what is to be saved, lists chapters of the book as well; only
\* an active job is repaired, which keeps its stop flag and leaves it active
\* between two chapters at most.
CopyInOrder(q) ==
  /\ q.at \in {"read", "unregistered", "save"} => q.seen.done \subseteq 1..chapter
  /\ q.at = "save" => /\ q.copy.done \subseteq 1..chapter
                      /\ q.seen.status \in Active /\ q.copy.stop = q.seen.stop
                      /\ q.copy.status \in Active => q.copy.phase \in SafeRecovery
CopiesInOrder == \A r \in Reader : CopyInOrder(req[r])

\* The chapter a runner is going to record is not beyond the one it writes.
InOrder(j) ==
  /\ pc[j] \in {"gate", "generating"} => next[j] \in 1..chapter+1
  /\ pc[j] \in {"generated", "confirming"} => next[j] \in 1..draft[j]
  /\ pc[j] = "confirmed" => next[j] \in 1..chapter

BookInv ==
  /\ Types /\ QueueOK /\ CompletedAreOfficial /\ CopiesInOrder
  /\ \A j \in Job : InOrder(j)

-------------------------------------------------------------------------------
\* Only the registered job is at work, and it has not ended; a job may be
\* submitted that has.
Working(j) ==
  /\ pc[j] \notin {"none", "closing"}
  /\ pc[j] = "queued" => file[j].status \in Active
Registration(j) ==
  /\ Working(j) => registered = j /\ file[j].status \in Active
  /\ pc[j] = "closing" => file[j].status \in Terminal
  /\ pc[j] = "none" /\ file[j].status \in Active => crashes > 0

\* The phase a runner has announced
Writing(j) == pc[j] \in {"gate", "generating", "generated", "confirming", "confirmed"}
Announced(j) ==
  /\ pc[j] = "queued" /\ file[j].status \in Active => file[j].phase \in SafeRecovery
  /\ pc[j] \in {"prepare", "loop", "gate"} => file[j].phase \in SafeRecovery
  /\ pc[j] \in {"generating", "generated"} => file[j].phase = "generating"
  /\ pc[j] \in {"confirming", "confirmed"} => file[j].phase = "confirming"
  /\ Writing(j) => file[j].count < Count /\ \A n \in file[j].done : n < next[j]

\* At most one chapter a job wrote is missing on a list; then it is a later one,
\* and the job may not go on before it is counted.
Listed(record) == Cardinality(record.done)
Tally(j, record) ==
  /\ Listed(record) <= record.count
  /\ wrote[j] <= Listed(record) + 1
  /\ wrote[j] = Listed(record) + 1 => \A n \in record.done : n < chapter
  /\ record.status \in Active /\ record.phase \in SafeRecovery \cup {"generating"}
       => wrote[j] <= Listed(record)
Accounted(j) ==
  /\ ~Exists(j) => wrote[j] = 0
  /\ Exists(j) =>
       /\ wrote[j] <= Count /\ Tally(j, file[j])
       /\ pc[j] = "confirming" => wrote[j] <= Listed(file[j])

\* A job told to stop begins no other chapter.
Stopping(j) ==
  /\ ~Exists(j) => late[j] = 0
  /\ late[j] <= 2
  /\ late[j] > 0 => file[j].stop
  /\ late[j] = 2 => pc[j] \notin {"gate", "generating", "generated", "confirming"}

RunOf(j) == Registration(j) /\ Announced(j) /\ Accounted(j) /\ Stopping(j)

\* An active job that is not registered waits for a request to take it up: what
\* the requests hold of it is as good as its file.
Untouched(j) == registered # j /\ file[j].status \in Active
Faithful(q) ==
  Untouched(q.job) =>
    /\ q.at \in {"read", "unregistered"} =>
         /\ Tally(q.job, q.seen)
         /\ q.seen.status \in Active /\ q.seen.phase \in SafeRecovery
              => file[q.job].phase \in SafeRecovery
    /\ q.at = "save" => Tally(q.job, q.copy)
    /\ q.at = "settled" /\ q.copy = "waiting" => file[q.job].phase \in SafeRecovery

RunInv ==
  /\ \A j \in Job \ overtaken : RunOf(j)
  /\ \A r \in Reader : req[r] # Idle /\ req[r].job \notin overtaken => Faithful(req[r])

-------------------------------------------------------------------------------
(* Records *)

\* A job's file is absent or holds a record; the fields of a record have their types.
LEMMA Records ==
  ASSUME NEW r \in Record \cup {NoRecord}
  PROVE  /\ r # NoRecord <=> r \in Record
         /\ r.status \in Active \cup Terminal => r # NoRecord
         /\ r # NoRecord => /\ r.status \in Active \cup Terminal /\ r.phase \in Phase
                            /\ r.stop \in BOOLEAN /\ r.start \in 1..MaxChapter+1
                            /\ r.done \subseteq 1..MaxChapter /\ r.count \in Nat
  BY DEF Record, NoRecord, Active, Terminal

\* What the bounds are.
LEMMA Constants ==
  /\ MaxChapter \in Nat /\ MaxCrashes \in Nat /\ Count \in Nat /\ Count > 0 /\ NoJob \notin Job
  BY ContinuousAssumption

\* What a request holds, and when it holds it.
LEMMA Requests ==
  ASSUME NEW q \in {Idle} \cup Served
  PROVE  /\ q = Idle <=> q.at = "idle"
         /\ q \in Served <=> q # Idle
         /\ q # Idle => /\ q.job \in Job /\ q.kind \in Purpose
                        /\ q.at \in {"read", "unregistered", "save", "settled"}
         /\ q.at \in {"read", "unregistered", "save"} => q.seen \in Record
         /\ q.at = "save" => q.copy \in Record
         /\ q.at = "settled" => q.copy \in {"ended", "waiting", "interrupted"}
BY DEF Served, Readings, Savings, Settlements, Idle

\* A list of chapters is a finite set.
LEMMA Lists ==
  ASSUME NEW S \in SUBSET (1..MaxChapter)
  PROVE  /\ Cardinality(S) \in Nat
         /\ \A n : Cardinality(S \cup {n}) = IF n \in S THEN Cardinality(S) ELSE Cardinality(S) + 1
<1>1. IsFiniteSet(1..MaxChapter)
  BY FS_Interval, Constants
<1>2. IsFiniteSet(S)
  BY <1>1, FS_Subset
<1> QED
  BY <1>2, FS_CardinalityType, FS_AddElement

\* ContinuousGenerationJobStore.reconcile (continuous_generation.py:115-159)
LEMMA RepairedRecord ==
  ASSUME chapter \in 0..MaxChapter, NEW r \in Record, r.done \subseteq 1..chapter
  PROVE  /\ Repaired(r) \in Record
         /\ Repaired(r).done \subseteq 1..chapter
         /\ Repaired(r).stop = r.stop
         /\ r.status \in Terminal => Repaired(r) = r
         /\ r.phase \in SafeRecovery =>
              /\ Repaired(r).done = r.done /\ Repaired(r).count = r.count
              /\ Repaired(r).phase = r.phase
         /\ Repaired(r).status \in Active =>
              r.status \in Active /\ Repaired(r).phase \in SafeRecovery
         /\ \/ Repaired(r).done = r.done /\ Repaired(r).count = r.count
               /\ Repaired(r).phase = r.phase
            \/ /\ Repaired(r).done = r.done \cup {chapter}
               /\ Repaired(r).count = Cardinality(r.done) + 1
               /\ r.status \in Active /\ r.phase \in {"generating", "confirming"}
<1> DEFINE expected == r.start - 1 + Cardinality(r.done)
           count == Cardinality(r.done) + 1
           go == chapter = expected + 1 /\ r.phase \in {"generating", "confirming"}
           counted == [r EXCEPT !.done = @ \cup {chapter}, !.count = count,
                         !.phase = "between_chapters",
                         !.status = IF count >= Count THEN "ended" ELSE @]
           stopped == [r EXCEPT !.status = "ended"]
<1>1. /\ r.start \in 1..MaxChapter+1 /\ r.done \in SUBSET (1..MaxChapter) /\ r.count \in Nat
      /\ r.phase \in Phase /\ r.status \in Active \cup Terminal /\ r.stop \in BOOLEAN
  BY DEF Record
<1>2. Cardinality(r.done) \in Nat /\ count \in Nat /\ expected \in Nat /\ expected >= 0
  BY <1>1, Lists, Constants
<1>3. CASE r.status \notin Active
  <2>1. Repaired(r) = r
    BY <1>3 DEF Repaired
  <2> QED
    BY <2>1, <1>3
<1>4. CASE r.status \in Active /\ go
  <2>1. Repaired(r) = counted
    BY <1>4 DEF Repaired
  <2>2. chapter \in 1..chapter /\ chapter \in 1..MaxChapter
    BY <1>2, <1>4, Constants
  <2>3. counted \in Record
    <3> DEFINE done == r.done \cup {chapter}
               status == IF count >= Count THEN "ended" ELSE r.status
    <3>1. done \in SUBSET (1..MaxChapter) /\ status \in Active \cup Terminal
          /\ "between_chapters" \in Phase
      BY <1>1, <2>2 DEF Terminal, Phase, SafeRecovery
    <3>2. counted = [r EXCEPT !.done = done, !.count = count,
                         !.phase = "between_chapters", !.status = status]
      OBVIOUS
    <3> HIDE DEF done, status, count
    <3> QED
      BY <1>2, <3>1, <3>2 DEF Record
  <2>4. /\ counted.done = r.done \cup {chapter} /\ counted.count = count
        /\ counted.stop = r.stop /\ counted.phase \in SafeRecovery
    BY DEF Record, SafeRecovery
  <2>5. r.status \notin Terminal /\ r.phase \notin SafeRecovery
    BY <1>4 DEF Active, Terminal, SafeRecovery
  <2> HIDE DEF counted
  <2> QED
    BY <1>4, <2>1, <2>2, <2>3, <2>4, <2>5
<1>5. CASE r.status \in Active /\ ~go /\ (chapter # expected \/ r.phase \notin SafeRecovery)
  <2>1. Repaired(r) = stopped
    BY <1>5 DEF Repaired
  <2>2. stopped \in Record
    BY <1>1 DEF Record, Terminal
  <2>3. /\ stopped.done = r.done /\ stopped.count = r.count /\ stopped.phase = r.phase
        /\ stopped.stop = r.stop /\ stopped.status = "ended"
    BY DEF Record
  <2>4. r.status \notin Terminal /\ "ended" \notin Active
    BY <1>5 DEF Active, Terminal
  <2> HIDE DEF stopped
  <2> QED
    BY <2>1, <2>2, <2>3, <2>4
<1>6. CASE r.status \in Active /\ ~go /\ ~(chapter # expected \/ r.phase \notin SafeRecovery)
  <2>1. Repaired(r) = r
    BY <1>6 DEF Repaired
  <2> QED
    BY <2>1, <1>6
<1> QED
  BY <1>3, <1>4, <1>5, <1>6
-------------------------------------------------------------------------------
(* Steps of a worker *)

\* A step that leaves the book satisfies the lemmas about a growing one.
LEMMA SameChapter ==
  ASSUME BookInv
  PROVE  chapter \in chapter..MaxChapter /\ chapter \in Nat
<1>1. chapter \in 0..MaxChapter
  BY DEF BookInv, Types
<1> QED
  BY <1>1, Constants

\* Nothing about a job changes when only others move.
LEMMA OtherBook ==
  ASSUME BookInv, NEW k \in Job, file'[k] = file[k], pc'[k] = pc[k],
         next'[k] = next[k], draft'[k] = draft[k], chapter' \in chapter..MaxChapter
  PROVE  InOrder(k)' /\ (Exists(k)' => file'[k].done \subseteq 1..chapter')
<1>1. chapter \in Nat /\ chapter' \in Nat /\ chapter <= chapter'
  BY Constants DEF BookInv, Types
<1>2. Exists(k) => file[k].done \subseteq 1..chapter
  BY DEF BookInv, CompletedAreOfficial
<1>3. InOrder(k) /\ next[k] \in Nat
  BY Constants DEF BookInv, Types
<1>4. InOrder(k)'
  BY <1>1, <1>3 DEF InOrder
<1>5. Exists(k)' => file'[k].done \subseteq 1..chapter'
  BY <1>1, <1>2 DEF Exists
<1> QED
  BY <1>4, <1>5

\* What RunInv says of a job stays true when only others move.
LEMMA OtherRun ==
  ASSUME BookInv, NEW k \in Job, RunOf(k), file'[k] = file[k], pc'[k] = pc[k],
         next'[k] = next[k], chapter' \in chapter..MaxChapter,
         wrote'[k] = wrote[k], late'[k] = late[k], crashes' = crashes,
         Working(k) => registered' = k
  PROVE  RunOf(k)'
<1>1. chapter \in Nat /\ chapter' \in Nat /\ chapter <= chapter'
  BY Constants DEF BookInv, Types
<1>2. Registration(k)'
  BY DEF RunOf, Registration, Working
<1>3. Announced(k)'
  BY DEF RunOf, Announced, Writing
<1>4. Accounted(k)'
  <2>1. Exists(k) => file[k].done \subseteq 1..MaxChapter
    BY Records DEF BookInv, Types, Exists
  <2> QED
    BY <1>1, <2>1 DEF RunOf, Accounted, Tally, Listed, Exists
<1>5. Stopping(k)'
  BY DEF RunOf, Stopping, Exists
<1> QED
  BY <1>2, <1>3, <1>4, <1>5 DEF RunOf

\* A runner moves to another place and may save its job.
LEMMA WorkerBook ==
  ASSUME BookInv, NEW j \in Job, NEW p \in Place, p # "none", NEW rec \in Record,
         pc[j] # "none", pc' = [pc EXCEPT ![j] = p],
         file' = [file EXCEPT ![j] = rec], latest' \in {latest, j},
         chapter' \in chapter..MaxChapter, rec.done \subseteq 1..chapter',
         next' \in [Job -> 0..MaxChapter], draft' \in [Job -> 0..MaxChapter],
         \A k \in Job : k # j => next'[k] = next[k] /\ draft'[k] = draft[k],
         InOrder(j)', wrote' \in [Job -> Nat], late' \in [Job -> Nat],
         registered' = registered, queue' = queue, req' = req,
         asked' = asked, crashes' = crashes
  PROVE  BookInv'
<1>1. /\ file' \in [Job -> Record \cup {NoRecord}] /\ file'[j] = rec /\ rec # NoRecord
      /\ pc' \in [Job -> Place] /\ pc'[j] = p
      /\ \A k \in Job : k # j => file'[k] = file[k] /\ pc'[k] = pc[k]
      /\ chapter \in Nat /\ chapter' \in 0..MaxChapter /\ chapter <= chapter'
  <2>1. /\ file \in [Job -> Record \cup {NoRecord}] /\ pc \in [Job -> Place]
        /\ chapter \in 0..MaxChapter /\ MaxChapter \in Nat /\ rec # NoRecord
    BY Records, Constants DEF BookInv, Types
  <2>2. chapter \in Nat /\ chapter' \in 0..MaxChapter /\ chapter <= chapter'
    BY <2>1
  <2>3. file' \in [Job -> Record \cup {NoRecord}] /\ pc' \in [Job -> Place]
    BY <2>1
  <2> QED
    BY <2>1, <2>2, <2>3
<1>2. \A k \in Job : Exists(k) => Exists(k)'
  BY <1>1 DEF Exists
<1>3. Types'
  <2>1. latest' \in Job \cup {NoJob} /\ (latest' # NoJob => Exists(latest'))
    BY DEF BookInv, Types
  <2>2. latest' # NoJob => file'[latest'] # NoRecord
    BY <1>1, <2>1 DEF Exists
  <2>3. registered' \in Job \cup {NoJob} /\ (registered' # NoJob => file'[registered'] # NoRecord)
    BY <1>1 DEF BookInv, Types, Exists
  <2>4. \A k \in Job : pc'[k] # "none" => file'[k] # NoRecord
    BY <1>1 DEF BookInv, Types, Exists
  <2>5. \A r \in Reader : req'[r] # Idle => file'[req'[r].job] # NoRecord
    <3> SUFFICES ASSUME NEW r \in Reader, req[r] # Idle
                 PROVE  file'[req[r].job] # NoRecord
      OBVIOUS
    <3>1. req[r].job \in Job /\ file[req[r].job] # NoRecord
      BY Requests DEF BookInv, Types, Exists
    <3> QED
      BY <1>1, <3>1
  <2>6. /\ queue' \in Seq(Job) /\ req' \in [Reader -> {Idle} \cup Served]
        /\ asked' \in 0..MaxChapter /\ crashes' \in 0..MaxCrashes
    BY DEF BookInv, Types
  <2> QED
    BY <1>1, <2>1, <2>2, <2>3, <2>4, <2>5, <2>6 DEF Types, Exists
<1>4. QueueOK'
  <2>1. \A k \in Job : pc'[k] # "none" <=> pc[k] # "none"
    BY <1>1
  <2> QED
    BY <2>1 DEF BookInv, QueueOK
<1>5. \A k \in Job : InOrder(k)' /\ (Exists(k)' => file'[k].done \subseteq 1..chapter')
  <2> SUFFICES ASSUME NEW k \in Job
               PROVE  InOrder(k)' /\ (Exists(k)' => file'[k].done \subseteq 1..chapter')
    OBVIOUS
  <2>1. CASE k = j
    BY <1>1, <2>1
  <2>2. CASE k # j
    BY <1>1, <2>2, OtherBook
  <2> QED
    BY <2>1, <2>2
<1>6. CopiesInOrder'
  <2> SUFFICES ASSUME NEW r \in Reader
               PROVE  CopyInOrder(req[r])'
    BY DEF CopiesInOrder
  <2>1. CopyInOrder(req[r])
    BY DEF BookInv, CopiesInOrder
  <2> QED
    BY <1>1, <2>1 DEF CopyInOrder
<1> QED
  BY <1>3, <1>4, <1>5, <1>6 DEF BookInv, CompletedAreOfficial

\* A count that does not change is right for a book that grows.
LEMMA TallyKept ==
  ASSUME BookInv, NEW j \in Job, NEW r \in Record, Tally(j, r), wrote'[j] = wrote[j],
         chapter' \in chapter..MaxChapter
  PROVE  Tally(j, r)'
<1>1. chapter \in Nat /\ chapter' \in Nat /\ chapter <= chapter' /\ r.done \subseteq 1..MaxChapter
  BY Constants DEF BookInv, Types, Record
<1> QED
  BY <1>1 DEF Tally, Listed

\* What a request holds stays as good as the file while the job waits.
LEMMA FaithfulKept ==
  ASSUME BookInv, NEW q \in Served, Faithful(q), chapter' \in chapter..MaxChapter,
         Untouched(q.job)' =>
           /\ Untouched(q.job) /\ wrote'[q.job] = wrote[q.job]
           /\ file'[q.job].phase \in {file[q.job].phase} \cup SafeRecovery
  PROVE  Faithful(q)'
<1> SUFFICES ASSUME Untouched(q.job)'
             PROVE  Faithful(q)'
  BY DEF Faithful
<1>1. q.job \in Job /\ Untouched(q.job) /\ wrote'[q.job] = wrote[q.job]
  BY Requests
<1>2. ASSUME q.at \in {"read", "unregistered"}
      PROVE  Tally(q.job, q.seen)'
  BY <1>1, <1>2, Requests, TallyKept DEF Faithful
<1>3. ASSUME q.at = "save"
      PROVE  Tally(q.job, q.copy)'
  BY <1>1, <1>3, Requests, TallyKept DEF Faithful
<1> QED
  BY <1>1, <1>2, <1>3 DEF Faithful

\* What a step has to show to keep RunInv
LEMMA RunKept ==
  ASSUME BookInv, RunInv, overtaken \subseteq overtaken', chapter' \in chapter..MaxChapter,
         \A k \in Job : k \notin overtaken' =>
           /\ RunOf(k)'
           /\ Untouched(k)' => /\ Untouched(k) /\ wrote'[k] = wrote[k]
                               /\ file'[k].phase \in {file[k].phase} \cup SafeRecovery,
         \A r \in Reader : \/ req'[r] \in {Idle, req[r]}
                           \/ req'[r].job \notin overtaken' => Faithful(req[r])'
  PROVE  RunInv'
<1>1. ASSUME NEW r \in Reader, req'[r] # Idle, req'[r].job \notin overtaken', req'[r] = req[r]
      PROVE  Faithful(req[r])'
  <2>1. PICK q \in Served : q = req[r]
    BY <1>1 DEF BookInv, Types
  <2>2. q.job \in Job /\ q.job \notin overtaken' /\ Faithful(q)
    BY <1>1, <2>1, Requests DEF Served, RunInv
  <2>3. Faithful(q)'
    BY <2>2, FaithfulKept
  <2> QED
    BY <1>1, <2>1, <2>3
<1>2. \A r \in Reader : (req[r] # Idle /\ req[r].job \notin overtaken => Faithful(req[r]))'
  BY <1>1
<1>3. \A k \in Job : (k \notin overtaken => RunOf(k))'
  OBVIOUS
<1> QED
  BY <1>2, <1>3 DEF RunInv

\* A worker step keeps RunInv if it keeps it for its own job.
LEMMA WorkerRun ==
  ASSUME BookInv, RunInv, NEW j \in Job, j \notin overtaken => RunOf(j)',
         pc[j] # "none", pc'[j] # "none",
         \A k \in Job : k # j =>
           /\ file'[k] = file[k] /\ pc'[k] = pc[k] /\ next'[k] = next[k]
           /\ wrote'[k] = wrote[k] /\ late'[k] = late[k],
         chapter' \in chapter..MaxChapter, crashes' = crashes, overtaken' = overtaken,
         registered' = registered, req' = req
  PROVE  RunInv'
<1>1. ASSUME NEW k \in Job, k \notin overtaken
      PROVE  /\ RunOf(k)'
             /\ Untouched(k)' => /\ Untouched(k) /\ wrote'[k] = wrote[k]
                                 /\ file'[k].phase \in {file[k].phase} \cup SafeRecovery
  <2>1. CASE k = j
    <3>1. RunOf(j)'
      BY <1>1, <2>1
    <3>2. ~Untouched(j)'
      BY <3>1 DEF RunOf, Registration, Working, Untouched, Active, Terminal
    <3> QED
      BY <2>1, <3>1, <3>2
  <2>2. CASE k # j
    <3>1. RunOf(k) /\ (Working(k) => registered' = k)
      BY <1>1 DEF RunInv, RunOf, Registration
    <3>2. Untouched(k)' => Untouched(k)
      BY <2>2 DEF Untouched
    <3> QED
      BY <2>2, <3>1, <3>2, OtherRun
  <2> QED
    BY <2>1, <2>2
<1> QED
  BY <1>1, RunKept

\* Both together, for a step of the runner of j
LEMMA WorkerStep ==
  ASSUME BookInv, NEW j \in Job, NEW place, place # "none", OnWorker(j, place),
         NEW p \in Place, p # "none", NEW rec \in Record, Goto(j, p),
         file' = [file EXCEPT ![j] = rec], latest' \in {latest, j},
         chapter' \in chapter..MaxChapter, rec.done \subseteq 1..chapter',
         next' \in [Job -> 0..MaxChapter], draft' \in [Job -> 0..MaxChapter],
         wrote' \in [Job -> Nat], late' \in [Job -> Nat],
         \A k \in Job : k # j => /\ next'[k] = next[k] /\ draft'[k] = draft[k]
                                 /\ wrote'[k] = wrote[k] /\ late'[k] = late[k],
         registered' = registered, queue' = queue, req' = req,
         asked' = asked, overtaken' = overtaken, crashes' = crashes,
         InOrder(j)',
         RunInv /\ j \notin overtaken => RunOf(j)'
  PROVE  BookInv' /\ (RunInv => RunInv')
<1>1. pc[j] # "none" /\ pc' = [pc EXCEPT ![j] = p]
  BY DEF OnWorker, Goto
<1>2. BookInv'
  BY <1>1, WorkerBook
<1>3. \A k \in Job : k # j => file'[k] = file[k] /\ pc'[k] = pc[k]
  BY <1>1 DEF BookInv, Types
<1>4. ASSUME RunInv
      PROVE  RunInv'
  <2>1. pc'[j] \notin {"none"} /\ chapter' \in chapter..MaxChapter
    BY <1>1 DEF BookInv, Types
  <2> QED
    BY <1>1, <1>3, <1>4, <2>1, WorkerRun
<1> QED
  BY <1>2, <1>4

\* What is known of the job on the worker
LEMMA OnWorkerFacts ==
  ASSUME BookInv, NEW j \in Job, NEW place, place # "none", OnWorker(j, place)
  PROVE  /\ pc[j] = place /\ Exists(j) /\ file[j] \in Record
         /\ file[j].done \subseteq 1..chapter
         /\ file = [file EXCEPT ![j] = file[j]]
         /\ chapter \in chapter..MaxChapter /\ chapter \in Nat
         /\ next \in [Job -> 0..MaxChapter] /\ draft \in [Job -> 0..MaxChapter]
         /\ wrote \in [Job -> Nat] /\ late \in [Job -> Nat] /\ latest \in {latest, j}
<1>1. pc[j] = place /\ pc[j] # "none"
  BY DEF OnWorker
<1>2. Exists(j) /\ file[j] \in Record
  BY <1>1, Records DEF BookInv, Types, Exists
<1> QED
  BY <1>1, <1>2, Constants DEF BookInv, Types, CompletedAreOfficial

\* update(job_id, status=..., phase=...) (continuous_generation.py:106-113)
With(r, status, phase) == [r EXCEPT !.status = status, !.phase = phase]

\* A job's file after saving.
LEMMA WithRecord ==
  ASSUME NEW r \in Record, NEW status \in Active \cup Terminal, NEW phase \in Phase
  PROVE  /\ With(r, status, phase) \in Record
         /\ With(r, status, phase).status = status /\ With(r, status, phase).phase = phase
         /\ With(r, status, phase).done = r.done /\ With(r, status, phase).count = r.count
         /\ With(r, status, phase).stop = r.stop
  BY DEF With, Record

\* A runner saves its job with another status or phase, and moves on.
LEMMA UpdateStep ==
  ASSUME BookInv, NEW j \in Job, NEW place, place \notin {"none", "closing", "queued"},
         OnWorker(j, place), NEW p \in Place, p # "none", Goto(j, p),
         NEW status \in Active \cup Terminal, NEW phase \in Phase, Update(j, status, phase),
         next' \in [Job -> 0..MaxChapter], draft' \in [Job -> 0..MaxChapter],
         \A k \in Job : k # j => next'[k] = next[k] /\ draft'[k] = draft[k],
         chapter' = chapter, registered' = registered, queue' = queue, req' = req,
         asked' = asked, wrote' = wrote, late' = late, overtaken' = overtaken,
         crashes' = crashes,
         InOrder(j)',
         RunInv /\ j \notin overtaken =>
           /\ IF p = "closing" THEN status \in Terminal ELSE status \in Active
           /\ p \in {"queued", "prepare", "loop", "gate"} => phase \in SafeRecovery
           /\ p \in {"generating", "generated"} => phase = "generating"
           /\ p \in {"confirming", "confirmed"} => phase = "confirming"
           /\ p \in {"gate", "generating", "generated", "confirming", "confirmed"} =>
                file[j].count < Count /\ \A n \in file[j].done : n < next'[j]
           /\ (status \in Active /\ phase \in SafeRecovery \cup {"generating"}) \/ p = "confirming"
                => wrote[j] <= Listed(file[j])
           /\ late[j] = 2 => p \notin {"gate", "generating", "generated", "confirming"}
  PROVE  BookInv' /\ (RunInv => RunInv')
<1> DEFINE rec == With(file[j], status, phase)
<1>1. file' = [file EXCEPT ![j] = rec] /\ latest' = j
  BY DEF Update, Save, With
<1>2. file[j] \in Record /\ Exists(j) /\ file[j].done \subseteq 1..chapter
  BY OnWorkerFacts
<1>3. /\ rec \in Record /\ rec.status = status /\ rec.phase = phase
      /\ rec.done = file[j].done /\ rec.count = file[j].count /\ rec.stop = file[j].stop
  BY <1>2, WithRecord
<1> HIDE DEF rec
<1>4. file'[j] = rec /\ pc'[j] = p /\ rec # NoRecord
  BY <1>1, <1>3, Records DEF BookInv, Types, Goto
<1>5. ASSUME RunInv, j \notin overtaken
      PROVE  RunOf(j)'
  <2>1. RunOf(j)
    BY <1>5 DEF RunInv
  <2>2. Registration(j)'
    <3>1. registered = j
      BY <2>1 DEF RunOf, Registration, Working, OnWorker
    <3> QED
      BY <1>3, <1>4, <1>5, <3>1 DEF Registration, Working
  <2>3. Announced(j)'
    BY <1>3, <1>4, <1>5 DEF Announced, Writing
  <2>4. Accounted(j)'
    BY <1>2, <1>3, <1>4, <1>5, <2>1 DEF RunOf, Accounted, Tally, Listed, Exists
  <2>5. Stopping(j)'
    BY <1>2, <1>3, <1>4, <1>5, <2>1 DEF RunOf, Stopping, Exists
  <2> QED
    BY <2>2, <2>3, <2>4, <2>5 DEF RunOf
<1> QED
  BY <1>1, <1>2, <1>3, <1>5, OnWorkerFacts, WorkerStep

\* The runner's first update (continuous_generation.py:180-184)
LEMMA PrepareSafe ==
  ASSUME BookInv, NEW j \in Job, Prepare(j)
  PROVE  BookInv' /\ (RunInv => RunInv')
<1>1. /\ OnWorker(j, "prepare") /\ Goto(j, "loop") /\ "loop" \in Place
      /\ Update(j, "running", file[j].phase)
      /\ UNCHANGED <<chapter, registered, queue, next, draft, req, asked, wrote, late, overtaken, crashes>>
  BY DEF Prepare, Place, history
<1>2. /\ pc[j] = "prepare" /\ pc'[j] = "loop" /\ "running" \in Active /\ file[j].phase \in Phase
  BY <1>1, OnWorkerFacts DEF Active, Record, BookInv, Types, Goto
<1>3. InOrder(j)'
  BY <1>2 DEF InOrder
<1>4. ASSUME RunInv, j \notin overtaken
      PROVE  file[j].phase \in SafeRecovery /\ wrote[j] <= Listed(file[j])
  BY <1>1, <1>2, <1>4, OnWorkerFacts DEF RunInv, RunOf, Announced, Accounted, Tally, Registration, Working
<1> QED
  BY <1>1, <1>2, <1>3, <1>4, OnWorkerFacts, UpdateStep

\* The checks before a chapter (continuous_generation.py:186-291)
LEMMA CheckSafe ==
  ASSUME BookInv, NEW j \in Job, Check(j)
  PROVE  BookInv' /\ (RunInv => RunInv')
<1>1. /\ OnWorker(j, "loop")
      /\ UNCHANGED <<chapter, registered, queue, draft, req, asked, wrote, late, overtaken, crashes>>
      /\ "closing" \in Place /\ "gate" \in Place
  BY DEF Check, Place, history
<1>2. /\ pc[j] = "loop" /\ file[j].phase \in Phase
      /\ {"between_chapters", "checking_outline"} \subseteq Phase
  BY <1>1, OnWorkerFacts DEF Record, Phase, SafeRecovery
<1>3. ASSUME NEW status \in Terminal, NEW phase \in Phase, Update(j, status, phase),
             Goto(j, "closing"), UNCHANGED next
      PROVE  BookInv' /\ (RunInv => RunInv')
  <2>1. pc'[j] = "closing" /\ status \notin Active
    BY <1>3 DEF BookInv, Types, Goto, Active, Terminal
  <2>2. InOrder(j)'
    BY <2>1 DEF InOrder
  <2>3. /\ next' = next /\ draft' = draft /\ status \in Active \cup Terminal
        /\ next' \in [Job -> 0..MaxChapter] /\ draft' \in [Job -> 0..MaxChapter]
    BY <1>1, <1>3, OnWorkerFacts
  <2>4. \A k \in Job : k # j => next'[k] = next[k] /\ draft'[k] = draft[k]
    BY <2>3
  <2> QED
    BY <1>1, <1>3, <2>1, <2>2, <2>3, <2>4, UpdateStep
<1>4. ASSUME ~file[j].stop, file[j].count < Count, chapter < MaxChapter,
             next' = [next EXCEPT ![j] = chapter + 1], Goto(j, "gate"), UNCHANGED disk
      PROVE  BookInv' /\ (RunInv => RunInv')
  <2>1. /\ chapter \in Nat /\ chapter + 1 \in 0..MaxChapter /\ MaxChapter \in Nat
        /\ file[j] \in Record /\ Exists(j) /\ file[j].done \subseteq 1..chapter
    <3>1. chapter \in 0..MaxChapter /\ MaxChapter \in Nat
      BY Constants DEF BookInv, Types
    <3> QED
      BY <1>1, <1>4, <3>1, OnWorkerFacts
  <2>2. /\ next' \in [Job -> 0..MaxChapter] /\ next'[j] = chapter + 1 /\ pc'[j] = "gate"
        /\ \A k \in Job : k # j => next'[k] = next[k]
        /\ file' = file /\ latest' = latest
    BY <1>4, <2>1 DEF BookInv, Types, Goto, disk
  <2>3. InOrder(j)'
    BY <1>1, <2>1, <2>2 DEF InOrder
  <2>4. ASSUME RunInv, j \notin overtaken
        PROVE  RunOf(j)'
    <3>1. RunOf(j) /\ file[j].phase \in SafeRecovery
      BY <1>2, <2>4 DEF RunInv, RunOf, Announced
    <3>2. Registration(j)'
      BY <1>1, <1>2, <2>2, <3>1 DEF RunOf, Registration, Working
    <3>3. Announced(j)'
      BY <1>4, <2>1, <2>2, <3>1 DEF Announced, Writing
    <3>4. Accounted(j)'
      BY <1>1, <2>1, <2>2, <3>1 DEF RunOf, Accounted, Tally, Listed, Exists
    <3>5. Stopping(j)'
      BY <1>1, <1>4, <2>1, <2>2, <3>1, OnWorkerFacts DEF RunOf, Stopping, Exists
    <3> QED
      BY <3>2, <3>3, <3>4, <3>5 DEF RunOf
  <2> QED
    BY <1>1, <1>4, <2>1, <2>2, <2>3, <2>4, OnWorkerFacts, WorkerStep
<1>5. CASE Update(j, "ended", file[j].phase) /\ Goto(j, "closing") /\ UNCHANGED next
  BY <1>2, <1>3, <1>5 DEF Terminal
<1>6. CASE Update(j, "ended", "between_chapters") /\ Goto(j, "closing") /\ UNCHANGED next
  BY <1>2, <1>3, <1>6 DEF Terminal
<1>7. ASSUME Update(j, "ended", "checking_outline"),
             Goto(j, "closing"), UNCHANGED next
      PROVE  BookInv' /\ (RunInv => RunInv')
  BY <1>2, <1>3, <1>7 DEF Terminal
<1> QED
  BY <1>4, <1>5, <1>6, <1>7 DEF Check

\* The phase generating is saved before the chapter is generated.
LEMMA AnnounceSafe ==
  ASSUME BookInv, NEW j \in Job, Announce(j)
  PROVE  BookInv' /\ (RunInv => RunInv')
<1>1. /\ OnWorker(j, "gate") /\ Goto(j, "generating") /\ "generating" \in Place
      /\ Update(j, "running", "generating")
      /\ UNCHANGED <<chapter, registered, queue, next, draft, req, asked, wrote, late, overtaken, crashes>>
  BY DEF Announce, Place, history
<1>2. /\ pc[j] = "gate" /\ pc'[j] = "generating" /\ "running" \in Active /\ "generating" \in Phase
  BY <1>1, OnWorkerFacts DEF Active, Phase, BookInv, Types, Goto
<1>3. InOrder(j)'
  BY <1>1, <1>2 DEF InOrder, BookInv
<1>4. ASSUME RunInv, j \notin overtaken
      PROVE  /\ file[j].count < Count /\ \A n \in file[j].done : n < next[j]
             /\ wrote[j] <= Listed(file[j]) /\ late[j] # 2
  <2>1. RunOf(j) /\ file[j].phase \in SafeRecovery /\ file[j].status \in Active
    BY <1>2, <1>4 DEF RunInv, RunOf, Announced, Registration, Working
  <2> QED
    BY <1>1, <1>2, <2>1, OnWorkerFacts DEF RunOf, Announced, Writing, Accounted, Tally, Stopping
<1> QED
  BY <1>1, <1>2, <1>3, <1>4, OnWorkerFacts, UpdateStep

\* The phase confirming is saved before the candidate is confirmed.
LEMMA SubmitSafe ==
  ASSUME BookInv, NEW j \in Job, Submit(j)
  PROVE  BookInv' /\ (RunInv => RunInv')
<1>1. /\ OnWorker(j, "generated") /\ Goto(j, "confirming") /\ "confirming" \in Place
      /\ Update(j, file[j].status, "confirming")
      /\ UNCHANGED <<chapter, registered, queue, next, draft, req, asked, wrote, late, overtaken, crashes>>
  BY DEF Submit, Place, history
<1>2. /\ pc[j] = "generated" /\ pc'[j] = "confirming" /\ "confirming" \in Phase
      /\ file[j].status \in Active \cup Terminal
  BY <1>1, OnWorkerFacts DEF Phase, BookInv, Types, Goto, Record
<1>3. InOrder(j)'
  BY <1>1, <1>2 DEF InOrder, BookInv
<1>4. ASSUME RunInv, j \notin overtaken
      PROVE  /\ file[j].count < Count /\ \A n \in file[j].done : n < next[j]
             /\ wrote[j] <= Listed(file[j]) /\ late[j] # 2 /\ file[j].status \in Active
  <2>1. RunOf(j) /\ file[j].phase = "generating" /\ file[j].status \in Active
    BY <1>2, <1>4 DEF RunInv, RunOf, Announced, Registration, Working
  <2> QED
    BY <1>1, <1>2, <2>1, OnWorkerFacts DEF RunOf, Announced, Writing, Accounted, Tally, Stopping
<1> QED
  BY <1>1, <1>2, <1>3, <1>4, OnWorkerFacts, UpdateStep

\* A runner fails, or stops for an answer it did not get.
LEMMA EndSafe ==
  ASSUME BookInv, NEW j \in Job, NEW place, place \notin {"none", "closing", "queued"}, OnWorker(j, place),
         NEW status \in Terminal, Update(j, status, file[j].phase), Goto(j, "closing"),
         UNCHANGED <<chapter, registered, queue, next, draft, req, asked, wrote, late, overtaken, crashes>>
  PROVE  BookInv' /\ (RunInv => RunInv')
<1>1. /\ pc'[j] = "closing" /\ "closing" \in Place /\ status \notin Active
      /\ status \in Active \cup Terminal
  BY DEF BookInv, Types, Goto, Active, Terminal, Place
<1>2. file[j].phase \in Phase
  BY OnWorkerFacts DEF Record
<1>3. InOrder(j)'
  BY <1>1 DEF InOrder
<1>4. next' \in [Job -> 0..MaxChapter] /\ draft' \in [Job -> 0..MaxChapter]
  BY OnWorkerFacts
<1> QED
  BY <1>1, <1>2, <1>3, <1>4, UpdateStep

\* project_store.generate_next_chapter (continuous_generation.py:308-316)
LEMMA GenerateSafe ==
  ASSUME BookInv, NEW j \in Job, Generate(j)
  PROVE  BookInv' /\ (RunInv => RunInv')
<1>1. /\ OnWorker(j, "generating") /\ pc[j] = "generating" /\ "generated" \in Place
      /\ UNCHANGED <<chapter, registered, queue, next, req, asked, wrote, late, overtaken, crashes>>
  BY DEF Generate, Place, history, OnWorker
<1>2. CASE Update(j, "ended", file[j].phase) /\ Goto(j, "closing") /\ UNCHANGED draft
  BY <1>1, <1>2, EndSafe DEF Terminal
<1>3. CASE /\ chapter < MaxChapter /\ draft' = [draft EXCEPT ![j] = chapter + 1]
           /\ Goto(j, "generated") /\ UNCHANGED disk
  <2>1. chapter \in 0..MaxChapter /\ MaxChapter \in Nat /\ chapter + 1 \in 0..MaxChapter
    BY <1>3, Constants DEF BookInv, Types
  <2>2. /\ draft' \in [Job -> 0..MaxChapter] /\ draft'[j] = chapter + 1 /\ pc'[j] = "generated"
        /\ \A k \in Job : k # j => draft'[k] = draft[k]
        /\ file' = file /\ latest' = latest
    BY <1>3, <2>1 DEF BookInv, Types, Goto, disk
  <2>3. InOrder(j)'
    BY <1>1, <2>1, <2>2 DEF InOrder, BookInv
  <2>4. ASSUME RunInv, j \notin overtaken
        PROVE  RunOf(j)'
    <3>1. RunOf(j) /\ file[j].phase = "generating"
      BY <1>1, <2>4 DEF RunInv, RunOf, Announced
    <3>2. Registration(j)'
      BY <1>1, <2>2, <3>1 DEF RunOf, Registration, Working
    <3>3. Announced(j)'
      BY <1>1, <2>2, <3>1 DEF RunOf, Announced, Writing
    <3>4. Accounted(j)'
      BY <1>1, <2>2, <3>1 DEF RunOf, Accounted, Tally, Listed, Exists
    <3>5. Stopping(j)'
      BY <1>1, <2>2, <3>1 DEF RunOf, Stopping, Exists
    <3> QED
      BY <3>2, <3>3, <3>4, <3>5 DEF RunOf
  <2> QED
    BY <1>1, <1>3, <2>1, <2>2, <2>3, <2>4, OnWorkerFacts, WorkerStep
<1> QED
  BY <1>2, <1>3 DEF Generate

\* confirm_candidate (continuous_generation.py:336-388): the chapter is in the
\* book, and not on the job's list yet.
LEMMA ConfirmSafe ==
  ASSUME BookInv, NEW j \in Job, Confirm(j)
  PROVE  BookInv' /\ (RunInv => RunInv')
<1>1. /\ OnWorker(j, "confirming") /\ pc[j] = "confirming" /\ "confirmed" \in Place
      /\ UNCHANGED <<registered, queue, next, draft, req, asked, overtaken, crashes>>
  BY DEF Confirm, Place, OnWorker, history
<1>2. ASSUME Update(j, "ended", file[j].phase),
             Goto(j, "closing"), UNCHANGED <<chapter, history>>
      PROVE  BookInv' /\ (RunInv => RunInv')
  BY <1>1, <1>2, EndSafe DEF Terminal, history
<1>3. CASE /\ draft[j] > chapter /\ chapter' = draft[j]
           /\ wrote' = [wrote EXCEPT ![j] = @ + 1]
           /\ late' = [late EXCEPT ![j] = IF @ = 0 THEN 0 ELSE @ + 1]
           /\ Goto(j, "confirmed") /\ UNCHANGED disk
  <2>1. /\ chapter \in 0..MaxChapter /\ MaxChapter \in Nat /\ draft[j] \in 0..MaxChapter
        /\ next[j] \in 1..draft[j] /\ wrote[j] \in Nat /\ late[j] \in Nat
        /\ file[j] \in Record /\ Exists(j) /\ file[j].done \subseteq 1..chapter
    BY <1>1, Constants, OnWorkerFacts DEF BookInv, Types, InOrder
  <2>2. /\ chapter' \in chapter..MaxChapter /\ chapter' > chapter
        /\ file[j].done \subseteq 1..chapter'
    BY <1>3, <2>1
  <2>3. /\ wrote' \in [Job -> Nat] /\ wrote'[j] = wrote[j] + 1
        /\ late' \in [Job -> Nat] /\ late'[j] = (IF late[j] = 0 THEN 0 ELSE late[j] + 1)
        /\ \A k \in Job : k # j => wrote'[k] = wrote[k] /\ late'[k] = late[k]
    BY <1>3, <2>1 DEF BookInv, Types
  <2>4. pc'[j] = "confirmed" /\ file' = file /\ latest' = latest
    BY <1>3, <2>1 DEF BookInv, Types, Goto, disk
  <2>5. InOrder(j)'
    BY <1>1, <1>3, <2>1, <2>4 DEF InOrder
  <2>6. ASSUME RunInv, j \notin overtaken
        PROVE  RunOf(j)'
    <3>1. /\ RunOf(j) /\ file[j].phase = "confirming" /\ wrote[j] <= Listed(file[j])
          /\ Listed(file[j]) <= file[j].count /\ file[j].count < Count
      BY <1>1, <2>1, <2>6 DEF RunInv, RunOf, Announced, Accounted, Tally, Writing
    <3>2. Listed(file[j]) \in Nat /\ file[j].count \in Nat
      BY <2>1, Lists, Records DEF Listed
    <3>3. Registration(j)'
      BY <1>1, <2>4, <3>1 DEF RunOf, Registration, Working
    <3>4. Announced(j)'
      BY <1>1, <2>4, <3>1 DEF RunOf, Announced, Writing
    <3>5. Accounted(j)'
      <4>1. /\ Listed(file[j])' = Listed(file[j]) /\ Exists(j)' /\ file'[j] = file[j]
            /\ \A n \in file[j].done : n < chapter'
        BY <2>1, <2>2, <2>4 DEF Listed, Exists
      <4>2. wrote'[j] <= Count /\ wrote'[j] <= Listed(file[j]) + 1
        BY <2>1, <2>3, <3>1, <3>2, Constants
      <4>3. file[j].phase \notin SafeRecovery \cup {"generating"}
        BY <3>1 DEF SafeRecovery
      <4> QED
        BY <2>4, <3>1, <4>1, <4>2, <4>3 DEF Accounted, Tally
    <3>6. Stopping(j)'
      BY <1>1, <2>1, <2>3, <2>4, <3>1 DEF RunOf, Stopping, Exists
    <3> QED
      BY <3>3, <3>4, <3>5, <3>6 DEF RunOf
  <2> QED
    BY <1>1, <1>3, <2>1, <2>2, <2>3, <2>4, <2>5, <2>6, OnWorkerFacts, WorkerStep
<1> QED
  BY <1>2, <1>3 DEF Confirm

\* The confirmed chapter is recorded (continuous_generation.py:388-400).
LEMMA AccountSafe ==
  ASSUME BookInv, NEW j \in Job, Account(j)
  PROVE  BookInv' /\ (RunInv => RunInv')
<1> DEFINE done == file[j].done \cup {next[j]}
           count == IF next[j] \in file[j].done THEN file[j].count ELSE file[j].count + 1
           rec == [file[j] EXCEPT !.done = done, !.phase = "between_chapters", !.count = count]
<1>1. /\ OnWorker(j, "confirmed") /\ pc[j] = "confirmed" /\ Goto(j, "loop") /\ "loop" \in Place
      /\ file' = [file EXCEPT ![j] = rec] /\ latest' = j
      /\ UNCHANGED <<chapter, registered, queue, next, draft, req, asked, wrote, late, overtaken, crashes>>
  BY DEF Account, Place, OnWorker, Save, history
<1>2. /\ file[j] \in Record /\ Exists(j) /\ file[j].done \in SUBSET (1..MaxChapter)
      /\ file[j].done \subseteq 1..chapter /\ next[j] \in 1..chapter
      /\ chapter \in 0..MaxChapter /\ MaxChapter \in Nat /\ file[j].count \in Nat
  BY <1>1, OnWorkerFacts, Records, Constants DEF BookInv, Types, InOrder
<1>3. done \in SUBSET (1..MaxChapter) /\ done \subseteq 1..chapter /\ count \in Nat
  BY <1>2
<1>4. Cardinality(file[j].done) \in Nat
      /\ Cardinality(done) = IF next[j] \in file[j].done THEN Cardinality(file[j].done)
                             ELSE Cardinality(file[j].done) + 1
  BY <1>2, Lists
<1>5. /\ next[j] \in file[j].done => count = file[j].count
      /\ next[j] \notin file[j].done => count = file[j].count + 1
      /\ next[j] \notin file[j].done => Cardinality(done) = Cardinality(file[j].done) + 1
  BY <1>4
<1> HIDE DEF done, count
<1>6. /\ rec \in Record /\ rec.done = done /\ rec.count = count
      /\ rec.phase = "between_chapters" /\ rec.stop = file[j].stop /\ rec.status = file[j].status
  BY <1>2, <1>3 DEF Record, Phase, SafeRecovery
<1> HIDE DEF rec
<1>7. file'[j] = rec /\ pc'[j] = "loop" /\ rec # NoRecord
  BY <1>1, <1>6, Records DEF BookInv, Types, Goto
<1>8. InOrder(j)'
  BY <1>7 DEF InOrder
<1>9. ASSUME RunInv, j \notin overtaken
      PROVE  RunOf(j)'
  <2>1. /\ RunOf(j) /\ next[j] \notin file[j].done /\ Listed(file[j]) <= file[j].count
        /\ wrote[j] <= Listed(file[j]) + 1 /\ wrote[j] <= Count /\ wrote[j] \in Nat
    BY <1>1, <1>2, <1>9 DEF RunInv, RunOf, Announced, Accounted, Tally, Writing, BookInv, Types
  <2>2. Registration(j)'
    BY <1>1, <1>6, <1>7, <2>1 DEF RunOf, Registration, Working
  <2>3. Announced(j)'
    BY <1>6, <1>7 DEF Announced, Writing, SafeRecovery
  <2>4. Accounted(j)'
    <3>1. Listed(file[j])' = Listed(file[j]) + 1 /\ Listed(file[j]) \in Nat /\ count = file[j].count + 1
      BY <1>4, <1>5, <1>6, <1>7, <2>1 DEF Listed
    <3>2. Listed(file[j])' <= count /\ wrote[j] <= Listed(file[j])' /\ wrote[j] # Listed(file[j])' + 1
      BY <1>2, <2>1, <3>1
    <3> QED
      BY <1>1, <1>6, <1>7, <2>1, <3>1, <3>2 DEF Accounted, Tally, Exists
  <2>5. Stopping(j)'
    BY <1>1, <1>2, <1>6, <1>7, <2>1 DEF RunOf, Stopping, Exists
  <2> QED
    BY <2>2, <2>3, <2>4, <2>5 DEF RunOf
<1> QED
  BY <1>1, <1>3, <1>6, <1>8, <1>9, OnWorkerFacts, WorkerStep

\* A repair counts a chapter only if that is one the job has written and not recorded.
LEMMA RepairedTally ==
  ASSUME BookInv, NEW j \in Job, NEW r \in Record, r.done \subseteq 1..chapter, Tally(j, r),
         NEW rec, rec = Repaired(r)
  PROVE  Tally(j, rec)
<1>1. /\ r.done \in SUBSET (1..MaxChapter) /\ r.count \in Nat
      /\ wrote[j] \in Nat /\ chapter \in 0..MaxChapter
  BY DEF BookInv, Types, Record
<1>2. rec \in Record /\ rec # NoRecord
  BY <1>1, RepairedRecord, Records
<1>3. Cardinality(r.done) \in Nat
      /\ Cardinality(r.done \cup {chapter}) =
           IF chapter \in r.done THEN Cardinality(r.done) ELSE Cardinality(r.done) + 1
  BY <1>1, Lists
<1>4. /\ Cardinality(r.done) <= r.count
      /\ wrote[j] <= Cardinality(r.done) + 1
      /\ wrote[j] = Cardinality(r.done) + 1 => \A n \in r.done : n < chapter
      /\ r.status \in Active /\ r.phase \in SafeRecovery => wrote[j] <= Cardinality(r.done)
  BY DEF Tally, Listed
<1>5. CASE rec.done = r.done /\ rec.count = r.count /\ rec.phase = r.phase
  <2>1. rec.status \in Active => r.status \in Active /\ r.phase \in SafeRecovery
    BY <1>1, <1>5, RepairedRecord
  <2> QED
    BY <1>2, <1>4, <1>5, <2>1 DEF Tally, Listed
<1>6. CASE rec.done = r.done \cup {chapter} /\ rec.count = Cardinality(r.done) + 1
  <2>1. wrote[j] = Cardinality(r.done) + 1 => chapter \notin r.done
    BY <1>1, <1>4
  <2>2. /\ wrote[j] <= Cardinality(rec.done) /\ Cardinality(rec.done) <= rec.count
        /\ Cardinality(rec.done) \in Nat
    BY <1>1, <1>3, <1>4, <1>6, <2>1
  <2>3. wrote[j] # Cardinality(rec.done) + 1 /\ wrote[j] <= Cardinality(rec.done) + 1
    BY <1>1, <2>2
  <2> QED
    BY <2>2, <2>3 DEF Tally, Listed
<1> QED
  BY <1>1, <1>5, <1>6, RepairedRecord

\* A runner begins with a repair (continuous_generation.py:166-175).
LEMMA LoadSafe ==
  ASSUME BookInv, NEW j \in Job, Load(j)
  PROVE  BookInv' /\ (RunInv => RunInv')
<1> DEFINE rec == Repaired(file[j])
           p == IF rec.status \in Terminal THEN "closing" ELSE "prepare"
<1>1. /\ OnWorker(j, "queued") /\ pc[j] = "queued" /\ Goto(j, p) /\ p \in Place /\ p # "none"
      /\ UNCHANGED <<chapter, registered, queue, next, draft, req, asked, wrote, late, overtaken, crashes>>
  BY DEF Load, Place, OnWorker, history
<1>2. /\ file[j] \in Record /\ Exists(j) /\ file[j].done \subseteq 1..chapter
      /\ chapter \in 0..MaxChapter
  BY <1>1, OnWorkerFacts DEF BookInv, Types
<1>3. /\ rec \in Record /\ rec.done \subseteq 1..chapter /\ rec.stop = file[j].stop
      /\ rec.status \in Active \cup Terminal /\ p \in {"closing", "prepare"}
      /\ p = "closing" <=> rec.status \in Terminal
      /\ file[j].phase \in SafeRecovery => rec.phase = file[j].phase
  BY <1>2, RepairedRecord DEF Record
<1>4. file' = [file EXCEPT ![j] = rec] /\ latest' \in {latest, j}
  BY <1>1, OnWorkerFacts DEF Load, Reconcile, Save, disk
<1> HIDE DEF p
<1>5. file'[j] = Repaired(file[j]) /\ pc'[j] = p
  BY <1>1, <1>4 DEF BookInv, Types, Goto
<1>6. InOrder(j)'
  BY <1>3, <1>5 DEF InOrder
<1>7. ASSUME RunInv, j \notin overtaken
      PROVE  RunOf(j)'
  <2>1. /\ RunOf(j) /\ Tally(j, file[j]) /\ wrote[j] <= Count
        /\ file[j].status \in Active => file[j].phase \in SafeRecovery /\ registered = j
    BY <1>1, <1>2, <1>7 DEF RunInv, RunOf, Announced, Accounted, Registration, Working
  <2>2. rec.status \in Active => file[j].status \in Active
    BY <1>2, RepairedRecord
  <2>3. Registration(j)'
    BY <1>1, <1>3, <1>5, <2>1, <2>2 DEF Registration, Working, Active, Terminal
  <2>4. Announced(j)'
    BY <1>3, <1>5, <2>1, <2>2 DEF Announced, Writing, Active, Terminal
  <2>5. Accounted(j)'
    <3>1. Tally(j, rec) /\ rec # NoRecord
      BY <1>2, <1>3, <2>1, RepairedTally, Records
    <3> QED
      BY <1>1, <1>3, <1>5, <2>1, <3>1 DEF Accounted, Tally, Listed, Exists
  <2>6. Stopping(j)'
    <3>1. file'[j] # NoRecord /\ file'[j].stop = file[j].stop
      BY <1>3, <1>5, Records
    <3> QED
      BY <1>1, <1>2, <1>3, <1>5, <2>1, <3>1 DEF RunOf, Stopping, Exists
  <2> QED
    BY <2>3, <2>4, <2>5, <2>6 DEF RunOf
<1> HIDE DEF rec
<1> QED
  BY <1>1, <1>3, <1>4, <1>6, <1>7, OnWorkerFacts, WorkerStep

\* The finally clause (file_projects.py:1289-1300)
LEMMA CloseSafe ==
  ASSUME BookInv, NEW j \in Job, Close(j)
  PROVE  BookInv' /\ (RunInv => RunInv')
<1>1. /\ queue # <<>> /\ Head(queue) = j /\ pc[j] = "closing"
      /\ registered' = (IF registered = j THEN NoJob ELSE registered)
      /\ queue' = Tail(queue) /\ pc' = [pc EXCEPT ![j] = "none"]
      /\ next' = [next EXCEPT ![j] = 0] /\ draft' = [draft EXCEPT ![j] = 0]
      /\ UNCHANGED <<chapter, file, latest, req, asked, wrote, late, overtaken, crashes>>
  BY DEF Close, OnWorker, Goto, disk, history
<1>2. /\ pc' \in [Job -> Place] /\ pc'[j] = "none"
      /\ next' \in [Job -> 0..MaxChapter] /\ draft' \in [Job -> 0..MaxChapter]
      /\ \A k \in Job : k # j => pc'[k] = pc[k] /\ next'[k] = next[k] /\ draft'[k] = draft[k]
  <2>1. "none" \in Place /\ 0 \in 0..MaxChapter
    BY Constants DEF Place
  <2> QED
    BY <1>1, <2>1 DEF BookInv, Types
<1>3. /\ queue \in Seq(Job) /\ Len(queue) \in Nat /\ Len(queue) > 0 /\ j = queue[1]
      /\ queue' \in Seq(Job) /\ Len(queue') = Len(queue) - 1
      /\ \A i \in 1..Len(queue') : queue'[i] = queue[i + 1]
  <2>1. queue \in Seq(Job) /\ queue # <<>>
    BY <1>1 DEF BookInv, Types
  <2>2. Len(queue) \in Nat /\ Len(queue) > 0 /\ j = queue[1]
    BY <1>1, <2>1
  <2>3. Tail(queue) \in Seq(Job) /\ Len(Tail(queue)) = Len(queue) - 1
    BY <2>1
  <2>4. \A i \in 1..Len(Tail(queue)) : Tail(queue)[i] = queue[i + 1]
    BY <2>1
  <2> QED
    BY <1>1, <2>1, <2>2, <2>3, <2>4
<1>4. QueueOK'
  <2>1. \A i, k \in 1..Len(queue') : queue'[i] = queue'[k] => i = k
    <3> SUFFICES ASSUME NEW i \in 1..Len(queue'), NEW k \in 1..Len(queue'), queue'[i] = queue'[k]
                 PROVE  i = k
      OBVIOUS
    <3>1. i + 1 \in 1..Len(queue) /\ k + 1 \in 1..Len(queue) /\ queue[i + 1] = queue[k + 1]
      BY <1>3
    <3> QED
      BY <3>1 DEF BookInv, QueueOK
  <2>2. ASSUME NEW k \in Job
        PROVE  pc'[k] # "none" <=> \E i \in 1..Len(queue') : queue'[i] = k
    <3>1. ASSUME NEW i \in 1..Len(queue'), queue'[i] = k
          PROVE  pc'[k] # "none"
      <4>1. i + 1 \in 1..Len(queue) /\ queue[i + 1] = k /\ 1 \in 1..Len(queue) /\ i + 1 # 1
        BY <1>3, <3>1
      <4>2. k # j
        BY <1>3, <4>1 DEF BookInv, QueueOK
      <4> QED
        BY <1>2, <4>1, <4>2 DEF BookInv, QueueOK
    <3>2. ASSUME pc'[k] # "none"
          PROVE  \E i \in 1..Len(queue') : queue'[i] = k
      <4>1. k # j /\ pc[k] # "none"
        BY <1>2, <3>2
      <4>2. PICK i \in 1..Len(queue) : queue[i] = k
        BY <4>1 DEF BookInv, QueueOK
      <4>3. i # 1 /\ i - 1 \in 1..Len(queue')
        BY <1>3, <4>1, <4>2
      <4>4. queue'[i - 1] = k
        BY <1>3, <4>2, <4>3
      <4> QED
        BY <4>3, <4>4
    <3> QED
      BY <3>1, <3>2
  <2>3. ASSUME queue' # <<>>
        PROVE  registered' = queue'[Len(queue')]
    <3>1. Len(queue') \in 1..Len(queue') /\ Len(queue) \in 1..Len(queue) /\ Len(queue) # 1
          /\ 1 \in 1..Len(queue)
      BY <1>3, <2>3
    <3>2. queue'[Len(queue')] = queue[Len(queue)] /\ registered = queue[Len(queue)]
      BY <1>1, <1>3, <3>1 DEF BookInv, QueueOK
    <3>3. registered # j
      BY <1>3, <3>1, <3>2 DEF BookInv, QueueOK
    <3> QED
      BY <1>1, <3>2, <3>3
  <2> QED
    BY <2>1, <2>2, <2>3 DEF QueueOK
<1>5. Types'
  <2>1. registered' \in Job \cup {NoJob} /\ (registered' # NoJob => Exists(registered'))
    BY <1>1 DEF BookInv, Types
  <2>2. \A k \in Job : pc'[k] # "none" => Exists(k)
    BY <1>2 DEF BookInv, Types
  <2> QED
    BY <1>1, <1>2, <1>3, <2>1, <2>2 DEF BookInv, Types, Exists
<1>6. CompletedAreOfficial' /\ CopiesInOrder'
  BY <1>1 DEF BookInv, CompletedAreOfficial, CopiesInOrder, CopyInOrder, Exists
<1>7. \A k \in Job : InOrder(k)'
  BY <1>1, <1>2 DEF BookInv, InOrder
<1>8. BookInv'
  BY <1>4, <1>5, <1>6, <1>7 DEF BookInv
<1>9. ASSUME RunInv
      PROVE  RunInv'
  <2>1. ASSUME NEW k \in Job, k \notin overtaken
        PROVE  /\ RunOf(k)'
               /\ Untouched(k)' => Untouched(k)
    <3>1. RunOf(k)
      BY <1>9, <2>1 DEF RunInv
    <3>2. CASE k # j
      <4>1. Working(k) => registered' = k
        BY <1>1, <3>1, <3>2 DEF RunOf, Registration
      <4>2. Untouched(k)' => Untouched(k)
        BY <1>1, <3>2 DEF Untouched
      <4> QED
        BY <1>1, <1>2, <3>1, <3>2, <4>1, <4>2, SameChapter, OtherRun
    <3>3. CASE k = j
      <4>1. file[j].status \notin Active
        BY <1>1, <3>1, <3>3 DEF RunOf, Registration, Active, Terminal
      <4>2. ~Untouched(k)'
        BY <1>1, <3>3, <4>1 DEF Untouched
      <4>3. RunOf(k)'
        BY <1>1, <1>2, <3>1, <3>3, <4>1 DEF RunOf, Registration, Announced, Accounted, Tally,
           Stopping, Working, Writing, Listed, Exists
      <4> QED
        BY <4>2, <4>3
    <3> QED
      BY <3>2, <3>3
  <2> QED
    BY <1>1, <1>9, <2>1, SameChapter, RunKept
<1> QED
  BY <1>8, <1>9

-------------------------------------------------------------------------------
(* Requests, authors and stops *)

\* The parts of BookInv, put together again.
LEMMA RestBook ==
  ASSUME BookInv, chapter' \in 0..MaxChapter, chapter' >= chapter,
         file' \in [Job -> Record \cup {NoRecord}],
         \A k \in Job : file[k] # NoRecord => file'[k] # NoRecord,
         \A k \in Job : file'[k] # NoRecord => file'[k].done \subseteq 1..chapter',
         latest' \in Job \cup {NoJob}, latest' # NoJob => file'[latest'] # NoRecord,
         registered' \in Job \cup {NoJob}, registered' # NoJob => file'[registered'] # NoRecord,
         queue' \in Seq(Job), QueueOK',
         pc' \in [Job -> Place], \A k \in Job : pc'[k] # "none" => file'[k] # NoRecord,
         next' \in [Job -> 0..MaxChapter], draft' \in [Job -> 0..MaxChapter],
         \A k \in Job : InOrder(k)',
         req' \in [Reader -> {Idle} \cup Served],
         \A r \in Reader : \/ req'[r] \in {Idle, req[r]}
                           \/ file'[req'[r].job] # NoRecord /\ CopyInOrder(req[r])',
         asked' \in 0..MaxChapter, wrote' \in [Job -> Nat], late' \in [Job -> Nat],
         crashes' \in 0..MaxCrashes
  PROVE  BookInv'
<1>1. ASSUME NEW r \in Reader
      PROVE  /\ req'[r] # Idle => file'[req'[r].job] # NoRecord
             /\ CopyInOrder(req[r])'
  <2>1. CASE req'[r] = Idle
    BY <2>1 DEF CopyInOrder, Idle
  <2>2. CASE req'[r] = req[r] /\ req[r] # Idle
    <3>1. /\ req[r].job \in Job /\ file[req[r].job] # NoRecord
          /\ CopyInOrder(req[r]) /\ chapter \in 0..MaxChapter
      BY <2>2, Requests DEF BookInv, Types, CopiesInOrder, Exists
    <3>2. 1..chapter \subseteq 1..chapter'
      BY <3>1, Constants
    <3> QED
      BY <2>2, <3>1, <3>2 DEF CopyInOrder
  <2> QED
    BY <2>1, <2>2
<1>2. Types'
  BY <1>1 DEF Types, Exists
<1>3. CompletedAreOfficial' /\ CopiesInOrder'
  BY <1>1 DEF CompletedAreOfficial, CopiesInOrder, Exists
<1> QED
  BY <1>2, <1>3 DEF BookInv

\* What a step leaves alone keeps its type.
LEMMA Kept ==
  ASSUME BookInv
  PROVE  /\ chapter \in 0..MaxChapter /\ chapter \in Nat
         /\ file \in [Job -> Record \cup {NoRecord}]
         /\ \A k \in Job : file[k] # NoRecord =>
              file[k] \in Record /\ file[k].done \subseteq 1..chapter
         /\ latest \in Job \cup {NoJob} /\ (latest # NoJob => file[latest] # NoRecord)
         /\ registered \in Job \cup {NoJob} /\ (registered # NoJob => file[registered] # NoRecord)
         /\ queue \in Seq(Job) /\ QueueOK
         /\ pc \in [Job -> Place] /\ \A k \in Job : pc[k] # "none" => file[k] # NoRecord
         /\ next \in [Job -> 0..MaxChapter] /\ draft \in [Job -> 0..MaxChapter]
         /\ \A k \in Job : InOrder(k)
         /\ req \in [Reader -> {Idle} \cup Served]
         /\ \A r \in Reader : req[r] # Idle => req[r].job \in Job /\ file[req[r].job] # NoRecord
         /\ \A r \in Reader : CopyInOrder(req[r])
         /\ asked \in 0..MaxChapter /\ wrote \in [Job -> Nat] /\ late \in [Job -> Nat]
         /\ crashes \in 0..MaxCrashes
<1>1. \A r \in Reader : req[r] # Idle => req[r].job \in Job /\ file[req[r].job] # NoRecord
  BY Requests DEF BookInv, Types, Exists
<1> QED
  BY <1>1, Records, Constants DEF BookInv, Types, Exists, CompletedAreOfficial, CopiesInOrder

\* Outside the worker a runner is only queued or stopped; its chapter stays in order.
LEMMA OrderKept ==
  ASSUME BookInv, NEW k \in Job, pc'[k] = pc[k] \/ pc'[k] \in {"none", "queued"},
         next'[k] = next[k], draft'[k] = draft[k], chapter' \in 0..MaxChapter, chapter' >= chapter
  PROVE  InOrder(k)'
<1>1. /\ InOrder(k) /\ next[k] \in 0..MaxChapter /\ draft[k] \in 0..MaxChapter
      /\ chapter \in Nat /\ MaxChapter \in Nat
  BY Kept, Constants
<1> QED
  BY <1>1 DEF InOrder

\* With no job registered the executor has nothing to do.
LEMMA Unregistered ==
  ASSUME BookInv
  PROVE  /\ registered = NoJob => queue = <<>> /\ \A k \in Job : pc[k] = "none"
         /\ \A reg : registered = NoJob => (queue # <<>> => reg = queue[Len(queue)])
<1>1. QueueOK /\ queue \in Seq(Job)
  BY Kept
<1>2. ASSUME registered = NoJob
      PROVE  queue = <<>>
  <2>1. queue # <<>> => Len(queue) \in 1..Len(queue) /\ queue[Len(queue)] \in Job
    BY <1>1
  <2> QED
    BY <1>1, <1>2, <2>1, Constants DEF QueueOK
<1>3. ASSUME registered = NoJob, NEW k \in Job
      PROVE  pc[k] = "none"
  BY <1>1, <1>2, <1>3 DEF QueueOK
<1> QED
  BY <1>2, <1>3

\* One request goes on, the others stay where they are.
LEMMA Replaced ==
  ASSUME BookInv, NEW r \in Reader, NEW new \in {Idle} \cup Served,
         req' = [req EXCEPT ![r] = new]
  PROVE  /\ req' \in [Reader -> {Idle} \cup Served] /\ req'[r] = new
         /\ \A s \in Reader : s # r => req'[s] = req[s]
BY Kept

\* What does not move any job keeps RunInv, if the jobs in question stay as
\* registered as they are.
LEMMA StillRun ==
  ASSUME BookInv, RunInv, overtaken' = overtaken,
         UNCHANGED <<file, queue, pc, next, wrote, late, crashes>>,
         chapter' \in chapter..MaxChapter,
         registered' = registered \/ registered = NoJob,
         \A r \in Reader : \/ req'[r] \in {Idle, req[r]}
                           \/ req'[r].job \notin overtaken' => Faithful(req[r])'
  PROVE  RunInv'
<1>1. ASSUME NEW k \in Job, k \notin overtaken
      PROVE  RunOf(k)' /\ (Untouched(k)' => Untouched(k))
  <2>1. RunOf(k)
    BY <1>1 DEF RunInv
  <2>2. Working(k) => registered' = k
    BY <2>1, Constants DEF RunOf, Registration
  <2>3. Untouched(k)' => Untouched(k)
    BY Constants DEF Untouched
  <2> QED
    BY <2>1, <2>2, <2>3, OtherRun
<1> QED
  BY <1>1, RunKept

\* A request goes on, and touches nothing but what it holds.
LEMMA RequestStep ==
  ASSUME BookInv, NEW r \in Reader, NEW new \in Served, req' = [req EXCEPT ![r] = new],
         file[new.job] # NoRecord, CopyInOrder(new),
         RunInv /\ new.job \notin overtaken => Faithful(new),
         UNCHANGED <<chapter, file, latest, registered, queue, pc, next, draft, asked,
                     wrote, late, overtaken, crashes>>
  PROVE  BookInv' /\ (RunInv => RunInv')
<1>1. /\ req' \in [Reader -> {Idle} \cup Served] /\ req'[r] = new
      /\ \A s \in Reader : s # r => req'[s] = req[s]
  BY Replaced
<1>2. CopyInOrder(new)'
  BY DEF CopyInOrder
<1>3. BookInv'
  <2>1. QueueOK' /\ \A k \in Job : InOrder(k)'
    BY Kept DEF QueueOK, InOrder
  <2>2. \A s \in Reader : \/ req'[s] \in {Idle, req[s]}
                          \/ file'[req'[s].job] # NoRecord /\ CopyInOrder(req[s])'
    BY <1>1, <1>2
  <2> QED
    BY <1>1, <2>1, <2>2, Kept, RestBook
<1>4. ASSUME RunInv
      PROVE  RunInv'
  <2>1. new.job \notin overtaken => Faithful(new)'
    BY <1>4 DEF Faithful, Untouched, Tally, Listed
  <2>2. \A s \in Reader : \/ req'[s] \in {Idle, req[s]}
                          \/ req'[s].job \notin overtaken' => Faithful(req[s])'
    BY <1>1, <2>1
  <2> QED
    BY <1>4, <2>2, SameChapter, StillRun
<1> QED
  BY <1>3, <1>4

\* A request is answered; a job may have been registered for want of another.
LEMMA AnswerStep ==
  ASSUME BookInv, NEW r \in Reader, req' = [req EXCEPT ![r] = Idle], asked' \in 0..MaxChapter,
         \/ registered' = registered
         \/ registered = NoJob /\ registered' \in Job /\ file[registered'] # NoRecord,
         UNCHANGED <<chapter, file, latest, queue, pc, next, draft, wrote, late, overtaken, crashes>>
  PROVE  BookInv' /\ (RunInv => RunInv')
<1>1. /\ req' \in [Reader -> {Idle} \cup Served]
      /\ \A s \in Reader : req'[s] \in {Idle, req[s]}
  BY Replaced
<1>2. QueueOK'
  BY Kept, Unregistered DEF QueueOK
<1>3. \A k \in Job : InOrder(k)'
  BY Kept DEF InOrder
<1>4. BookInv'
  BY <1>1, <1>2, <1>3, Kept, RestBook
<1>5. RunInv => RunInv'
  BY <1>1, SameChapter, StillRun
<1> QED
  BY <1>4, <1>5

\* A request reads a job's file (file_projects.py:2303-2323).
LEMMA ReadSafe ==
  ASSUME BookInv, NEW r \in Reader, NEW j \in Job, NEW kind \in Purpose,
         NEW at \in {"read", "unregistered"},
         Exists(j), req' = [req EXCEPT ![r] = Reading(at, kind, j, file[j])],
         UNCHANGED <<chapter, file, latest, registered, queue, pc, next, draft, asked,
                     wrote, late, overtaken, crashes>>
  PROVE  BookInv' /\ (RunInv => RunInv')
<1>1. PICK record \in Record : record = file[j]
  BY Kept DEF Exists
<1>2. record.done \subseteq 1..chapter /\ file[j] # NoRecord
  BY <1>1, Kept DEF Exists
<1> DEFINE new == Reading(at, kind, j, record)
<1>3. /\ new \in Served /\ new.job = j /\ new.seen = record
      /\ new.at \in {"read", "unregistered"}
  BY DEF Reading, Served, Readings
<1>4. req' = [req EXCEPT ![r] = new]
  BY <1>1
<1> HIDE DEF new
<1>5. CopyInOrder(new)
  BY <1>2, <1>3 DEF CopyInOrder
<1>6. ASSUME RunInv, new.job \notin overtaken
      PROVE  Faithful(new)
  <2>1. Tally(j, record)
    BY <1>1, <1>2, <1>3, <1>6 DEF RunInv, RunOf, Accounted, Exists
  <2> QED
    BY <1>1, <1>3, <2>1 DEF Faithful
<1> QED
  BY <1>2, <1>3, <1>4, <1>5, <1>6, RequestStep

\* A request that has nothing to save keeps no more than what becomes of it.
LEMMA SettledFacts ==
  ASSUME NEW kind \in Purpose, NEW j \in Job, NEW record \in Record
  PROVE  /\ Settled(kind, j, record) \in Served
         /\ Settled(kind, j, record).job = j /\ Settled(kind, j, record).at = "settled"
         /\ Settled(kind, j, record).copy = "waiting"
              => record.status \in Active /\ record.phase \in SafeRecovery
BY DEF Settled, Served, Settlements

\* The look at the registration (file_projects.py:2343-2349)
LEMMA LookSafe ==
  ASSUME BookInv, NEW r \in Reader, Look(r)
  PROVE  BookInv' /\ (RunInv => RunInv')
<1>1. /\ req[r] # Idle /\ req[r].at = "read"
      /\ UNCHANGED <<chapter, file, latest, registered, queue, pc, next, draft, asked,
                     wrote, late, overtaken, crashes>>
  BY DEF Look, disk, runner, history, Idle
<1>2. PICK q \in Served : q = req[r]
  BY <1>1, Kept, Requests
<1>3. /\ q.job \in Job /\ q.kind \in Purpose /\ q.seen \in Record /\ q.at = "read"
      /\ file[q.job] # NoRecord /\ CopyInOrder(q)
  BY <1>1, <1>2, Kept, Requests
<1>4. CASE registered = q.job
  <2> DEFINE new == Settled(q.kind, q.job, q.seen)
  <2>1. req' = [req EXCEPT ![r] = new]
    BY <1>2, <1>4 DEF Look
  <2>2. new \in Served /\ new.job = q.job /\ new.at = "settled"
    BY <1>3, SettledFacts
  <2> HIDE DEF new
  <2>3. CopyInOrder(new) /\ Faithful(new)
    BY <1>4, <2>2 DEF CopyInOrder, Faithful, Untouched
  <2> QED
    BY <1>1, <1>3, <2>1, <2>2, <2>3, RequestStep
<1>5. CASE registered # q.job
  <2> DEFINE new == Reading("unregistered", q.kind, q.job, q.seen)
  <2>1. req' = [req EXCEPT ![r] = new]
    BY <1>2, <1>5 DEF Look
  <2>2. /\ new \in Served /\ new.job = q.job /\ new.at = "unregistered" /\ new.seen = q.seen
    BY <1>3 DEF Reading, Served, Readings
  <2> HIDE DEF new
  <2>3. CopyInOrder(new)
    BY <1>3, <2>2 DEF CopyInOrder
  <2>4. RunInv /\ new.job \notin overtaken => Faithful(new)
    BY <1>1, <1>2, <1>3, <2>2 DEF RunInv, Faithful
  <2> QED
    BY <1>1, <1>3, <2>1, <2>2, <2>3, <2>4, RequestStep
<1> QED
  BY <1>4, <1>5

\* The repair of the copy (continuous_generation.py:115-159)
LEMMA RepairSafe ==
  ASSUME BookInv, NEW r \in Reader, Repair(r)
  PROVE  BookInv' /\ (RunInv => RunInv')
<1>1. /\ req[r] # Idle /\ req[r].at = "unregistered"
      /\ UNCHANGED <<chapter, file, latest, registered, queue, pc, next, draft, asked,
                     wrote, late, overtaken, crashes>>
  BY DEF Repair, disk, runner, history, Idle
<1>2. PICK q \in Served : q = req[r]
  BY <1>1, Kept, Requests
<1>3. /\ q.job \in Job /\ q.kind \in Purpose /\ q.seen \in Record /\ q.at = "unregistered"
      /\ file[q.job] # NoRecord /\ q.seen.done \subseteq 1..chapter /\ chapter \in 0..MaxChapter
  <2>1. CopyInOrder(q)
    BY <1>2, Kept
  <2> QED
    BY <1>1, <1>2, <2>1, Kept, Requests DEF CopyInOrder
<1>4. /\ Repaired(q.seen) \in Record /\ Repaired(q.seen).done \subseteq 1..chapter
      /\ Repaired(q.seen).stop = q.seen.stop
      /\ Repaired(q.seen).status \in Active => Repaired(q.seen).phase \in SafeRecovery
      /\ Repaired(q.seen) # q.seen => q.seen.status \in Active
  <2>1. q.seen.status \in Active \cup Terminal
    BY <1>3 DEF Record
  <2> QED
    BY <1>3, <2>1, RepairedRecord
<1>5. PICK copy \in Record : copy = Repaired(q.seen)
  BY <1>4
<1>6. ASSUME RunInv, q.job \notin overtaken, Untouched(q.job)
      PROVE  /\ Tally(q.job, copy)
             /\ q.seen.status \in Active /\ q.seen.phase \in SafeRecovery
                  => file[q.job].phase \in SafeRecovery
  <2>1. Faithful(q)
    BY <1>1, <1>2, <1>6 DEF RunInv
  <2> QED
    BY <1>3, <1>5, <1>6, <2>1, RepairedTally DEF Faithful
<1>7. CASE copy = q.seen
  <2> DEFINE new == Settled(q.kind, q.job, copy)
  <2>1. req' = [req EXCEPT ![r] = new]
    BY <1>2, <1>5, <1>7 DEF Repair
  <2>2. /\ new \in Served /\ new.job = q.job /\ new.at = "settled"
        /\ new.copy = "waiting" => copy.status \in Active /\ copy.phase \in SafeRecovery
    BY <1>3, SettledFacts
  <2> HIDE DEF new
  <2>3. CopyInOrder(new)
    BY <2>2 DEF CopyInOrder
  <2>4. RunInv /\ new.job \notin overtaken => Faithful(new)
    BY <1>6, <1>7, <2>2 DEF Faithful
  <2> QED
    BY <1>1, <1>3, <2>1, <2>2, <2>3, <2>4, RequestStep
<1>8. CASE copy # q.seen
  <2> DEFINE new == Saving(q.kind, q.job, q.seen, copy)
  <2>1. req' = [req EXCEPT ![r] = new]
    BY <1>2, <1>5, <1>8 DEF Repair
  <2>2. /\ new \in Served /\ new.job = q.job /\ new.at = "save" /\ new.seen = q.seen
        /\ new.copy = copy
    BY <1>3 DEF Saving, Served, Savings
  <2> HIDE DEF new
  <2>3. CopyInOrder(new)
    BY <1>3, <1>4, <1>5, <1>8, <2>2 DEF CopyInOrder
  <2>4. RunInv /\ new.job \notin overtaken => Faithful(new)
    BY <1>6, <2>2 DEF Faithful
  <2> QED
    BY <1>1, <1>3, <2>1, <2>2, <2>3, <2>4, RequestStep
<1> QED
  BY <1>7, <1>8

\* The repair is saved (continuous_generation.py:141-159): either the job is
\* overtaken, or its file is the one that was read and it is registered nowhere.
LEMMA SaveRepairSafe ==
  ASSUME BookInv, NEW r \in Reader, SaveRepair(r)
  PROVE  BookInv' /\ (RunInv => RunInv')
<1>1. /\ req[r] # Idle /\ req[r].at = "save"
      /\ UNCHANGED <<chapter, registered, queue, pc, next, draft, asked, wrote, late, crashes>>
  BY DEF SaveRepair, runner, Idle
<1>2. PICK q \in Served : q = req[r]
  BY <1>1, Kept, Requests
<1>3. PICK j \in Job : j = q.job
  BY <1>1, <1>2, Requests
<1>4. /\ q.kind \in Purpose /\ q.seen \in Record /\ q.copy \in Record /\ q.at = "save"
      /\ file[j] # NoRecord /\ q.copy # NoRecord /\ q.copy.done \subseteq 1..chapter
      /\ q.seen.status \in Active /\ q.copy.stop = q.seen.stop
      /\ q.copy.status \in Active => q.copy.phase \in SafeRecovery
  <2>1. CopyInOrder(q)
    BY <1>2, Kept
  <2> QED
    BY <1>1, <1>2, <1>3, <2>1, Kept, Requests, Records DEF CopyInOrder
<1> DEFINE new == Settled(q.kind, j, q.copy)
<1>5. req' = [req EXCEPT ![r] = new] /\ file' = [file EXCEPT ![j] = q.copy] /\ latest' = j
  BY <1>2, <1>3 DEF SaveRepair, Save
<1>6. /\ new \in Served /\ new.job = j /\ new.at = "settled"
      /\ new.copy = "waiting" => q.copy.phase \in SafeRecovery
  BY <1>4, SettledFacts
<1> HIDE DEF new
<1>7. /\ req' \in [Reader -> {Idle} \cup Served] /\ req'[r] = new
      /\ \A s \in Reader : s # r => req'[s] = req[s]
  BY <1>5, <1>6, Replaced
<1>8. /\ file' \in [Job -> Record \cup {NoRecord}] /\ file'[j] = q.copy
      /\ \A k \in Job : k # j => file'[k] = file[k]
  BY <1>4, <1>5, Kept
<1>9. CopyInOrder(new)'
  BY <1>6 DEF CopyInOrder
<1>10. BookInv'
  <2>1. \A k \in Job : /\ file[k] # NoRecord => file'[k] # NoRecord
                       /\ file'[k] # NoRecord => file'[k].done \subseteq 1..chapter'
    BY <1>1, <1>4, <1>8, Kept
  <2>2. QueueOK' /\ \A k \in Job : InOrder(k)'
    BY <1>1, Kept DEF QueueOK, InOrder
  <2>3. \A s \in Reader : \/ req'[s] \in {Idle, req[s]}
                          \/ file'[req'[s].job] # NoRecord /\ CopyInOrder(req[s])'
    BY <1>4, <1>6, <1>7, <1>8, <1>9
  <2>4. /\ \A k \in Job : pc'[k] # "none" => file'[k] # NoRecord
        /\ registered' # NoJob => file'[registered'] # NoRecord
        /\ latest' \in Job \cup {NoJob} /\ file'[latest'] # NoRecord
    BY <1>1, <1>4, <1>5, <1>8, <2>1, Kept
  <2>5. /\ chapter' \in 0..MaxChapter /\ chapter' >= chapter
        /\ registered' \in Job \cup {NoJob} /\ queue' \in Seq(Job) /\ pc' \in [Job -> Place]
        /\ next' \in [Job -> 0..MaxChapter] /\ draft' \in [Job -> 0..MaxChapter]
        /\ asked' \in 0..MaxChapter /\ wrote' \in [Job -> Nat] /\ late' \in [Job -> Nat]
        /\ crashes' \in 0..MaxCrashes
    BY <1>1, Kept
  <2> QED
    BY <1>7, <1>8, <2>1, <2>2, <2>3, <2>4, <2>5, RestBook
<1>11. /\ overtaken \subseteq overtaken'
       /\ j \notin overtaken' => \/ file[j] = q.copy
                                 \/ file[j] = q.seen /\ registered # j
  BY <1>2, <1>3 DEF SaveRepair, Overtaken
<1>12. ASSUME RunInv, j \notin overtaken', file[j] = q.seen, registered # j
       PROVE  RunOf(j)' /\ Untouched(j)
  <2>1. Untouched(j) /\ j \notin overtaken /\ RunOf(j)
    BY <1>4, <1>11, <1>12 DEF Untouched, RunInv
  <2>2. Tally(j, q.copy)
    BY <1>1, <1>2, <1>3, <1>4, <1>12, <2>1 DEF RunInv, Faithful
  <2>3. pc[j] = "none" /\ pc'[j] = "none" /\ crashes > 0 /\ wrote[j] <= Count
    BY <1>1, <1>4, <1>12, <2>1, Kept DEF RunOf, Registration, Working, Accounted, Exists, Untouched,
       Active, Terminal
  <2>4. Registration(j)' /\ Announced(j)'
    BY <1>1, <2>3 DEF Registration, Working, Announced, Writing
  <2>5. Accounted(j)'
    BY <1>1, <1>4, <1>8, <2>2, <2>3 DEF Accounted, Tally, Listed, Exists
  <2>6. Stopping(j)'
    BY <1>1, <1>4, <1>8, <1>12, <2>1, <2>3 DEF RunOf, Stopping, Exists
  <2> QED
    BY <2>1, <2>4, <2>5, <2>6 DEF RunOf
<1>13. ASSUME RunInv
       PROVE  RunInv'
  <2>1. ASSUME NEW k \in Job, k \notin overtaken'
        PROVE  /\ RunOf(k)'
               /\ Untouched(k)' => /\ Untouched(k) /\ wrote'[k] = wrote[k]
                                   /\ file'[k].phase \in {file[k].phase} \cup SafeRecovery
    <3>1. RunOf(k) /\ (Working(k) => registered' = k)
      BY <1>1, <1>11, <1>13, <2>1 DEF RunInv, RunOf, Registration
    <3>2. CASE file'[k] = file[k]
      BY <1>1, <3>1, <3>2, OtherRun, SameChapter DEF Untouched
    <3>3. CASE k = j /\ file[j] = q.seen /\ registered # j
      <4>1. RunOf(k)' /\ Untouched(k)
        BY <1>12, <1>13, <2>1, <3>3
      <4>2. Untouched(k)' => file'[k].phase \in SafeRecovery
        BY <1>4, <1>8, <3>3 DEF Untouched
      <4> QED
        BY <1>1, <4>1, <4>2
    <3> QED
      BY <1>8, <1>11, <2>1, <3>2, <3>3
  <2>2. Faithful(new)'
    BY <1>6, <1>8 DEF Faithful
  <2>3. \A s \in Reader : \/ req'[s] \in {Idle, req[s]}
                          \/ req'[s].job \notin overtaken' => Faithful(req[s])'
    BY <1>7, <2>2
  <2> QED
    BY <1>1, <1>11, <1>13, <2>1, <2>3, SameChapter, RunKept
<1> QED
  BY <1>10, <1>13

\* A job between two chapters is taken up again (file_projects.py:2355-2371).
LEMMA ResumeSafe ==
  ASSUME BookInv, NEW r \in Reader, Resume(r)
  PROVE  BookInv' /\ (RunInv => RunInv')
<1>1. /\ req[r] # Idle /\ req[r].at = "settled" /\ req' = [req EXCEPT ![r] = Idle]
      /\ UNCHANGED <<chapter, file, latest, next, draft, asked, wrote, late, overtaken, crashes>>
  BY DEF Resume, disk, history, Idle
<1>2. PICK q \in Served : q = req[r]
  BY <1>1, Kept, Requests
<1>3. PICK j \in Job : j = q.job
  BY <1>1, <1>2, Requests
<1>4. /\ req' \in [Reader -> {Idle} \cup Served] /\ \A s \in Reader : req'[s] \in {Idle, req[s]}
      /\ file[j] # NoRecord
  BY <1>1, <1>2, <1>3, Kept, Replaced
<1>5. CASE UNCHANGED <<registered, queue, pc>>
  BY <1>1, <1>5, Kept, AnswerStep
<1>6. CASE /\ q.copy = "waiting" /\ registered = NoJob
           /\ registered' = j /\ queue' = Append(queue, j) /\ pc' = [pc EXCEPT ![j] = "queued"]
  <2>1. queue = <<>> /\ \A k \in Job : pc[k] = "none"
    BY <1>6, Unregistered
  <2>2. /\ pc' \in [Job -> Place] /\ pc'[j] = "queued"
        /\ \A k \in Job : k # j => pc'[k] = "none" /\ pc'[k] = pc[k]
    BY <1>6, <2>1, Kept DEF Place
  <2>3. queue' = <<j>> /\ queue' \in Seq(Job) /\ Len(queue') = 1 /\ queue'[1] = j
    BY <1>6, <2>1
  <2>4. QueueOK'
    BY <1>6, <2>2, <2>3 DEF QueueOK
  <2>5. BookInv'
    <3>1. \A k \in Job : InOrder(k)'
      BY <2>2 DEF InOrder
    <3>2. /\ \A k \in Job : pc'[k] # "none" => file'[k] # NoRecord
          /\ registered' \in Job \cup {NoJob} /\ file'[registered'] # NoRecord
      BY <1>1, <1>4, <1>6, <2>2
    <3> QED
      BY <1>1, <1>4, <2>2, <2>3, <2>4, <3>1, <3>2, Kept, RestBook
  <2>6. ASSUME RunInv
        PROVE  RunInv'
    <3>1. ASSUME NEW k \in Job, k \notin overtaken, k # j
          PROVE  RunOf(k)' /\ (Untouched(k)' => Untouched(k))
      <4>1. RunOf(k) /\ ~Working(k)
        BY <2>1, <2>6, <3>1 DEF RunInv, Working
      <4>2. Untouched(k)' => Untouched(k)
        BY <1>1, <1>6, Constants DEF Untouched
      <4> QED
        BY <1>1, <2>2, <3>1, <4>1, <4>2, OtherRun, SameChapter
    <3>2. ASSUME j \notin overtaken
          PROVE  RunOf(j)' /\ ~Untouched(j)'
      <4>1. RunOf(j)
        BY <2>6, <3>2 DEF RunInv
      <4>2. file[j].status \in Active => file[j].phase \in SafeRecovery
        <5>1. Faithful(q)
          BY <1>1, <1>2, <1>3, <2>6, <3>2 DEF RunInv
        <5> QED
          BY <1>1, <1>2, <1>3, <1>6, <5>1, Constants DEF Faithful, Untouched
      <4>3. Registration(j)' /\ Announced(j)'
        BY <1>1, <1>6, <2>2, <4>2 DEF Registration, Working, Announced, Writing
      <4>4. Accounted(j)'
        BY <1>1, <2>2, <4>1 DEF RunOf, Accounted, Tally, Listed, Exists
      <4>5. Stopping(j)'
        BY <1>1, <2>2, <4>1 DEF RunOf, Stopping, Exists
      <4>6. ~Untouched(j)'
        BY <1>6 DEF Untouched
      <4> QED
        BY <4>3, <4>4, <4>5, <4>6 DEF RunOf
    <3>3. \A k \in Job : k \notin overtaken' =>
            RunOf(k)' /\ (Untouched(k)' => Untouched(k) /\ wrote'[k] = wrote[k]
                                           /\ file'[k].phase = file[k].phase)
      BY <1>1, <3>1, <3>2
    <3> QED
      BY <1>1, <1>4, <2>6, <3>3, SameChapter, RunKept
  <2> QED
    BY <2>5, <2>6
<1> QED
  BY <1>2, <1>3, <1>5, <1>6 DEF Resume

\* request_stop (continuous_generation.py:93-104)
LEMMA RequestStopSafe ==
  ASSUME BookInv, NEW r \in Reader, RequestStop(r)
  PROVE  BookInv' /\ (RunInv => RunInv')
<1>1. /\ req[r] # Idle /\ req' = [req EXCEPT ![r] = Idle]
      /\ UNCHANGED <<chapter, registered, queue, pc, next, draft, asked, wrote, overtaken, crashes>>
  BY DEF RequestStop, runner, Idle
<1>2. PICK j \in Job : j = req[r].job
  BY <1>1, Kept
<1> DEFINE rec == [file[j] EXCEPT !.stop = TRUE, !.status = "stopping"]
<1>3. /\ file[j] # NoRecord /\ file[j] \in Record /\ file[j].done \subseteq 1..chapter
      /\ file[j].status \in Active \cup Terminal
  BY <1>1, <1>2, Kept DEF Record
<1>4. CASE file[j].status \in Terminal
  <2>1. file' = file /\ latest' = latest /\ late' = late
    BY <1>2, <1>4 DEF RequestStop, disk
  <2> QED
    BY <1>1, <2>1, Kept, AnswerStep
<1>5. CASE file[j].status \notin Terminal
  <2>1. /\ rec \in Record /\ rec # NoRecord /\ rec.done = file[j].done /\ rec.count = file[j].count
        /\ rec.phase = file[j].phase /\ rec.status = "stopping" /\ "stopping" \in Active
    <3>1. "stopping" \in Active /\ TRUE \in BOOLEAN
      BY DEF Active
    <3>2. rec \in Record
      BY <1>3, <3>1 DEF Record
    <3> QED
      BY <1>3, <3>1, <3>2, Records DEF Record
  <2>2. rec.stop
    BY <1>3 DEF Record
  <2> DEFINE told == IF late[j] = 0 THEN 1 ELSE late[j]
  <2>3. /\ file' = [file EXCEPT ![j] = rec] /\ latest' = j /\ late' = [late EXCEPT ![j] = told]
        /\ told \in Nat /\ told > 0 /\ (late[j] > 0 => told = late[j]) /\ told <= late[j] + 1
        /\ late[j] <= 2 => told <= 2
        /\ told = 2 => late[j] = 2
    BY <1>2, <1>5, Kept DEF RequestStop, Save, Told
  <2> HIDE DEF rec, told
  <2>4. /\ file' \in [Job -> Record \cup {NoRecord}] /\ late' \in [Job -> Nat]
        /\ file'[j] = rec /\ late'[j] = told
        /\ \A k \in Job : k # j => file'[k] = file[k] /\ late'[k] = late[k]
    BY <2>1, <2>3, Kept
  <2>5. /\ req' \in [Reader -> {Idle} \cup Served] /\ \A s \in Reader : req'[s] \in {Idle, req[s]}
    BY <1>1, Replaced
  <2>6. BookInv'
    <3>1. \A k \in Job : /\ file[k] # NoRecord => file'[k] # NoRecord
                         /\ file'[k] # NoRecord => file'[k].done \subseteq 1..chapter'
      BY <1>1, <1>3, <2>1, <2>4, Kept
    <3>2. QueueOK' /\ \A k \in Job : InOrder(k)'
      BY <1>1, Kept DEF QueueOK, InOrder
    <3>3. /\ \A k \in Job : pc'[k] # "none" => file'[k] # NoRecord
          /\ registered' # NoJob => file'[registered'] # NoRecord
          /\ latest' \in Job \cup {NoJob} /\ file'[latest'] # NoRecord
      BY <1>1, <2>1, <2>3, <2>4, <3>1, Kept
    <3>4. chapter' \in 0..MaxChapter /\ chapter' >= chapter
      BY <1>1, Kept
    <3>5. /\ registered' \in Job \cup {NoJob} /\ queue' \in Seq(Job) /\ pc' \in [Job -> Place]
          /\ next' \in [Job -> 0..MaxChapter] /\ draft' \in [Job -> 0..MaxChapter]
          /\ asked' \in 0..MaxChapter /\ wrote' \in [Job -> Nat]
          /\ crashes' \in 0..MaxCrashes
      BY <1>1, Kept
    <3> QED
      BY <2>4, <2>5, <3>1, <3>2, <3>3, <3>4, <3>5, RestBook
  <2>7. ASSUME RunInv
        PROVE  RunInv'
    <3>1. ASSUME NEW k \in Job, k \notin overtaken
          PROVE  /\ RunOf(k)'
                 /\ Untouched(k)' => Untouched(k) /\ file'[k].phase = file[k].phase
      <4>1. RunOf(k) /\ (Working(k) => registered' = k)
        BY <1>1, <2>7, <3>1 DEF RunInv, RunOf, Registration
      <4>2. CASE k # j
        BY <1>1, <2>4, <4>1, <4>2, OtherRun, SameChapter DEF Untouched
      <4>3. CASE k = j
        <5>1. file[j].status \in Active
          BY <1>3, <1>5
        <5>2. Registration(j)'
          BY <1>1, <1>5, <2>1, <2>4, <4>1, <4>3, <5>1 DEF RunOf, Registration, Working
        <5>3. Announced(j)'
          BY <1>1, <2>1, <2>4, <4>1, <4>3, <5>1 DEF RunOf, Announced, Writing
        <5>4. Accounted(j)'
          BY <1>1, <1>3, <2>1, <2>4, <4>1, <4>3, <5>1 DEF RunOf, Accounted, Tally, Listed, Exists
        <5>5. Stopping(j)'
          BY <1>1, <1>3, <2>1, <2>2, <2>3, <2>4, <4>1, <4>3 DEF RunOf, Stopping, Exists
        <5>6. Untouched(j)' => Untouched(j) /\ file'[j].phase = file[j].phase
          BY <1>1, <2>1, <2>4, <5>1 DEF Untouched
        <5> QED
          BY <4>3, <5>2, <5>3, <5>4, <5>5, <5>6 DEF RunOf
      <4> QED
        BY <4>2, <4>3
    <3> QED
      BY <1>1, <2>5, <2>7, <3>1, SameChapter, RunKept
  <2> QED
    BY <2>6, <2>7
<1> QED
  BY <1>4, <1>5

\* A guarded route is refused (file_projects.py:1344-1347).
LEMMA RefusedSafe ==
  ASSUME BookInv, Refused
  PROVE  BookInv' /\ (RunInv => RunInv')
<1>1. /\ Busy /\ req' = [req EXCEPT ![Guard] = Idle] /\ Guard \in Reader
      /\ registered' = (IF registered # NoJob THEN registered ELSE req[Guard].job)
      /\ UNCHANGED <<chapter, file, latest, queue, pc, next, draft, asked, wrote, late,
                     overtaken, crashes>>
  BY DEF Refused, Released, disk, runner, history, Reader
<1>2. registered = NoJob => req[Guard].job \in Job /\ file[req[Guard].job] # NoRecord
  BY <1>1, Kept DEF Busy
<1> QED
  BY <1>1, <1>2, Kept, AnswerStep

\* A guarded route goes on without touching a job.
LEMMA AllowedSafe ==
  ASSUME BookInv, Ask \/ Allowed
  PROVE  BookInv' /\ (RunInv => RunInv')
<1>1. /\ req' = [req EXCEPT ![Guard] = Idle] /\ Guard \in Reader /\ registered' = registered
      /\ UNCHANGED <<chapter, file, latest, queue, pc, next, draft, wrote, late, overtaken, crashes>>
  BY DEF Ask, Allowed, Released, disk, runner, history, Reader
<1>2. asked' \in 0..MaxChapter
  BY Kept, Constants DEF Ask, Allowed
<1> QED
  BY <1>1, <1>2, AnswerStep

\* start_continuous_generation_job (file_projects.py:2268-2300)
LEMMA StartSafe ==
  ASSUME BookInv, NEW j \in Job, Start(j)
  PROVE  BookInv' /\ (RunInv => RunInv')
<1>1. /\ ~Exists(j) /\ ~Busy /\ chapter < MaxChapter
      /\ file' = [file EXCEPT ![j] = New] /\ latest' = j /\ registered' = j
      /\ queue' = Append(queue, j) /\ pc' = [pc EXCEPT ![j] = "queued"]
      /\ req' = [req EXCEPT ![Guard] = Idle] /\ Guard \in Reader
      /\ UNCHANGED <<chapter, next, draft, asked, wrote, late, overtaken, crashes>>
  BY DEF Start, Save, Released, history, Reader
<1>2. /\ New \in Record /\ New # NoRecord /\ New.done = {} /\ New.count = 0 /\ New.phase = "queued"
      /\ New.status = "queued"
  <2>1. chapter + 1 \in 1..MaxChapter+1
    BY Kept, Constants
  <2>2. New \in Record
    BY <2>1 DEF New, Record, Active, Phase, SafeRecovery
  <2> QED
    BY <2>2, Records DEF New
<1>3. /\ file' \in [Job -> Record \cup {NoRecord}] /\ file'[j] = New
      /\ \A k \in Job : k # j => file'[k] = file[k]
  BY <1>1, <1>2, Kept
<1>4. \A k \in Job : /\ file'[k] # NoRecord => file'[k].done \subseteq 1..chapter'
                     /\ file[k] # NoRecord => file'[k] # NoRecord
  <2> SUFFICES ASSUME NEW k \in Job
               PROVE  /\ file'[k] # NoRecord => file'[k].done \subseteq 1..chapter'
                      /\ file[k] # NoRecord => file'[k] # NoRecord
    OBVIOUS
  <2>1. CASE k = j
    BY <1>2, <1>3, <2>1
  <2>2. CASE k # j
    BY <1>1, <1>3, <2>2, Kept
  <2> QED
    BY <2>1, <2>2
<1>5. /\ pc' \in [Job -> Place] /\ pc[j] = "none" /\ pc'[j] = "queued"
      /\ \A k \in Job : k # j => pc'[k] = pc[k]
  BY <1>1, Kept DEF Place, Exists
<1>6. /\ queue \in Seq(Job) /\ Len(queue) \in Nat
      /\ queue' \in Seq(Job) /\ Len(queue') = Len(queue) + 1
      /\ \A i \in 1..Len(queue) : queue'[i] = queue[i] /\ queue[i] # j
      /\ queue'[Len(queue) + 1] = j
  <2>1. queue \in Seq(Job) /\ QueueOK
    BY Kept
  <2>2. \A i \in 1..Len(queue) : queue[i] # j
    BY <1>5, <2>1 DEF QueueOK
  <2> QED
    BY <1>1, <2>1, <2>2
<1>7. QueueOK'
  <2>1. QueueOK
    BY Kept
  <2>2. \A i, k \in 1..Len(queue') : queue'[i] = queue'[k] => i = k
    <3> SUFFICES ASSUME NEW i \in 1..Len(queue'), NEW k \in 1..Len(queue'), queue'[i] = queue'[k]
                 PROVE  i = k
      OBVIOUS
    <3>1. /\ i \in 1..Len(queue) \/ i = Len(queue) + 1
          /\ k \in 1..Len(queue) \/ k = Len(queue) + 1
      BY <1>6
    <3> QED
      BY <1>6, <2>1, <3>1 DEF QueueOK
  <2>3. ASSUME NEW k \in Job
        PROVE  pc'[k] # "none" <=> \E i \in 1..Len(queue') : queue'[i] = k
    <3>1. CASE k = j
      BY <1>5, <1>6, <3>1
    <3>2. CASE k # j
      <4>1. pc[k] # "none" <=> \E i \in 1..Len(queue) : queue[i] = k
        BY <2>1 DEF QueueOK
      <4>2. \A i \in 1..Len(queue') : i \in 1..Len(queue) \/ i = Len(queue) + 1
        BY <1>6
      <4>3. \A i \in 1..Len(queue) : i \in 1..Len(queue')
        BY <1>6
      <4> QED
        BY <1>5, <1>6, <3>2, <4>1, <4>2, <4>3
    <3> QED
      BY <3>1, <3>2
  <2> QED
    BY <1>1, <1>6, <2>2, <2>3 DEF QueueOK
<1>8. \A k \in Job : InOrder(k)'
  BY <1>1, <1>5, OrderKept, Kept, SameChapter
<1>9. /\ req' \in [Reader -> {Idle} \cup Served] /\ \A r \in Reader : req'[r] \in {Idle, req[r]}
  BY <1>1, Replaced
<1>10. BookInv'
  <2>1. \A k \in Job : pc'[k] # "none" => file'[k] # NoRecord
    BY <1>2, <1>3, <1>4, <1>5, Kept
  <2>2. /\ latest' \in Job \cup {NoJob} /\ file'[latest'] # NoRecord
        /\ registered' \in Job \cup {NoJob} /\ file'[registered'] # NoRecord
    BY <1>1, <1>2, <1>3
  <2>3. /\ next' \in [Job -> 0..MaxChapter] /\ draft' \in [Job -> 0..MaxChapter]
        /\ asked' \in 0..MaxChapter /\ wrote' \in [Job -> Nat] /\ late' \in [Job -> Nat]
        /\ crashes' \in 0..MaxCrashes
        /\ chapter' \in 0..MaxChapter /\ chapter' >= chapter
    BY <1>1, Kept
  <2> QED
    BY <1>3, <1>4, <1>5, <1>6, <1>7, <1>8, <1>9, <2>1, <2>2, <2>3, RestBook
<1>11. ASSUME RunInv
       PROVE  RunInv'
  <2>1. ASSUME NEW k \in Job, k \notin overtaken, k # j
        PROVE  RunOf(k)' /\ (Untouched(k)' => Untouched(k))
    <3>1. RunOf(k)
      BY <1>11, <2>1 DEF RunInv
    <3>2. registered = k => file[k].status \notin Active
      BY <1>1, Constants DEF Busy
    <3>3. ~Working(k)
      BY <3>1, <3>2 DEF RunOf, Registration
    <3>4. Untouched(k)' => Untouched(k)
      BY <1>3, <2>1, <3>2 DEF Untouched
    <3> QED
      BY <1>1, <1>3, <1>5, <2>1, <3>1, <3>3, <3>4, OtherRun, SameChapter
  <2>2. ASSUME j \notin overtaken
        PROVE  RunOf(j)' /\ ~Untouched(j)'
    <3>1. wrote[j] = 0 /\ late[j] = 0 /\ Count \in Nat /\ Cardinality({}) = 0
      BY <1>1, <1>11, <2>2, Constants, FS_EmptySet DEF RunInv, RunOf, Accounted, Stopping
    <3>2. Registration(j)' /\ Announced(j)'
      BY <1>1, <1>2, <1>3, <1>5 DEF Registration, Working, Active, Announced, Writing, SafeRecovery
    <3>3. Accounted(j)'
      <4>1. /\ file'[j].done = {} /\ file'[j].count = 0 /\ Listed(file[j])' = 0 /\ wrote'[j] = 0
            /\ file'[j] # NoRecord
        BY <1>1, <1>2, <1>3, <3>1 DEF Listed
      <4> QED
        BY <3>1, <4>1, Constants DEF Accounted, Tally, Exists
    <3>4. Stopping(j)'
      BY <1>1, <1>2, <1>3, <1>5, <3>1 DEF Stopping, Exists
    <3>5. ~Untouched(j)'
      BY <1>1 DEF Untouched
    <3> QED
      BY <3>2, <3>3, <3>4, <3>5 DEF RunOf
  <2>3. \A k \in Job : k \notin overtaken' =>
          RunOf(k)' /\ (Untouched(k)' => Untouched(k) /\ wrote'[k] = wrote[k]
                                         /\ file'[k].phase = file[k].phase)
    BY <1>1, <1>3, <2>1, <2>2
  <2> QED
    BY <1>1, <1>9, <1>11, <2>3, SameChapter, RunKept
<1> QED
  BY <1>10, <1>11

\* confirm_file_project_candidate (file_project_candidates.py:153-174)
LEMMA ConfirmByHandSafe ==
  ASSUME BookInv, ConfirmByHand
  PROVE  BookInv' /\ (RunInv => RunInv')
<1>1. /\ asked' = 0
      /\ chapter' = IF asked > chapter THEN asked ELSE chapter
      /\ UNCHANGED <<file, latest, registered, queue, pc, next, draft, req, wrote, late,
                     overtaken, crashes>>
  BY DEF ConfirmByHand, disk, runner, history
<1>2. chapter' \in 0..MaxChapter /\ chapter' >= chapter /\ chapter' \in chapter..MaxChapter
      /\ 0 \in 0..MaxChapter
  BY <1>1, Kept, Constants
<1>3. \A k \in Job : /\ InOrder(k)'
                     /\ file'[k] # NoRecord => file'[k].done \subseteq 1..chapter'
  BY <1>1, <1>2, OtherBook DEF Exists
<1>4. BookInv'
  <2>1. QueueOK'
    BY <1>1, Kept DEF QueueOK
  <2> QED
    BY <1>1, <1>2, <1>3, <2>1, Kept, RestBook
<1>5. RunInv => RunInv'
  BY <1>1, <1>2, StillRun
<1> QED
  BY <1>4, <1>5

\* A stop leaves the files and the book.
LEMMA CrashSafe ==
  ASSUME BookInv, Crash
  PROVE  BookInv' /\ (RunInv => RunInv')
<1>1. /\ crashes < MaxCrashes /\ crashes' = crashes + 1 /\ registered' = NoJob /\ queue' = <<>>
      /\ pc' = [j \in Job |-> "none"] /\ req' = [r \in Reader |-> Idle] /\ asked' = 0
      /\ next' = [j \in Job |-> 0] /\ draft' = [j \in Job |-> 0]
      /\ UNCHANGED <<chapter, file, latest, wrote, late, overtaken>>
  BY DEF Crash, disk, history, Reader
<1>2. /\ crashes' \in 0..MaxCrashes /\ crashes' > 0 /\ 0 \in 0..MaxChapter /\ "none" \in Place
      /\ Len(queue') = 0
  BY <1>1, Kept, Constants DEF Place
<1>3. /\ pc' \in [Job -> Place] /\ next' \in [Job -> 0..MaxChapter]
      /\ draft' \in [Job -> 0..MaxChapter] /\ req' \in [Reader -> {Idle} \cup Served]
      /\ \A r \in Reader : req'[r] = Idle
      /\ \A k \in Job : pc'[k] = "none"
  BY <1>1, <1>2
<1>4. BookInv'
  <2>1. QueueOK' /\ \A k \in Job : InOrder(k)'
    BY <1>1, <1>2, <1>3 DEF QueueOK, InOrder
  <2> QED
    BY <1>1, <1>2, <1>3, <2>1, Kept, RestBook
<1>5. ASSUME RunInv
      PROVE  RunInv'
  <2>1. ASSUME NEW k \in Job, k \notin overtaken
        PROVE  RunOf(k)'
    BY <1>1, <1>2, <1>3, <1>5, <2>1 DEF RunInv, RunOf, Registration, Announced, Accounted, Tally,
       Stopping, Working, Writing, Listed, Exists
  <2>2. \A k \in Job : (k \notin overtaken => RunOf(k))'
    BY <1>1, <2>1
  <2> QED
    BY <1>3, <2>2 DEF RunInv
<1> QED
  BY <1>4, <1>5

-------------------------------------------------------------------------------
(* Every step *)

\* An empty book without jobs
LEMMA InitSafe ==
  ASSUME Init
  PROVE  BookInv /\ RunInv
<1>1. /\ chapter = 0 /\ file = [j \in Job |-> NoRecord] /\ latest = NoJob /\ registered = NoJob
      /\ queue = <<>> /\ pc = [j \in Job |-> "none"]
      /\ next = [j \in Job |-> 0] /\ draft = [j \in Job |-> 0]
      /\ req = [r \in Reader |-> Idle] /\ asked = 0
      /\ wrote = [j \in Job |-> 0] /\ late = [j \in Job |-> 0] /\ crashes = 0
  BY DEF Init, Reader
<1>2. 0 \in 0..MaxChapter /\ 0 \in 0..MaxCrashes /\ "none" \in Place /\ Len(<<>>) = 0
      /\ NoRecord.status \notin Active
  BY Constants DEF Place, NoRecord, Active
<1>3. Types
  BY <1>1, <1>2 DEF Types
<1>4. QueueOK /\ CompletedAreOfficial
  BY <1>1, <1>2 DEF QueueOK, CompletedAreOfficial, Exists
<1>5. CopiesInOrder
  BY <1>1 DEF CopiesInOrder, CopyInOrder, Idle
<1>6. \A j \in Job : InOrder(j)
  BY <1>1 DEF InOrder
<1>7. ASSUME NEW j \in Job
      PROVE  RunOf(j)
  BY <1>1, <1>2 DEF RunOf, Registration, Announced, Accounted, Stopping, Working, Writing, Exists
<1> QED
  BY <1>1, <1>3, <1>4, <1>5, <1>6, <1>7 DEF BookInv, RunInv

\* Steps of other parts of the system
LEMMA StutterSafe ==
  ASSUME BookInv, UNCHANGED vars
  PROVE  BookInv' /\ (RunInv => RunInv')
<1>1. UNCHANGED <<chapter, file, latest, registered, queue, pc, next, draft, req,
                  asked, wrote, late, overtaken, crashes>>
  BY DEF vars
<1>2. BookInv'
  <2>1. QueueOK' /\ \A k \in Job : InOrder(k)'
    BY <1>1, Kept DEF QueueOK, InOrder
  <2> QED
    BY <1>1, <2>1, Kept, RestBook
<1>3. RunInv => RunInv'
  BY <1>1, SameChapter, StillRun
<1> QED
  BY <1>2, <1>3

\* Every step keeps BookInv, and RunInv.
LEMMA NextSafe ==
  ASSUME BookInv, [Next]_vars
  PROVE  BookInv' /\ (RunInv => RunInv')
<1>1. ASSUME NEW r \in Request, Serve(r)
      PROVE  BookInv' /\ (RunInv => RunInv')
  BY <1>1, LookSafe, ResumeSafe, RequestStopSafe DEF Serve, Reader
<1>2. ASSUME NEW r \in Request, NEW j \in Job, NEW kind \in Kind, Read(r, j, kind)
      PROVE  BookInv' /\ (RunInv => RunInv')
  <2>1. /\ r \in Reader /\ kind \in Purpose /\ "read" \in {"read", "unregistered"} /\ Exists(j)
        /\ req' = [req EXCEPT ![r] = Reading("read", kind, j, file[j])]
        /\ UNCHANGED <<chapter, file, latest, registered, queue, pc, next, draft, asked,
                       wrote, late, overtaken, crashes>>
    BY <1>2 DEF Read, Exists, NoRecord, Active, disk, runner, history, Reader, Purpose
  <2> QED
    BY <2>1, ReadSafe
<1>3. CASE LookAtLatest
  <2>1. /\ Guard \in Reader /\ "guard" \in Purpose /\ "unregistered" \in {"read", "unregistered"}
        /\ latest \in Job /\ Exists(latest)
        /\ req' = [req EXCEPT ![Guard] = Reading("unregistered", "guard", latest, file[latest])]
        /\ UNCHANGED <<chapter, file, latest, registered, queue, pc, next, draft, asked,
                       wrote, late, overtaken, crashes>>
    BY <1>3, Kept DEF LookAtLatest, disk, runner, history, Reader, Purpose, Exists
  <2>2. PICK j \in Job : j = latest
    BY <2>1
  <2> QED
    BY <2>1, <2>2, ReadSafe
<1>4. ASSUME NEW r \in Request \cup {Guard}, Repair(r) \/ SaveRepair(r)
      PROVE  BookInv' /\ (RunInv => RunInv')
  BY <1>4, RepairSafe, SaveRepairSafe DEF Reader
<1>5. ASSUME NEW j \in Job, Start(j)
      PROVE  BookInv' /\ (RunInv => RunInv')
  BY <1>5, StartSafe
<1>6. ASSUME NEW j \in Job, Work(j)
      PROVE  BookInv' /\ (RunInv => RunInv')
  BY <1>6, LoadSafe, PrepareSafe, CheckSafe, AnnounceSafe, GenerateSafe, SubmitSafe,
     ConfirmSafe, AccountSafe, CloseSafe DEF Work
<1>7. CASE Refused \/ Ask \/ Allowed
  BY <1>7, RefusedSafe, AllowedSafe
<1>8. CASE ConfirmByHand
  BY <1>8, ConfirmByHandSafe
<1>9. CASE Crash
  BY <1>9, CrashSafe
<1>10. CASE UNCHANGED vars
  BY <1>10, StutterSafe
<1> QED
  BY <1>1, <1>2, <1>3, <1>4, <1>5, <1>6, <1>7, <1>8, <1>9, <1>10 DEF Next

\* The runner whose turn it is saves its own job only, and not one that has ended.
LEMMA OwnFileOnly ==
  ASSUME BookInv, NEW j \in Job, Work(j)
  PROVE  /\ \A k \in Job : k # j => file'[k] = file[k]
         /\ file[j].status \in Terminal /\ ~Working(j) => file' = file
<1>1. file \in [Job -> Record \cup {NoRecord}]
  BY Kept
<1>2. CASE Prepare(j) \/ Check(j) \/ Announce(j) \/ Generate(j)
           \/ Submit(j) \/ Confirm(j) \/ Account(j)
  <2>1. Working(j)
    BY <1>2 DEF Prepare, Check, Announce, Generate, Submit, Confirm, Account, OnWorker,
       Working
  <2>2. file' = file \/ \E rec : file' = [file EXCEPT ![j] = rec]
    BY <1>2 DEF Prepare, Check, Announce, Generate, Submit, Confirm, Account,
       Update, Save, disk
  <2> QED
    BY <1>1, <2>1, <2>2
<1>3. CASE Load(j)
  <2>1. file' = file \/ file' = [file EXCEPT ![j] = Repaired(file[j])]
    BY <1>3 DEF Load, Reconcile, Save, disk
  <2>2. file[j].status \in Terminal => Repaired(file[j]) = file[j]
    <3>1. /\ file[j] \in Record /\ file[j].done \subseteq 1..chapter
          /\ chapter \in 0..MaxChapter
      BY <1>3, OnWorkerFacts, Kept DEF Load
    <3> QED
      BY <3>1, RepairedRecord
  <2> QED
    BY <1>1, <2>1, <2>2
<1>4. CASE Close(j)
  BY <1>4 DEF Close, disk
<1> QED
  BY <1>2, <1>3, <1>4 DEF Work

\* No step takes up a job that has ended, unless the job is overtaken.
LEMMA TerminalStep ==
  ASSUME BookInv, RunInv, [Next]_vars, NEW k \in Job, file[k].status \in Terminal
  PROVE  file'[k].status \in Terminal \/ k \in overtaken'
<1>1. /\ file \in [Job -> Record \cup {NoRecord}] /\ file[k] # NoRecord
      /\ file[k].status \notin Active
  BY Kept, Records DEF Active, Terminal
<1>2. ASSUME NEW j \in Job, Work(j)
      PROVE  file'[k].status \in Terminal \/ k \in overtaken'
  <2>1. overtaken' = overtaken
    BY <1>2 DEF Work, Load, Prepare, Check, Announce, Generate, Submit, Confirm, Account, Close,
       history
  <2>2. k \notin overtaken => ~Working(k)
    BY <1>1 DEF RunInv, RunOf, Registration
  <2> QED
    BY <1>2, <2>1, <2>2, OwnFileOnly
<1>3. ASSUME NEW r \in Reader, SaveRepair(r)
      PROVE  file'[k].status \in Terminal \/ k \in overtaken'
  <2>1. req[r] # Idle /\ req[r].at = "save"
    BY <1>3 DEF SaveRepair, Idle
  <2>2. PICK j \in Job : j = req[r].job
    BY <2>1, Kept
  <2>3. req[r].seen.status \in Active
    BY <2>1, Kept DEF CopyInOrder
  <2>4. /\ file' = [file EXCEPT ![j] = req[r].copy]
        /\ j \in overtaken' \/ file[j] \in {req[r].copy, req[r].seen}
    BY <1>3, <2>2 DEF SaveRepair, Save, Overtaken
  <2> QED
    BY <1>1, <2>2, <2>3, <2>4
<1>4. ASSUME NEW r \in Request, RequestStop(r)
      PROVE  file'[k].status \in Terminal
  <2>1. \/ file' = file
        \/ /\ file[req[r].job].status \notin Terminal
           /\ \E rec : file' = [file EXCEPT ![req[r].job] = rec]
    BY <1>4 DEF RequestStop, Save, disk
  <2> QED
    BY <1>1, <2>1
<1>5. ASSUME NEW j \in Job, Start(j)
      PROVE  file'[k].status \in Terminal
  <2>1. j # k /\ file' = [file EXCEPT ![j] = New]
    BY <1>1, <1>5 DEF Start, Save, Exists
  <2> QED
    BY <1>1, <2>1
<1>6. CASE \/ \E r \in Request, j \in Job, kind \in Kind : Read(r, j, kind)
           \/ \E r \in Request : Look(r) \/ Resume(r)
           \/ \E r \in Reader : Repair(r)
           \/ LookAtLatest \/ Refused \/ Ask \/ Allowed
           \/ ConfirmByHand \/ Crash \/ UNCHANGED vars
  BY <1>6 DEF Read, Look, Resume, Repair, LookAtLatest, Refused, Ask, Allowed, ConfirmByHand,
     Crash, disk, vars
<1> QED
  BY <1>2, <1>3, <1>4, <1>5, <1>6 DEF Next, Serve, Reader

-------------------------------------------------------------------------------
(* What a job may rely on *)

(***************************************************************************)
(* However reads, repairs, runners, restarts and the author's own chapters *)
(* interleave, no runner writes for a chapter behind the one it announced, *)
(* the executor holds a job once, and lists and copies name chapters of    *)
(* the book (continuous_generation.py:115-159, 186-400).                   *)
(***************************************************************************)
THEOREM BookInvariant == Spec => []BookInv
<1>1. Init => BookInv
  BY InitSafe
<1>2. BookInv /\ [Next]_vars => BookInv'
  BY NextSafe
<1> QED
  BY <1>1, <1>2, PTL DEF Spec

(***************************************************************************)
(* A chapter a job reports as completed is in the book, of every job, even *)
(* one whose record was overwritten by an old copy                         *)
(* (continuous_generation.py:133-147, 388-400).                            *)
(***************************************************************************)
THEOREM ChaptersAreOfficial == Spec => []CompletedAreOfficial
<1>1. BookInv => CompletedAreOfficial
  BY DEF BookInv
<1> QED
  BY <1>1, BookInvariant, PTL

(***************************************************************************)
(* Of the jobs that were not overtaken, only the registered one is at      *)
(* work, whatever else was revived; at most one chapter a job has          *)
(* confirmed is missing on its list, in a phase that a repair after a      *)
(* restart will count and not write again; and what a request holds of an  *)
(* active job nobody works on is as good as its file                       *)
(* (continuous_generation.py:115-159, file_projects.py:1286-1300,          *)
(* 2343-2371).                                                             *)
(***************************************************************************)
THEOREM RunInvariant == Spec => [](BookInv /\ RunInv)
<1>1. Init => BookInv /\ RunInv
  BY InitSafe
<1>2. BookInv /\ RunInv /\ [Next]_vars => BookInv' /\ RunInv'
  BY NextSafe
<1> QED
  BY <1>1, <1>2, PTL DEF Spec

(***************************************************************************)
(* A job that is not overtaken never confirms more chapters than it was    *)
(* asked for, whatever interrupts and resumes it                           *)
(* (continuous_generation.py:115-159, 186-217).                            *)
(***************************************************************************)
THEOREM AskedForIsTheLimit == Spec => []NeverMoreThanAsked
<1>1. ASSUME BookInv, RunInv, NEW j \in Job, j \notin overtaken
      PROVE  wrote[j] <= Count
  <2>1. Accounted(j) /\ Count \in Nat
    BY <1>1, Constants DEF RunInv, RunOf
  <2> QED
    BY <2>1 DEF Accounted
<1>2. BookInv /\ RunInv => NeverMoreThanAsked
  BY <1>1 DEF NeverMoreThanAsked
<1> QED
  BY <1>2, RunInvariant, PTL

(***************************************************************************)
(* Once told to stop, a job that is not overtaken confirms at most the     *)
(* chapter it was about to write (continuous_generation.py:93-104,         *)
(* 186-194).                                                               *)
(***************************************************************************)
THEOREM StopTakesEffect == Spec => []StopIsHeeded
<1>1. RunInv => StopIsHeeded
  BY DEF RunInv, RunOf, Stopping, StopIsHeeded
<1> QED
  BY <1>1, RunInvariant, PTL

(***************************************************************************)
(* Of the jobs of one book that were not overtaken, at most one unfinished *)
(* job is on the executor: it is the registered one                        *)
(* (file_projects.py:2275-2294).                                           *)
(***************************************************************************)
THEOREM OneAtATime == Spec => []OneJobAtWork
<1>1. ASSUME RunInv
      PROVE  OneJobAtWork
  <2> DEFINE busy == {j \in Job \ overtaken : pc[j] # "none" /\ file[j].status \in Active}
  <2>1. busy \subseteq {registered}
    BY <1>1 DEF RunInv, RunOf, Registration, Working, Active, Terminal
  <2>2. IsFiniteSet({registered}) /\ Cardinality({registered}) = 1
    BY FS_Singleton
  <2> HIDE DEF busy
  <2>3. IsFiniteSet(busy) /\ Cardinality(busy) <= 1
    BY <2>1, <2>2, FS_Subset
  <2> QED
    BY <2>3 DEF busy, OneJobAtWork
<1> QED
  BY <1>1, RunInvariant, PTL

(***************************************************************************)
(* Until the server stops, an active job that is not overtaken has its     *)
(* runner, queued or at work; no runner leaves while its job is still      *)
(* active (file_projects.py:1286-1300, 2275-2300).                         *)
(***************************************************************************)
THEOREM NoJobIsAbandoned == Spec => []ActiveIsWorkedOn
<1>1. RunInv => ActiveIsWorkedOn
  BY DEF RunInv, RunOf, Registration, ActiveIsWorkedOn, Active, Terminal
<1> QED
  BY <1>1, RunInvariant, PTL

(***************************************************************************)
(* A job that has ended stays ended: no runner, stop request or start      *)
(* takes it up again, and no repair of a copy read while it was at work    *)
(* but the one that overtakes it (file_projects.py:2349-2371).             *)
(***************************************************************************)
THEOREM EndedStaysEnded == Spec => TerminalStays
<1>1. ASSUME BookInv, RunInv, [Next]_vars
      PROVE  \A j \in Job : file[j].status \in Terminal
               => file'[j].status \in Terminal \/ j \in overtaken'
  BY <1>1, TerminalStep
<1>2. BookInv /\ RunInv /\ [Next]_vars =>
        [\A j \in Job : file[j].status \in Terminal
           => file'[j].status \in Terminal \/ j \in overtaken']_vars
  BY <1>1
<1> QED
  BY <1>2, RunInvariant, PTL DEF Spec, TerminalStays

===============================================================================
