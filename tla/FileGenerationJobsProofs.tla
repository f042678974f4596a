----------------------- MODULE FileGenerationJobsProofs -----------------------
(***************************************************************************)
(* Proofs about file generation jobs (file_projects.py), for every number  *)
(* of jobs, chapters, faults and stops.  A review keeps its slot because   *)
(* the lock it was admitted under still stands for what it looked for      *)
(* (DoorOK) and because every other request looks at the slot first; that  *)
(* nobody is left active rests on FilesOK, memory and files agree, and on  *)
(* SlotOnItsWay, an author's job that holds the slot is on the executor or *)
(* about to be given to it.                                                *)
(***************************************************************************)
EXTENDS FileGenerationJobs, TLAPS

\* What a request may be at
Request == {NoRequest} \cup [at: {"asked"}, kind: Kinds \ Direct] \cup [at: {"submit"}, job: Job]

\* The executor holds a job once.  Its job is in memory, and an author's job
\* was started by this process.
QueueOK ==
  /\ \A i, k \in 1..Len(queue) : queue[i] = queue[k] => i = k
  /\ \A i \in 1..Len(queue) :
       /\ mem[queue[i]] # NoRecord
       /\ mem[queue[i]].kind \in Authored => mem[queue[i]].session = session

\* So will the job be that a request is about to hand to the executor; it is
\* never one that is admitted under both locks.
RequestOK ==
  /\ request \in Request
  /\ request.at = "submit" =>
       LET j == request.job IN
       /\ mem[j] # NoRecord /\ mem[j].kind \notin Direct
       /\ mem[j].kind \in Authored => mem[j].session = session
       /\ ~Submitted(j)

\* An admission that waits for the project lock still has what it looked for
\* before: nobody active in the slot, and no continuous job.
DoorOK ==
  door # "open" => ~continuous /\ (slot # NoJob => mem[slot].status \notin Active)

\* A review or a preparation of directions that has the slot is active until
\* its worker is through with it.
DirectIsActive ==
  slot # NoJob /\ mem[slot].kind \in Direct /\ ~(at = "over" /\ This = slot) /\ Submitted(slot)
    => mem[slot].status \in Active

\* Memory and file agree, and what this process has saved is in its memory.
FilesOK ==
  /\ \A j \in Job : mem[j] # NoRecord =>
       /\ mem[j].session <= session
       /\ disk[j] # NoRecord => disk[j] = mem[j]
  /\ \A j \in Job : disk[j] # NoRecord =>
       /\ disk[j].session <= session
       /\ disk[j].session = session => mem[j] # NoRecord
  /\ latest # NoJob => disk[latest] # NoRecord

\* An author's job that this process has saved and that holds the slot
SlotOnItsWay ==
  slot # NoJob /\ disk[slot] # NoRecord /\ mem[slot].kind \in Authored
    /\ mem[slot].session = session /\ mem[slot].status \in Active
  => OnItsWay(slot)

\* The inductive invariant
FJInv ==
  /\ TypeOK
  /\ QueueOK
  /\ RequestOK
  /\ DoorOK
  /\ DirectIsActive
  /\ FilesOK
  /\ SlotOnItsWay
  /\ ReviewKeepsItsSlot
  /\ AdmittedIsSubmitted
  /\ ReviewNotBesideContinuous

-------------------------------------------------------------------------------
(* Records *)

\* No job in memory is forgotten or taken for another.
JobsStay ==
  /\ session' = session
  /\ \A k \in Job : mem[k] # NoRecord =>
       mem'[k] # NoRecord /\ mem'[k].kind = mem[k].kind /\ mem'[k].session = mem[k].session

\* A record and the fields of one
LEMMA Records ==
  ASSUME NEW r \in Record \cup {NoRecord}
  PROVE  /\ r # NoRecord <=> r \in Record
         /\ r # NoRecord <=> r.kind \in Kind
         /\ r.status \in Active => r # NoRecord
         /\ r # NoRecord => r.status \in Status /\ r.session \in 0..MaxCrashes
                            /\ r.from \in 0..MaxChapter
  BY DEF Record, NoRecord, Kind, Active, Status

\* _reconcile_file_generation_job_locked (file_projects.py:1367-1435) only ends
\* a job, and never one of this process that has the slot and is a review.
LEMMA ReconciledOnlyEnds ==
  ASSUME NEW j \in Job, NEW r \in Record, NEW owner, NEW known, NEW quiet
  PROVE  /\ Reconciled(j, r, owner, known, quiet) \in Record
         /\ Reconciled(j, r, owner, known, quiet).kind = r.kind
         /\ Reconciled(j, r, owner, known, quiet).session = r.session
         /\ Reconciled(j, r, owner, known, quiet).status \in Active =>
              Reconciled(j, r, owner, known, quiet) = r /\ ~Left(r)
         /\ r.kind = "review" /\ r.session = session /\ owner = j =>
              Reconciled(j, r, owner, known, quiet) = r
<1> DEFINE how == CASE r.status \notin Active -> r.status
               [] r.status \in Active /\ Left(r) -> "interrupted"
               [] r.status \in Active /\ ~Left(r) /\ known /\ Overtaken(r) -> "completed"
               [] r.status \in Active /\ ~Left(r) /\ ~(known /\ Overtaken(r))
                  /\ quiet /\ ~Live(j, r, owner) -> "failed"
               [] OTHER -> r.status
<1>1. Reconciled(j, r, owner, known, quiet) = [r EXCEPT !.status = how]
  BY DEF Reconciled
<1>2. how \in {r.status, "interrupted", "completed", "failed"}
  OBVIOUS
<1>3. how \in Active => how = r.status /\ ~Left(r)
  BY DEF Active
<1>4. r.kind = "review" /\ r.session = session /\ owner = j => how = r.status
  BY DEF Left, Live, Overtaken, Authored
<1> HIDE DEF how
<1>5. how \in Status
  BY <1>2 DEF Record, Status
<1>6. /\ [r EXCEPT !.status = how] \in Record
      /\ [r EXCEPT !.status = how].kind = r.kind
      /\ [r EXCEPT !.status = how].session = r.session
      /\ [r EXCEPT !.status = how].status = how
      /\ how = r.status => [r EXCEPT !.status = how] = r
  BY <1>5 DEF Record
<1> QED
  BY <1>1, <1>3, <1>4, <1>6

\* A look at the record r of job j, which is the record in memory or, when
\* there is none, the one on disk
LEMMA LookKeeps ==
  ASSUME TypeOK, FilesOK, NEW j \in Job, NEW r \in Record, NEW owner \in Job \cup {NoJob},
         NEW known, NEW quiet,
         Look(j, r, owner, known, quiet),
         mem[j] # NoRecord => r = mem[j],
         mem[j] = NoRecord => r = disk[j],
         session' = session
  PROVE  /\ mem' \in [Job -> Record \cup {NoRecord}]
         /\ disk' \in [Job -> Record \cup {NoRecord}]
         /\ latest' \in Job \cup {NoJob}
         /\ mem'[j] = Reconciled(j, r, owner, known, quiet)
         /\ mem'[j] \in Record /\ mem'[j].kind = r.kind
         /\ mem'[j].status \in Active => ~Left(r)
         /\ mem'[j] = r => slot' = owner /\ disk' = disk
         /\ mem'[j] # r => slot' = IF owner = j THEN NoJob ELSE owner
         /\ \A k \in Job : k # j => mem'[k] = mem[k] /\ disk'[k] = disk[k]
         /\ JobsStay
         /\ FilesOK'
<1> DEFINE now == Reconciled(j, r, owner, known, quiet)
<1>1. /\ mem' = [mem EXCEPT ![j] = now]
      /\ now = r => slot' = owner /\ disk' = disk /\ latest' = latest
      /\ now # r => /\ slot' = IF owner = j THEN NoJob ELSE owner
                    /\ disk' = [disk EXCEPT ![j] = now] /\ latest' = j
  BY DEF Look, Save, files
<1>2. /\ now \in Record /\ now.kind = r.kind /\ now.session = r.session
      /\ now.status \in Active => ~Left(r)
  BY ReconciledOnlyEnds
<1>3. now # NoRecord /\ r # NoRecord
  BY <1>2 DEF Record, NoRecord, Kind
<1> HIDE DEF now
<1>4. /\ mem' \in [Job -> Record \cup {NoRecord}] /\ mem'[j] = now
      /\ \A k \in Job : k # j => mem'[k] = mem[k]
  BY <1>1, <1>2 DEF TypeOK
<1>5. /\ disk' \in [Job -> Record \cup {NoRecord}]
      /\ now # r => disk'[j] = now
      /\ \A k \in Job : k # j => disk'[k] = disk[k]
  BY <1>1, <1>2 DEF TypeOK
<1>6. JobsStay
  BY <1>2, <1>3, <1>4 DEF JobsStay
<1>7. FilesOK'
  <2>1. r.session <= session
    BY <1>3 DEF FilesOK
  <2>2. ASSUME NEW k \in Job, mem'[k] # NoRecord
        PROVE  /\ mem'[k].session <= session'
               /\ disk'[k] # NoRecord => disk'[k] = mem'[k]
    <3>1. CASE k = j
      <4>1. CASE now = r
        BY <1>1, <1>2, <1>4, <2>1, <3>1, <4>1 DEF FilesOK
      <4>2. CASE now # r
        BY <1>2, <1>4, <1>5, <2>1, <3>1, <4>2
      <4> QED
        BY <4>1, <4>2
    <3>2. CASE k # j
      BY <1>4, <1>5, <2>2, <3>2 DEF FilesOK
    <3> QED
      BY <3>1, <3>2
  <2>3. ASSUME NEW k \in Job, disk'[k] # NoRecord
        PROVE  /\ disk'[k].session <= session'
               /\ disk'[k].session = session' => mem'[k] # NoRecord
    <3>1. CASE k = j
      <4>1. CASE now = r
        BY <1>1, <1>3, <1>4, <2>1, <2>3, <3>1, <4>1 DEF FilesOK
      <4>2. CASE now # r
        BY <1>2, <1>3, <1>4, <1>5, <2>1, <3>1, <4>2
      <4> QED
        BY <4>1, <4>2
    <3>2. CASE k # j
      BY <1>4, <1>5, <2>3, <3>2 DEF FilesOK
    <3> QED
      BY <3>1, <3>2
  <2>4. latest' # NoJob => disk'[latest'] # NoRecord
    <3>1. CASE now = r
      BY <1>1, <3>1 DEF FilesOK
    <3>2. CASE now # r
      BY <1>1, <1>3, <1>5, <3>2
    <3> QED
      BY <3>1, <3>2
  <2> QED
    BY <2>2, <2>3, <2>4 DEF FilesOK
<1>8. latest' \in Job \cup {NoJob}
  BY <1>1 DEF TypeOK
<1>9. /\ mem'[j] \in Record /\ mem'[j].kind = r.kind
      /\ mem'[j].status \in Active => ~Left(r)
  BY <1>2, <1>4
<1>10. mem'[j] = Reconciled(j, r, owner, known, quiet)
  BY <1>4 DEF now
<1>11. /\ mem'[j] = r => slot' = owner /\ disk' = disk
       /\ mem'[j] # r => slot' = IF owner = j THEN NoJob ELSE owner
  BY <1>1, <1>4
<1> QED
  BY <1>4, <1>5, <1>6, <1>7, <1>8, <1>9, <1>10, <1>11

\* _update_file_generation_job of the job on the worker
LEMMA UpdateKeeps ==
  ASSUME TypeOK, QueueOK, FilesOK, Worked, NEW status \in Status, Update(status),
         session' = session
  PROVE  /\ This \in Job /\ mem[This] \in Record /\ Submitted(This)
         /\ mem' \in [Job -> Record \cup {NoRecord}]
         /\ disk' \in [Job -> Record \cup {NoRecord}]
         /\ latest' \in Job \cup {NoJob}
         /\ mem'[This].status = status
         /\ \A k \in Job : k # This => mem'[k] = mem[k] /\ disk'[k] = disk[k]
         /\ JobsStay
         /\ FilesOK'
<1> DEFINE r == [mem[This] EXCEPT !.status = status]
<1>1. /\ queue \in Seq(Job) /\ Len(queue) \in Nat /\ 1 \in 1..Len(queue) /\ This = queue[1]
  BY DEF TypeOK, Worked, This
<1>2. This \in Job /\ mem[This] # NoRecord /\ Submitted(This)
  BY <1>1 DEF QueueOK, Submitted
<1>3. mem[This] \in Record
  BY <1>2 DEF TypeOK
<1>4. mem' = [mem EXCEPT ![This] = r] /\ disk' = [disk EXCEPT ![This] = r] /\ latest' = This
  BY DEF Update, Save
<1>5. /\ r \in Record /\ r.kind = mem[This].kind /\ r.session = mem[This].session
      /\ r.status = status
  BY <1>3 DEF Record
<1> HIDE DEF r
<1>6. r # NoRecord
  BY <1>5 DEF Record, NoRecord, Kind
<1>7. /\ mem' \in [Job -> Record \cup {NoRecord}] /\ mem'[This] = r
      /\ disk' \in [Job -> Record \cup {NoRecord}] /\ disk'[This] = r
      /\ \A k \in Job : k # This => mem'[k] = mem[k] /\ disk'[k] = disk[k]
  BY <1>2, <1>4, <1>5 DEF TypeOK
<1>8. JobsStay
  BY <1>5, <1>6, <1>7 DEF JobsStay
<1>9. FilesOK'
  <2>1. \A k \in Job : mem'[k] # NoRecord =>
          mem'[k].session <= session' /\ (disk'[k] # NoRecord => disk'[k] = mem'[k])
    BY <1>2, <1>5, <1>7 DEF FilesOK
  <2>2. \A k \in Job : disk'[k] # NoRecord =>
          disk'[k].session <= session' /\ (disk'[k].session = session' => mem'[k] # NoRecord)
    BY <1>2, <1>5, <1>6, <1>7 DEF FilesOK
  <2> QED
    BY <1>2, <1>4, <1>6, <1>7, <2>1, <2>2 DEF FilesOK
<1> QED
  BY <1>2, <1>3, <1>4, <1>5, <1>7, <1>8, <1>9

-------------------------------------------------------------------------------
(* Steps that start no job *)

\* What JobsStay keeps by itself
LEMMA StayKeeps ==
  ASSUME JobsStay
  PROVE  /\ Restored => Restored'
         /\ QueueOK /\ TypeOK /\ queue' = queue => QueueOK'
         /\ RequestOK /\ queue' = queue /\ request' = request => RequestOK'
<1>1. Restored => Restored'
  BY DEF Restored, JobsStay
<1>2. QueueOK /\ TypeOK /\ queue' = queue => QueueOK'
  <2> SUFFICES ASSUME QueueOK, TypeOK, queue' = queue
               PROVE  QueueOK'
    OBVIOUS
  <2>1. \A i \in 1..Len(queue) : queue[i] \in Job
    BY DEF TypeOK
  <2> QED
    BY <2>1 DEF QueueOK, JobsStay
<1>3. RequestOK /\ queue' = queue /\ request' = request => RequestOK'
  <2> SUFFICES ASSUME RequestOK, queue' = queue, request' = request
               PROVE  RequestOK'
    OBVIOUS
  <2>1. request.at = "submit" => request.job \in Job
    BY DEF RequestOK, Request, NoRequest
  <2> QED
    BY <2>1 DEF RequestOK, JobsStay, Submitted, Request
<1> QED
  BY <1>1, <1>2, <1>3

\* Who stays on his way
LEMMA StaysOnItsWay ==
  ASSUME queue' = queue, request' = request \/ request.at # "submit", NEW j, OnItsWay(j)
  PROVE  OnItsWay(j)' /\ (Submitted(j) => Submitted(j)')
  BY DEF OnItsWay, Submitted

\* Nobody's record changes unless it loses the slot; the executor's queue is
\* left alone.
LEMMA QuietSafe ==
  ASSUME FJInv, TypeOK', FilesOK', JobsStay, DoorOK', queue' = queue,
         \/ request' = request
         \/ request.at # "submit" /\ request' \in Request /\ request'.at # "submit",
         at = "over" <=> at' = "over",
         \/ slot' = NoJob
         \/ /\ slot' = slot
            /\ slot # NoJob => mem'[slot] = mem[slot] /\ disk'[slot] = disk[slot]
         \/ mem'[slot'].kind \notin Authored,
         \A k \in Job : /\ slot = k /\ Submitted(k) /\ mem[k].kind = "review"
                        /\ mem[k].session = session
                        => slot' = slot /\ mem'[k] = mem[k],
         continuous' => continuous \/ slot' = NoJob \/ mem'[slot'].status \notin Active
  PROVE  FJInv'
<1> USE DEF FJInv
<1>1. QueueOK'
  BY StayKeeps
<1>2. RequestOK'
  <2>1. CASE request' = request
    BY <2>1, StayKeeps
  <2>2. CASE request' \in Request /\ request'.at # "submit"
    BY <2>2 DEF RequestOK, Request
  <2> QED
    BY <2>1, <2>2
<1>3. This' = This
  BY DEF This
<1>4. ASSUME NEW k \in Job
      PROVE  Submitted(k)' <=> Submitted(k)
  BY DEF Submitted
<1>5. /\ Direct \subseteq Authored /\ "review" \in Direct
  BY DEF Direct, Authored
<1>6. /\ slot \in Job \cup {NoJob} /\ slot' \in Job \cup {NoJob} /\ NoJob \notin Job
  BY FileJobsAssumption DEF TypeOK
<1>7. DirectIsActive'
  BY <1>3, <1>4, <1>5, <1>6 DEF DirectIsActive
<1>8. SlotOnItsWay'
  <2> SUFFICES ASSUME slot' # NoJob, disk'[slot'] # NoRecord, mem'[slot'].kind \in Authored,
                      mem'[slot'].session = session', mem'[slot'].status \in Active
               PROVE  OnItsWay(slot)'
    BY DEF SlotOnItsWay
  <2>1. slot' = slot /\ mem'[slot] = mem[slot] /\ disk'[slot] = disk[slot]
    OBVIOUS
  <2>2. OnItsWay(slot)
    BY <2>1 DEF SlotOnItsWay, JobsStay
  <2> QED
    BY <2>1, <2>2 DEF OnItsWay, Submitted
<1>10. ReviewKeepsItsSlot'
  <2> SUFFICES ASSUME NEW k \in Job, Submitted(k)', mem'[k].kind = "review",
                      ~(at' = "over" /\ This' = k), ~Restored'
               PROVE  slot' = k /\ mem'[k].status \in Active
    BY DEF ReviewKeepsItsSlot
  <2>1. Submitted(k) /\ ~Restored
    BY <1>4, StayKeeps
  <2>2. mem[k] # NoRecord /\ (mem[k].kind \in Authored => mem[k].session = session)
    BY <2>1 DEF QueueOK, Submitted
  <2>3. mem[k].kind = "review"
    BY <2>2 DEF JobsStay
  <2>4. slot = k /\ mem[k].status \in Active
    BY <1>3, <2>1, <2>3 DEF ReviewKeepsItsSlot
  <2> QED
    BY <1>5, <2>1, <2>2, <2>3, <2>4
<1>11. AdmittedIsSubmitted'
  <2> SUFFICES ASSUME slot' # NoJob, mem'[slot'].kind \in Direct, mem'[slot'].status \in Active
               PROVE  Submitted(slot)'
    BY DEF AdmittedIsSubmitted
  <2>1. slot' = slot /\ mem'[slot] = mem[slot]
    BY <1>5
  <2>2. Submitted(slot)
    BY <2>1 DEF AdmittedIsSubmitted
  <2> QED
    BY <2>1, <2>2 DEF Submitted
<1>12. ReviewNotBesideContinuous'
  BY <1>5 DEF ReviewNotBesideContinuous
<1> QED
  BY <1>1, <1>2, <1>7, <1>8, <1>10, <1>11, <1>12

\* A report or the end of the job on the worker
LEMMA UpdateSafe ==
  ASSUME FJInv, Worked, Alone, NEW status \in Status, Update(status),
         mem[This].kind \in Authored /\ at' # "over" => status = "running",
         at # "over", at' = "over" => status \notin Active,
         at' \in Places \ {"reporting", "idle"}, project <=> at' = "holding",
         UNCHANGED <<slot, queue, project, door, request, outside>>
  PROVE  FJInv'
<1> USE DEF FJInv
<1>1. UNCHANGED <<slot, queue, project, door, request, chapter, continuous, session, faults>>
  BY DEF outside
<1>2. /\ This \in Job /\ mem[This] \in Record /\ Submitted(This)
      /\ mem' \in [Job -> Record \cup {NoRecord}]
      /\ disk' \in [Job -> Record \cup {NoRecord}]
      /\ latest' \in Job \cup {NoJob}
      /\ mem'[This].status = status
      /\ \A k \in Job : k # This => mem'[k] = mem[k] /\ disk'[k] = disk[k]
      /\ JobsStay
      /\ FilesOK'
  BY <1>1, UpdateKeeps
<1>3. This' = This
  BY <1>1 DEF This
<1>4. ASSUME NEW k \in Job
      PROVE  (Submitted(k)' <=> Submitted(k)) /\ (OnItsWay(k)' <=> OnItsWay(k))
  BY <1>1 DEF Submitted, OnItsWay
<1>5. /\ Direct \subseteq Authored /\ "review" \in Direct /\ "running" \in Active
  BY DEF Direct, Authored, Active
<1>6. /\ slot \in Job \cup {NoJob} /\ NoJob \notin Job
  BY FileJobsAssumption DEF TypeOK
<1>7. TypeOK'
  <2>1. slot' # NoJob => mem'[slot'] # NoRecord
    BY <1>1, <1>2, <1>6 DEF TypeOK, JobsStay
  <2> QED
    BY <1>1, <1>2, <2>1 DEF TypeOK, Worked, Places
<1>8. mem'[This].kind = mem[This].kind /\ mem'[This].session = mem[This].session
  BY <1>2, Records DEF JobsStay
<1>9. QueueOK' /\ RequestOK'
  BY <1>1, <1>2, StayKeeps
<1>10. DoorOK'
  BY <1>1 DEF DoorOK, Alone
<1>11. DirectIsActive'
  BY <1>1, <1>2, <1>3, <1>4, <1>5, <1>6, <1>8 DEF DirectIsActive
<1>12. SlotOnItsWay'
  <2> SUFFICES ASSUME slot # NoJob, disk'[slot] # NoRecord, mem'[slot].kind \in Authored,
                      mem'[slot].session = session', mem'[slot].status \in Active
               PROVE  OnItsWay(slot)
    BY <1>1, <1>4, <1>6 DEF SlotOnItsWay
  <2>1. CASE slot = This
    BY <1>2, <2>1 DEF OnItsWay
  <2>2. CASE slot # This
    BY <1>1, <1>2, <1>6, <2>2 DEF SlotOnItsWay
  <2> QED
    BY <2>1, <2>2
<1>14. ReviewKeepsItsSlot'
  <2> SUFFICES ASSUME NEW k \in Job, Submitted(k), mem'[k].kind = "review",
                      ~(at' = "over" /\ This = k), ~Restored
               PROVE  slot = k /\ mem'[k].status \in Active
    BY <1>1, <1>2, <1>3, <1>4, StayKeeps DEF ReviewKeepsItsSlot
  <2>1. mem[k].kind = "review"
    BY <1>2, <1>8
  <2>2. slot = k /\ mem[k].status \in Active
    BY <2>1 DEF ReviewKeepsItsSlot
  <2>3. k = This => mem'[k].status = "running"
    BY <1>2, <1>5, <2>1
  <2> QED
    BY <1>2, <1>5, <2>2, <2>3
<1>15. AdmittedIsSubmitted'
  <2> SUFFICES ASSUME slot # NoJob, mem'[slot].kind \in Direct, mem'[slot].status \in Active
               PROVE  Submitted(slot)
    BY <1>1, <1>4, <1>6 DEF AdmittedIsSubmitted
  <2>1. CASE slot = This
    BY <1>2, <2>1
  <2>2. CASE slot # This
    BY <1>2, <1>6, <2>2 DEF AdmittedIsSubmitted
  <2> QED
    BY <2>1, <2>2
<1>16. ReviewNotBesideContinuous'
  <2> SUFFICES ASSUME continuous, slot # NoJob, mem'[slot].status \in Active,
                      mem'[slot].kind \in Direct
               PROVE  FALSE
    BY <1>1 DEF ReviewNotBesideContinuous
  <2>1. CASE slot = This
    <3>1. at' # "over"
      BY <1>2, <2>1
    <3>2. mem[slot].status \in Active
      BY <1>2, <1>8, <2>1 DEF DirectIsActive
    <3> QED
      BY <1>8, <2>1, <3>2 DEF ReviewNotBesideContinuous
  <2>2. CASE slot # This
    BY <1>2, <1>6, <2>2 DEF ReviewNotBesideContinuous
  <2> QED
    BY <2>1, <2>2
<1> QED
  BY <1>2, <1>7, <1>9, <1>10, <1>11, <1>12, <1>14, <1>15, <1>16

-------------------------------------------------------------------------------
(* Looking at jobs *)

\* After a look the slot is free, or its job is as it was.
Looked ==
  /\ mem' \in [Job -> Record \cup {NoRecord}]
  /\ disk' \in [Job -> Record \cup {NoRecord}]
  /\ latest' \in Job \cup {NoJob}
  /\ JobsStay
  /\ FilesOK'
  /\ slot' \in Job \cup {NoJob}
  /\ slot' # NoJob => mem'[slot'] # NoRecord
  /\ \/ slot' = NoJob
     \/ /\ slot' = slot
        /\ slot # NoJob => mem'[slot] = mem[slot] /\ disk'[slot] = disk[slot]
  /\ \A k \in Job : slot = k /\ mem[k].kind = "review" /\ mem[k].session = session
                    => slot' = slot /\ mem'[k] = mem[k]

\* A look at one job is a look, in whatever state the job is.
LEMMA LookLooked ==
  ASSUME FJInv, NEW j \in Job, NEW r \in Record, NEW known, NEW quiet,
         Look(j, r, slot, known, quiet),
         mem[j] # NoRecord => r = mem[j],
         mem[j] = NoRecord => r = disk[j],
         session' = session
  PROVE  Looked /\ mem'[j] = Reconciled(j, r, slot, known, quiet)
<1> USE DEF FJInv
<1>1. slot \in Job \cup {NoJob} /\ NoJob \notin Job /\ (slot # NoJob => mem[slot] # NoRecord)
  BY FileJobsAssumption DEF TypeOK
<1>2. /\ mem' \in [Job -> Record \cup {NoRecord}]
      /\ disk' \in [Job -> Record \cup {NoRecord}]
      /\ latest' \in Job \cup {NoJob}
      /\ mem'[j] = Reconciled(j, r, slot, known, quiet)
      /\ mem'[j] = r => slot' = slot /\ disk' = disk
      /\ mem'[j] # r => slot' = IF slot = j THEN NoJob ELSE slot
      /\ \A k \in Job : k # j => mem'[k] = mem[k] /\ disk'[k] = disk[k]
      /\ JobsStay
      /\ FilesOK'
  BY <1>1, LookKeeps
<1>3. \/ slot' = NoJob
      \/ /\ slot' = slot
         /\ slot # NoJob => mem'[slot] = mem[slot] /\ disk'[slot] = disk[slot]
  <2>1. CASE slot = j
    BY <1>1, <1>2, <2>1
  <2>2. CASE slot # j
    BY <1>1, <1>2, <2>2
  <2> QED
    BY <2>1, <2>2
<1>4. slot' # NoJob => mem'[slot'] # NoRecord
  BY <1>1, <1>3
<1>5. ASSUME NEW k \in Job, slot = k, mem[k].kind = "review", mem[k].session = session
      PROVE  slot' = slot /\ mem'[k] = mem[k]
  <2>1. CASE k = j
    <3>1. r = mem[j]
      BY <1>1, <1>5, <2>1
    <3>2. Reconciled(j, r, slot, known, quiet) = r
      BY <1>5, <2>1, <3>1, ReconciledOnlyEnds
    <3> QED
      BY <1>2, <2>1, <3>1, <3>2
  <2>2. CASE k # j
    BY <1>2, <1>5, <2>2
  <2> QED
    BY <2>1, <2>2
<1>6. slot' \in Job \cup {NoJob}
  BY <1>1, <1>3
<1> QED
  BY <1>2, <1>3, <1>4, <1>5, <1>6 DEF Looked

\* _normal_generation_active_locked: after it, an unoccupied slot holds nobody
\* who is active.
LEMMA LookAtSlotLooked ==
  ASSUME FJInv, NEW quiet, LookAtSlot(quiet), session' = session
  PROVE  /\ Looked
         /\ ~Occupied(quiet) /\ slot' # NoJob => mem'[slot'].status \notin Active
<1> USE DEF FJInv
<1>1. CASE slot = NoJob
  <2>1. UNCHANGED <<mem, disk, latest, slot>>
    BY <1>1 DEF LookAtSlot, records
  <2>2. FilesOK'
    BY <2>1 DEF FilesOK
  <2> QED
    BY <1>1, <2>1, <2>2, FileJobsAssumption DEF Looked, TypeOK, JobsStay
<1>2. CASE slot # NoJob
  <2>1. slot \in Job /\ mem[slot] \in Record /\ mem[slot] # NoRecord
    BY <1>2 DEF TypeOK
  <2>2. Look(slot, mem[slot], slot, TRUE, quiet)
    BY <1>2 DEF LookAtSlot
  <2>3. Looked /\ mem'[slot] = Reconciled(slot, mem[slot], slot, TRUE, quiet)
    BY <2>1, <2>2, LookLooked
  <2>4. ~Occupied(quiet) => mem'[slot].status \notin Active
    BY <1>2, <2>3 DEF Occupied
  <2> QED
    BY <2>3, <2>4 DEF Looked
<1> QED
  BY <1>1, <1>2

\* A request that looks at jobs, and nothing else of the records, keeps
\* the invariant.
LEMMA LookedSafe ==
  ASSUME FJInv, Looked, queue' = queue, at' = at, project' = project,
         chapter' = chapter, faults' = faults,
         continuous' \in BOOLEAN, door' \in Direct \cup {"open"}, DoorOK',
         \/ request' = request
         \/ request.at # "submit" /\ request' \in Request /\ request'.at # "submit",
         continuous' => continuous \/ slot' = NoJob \/ mem'[slot'].status \notin Active
  PROVE  FJInv'
<1>1. TypeOK'
  BY DEF Looked, FJInv, TypeOK, JobsStay, Worked
<1>3. JobsStay /\ FilesOK'
  BY DEF Looked
<1>4. \/ slot' = NoJob
      \/ /\ slot' = slot
         /\ slot # NoJob => mem'[slot] = mem[slot] /\ disk'[slot] = disk[slot]
      \/ mem'[slot'].kind \notin Authored
  BY DEF Looked
<1>5. \A k \in Job : /\ slot = k /\ Submitted(k) /\ mem[k].kind = "review"
                     /\ mem[k].session = session
                     => slot' = slot /\ mem'[k] = mem[k]
  BY DEF Looked
<1> QED
  BY <1>1, <1>3, <1>4, <1>5, QuietSafe

\* An admission takes the jobs lock after its looks.
LEMMA EnterSafe ==
  ASSUME FJInv, NEW kind, NEW quiet, Enter(kind, quiet)
  PROVE  FJInv'
<1> USE DEF FJInv
<1>1. /\ Alone /\ kind \in Kinds \cap Direct
      /\ UNCHANGED <<queue, at, project, request, chapter, continuous, session, faults>>
      /\ LookAtSlot(quiet)
      /\ door' = "open" \/ (door' = kind /\ ~Occupied(quiet) /\ ~continuous)
  BY DEF Enter, worker, outside, Alone
<1>2. /\ Looked
      /\ ~Occupied(quiet) /\ slot' # NoJob => mem'[slot'].status \notin Active
  BY <1>1, LookAtSlotLooked
<1>3. DoorOK'
  BY <1>1, <1>2 DEF DoorOK
<1>4. continuous' \in BOOLEAN /\ door' \in Direct \cup {"open"}
  BY <1>1 DEF TypeOK
<1> QED
  BY <1>1, <1>2, <1>3, <1>4, LookedSafe

\* A request answered with the job that is active
LEMMA AnswerWithActiveSafe ==
  ASSUME FJInv, NEW quiet, AnswerWithActive(quiet)
  PROVE  FJInv'
<1> USE DEF FJInv
<1>1. /\ Alone /\ request.at = "asked" /\ request' = NoRequest
      /\ UNCHANGED <<queue, at, project, door, chapter, continuous, session, faults>>
      /\ LookAtSlot(quiet)
  BY DEF AnswerWithActive, worker, outside
<1>2. Looked
  BY <1>1, LookAtSlotLooked
<1>3. DoorOK'
  BY <1>1 DEF DoorOK, Alone
<1>4. continuous' \in BOOLEAN /\ door' \in Direct \cup {"open"}
  BY <1>1 DEF TypeOK
<1>5. request.at # "submit" /\ request' \in Request /\ request'.at # "submit"
  BY <1>1 DEF Request, NoRequest
<1> QED
  BY <1>1, <1>2, <1>3, <1>4, <1>5, LookedSafe

\* A continuous job starts when the looks leave nobody in the slot.
LEMMA StartContinuousSafe ==
  ASSUME FJInv, NEW quiet, StartContinuous(quiet)
  PROVE  FJInv'
<1> USE DEF FJInv
<1>1. /\ Alone /\ continuous' = ~Occupied(quiet)
      /\ UNCHANGED <<queue, at, project, door, request, chapter, session, faults>>
      /\ LookAtSlot(quiet)
  BY DEF StartContinuous, worker
<1>2. /\ Looked
      /\ ~Occupied(quiet) /\ slot' # NoJob => mem'[slot'].status \notin Active
  BY <1>1, LookAtSlotLooked
<1>3. DoorOK'
  BY <1>1 DEF DoorOK, Alone
<1>4. continuous' \in BOOLEAN /\ door' \in Direct \cup {"open"}
  BY <1>1 DEF TypeOK
<1>5. continuous' => continuous \/ slot' = NoJob \/ mem'[slot'].status \notin Active
  BY <1>1, <1>2
<1> QED
  BY <1>1, <1>2, <1>3, <1>4, <1>5, LookedSafe

\* The author asks for one job.
LEMMA ReadOneSafe ==
  ASSUME FJInv, NEW j \in Job, NEW quiet, ReadOne(j, quiet)
  PROVE  FJInv'
<1> USE DEF FJInv
<1>1. /\ Alone
      /\ UNCHANGED <<queue, at, project, door, request, chapter, continuous, session, faults>>
      /\ \/ mem[j] # NoRecord /\ Look(j, mem[j], slot, FALSE, quiet)
         \/ mem[j] = NoRecord /\ disk[j] # NoRecord /\ Look(j, disk[j], slot, FALSE, quiet)
  BY DEF ReadOne, worker, outside
<1>2. Looked
  <2>1. CASE mem[j] # NoRecord /\ Look(j, mem[j], slot, FALSE, quiet)
    <3>1. mem[j] \in Record
      BY <2>1 DEF TypeOK
    <3> QED
      BY <1>1, <2>1, <3>1, LookLooked
  <2>2. CASE mem[j] = NoRecord /\ disk[j] # NoRecord /\ Look(j, disk[j], slot, FALSE, quiet)
    <3>1. disk[j] \in Record
      BY <2>2 DEF TypeOK
    <3> QED
      BY <1>1, <2>2, <3>1, LookLooked
  <2> QED
    BY <1>1, <2>1, <2>2
<1>3. DoorOK'
  BY <1>1 DEF DoorOK, Alone
<1>4. continuous' \in BOOLEAN /\ door' \in Direct \cup {"open"}
  BY <1>1 DEF TypeOK
<1> QED
  BY <1>1, <1>2, <1>3, <1>4, LookedSafe

\* The third case is a record of an earlier process: it may take the slot, but
\* not as an author's job.
LEMMA ReadCurrentSafe ==
  ASSUME FJInv, NEW quiet, ReadCurrent(quiet)
  PROVE  FJInv'
<1> USE DEF FJInv
<1>1. /\ Alone
      /\ UNCHANGED <<queue, at, project, door, request, chapter, continuous, session, faults>>
  BY DEF ReadCurrent, worker, outside
<1>2. DoorOK'
  BY <1>1 DEF DoorOK, Alone
<1>3. continuous' \in BOOLEAN /\ door' \in Direct \cup {"open"}
  BY <1>1 DEF TypeOK
<1>4. CASE slot # NoJob /\ Look(slot, mem[slot], slot, FALSE, quiet)
  <2>1. slot \in Job /\ mem[slot] \in Record /\ mem[slot] # NoRecord
    BY <1>4 DEF TypeOK
  <2>2. Looked
    BY <1>1, <1>4, <2>1, LookLooked
  <2> QED
    BY <1>1, <1>2, <1>3, <2>2, LookedSafe
<1>5. ASSUME NEW j \in Known, Look(j, mem[j], slot, FALSE, quiet)
      PROVE  FJInv'
  <2>1. j \in Job /\ mem[j] \in Record /\ mem[j] # NoRecord
    BY <1>5 DEF TypeOK, Known
  <2>2. Looked
    BY <1>1, <1>5, <2>1, LookLooked
  <2> QED
    BY <1>1, <1>2, <1>3, <2>2, LookedSafe
<1>6. CASE /\ slot = NoJob /\ Known = {} /\ latest # NoJob
           /\ LET r == disk[latest] IN
              Look(latest, r, IF r.status \in Active THEN latest ELSE NoJob, FALSE, quiet)
  <2> DEFINE r == disk[latest]
             owner == IF r.status \in Active THEN latest ELSE NoJob
  <2>1. latest \in Job /\ r \in Record /\ r # NoRecord /\ mem[latest] = NoRecord
    BY <1>6 DEF TypeOK, FilesOK, Known
  <2>2. r.session # session
    BY <2>1 DEF FilesOK
  <2>3. owner \in Job \cup {NoJob}
    BY <2>1
  <2>4. Look(latest, r, owner, FALSE, quiet)
    BY <1>6
  <2>a. mem[latest] # NoRecord => r = mem[latest]
    BY <2>1
  <2>b. mem[latest] = NoRecord => r = disk[latest]
    OBVIOUS
  <2>c. TypeOK /\ FilesOK /\ session' = session
    BY <1>1
  <2>d. latest \in Job /\ r \in Record
    BY <2>1
  <2> HIDE DEF owner, r, FJInv
  <2>5. /\ mem' \in [Job -> Record \cup {NoRecord}]
        /\ disk' \in [Job -> Record \cup {NoRecord}]
        /\ latest' \in Job \cup {NoJob}
        /\ mem'[latest] = r => slot' = owner /\ disk' = disk
        /\ mem'[latest] # r => slot' = IF owner = latest THEN NoJob ELSE owner
        /\ JobsStay
        /\ FilesOK'
        /\ mem'[latest] \in Record /\ mem'[latest].kind = r.kind
        /\ mem'[latest].status \in Active => ~Left(r)
    BY <2>c, <2>d, <2>3, <2>4, <2>a, <2>b, LookKeeps
  <2> USE DEF FJInv
  <2>7. slot' = NoJob \/ (slot' = latest /\ mem'[latest] = r /\ r.status \in Active)
    BY <2>5 DEF owner
  <2>8. slot' = NoJob \/ mem'[slot'].kind \notin Authored
    BY <2>2, <2>5, <2>7 DEF Left
  <2>9. TypeOK'
    BY <1>1, <2>1, <2>5, <2>7 DEF TypeOK, Worked
  <2>11. \A k \in Job : slot # k
    BY <1>6, FileJobsAssumption
  <2>12. continuous' => continuous
    BY <1>1
  <2>13. queue' = queue /\ request' = request /\ at' = at
    BY <1>1
  <2> QED
    BY <1>2, <2>5, <2>8, <2>9, <2>11, <2>12, <2>13, QuietSafe
<1> QED
  BY <1>4, <1>5, <1>6 DEF ReadCurrent

-------------------------------------------------------------------------------
(* Steps that leave the records alone *)

\* A step that leaves records, slot and queue alone
LEMMA RecordsKeptSafe ==
  ASSUME FJInv, mem' = mem, disk' = disk, latest' = latest, slot' = slot,
         queue' = queue, session' = session, faults' = faults,
         at' \in Places, at' # "idle" => Worked, project' \in BOOLEAN,
         project' <=> at' \in {"holding", "reporting"},
         at = "over" <=> at' = "over",
         door' = door \/ door' = "open", chapter' \in 0..MaxChapter,
         continuous' \in BOOLEAN, continuous' => continuous,
         \/ request' = request
         \/ request.at # "submit" /\ request' \in Request /\ request'.at # "submit"
  PROVE  FJInv'
<1>1. TypeOK'
  BY DEF FJInv, TypeOK, Worked
<1>2. FilesOK' /\ JobsStay
  BY DEF FJInv, FilesOK, JobsStay
<1>3. DoorOK'
  BY DEF FJInv, DoorOK
<1>4. slot' = slot /\ (slot # NoJob => mem'[slot] = mem[slot] /\ disk'[slot] = disk[slot])
  OBVIOUS
<1>5. \A k \in Job : /\ slot = k /\ Submitted(k) /\ mem[k].kind = "review"
                     /\ mem[k].session = session
                     => slot' = slot /\ mem'[k] = mem[k]
  OBVIOUS
<1> QED
  BY <1>1, <1>2, <1>3, <1>4, <1>5, QuietSafe

\* A stutter
LEMMA StutterSafe ==
  ASSUME FJInv, UNCHANGED vars
  PROVE  FJInv'
<1>1. UNCHANGED <<mem, disk, latest, slot, queue, at, door, project, request,
                  chapter, continuous, session, faults>>
  BY DEF vars
<1>2. /\ at \in Places /\ (at # "idle" => Worked) /\ project \in BOOLEAN
      /\ (project <=> at \in {"holding", "reporting"})
      /\ chapter \in 0..MaxChapter /\ continuous \in BOOLEAN
  BY DEF FJInv, TypeOK
<1> QED
  BY <1>1, <1>2, RecordsKeptSafe

\* Refusals, arrivals, and what the worker does without a report
LEMMA EasySafe ==
  ASSUME FJInv, \/ Refuse \/ \E kind \in Kinds : Ask(kind)
                \/ TakeProject \/ WantToReport \/ Write
                \/ EndContinuous \/ ConfirmChapter
  PROVE  FJInv'
<1>1. UNCHANGED <<mem, disk, latest, slot, queue, session, faults>>
  BY DEF Refuse, Ask, TakeProject, WantToReport, Write, EndContinuous, ConfirmChapter,
     records, worker, outside
<1>2. /\ at \in Places /\ (at # "idle" => Worked) /\ project \in BOOLEAN
      /\ (project <=> at \in {"holding", "reporting"})
      /\ chapter \in 0..MaxChapter /\ continuous \in BOOLEAN
  BY DEF FJInv, TypeOK
<1>3. MaxChapter \in Nat
  BY FileJobsAssumption
<1>4. CASE Refuse
  <2>1. /\ UNCHANGED <<at, project, request, chapter, continuous>>
        /\ door' = "open"
    BY <1>4 DEF Refuse, worker, outside
  <2> QED
    BY <1>1, <1>2, <2>1, RecordsKeptSafe
<1>5. ASSUME NEW kind \in Kinds, Ask(kind)
      PROVE  FJInv'
  <2>1. /\ UNCHANGED <<at, project, door, chapter, continuous>>
        /\ request = NoRequest /\ request' = [at |-> "asked", kind |-> kind]
        /\ kind \in Kinds \ Direct
    BY <1>5 DEF Ask, worker, outside
  <2>2. request.at # "submit" /\ request' \in Request /\ request'.at # "submit"
    BY <2>1 DEF Request, NoRequest
  <2> QED
    BY <1>1, <1>2, <2>1, <2>2, RecordsKeptSafe
<1>6. CASE TakeProject
  <2>1. /\ UNCHANGED <<door, request, chapter, continuous>>
        /\ Worked /\ at = "model" /\ at' = "holding" /\ project' = TRUE
    BY <1>6 DEF TakeProject, outside
  <2> QED
    BY <1>1, <1>2, <2>1, RecordsKeptSafe DEF Places
<1>7. CASE WantToReport
  <2>1. /\ UNCHANGED <<door, request, chapter, continuous, project>>
        /\ Worked /\ at = "holding" /\ at' = "reporting"
    BY <1>7 DEF WantToReport, MayReportHolding, outside
  <2> QED
    BY <1>1, <1>2, <2>1, RecordsKeptSafe DEF Places
<1>8. CASE Write
  <2>1. /\ UNCHANGED <<door, request, continuous>>
        /\ at = "holding" /\ at' = "written" /\ project' = FALSE
        /\ Worked
    BY <1>8 DEF Write
  <2>2. chapter' \in 0..MaxChapter
    BY <1>2, <1>3, <1>8 DEF Write
  <2> QED
    BY <1>1, <1>2, <2>1, <2>2, RecordsKeptSafe DEF Places
<1>9. CASE EndContinuous
  <2>1. /\ UNCHANGED <<at, project, door, request, chapter>>
        /\ continuous' = FALSE
    BY <1>9 DEF EndContinuous, worker
  <2> QED
    BY <1>1, <1>2, <2>1, RecordsKeptSafe
<1>10. CASE ConfirmChapter
  <2>1. UNCHANGED <<at, project, door, request, continuous>>
    BY <1>10 DEF ConfirmChapter, worker
  <2>2. chapter' \in 0..MaxChapter
    BY <1>2, <1>3, <1>10 DEF ConfirmChapter
  <2> QED
    BY <1>1, <1>2, <2>1, <2>2, RecordsKeptSafe
<1> QED
  BY <1>4, <1>5, <1>6, <1>7, <1>8, <1>9, <1>10

-------------------------------------------------------------------------------
(* The worker's reports *)

\* report_progress shows an author's job as running whatever stage is over.
LEMMA ReportsSafe ==
  ASSUME FJInv,
         \/ Begin
         \/ \E shown \in {"running", "done"} : ReportStage(shown) \/ ReportHolding(shown)
         \/ \E status \in {"completed", "failed"} : Finish(status)
  PROVE  FJInv'
<1>1. {"running", "done", "completed", "failed"} \subseteq Status
  BY DEF Status, Active
<1>2. /\ at \in Places /\ project \in BOOLEAN
      /\ (project <=> at \in {"holding", "reporting"})
  BY DEF FJInv, TypeOK
<1>3. CASE Begin
  <2> DEFINE status == IF mem[This].kind \in Authored THEN "running" ELSE "running"
  <2>1. /\ Alone /\ Worked /\ at = "idle" /\ at' = "model"
        /\ Update(status)
        /\ UNCHANGED <<slot, queue, project, door, request, outside>>
    BY <1>3 DEF Begin, Report
  <2>2. status \in Status /\ status = "running"
    BY <1>1
  <2> HIDE DEF status
  <2> QED
    BY <1>2, <2>1, <2>2, UpdateSafe DEF Places
<1>4. ASSUME NEW shown \in {"running", "done"}, ReportStage(shown)
      PROVE  FJInv'
  <2> DEFINE status == IF mem[This].kind \in Authored THEN "running" ELSE shown
  <2>1. /\ Alone /\ Worked /\ at \in {"model", "written"} /\ at' = at
        /\ Update(status)
        /\ UNCHANGED <<slot, queue, project, door, request, outside>>
    BY <1>4 DEF ReportStage, Report, worker
  <2>2. status \in Status /\ (mem[This].kind \in Authored => status = "running")
    BY <1>1
  <2> HIDE DEF status
  <2> QED
    BY <1>2, <2>1, <2>2, UpdateSafe DEF Places
<1>5. ASSUME NEW shown \in {"running", "done"}, ReportHolding(shown)
      PROVE  FJInv'
  <2> DEFINE status == IF mem[This].kind \in Authored THEN "running" ELSE shown
  <2>1. /\ Alone /\ Worked /\ at = "reporting" /\ at' = "holding"
        /\ Update(status)
        /\ UNCHANGED <<slot, queue, project, door, request, outside>>
    BY <1>5 DEF ReportHolding, Report
  <2>2. status \in Status /\ (mem[This].kind \in Authored => status = "running")
    BY <1>1
  <2> HIDE DEF status
  <2> QED
    BY <1>2, <2>1, <2>2, UpdateSafe DEF Places
<1>6. ASSUME NEW status \in {"completed", "failed"}, Finish(status)
      PROVE  FJInv'
  <2>1. /\ Alone /\ Worked /\ at \in {"model", "written"} /\ at' = "over"
        /\ Update(status)
        /\ UNCHANGED <<slot, queue, project, door, request, outside>>
    BY <1>6 DEF Finish
  <2>2. status \in Status /\ status \notin Active
    BY <1>1 DEF Active
  <2> QED
    BY <1>2, <2>1, <2>2, UpdateSafe DEF Places
<1> QED
  BY <1>3, <1>4, <1>5, <1>6

-------------------------------------------------------------------------------
(* The executor *)

\* Submission puts a job that is not there at the end of the queue.
LEMMA Appended ==
  ASSUME TypeOK, QueueOK, NEW j \in Job, ~Submitted(j), queue' = Append(queue, j)
  PROVE  /\ queue' \in Seq(Job) /\ queue' # <<>>
         /\ \A i, k \in 1..Len(queue') : queue'[i] = queue'[k] => i = k
         /\ \A k \in Job : Submitted(k)' <=> Submitted(k) \/ k = j
         /\ Worked => This' = This
<1>1. /\ queue \in Seq(Job) /\ Len(queue) \in Nat
      /\ queue' \in Seq(Job) /\ Len(queue') = Len(queue) + 1
      /\ \A i \in 1..Len(queue) : queue'[i] = queue[i]
      /\ queue'[Len(queue) + 1] = j
  BY DEF TypeOK
<1>2. queue' # <<>>
  BY <1>1
<1>3. \A i, k \in 1..Len(queue') : queue'[i] = queue'[k] => i = k
  <2> SUFFICES ASSUME NEW i \in 1..Len(queue'), NEW k \in 1..Len(queue'), queue'[i] = queue'[k]
               PROVE  i = k
    OBVIOUS
  <2>1. /\ i \in 1..Len(queue) \/ i = Len(queue) + 1
        /\ k \in 1..Len(queue) \/ k = Len(queue) + 1
    BY <1>1
  <2> QED
    BY <1>1, <2>1 DEF QueueOK, Submitted
<1>4. ASSUME NEW k \in Job
      PROVE  Submitted(k)' <=> Submitted(k) \/ k = j
  BY <1>1 DEF Submitted
<1>5. Worked => This' = This
  <2> SUFFICES ASSUME Worked
               PROVE  This' = This
    OBVIOUS
  <2>1. Len(queue) > 0 /\ 1 \in 1..Len(queue)
    BY <1>1 DEF Worked
  <2> QED
    BY <1>1, <1>2, <2>1 DEF This
<1> QED
  BY <1>1, <1>2, <1>3, <1>4, <1>5

\* The worker's job leaves the queue, and only that one.
LEMMA Taken ==
  ASSUME TypeOK, QueueOK, Worked, queue' = Tail(queue)
  PROVE  /\ queue' \in Seq(Job)
         /\ \A i, k \in 1..Len(queue') : queue'[i] = queue'[k] => i = k
         /\ \A k \in Job : Submitted(k)' <=> Submitted(k) /\ k # This
<1>1. /\ queue \in Seq(Job) /\ Len(queue) \in Nat /\ Len(queue) > 0 /\ This = queue[1]
      /\ queue' \in Seq(Job) /\ Len(queue') = Len(queue) - 1
      /\ \A i \in 1..Len(queue') : queue'[i] = queue[i + 1]
  BY DEF TypeOK, Worked, This
<1>2. \A i, k \in 1..Len(queue') : queue'[i] = queue'[k] => i = k
  <2> SUFFICES ASSUME NEW i \in 1..Len(queue'), NEW k \in 1..Len(queue'), queue'[i] = queue'[k]
               PROVE  i = k
    OBVIOUS
  <2>1. i + 1 \in 1..Len(queue) /\ k + 1 \in 1..Len(queue) /\ queue[i + 1] = queue[k + 1]
    BY <1>1
  <2> QED
    BY <2>1 DEF QueueOK
<1>3. ASSUME NEW k \in Job
      PROVE  Submitted(k)' <=> Submitted(k) /\ k # This
  <2>1. ASSUME NEW i \in 1..Len(queue'), queue'[i] = k
        PROVE  Submitted(k) /\ k # This
    <3>1. i + 1 \in 1..Len(queue) /\ queue[i + 1] = k /\ 1 \in 1..Len(queue) /\ i + 1 # 1
      BY <1>1, <2>1
    <3> QED
      BY <1>1, <3>1 DEF QueueOK, Submitted
  <2>2. ASSUME NEW i \in 1..Len(queue), queue[i] = k, k # This
        PROVE  \E n \in 1..Len(queue') : queue'[n] = k
    <3>1. i # 1 /\ i - 1 \in 1..Len(queue')
      BY <1>1, <2>2
    <3>2. queue'[i - 1] = k
      BY <1>1, <2>2, <3>1
    <3> QED
      BY <3>1, <3>2
  <2> QED
    BY <2>1, <2>2 DEF Submitted
<1> QED
  BY <1>1, <1>2, <1>3

\* QueueOK, by members instead of by places
LEMMA Members ==
  ASSUME TypeOK, QueueOK
  PROVE  /\ \A k \in Job : Submitted(k) =>
              mem[k] # NoRecord /\ (mem[k].kind \in Authored => mem[k].session = session)
         /\ Worked => This \in Job /\ Submitted(This)
<1>1. Worked => queue # <<>> /\ queue \in Seq(Job) /\ 1 \in 1..Len(queue) /\ This = queue[1]
                /\ queue[1] \in Job
  BY DEF Worked, This, TypeOK
<1> QED
  BY <1>1 DEF QueueOK, Submitted

\* The same for the next state
LEMMA MembersNext ==
  ASSUME queue' \in Seq(Job),
         \A i, k \in 1..Len(queue') : queue'[i] = queue'[k] => i = k,
         \A k \in Job : Submitted(k)' =>
           mem'[k] # NoRecord /\ (mem'[k].kind \in Authored => mem'[k].session = session')
  PROVE  QueueOK'
<1>1. ASSUME NEW i \in 1..Len(queue')
      PROVE  /\ mem'[queue'[i]] # NoRecord
             /\ mem'[queue'[i]].kind \in Authored => mem'[queue'[i]].session = session'
  <2>1. PICK k \in Job : k = queue'[i]
    OBVIOUS
  <2>2. Submitted(k)'
    BY <2>1 DEF Submitted
  <2> QED
    BY <2>1, <2>2
<1> QED
  BY <1>1 DEF QueueOK

-------------------------------------------------------------------------------
(* New jobs *)

\* A job that was not in memory gets the record new, saved or just read.
LEMMA Newcomer ==
  ASSUME TypeOK, FilesOK, NEW j \in Job, NEW new \in Record,
         mem[j] = NoRecord, mem' = [mem EXCEPT ![j] = new],
         new.session <= session, session' = session,
         \/ disk' = [disk EXCEPT ![j] = new] /\ latest' = j
         \/ disk' = disk /\ latest' = latest /\ (disk[j] = NoRecord \/ disk[j] = new)
  PROVE  /\ mem' \in [Job -> Record \cup {NoRecord}] /\ mem'[j] = new /\ new # NoRecord
         /\ disk' \in [Job -> Record \cup {NoRecord}]
         /\ latest' \in Job \cup {NoJob}
         /\ \A k \in Job : k # j => mem'[k] = mem[k] /\ disk'[k] = disk[k]
         /\ disk'[j] \in {NoRecord, new}
         /\ JobsStay
         /\ FilesOK'
<1>1. new # NoRecord
  BY Records
<1>2. /\ mem' \in [Job -> Record \cup {NoRecord}] /\ mem'[j] = new
      /\ \A k \in Job : k # j => mem'[k] = mem[k]
  BY DEF TypeOK
<1>3. /\ disk' \in [Job -> Record \cup {NoRecord}] /\ disk'[j] \in {NoRecord, new}
      /\ \A k \in Job : k # j => disk'[k] = disk[k]
      /\ latest' \in Job \cup {NoJob}
  BY DEF TypeOK
<1>4. JobsStay
  BY <1>2 DEF JobsStay
<1>5. FilesOK'
  <2>1. \A k \in Job : mem'[k] # NoRecord =>
          mem'[k].session <= session' /\ (disk'[k] # NoRecord => disk'[k] = mem'[k])
    BY <1>2, <1>3 DEF FilesOK
  <2>2. \A k \in Job : disk'[k] # NoRecord =>
          disk'[k].session <= session' /\ (disk'[k].session = session' => mem'[k] # NoRecord)
    BY <1>1, <1>2, <1>3 DEF FilesOK
  <2>3. latest' # NoJob => disk'[latest'] # NoRecord
    <3>1. CASE disk' = [disk EXCEPT ![j] = new] /\ latest' = j
      BY <1>1, <3>1 DEF TypeOK
    <3>2. CASE disk' = disk /\ latest' = latest
      BY <3>2 DEF FilesOK
    <3> QED
      BY <3>1, <3>2
  <2> QED
    BY <2>1, <2>2, <2>3 DEF FilesOK
<1> QED
  BY <1>1, <1>2, <1>3, <1>4, <1>5

\* The record of a new job, and what becomes of it when it is refused
LEMMA NewIsRecord ==
  ASSUME TypeOK, NEW kind \in Kind
  PROVE  /\ New(kind) \in Record /\ New(kind).kind = kind
         /\ New(kind).status = "queued" /\ New(kind).session = session
         /\ session \in Nat /\ session <= session
         /\ [New(kind) EXCEPT !.status = "failed"] \in Record
         /\ [New(kind) EXCEPT !.status = "failed"].kind = kind
         /\ [New(kind) EXCEPT !.status = "failed"].status = "failed"
         /\ [New(kind) EXCEPT !.status = "failed"].session = session
  BY FileJobsAssumption DEF TypeOK, New, Record, Status, Active

\* A review on the executor occupies the slot, however quiet its model is.
LEMMA ReviewOccupies ==
  ASSUME FJInv, NEW k \in Job, Submitted(k), mem[k].kind = "review",
         ~(at = "over" /\ This = k), ~Restored
  PROVE  /\ slot = k /\ mem[k].status \in Active
         /\ door = "open"
         /\ \A quiet : Occupied(quiet)
<1>1. slot = k /\ mem[k].status \in Active /\ slot # NoJob
  BY FileJobsAssumption DEF FJInv, ReviewKeepsItsSlot
<1>2. door = "open"
  BY <1>1 DEF FJInv, DoorOK
<1>3. mem[k] \in Record /\ mem[k].session = session
  BY Members DEF FJInv, TypeOK, Authored
<1>4. ASSUME NEW quiet
      PROVE  Occupied(quiet)
  <2> DEFINE how == CASE mem[k].status \notin Active -> mem[k].status
               [] mem[k].status \in Active /\ Left(mem[k]) -> "interrupted"
               [] mem[k].status \in Active /\ ~Left(mem[k]) /\ TRUE /\ Overtaken(mem[k])
                  -> "completed"
               [] mem[k].status \in Active /\ ~Left(mem[k]) /\ ~(TRUE /\ Overtaken(mem[k]))
                  /\ quiet /\ ~Live(k, mem[k], k) -> "failed"
               [] OTHER -> mem[k].status
  <2>1. ~Left(mem[k]) /\ ~Overtaken(mem[k]) /\ Live(k, mem[k], k)
    BY <1>3 DEF Left, Overtaken, Live, Authored
  <2>2. how = mem[k].status
    BY <1>1, <2>1
  <2>3. Reconciled(k, mem[k], k, TRUE, quiet) = [mem[k] EXCEPT !.status = how]
    BY DEF Reconciled
  <2> HIDE DEF how
  <2>4. Reconciled(k, mem[k], k, TRUE, quiet).status \in Active
    BY <1>1, <1>3, <2>2, <2>3 DEF Record
  <2> QED
    BY <1>1, <2>4 DEF Occupied
<1> QED
  BY <1>1, <1>2, <1>4

\* A draft's review or opening directions: registered, saved and submitted under
\* both locks, when whatever was in the slot before is over
\* (file_projects.py:2225-2255).
LEMMA AdmitSafe ==
  ASSUME FJInv, NEW j \in Job, Admit(j)
  PROVE  FJInv'
<1> USE DEF FJInv
<1>1. /\ door \in Direct /\ Fresh(j)
      /\ mem' = [mem EXCEPT ![j] = New(door)] /\ slot' = j
      /\ disk' = [disk EXCEPT ![j] = New(door)] /\ latest' = j
      /\ queue' = Append(queue, j) /\ door' = "open"
      /\ UNCHANGED <<at, project, request, chapter, continuous, session, faults>>
  BY DEF Admit, Save, outside, TypeOK
<1>2. /\ door \in Kind /\ Direct \subseteq Authored /\ door # "open" /\ "queued" \in Active
      /\ NoJob \notin Job
  BY <1>1, FileJobsAssumption DEF Direct, Kind, Authored, Active
<1>3. /\ New(door) \in Record /\ New(door).kind = door
      /\ New(door).status = "queued" /\ New(door).session = session /\ session <= session
  BY <1>2, NewIsRecord
<1>4. mem[j] = NoRecord /\ disk[j] = NoRecord
  BY <1>1 DEF Fresh
<1>5. /\ mem' \in [Job -> Record \cup {NoRecord}] /\ mem'[j] = New(door) /\ New(door) # NoRecord
      /\ disk' \in [Job -> Record \cup {NoRecord}]
      /\ latest' \in Job \cup {NoJob}
      /\ \A k \in Job : k # j => mem'[k] = mem[k] /\ disk'[k] = disk[k]
      /\ JobsStay
      /\ FilesOK'
  BY <1>1, <1>3, <1>4, Newcomer
<1>6. ~Submitted(j)
  BY <1>4, Members
<1>7. /\ queue' \in Seq(Job) /\ queue' # <<>>
      /\ \A i, k \in 1..Len(queue') : queue'[i] = queue'[k] => i = k
      /\ \A k \in Job : Submitted(k)' <=> Submitted(k) \/ k = j
      /\ Worked => This' = This
  BY <1>1, <1>6, Appended
<1>8. Submitted(j)' /\ OnItsWay(j)'
  BY <1>7 DEF OnItsWay
<1>9. TypeOK'
  BY <1>1, <1>5, <1>7 DEF TypeOK, Worked
<1>10. QueueOK'
  BY <1>1, <1>3, <1>5, <1>7, Members, MembersNext
<1>11. RequestOK'
  <2>1. CASE request.at # "submit"
    BY <1>1, <2>1 DEF RequestOK
  <2>2. CASE request.at = "submit"
    <3>1. PICK n \in Job : n = request.job
      BY <2>2 DEF RequestOK, Request, NoRequest
    <3>2. /\ mem[n] # NoRecord /\ mem[n].kind \notin Direct /\ ~Submitted(n)
          /\ mem[n].kind \in Authored => mem[n].session = session
      BY <2>2, <3>1 DEF RequestOK
    <3>3. n # j /\ mem'[n] = mem[n] /\ ~Submitted(n)'
      BY <1>4, <1>5, <1>7, <3>2
    <3> QED
      BY <1>1, <2>2, <3>1, <3>2, <3>3 DEF RequestOK, Submitted
  <2> QED
    BY <2>1, <2>2
<1>12. DoorOK'
  BY <1>1 DEF DoorOK
<1>13. DirectIsActive' /\ AdmittedIsSubmitted' /\ SlotOnItsWay'
  BY <1>1, <1>2, <1>3, <1>5, <1>8 DEF DirectIsActive, AdmittedIsSubmitted, SlotOnItsWay
<1>14. ReviewNotBesideContinuous'
  BY <1>1, <1>2 DEF ReviewNotBesideContinuous, DoorOK
<1>16. ReviewKeepsItsSlot'
  <2> SUFFICES ASSUME NEW k \in Job, Submitted(k)', mem'[k].kind = "review",
                      ~(at' = "over" /\ This' = k), ~Restored'
               PROVE  slot' = k /\ mem'[k].status \in Active
    BY DEF ReviewKeepsItsSlot
  <2>1. CASE k = j
    BY <1>1, <1>2, <1>3, <1>5, <2>1
  <2>2. CASE k # j
    <3>1. Submitted(k) /\ mem[k].kind = "review" /\ ~Restored
      BY <1>5, <1>7, <2>2, StayKeeps
    <3>2. ~(at = "over" /\ This = k)
      BY <1>1, <1>7 DEF TypeOK
    <3>3. door = "open"
      BY <3>1, <3>2, ReviewOccupies
    <3> QED
      BY <1>2, <3>3
  <2> QED
    BY <2>1, <2>2
<1> QED
  BY <1>5, <1>9, <1>10, <1>11, <1>12, <1>13, <1>14, <1>16

\* The executor refuses it: the job is over and the slot is free
\* (file_projects.py:2256-2265).
LEMMA AdmitUnsubmittedSafe ==
  ASSUME FJInv, NEW j \in Job, AdmitUnsubmitted(j)
  PROVE  FJInv'
<1> USE DEF FJInv
<1> DEFINE r == [New(door) EXCEPT !.status = "failed"]
<1>1. /\ door \in Direct /\ Fresh(j)
      /\ mem' = [mem EXCEPT ![j] = r] /\ slot' = NoJob
      /\ disk' = [disk EXCEPT ![j] = r] /\ latest' = j
      /\ door' = "open" /\ faults < MaxFaults /\ faults' = faults + 1
      /\ UNCHANGED <<queue, at, project, request, chapter, continuous, session>>
  BY DEF AdmitUnsubmitted, Save, worker, Fault, TypeOK
<1>2. door \in Kind /\ door # "open" /\ NoJob \notin Job
  BY <1>1, FileJobsAssumption DEF Direct, Kind
<1>3. r \in Record /\ r.session = session /\ session <= session
  BY <1>2, NewIsRecord
<1> HIDE DEF r
<1>4. mem[j] = NoRecord /\ disk[j] = NoRecord
  BY <1>1 DEF Fresh
<1>5. /\ mem' \in [Job -> Record \cup {NoRecord}]
      /\ disk' \in [Job -> Record \cup {NoRecord}]
      /\ latest' \in Job \cup {NoJob}
      /\ \A k \in Job : k # j => mem'[k] = mem[k] /\ disk'[k] = disk[k]
      /\ JobsStay
      /\ FilesOK'
  BY <1>1, <1>3, <1>4, Newcomer
<1>6. faults' \in 0..MaxFaults
  BY <1>1, FileJobsAssumption DEF TypeOK
<1>7. TypeOK'
  BY <1>1, <1>2, <1>5, <1>6 DEF TypeOK, Worked
<1>8. DoorOK'
  BY <1>1 DEF DoorOK
<1>10. QueueOK' /\ RequestOK'
  BY <1>1, <1>5, StayKeeps
<1>11. DirectIsActive' /\ SlotOnItsWay' /\ AdmittedIsSubmitted' /\ ReviewNotBesideContinuous'
  BY <1>1 DEF DirectIsActive, SlotOnItsWay, AdmittedIsSubmitted, ReviewNotBesideContinuous
<1>13. ReviewKeepsItsSlot'
  <2> SUFFICES ASSUME NEW k \in Job, Submitted(k)', mem'[k].kind = "review",
                      ~(at' = "over" /\ This' = k), ~Restored'
               PROVE  FALSE
    BY DEF ReviewKeepsItsSlot
  <2>1. Submitted(k) /\ ~Restored /\ ~(at = "over" /\ This = k)
    BY <1>1, <1>5, StayKeeps DEF Submitted, This
  <2>2. mem[k].kind = "review"
    BY <1>4, <1>5, <2>1, Members
  <2>3. door = "open"
    BY <2>1, <2>2, ReviewOccupies
  <2> QED
    BY <1>2, <2>3
<1> QED
  BY <1>5, <1>7, <1>8, <1>10, <1>11, <1>13

\* What a look at the slot leaves in memory and in the files
\* (file_projects.py:2056-2063)
LEMMA SeenKept ==
  ASSUME TypeOK, FilesOK, NEW quiet
  PROVE  /\ Seen(quiet) \in [Job -> Record \cup {NoRecord}]
         /\ Kept(quiet) \in [Job -> Record \cup {NoRecord}]
         /\ \A k \in Job : mem[k] = NoRecord =>
              Seen(quiet)[k] = NoRecord /\ Kept(quiet)[k] = disk[k]
         /\ \A k \in Job : mem[k] # NoRecord =>
              /\ Seen(quiet)[k] \in Record
              /\ Seen(quiet)[k].kind = mem[k].kind /\ Seen(quiet)[k].session = mem[k].session
              /\ Kept(quiet)[k] # NoRecord => Kept(quiet)[k] = Seen(quiet)[k]
         /\ \A k \in Job : disk[k] # NoRecord => Kept(quiet)[k] # NoRecord
         /\ Seen(quiet) # mem => slot \in Job /\ Kept(quiet)[slot] # NoRecord
<1>1. ASSUME NEW k \in Job
      PROVE  /\ Seen(quiet)[k] \in Record \cup {NoRecord}
             /\ Kept(quiet)[k] \in Record \cup {NoRecord}
             /\ mem[k] = NoRecord => Seen(quiet)[k] = NoRecord /\ Kept(quiet)[k] = disk[k]
             /\ mem[k] # NoRecord =>
                  /\ Seen(quiet)[k] \in Record
                  /\ Seen(quiet)[k].kind = mem[k].kind /\ Seen(quiet)[k].session = mem[k].session
                  /\ Kept(quiet)[k] # NoRecord => Kept(quiet)[k] = Seen(quiet)[k]
             /\ disk[k] # NoRecord => Kept(quiet)[k] # NoRecord
             /\ Seen(quiet)[k] # mem[k] => k = slot /\ Kept(quiet)[k] # NoRecord
  <2> DEFINE now == Reconciled(k, mem[k], slot, TRUE, quiet)
  <2>1. /\ Seen(quiet)[k] = IF k = slot THEN now ELSE mem[k]
        /\ Kept(quiet)[k] = IF Seen(quiet)[k] = mem[k] THEN disk[k] ELSE Seen(quiet)[k]
    BY DEF Seen, Kept
  <2>2. mem[k] \in Record \cup {NoRecord} /\ disk[k] \in Record \cup {NoRecord}
    BY DEF TypeOK
  <2>3. CASE k = slot
    <3>1. mem[k] # NoRecord
      BY <2>3, FileJobsAssumption DEF TypeOK
    <3>2. mem[k] \in Record
      BY <2>2, <3>1
    <3>3. now \in Record /\ now.kind = mem[k].kind /\ now.session = mem[k].session
      <4>1. \A known : LET r == Reconciled(k, mem[k], slot, known, quiet) IN
              r \in Record /\ r.kind = mem[k].kind /\ r.session = mem[k].session
        BY <3>2, ReconciledOnlyEnds
      <4> QED
        BY <4>1
    <3>4. now # NoRecord
      BY <3>3, Records
    <3> HIDE DEF now
    <3> QED
      BY <2>1, <2>2, <2>3, <3>1, <3>2, <3>3, <3>4 DEF FilesOK
  <2>4. CASE k # slot
    BY <2>1, <2>2, <2>4 DEF FilesOK
  <2> QED
    BY <2>3, <2>4
<1>2. /\ Seen(quiet) \in [Job -> Record \cup {NoRecord}]
      /\ Kept(quiet) \in [Job -> Record \cup {NoRecord}]
  BY <1>1 DEF Seen, Kept
<1>3. Seen(quiet) # mem => \E k \in Job : Seen(quiet)[k] # mem[k]
  BY <1>2 DEF TypeOK
<1> QED
  BY <1>1, <1>2, <1>3

\* The second lock section of a request (file_projects.py:2056-2130)
LEMMA RegisterSafe ==
  ASSUME FJInv, NEW j \in Job, NEW quiet, Register(j, quiet)
  PROVE  FJInv'
<1> USE DEF FJInv
<1> DEFINE new == New(request.kind)
           seen == Seen(quiet)
           kept == Kept(quiet)
<1>1. /\ Alone /\ request.at = "asked" /\ Fresh(j) /\ ~Occupied(quiet)
      /\ slot' = j /\ mem' = [seen EXCEPT ![j] = new]
      /\ UNCHANGED <<queue, at, project, door, chapter, continuous, session>>
      /\ \/ /\ disk' = [kept EXCEPT ![j] = new] /\ latest' = j
            /\ request' = [at |-> "submit", job |-> j] /\ faults' = faults
         \/ /\ disk' = kept /\ latest' = IF seen = mem THEN latest ELSE slot
            /\ request' = NoRequest
            /\ faults < MaxFaults /\ faults' = faults + 1
  BY DEF Register, worker, Fault
<1>2. /\ request.kind \in Kind /\ request.kind \notin Direct
      /\ "queued" \in Active /\ "review" \in Direct
      /\ NoJob \notin Job
  BY <1>1, FileJobsAssumption DEF RequestOK, Request, NoRequest, Active, Direct
<1>3. /\ new \in Record /\ new.kind = request.kind
      /\ new.status = "queued" /\ new.session = session /\ session <= session
  BY <1>2, NewIsRecord
<1> HIDE DEF new
<1>4. mem[j] = NoRecord /\ disk[j] = NoRecord
  BY <1>1 DEF Fresh
<1>5. /\ mem' \in [Job -> Record \cup {NoRecord}] /\ mem'[j] = new /\ new # NoRecord
      /\ disk' \in [Job -> Record \cup {NoRecord}]
      /\ latest' \in Job \cup {NoJob}
      /\ \A k \in Job : k # j /\ mem[k] = NoRecord => mem'[k] = NoRecord
      /\ \A k \in Job : k # j /\ mem'[k] # NoRecord =>
           mem[k] # NoRecord /\ mem'[k].kind = mem[k].kind
      /\ disk'[j] = NoRecord \/ request' = [at |-> "submit", job |-> j]
      /\ JobsStay
      /\ FilesOK'
  <2>1. /\ seen \in [Job -> Record \cup {NoRecord}]
        /\ kept \in [Job -> Record \cup {NoRecord}]
        /\ \A k \in Job : mem[k] = NoRecord => seen[k] = NoRecord /\ kept[k] = disk[k]
        /\ \A k \in Job : mem[k] # NoRecord =>
             /\ seen[k] \in Record
             /\ seen[k].kind = mem[k].kind /\ seen[k].session = mem[k].session
             /\ kept[k] # NoRecord => kept[k] = seen[k]
        /\ \A k \in Job : disk[k] # NoRecord => kept[k] # NoRecord
        /\ seen # mem => slot \in Job /\ kept[slot] # NoRecord
    BY SeenKept
  <2> HIDE DEF seen, kept
  <2>2. new # NoRecord /\ \A r \in Record : r # NoRecord
    BY <1>3, Records
  <2>3. /\ mem' \in [Job -> Record \cup {NoRecord}] /\ mem'[j] = new
        /\ \A k \in Job : k # j => mem'[k] = seen[k]
    BY <1>1, <1>3, <2>1
  <2>4. /\ disk' \in [Job -> Record \cup {NoRecord}]
        /\ disk'[j] \in {NoRecord, new}
        /\ disk'[j] = NoRecord \/ request' = [at |-> "submit", job |-> j]
        /\ \A k \in Job : k # j => disk'[k] = kept[k]
    BY <1>1, <1>3, <1>4, <2>1
  <2>5. latest' \in Job \cup {NoJob} /\ (latest' # NoJob => disk'[latest'] # NoRecord)
    <3>1. CASE disk' = [kept EXCEPT ![j] = new] /\ latest' = j
      BY <2>1, <2>2, <3>1
    <3>2. CASE disk' = kept /\ latest' = IF seen = mem THEN latest ELSE slot
      BY <2>1, <3>2 DEF TypeOK, FilesOK
    <3> QED
      BY <1>1, <3>1, <3>2
  <2>6. JobsStay
    BY <1>1, <1>4, <2>1, <2>2, <2>3 DEF JobsStay
  <2>7. \A k \in Job : mem'[k] # NoRecord =>
          mem'[k].session <= session' /\ (disk'[k] # NoRecord => disk'[k] = mem'[k])
    BY <1>1, <1>3, <2>1, <2>3, <2>4 DEF FilesOK
  <2>8. \A k \in Job : disk'[k] # NoRecord =>
          disk'[k].session <= session' /\ (disk'[k].session = session' => mem'[k] # NoRecord)
    <3> SUFFICES ASSUME NEW k \in Job, disk'[k] # NoRecord
                 PROVE  disk'[k].session <= session' /\ (disk'[k].session = session' => mem'[k] # NoRecord)
      OBVIOUS
    <3>1. CASE mem'[k] # NoRecord
      BY <2>7, <3>1
    <3>2. CASE mem'[k] = NoRecord
      <4>1. k # j /\ seen[k] = NoRecord
        BY <2>2, <2>3, <3>2
      <4>2. mem[k] = NoRecord /\ disk'[k] = disk[k]
        BY <2>1, <2>2, <2>4, <4>1
      <4> QED
        BY <1>1, <3>2, <4>2 DEF FilesOK
    <3> QED
      BY <3>1, <3>2
  <2> QED
    BY <2>1, <2>2, <2>3, <2>4, <2>5, <2>6, <2>7, <2>8 DEF FilesOK
<1>6. ~Submitted(j)
  BY <1>4, Members
<1>7. faults' \in 0..MaxFaults
  BY <1>1, FileJobsAssumption DEF TypeOK
<1>8. TypeOK'
  BY <1>1, <1>5, <1>7 DEF TypeOK, Worked
<1>9. QueueOK'
  BY <1>1, <1>5, StayKeeps
<1>10. RequestOK'
  <2>1. CASE request' = NoRequest
    BY <2>1 DEF RequestOK, Request, NoRequest
  <2>2. CASE request' = [at |-> "submit", job |-> j]
    <3>1. request' \in Request /\ request'.job = j
      BY <2>2 DEF Request
    <3>2. ~Submitted(j)'
      BY <1>1, <1>6 DEF Submitted
    <3>3. /\ mem'[j] # NoRecord /\ mem'[j].kind \notin Direct
          /\ mem'[j].session = session'
      BY <1>1, <1>2, <1>3, <1>5
    <3> QED
      BY <2>2, <3>1, <3>2, <3>3 DEF RequestOK, Submitted
  <2> QED
    BY <1>1, <2>1, <2>2
<1>11. DoorOK'
  BY <1>1 DEF DoorOK, Alone
<1>12. DirectIsActive' /\ AdmittedIsSubmitted' /\ ReviewNotBesideContinuous'
  BY <1>1, <1>2, <1>3, <1>5 DEF DirectIsActive, AdmittedIsSubmitted, ReviewNotBesideContinuous
<1>13. SlotOnItsWay'
  <2> SUFFICES ASSUME disk'[j] # NoRecord
               PROVE  OnItsWay(j)'
    BY <1>1 DEF SlotOnItsWay
  <2>1. request' = [at |-> "submit", job |-> j]
    BY <1>5
  <2> QED
    BY <2>1 DEF OnItsWay
<1>15. ReviewKeepsItsSlot'
  <2> SUFFICES ASSUME NEW k \in Job, Submitted(k)', mem'[k].kind = "review",
                      ~(at' = "over" /\ This' = k), ~Restored'
               PROVE  FALSE
    BY DEF ReviewKeepsItsSlot
  <2>1. Submitted(k) /\ ~Restored /\ ~(at = "over" /\ This = k)
    BY <1>1, <1>5, StayKeeps DEF Submitted, This
  <2>2. mem[k].kind = "review"
    BY <1>5, <2>1, Members DEF JobsStay
  <2>3. Occupied(quiet)
    BY <2>1, <2>2, ReviewOccupies
  <2> QED
    BY <1>1, <2>3
<1> QED
  BY <1>5, <1>8, <1>9, <1>10, <1>11, <1>12, <1>13, <1>15

\* A job restored by its id is one of an earlier process.
LEMMA RestoreSafe ==
  ASSUME FJInv, NEW j \in Job, Restore(j)
  PROVE  FJInv'
<1> USE DEF FJInv
<1> DEFINE new == disk[j]
<1>1. /\ Alone /\ mem[j] = NoRecord /\ new.kind = "plain"
      /\ mem' = [mem EXCEPT ![j] = new] /\ slot' = j
      /\ disk' = disk /\ latest' = latest
      /\ request' = [at |-> "submit", job |-> j]
      /\ UNCHANGED <<queue, at, project, door, chapter, continuous, session, faults>>
  BY DEF Restore, files, worker, outside
<1>2. /\ "plain" \notin Authored /\ "plain" \notin Direct /\ "plain" \in Kind
      /\ NoJob \notin Job
  BY FileJobsAssumption DEF Authored, Direct, Kind
<1>3. /\ new \in Record /\ new # NoRecord
  BY <1>1, <1>2, Records DEF TypeOK
<1>4. new.session <= session /\ new.session # session
  BY <1>1, <1>3 DEF FilesOK
<1>5. /\ mem' \in [Job -> Record \cup {NoRecord}] /\ mem'[j] = new
      /\ disk' \in [Job -> Record \cup {NoRecord}]
      /\ latest' \in Job \cup {NoJob}
      /\ \A k \in Job : k # j => mem'[k] = mem[k] /\ disk'[k] = disk[k]
      /\ JobsStay
      /\ FilesOK'
  <2>1. new = disk[j]
    OBVIOUS
  <2> HIDE DEF new
  <2> QED
    BY <1>1, <1>3, <1>4, <2>1, Newcomer
<1> HIDE DEF new
<1>6. ~Submitted(j)
  BY <1>1, Members
<1>7. TypeOK'
  BY <1>1, <1>3, <1>5 DEF TypeOK, Worked
<1>8. QueueOK'
  BY <1>1, <1>5, StayKeeps
<1>9. RequestOK'
  <2>1. request' \in Request /\ request'.job = j
    BY <1>1 DEF Request
  <2>2. ~Submitted(j)'
    BY <1>1, <1>6 DEF Submitted
  <2>3. /\ mem'[j] # NoRecord /\ mem'[j].kind \notin Direct /\ mem'[j].kind \notin Authored
    BY <1>1, <1>2, <1>3, <1>5
  <2> QED
    BY <1>1, <2>1, <2>2, <2>3 DEF RequestOK, Submitted
<1>10. DoorOK'
  BY <1>1 DEF DoorOK, Alone
<1>11. DirectIsActive' /\ AdmittedIsSubmitted' /\ ReviewNotBesideContinuous' /\ SlotOnItsWay'
  BY <1>1, <1>2, <1>5
     DEF DirectIsActive, AdmittedIsSubmitted, ReviewNotBesideContinuous, SlotOnItsWay
<1>13. Restored'
  BY <1>1, <1>3, <1>4, <1>5 DEF Restored
<1>14. ReviewKeepsItsSlot'
  BY <1>13 DEF ReviewKeepsItsSlot
<1> QED
  BY <1>5, <1>7, <1>8, <1>9, <1>10, <1>11, <1>14

-------------------------------------------------------------------------------
(* From the request to the executor, and off it                              *)

\* executor.submit of a registered job (file_projects.py:2149-2150)
LEMMA SubmitSafe ==
  ASSUME FJInv, Submit
  PROVE  FJInv'
<1> USE DEF FJInv
<1>1. PICK j \in Job : j = request.job
  BY DEF Submit, RequestOK, Request, NoRequest
<1>2. /\ request.at = "submit" /\ queue' = Append(queue, j) /\ request' = NoRequest
      /\ UNCHANGED <<mem, disk, latest, slot, at, project, door, chapter, continuous,
                     session, faults>>
  BY <1>1 DEF Submit, records, outside
<1>3. /\ mem[j] # NoRecord /\ mem[j].kind \notin Direct /\ ~Submitted(j)
      /\ mem[j].kind \in Authored => mem[j].session = session
      /\ "review" \in Direct
  BY <1>1, <1>2 DEF RequestOK, Direct
<1>4. /\ queue' \in Seq(Job) /\ queue' # <<>>
      /\ \A i, k \in 1..Len(queue') : queue'[i] = queue'[k] => i = k
      /\ \A k \in Job : Submitted(k)' <=> Submitted(k) \/ k = j
      /\ Worked => This' = This
  BY <1>2, <1>3, Appended
<1>5. FilesOK' /\ JobsStay
  BY <1>2 DEF FilesOK, JobsStay
<1>6. TypeOK'
  BY <1>2, <1>4 DEF TypeOK, Worked
<1>7. QueueOK'
  BY <1>2, <1>3, <1>4, Members, MembersNext
<1>8. RequestOK'
  BY <1>2 DEF RequestOK, Request, NoRequest
<1>9. DoorOK' /\ ReviewNotBesideContinuous'
  BY <1>2 DEF DoorOK, ReviewNotBesideContinuous
<1>10. at # "idle" => Worked /\ This' = This
  BY <1>4 DEF TypeOK
<1>11. slot # NoJob => slot \in Job
  BY DEF TypeOK
<1>12. DirectIsActive'
  <2> SUFFICES ASSUME slot # NoJob, mem[slot].kind \in Direct, ~(at = "over" /\ This' = slot),
                      Submitted(slot)
               PROVE  mem[slot].status \in Active
    BY <1>2, <1>3, <1>4, <1>11 DEF DirectIsActive
  <2> QED
    BY <1>10 DEF DirectIsActive
<1>13. SlotOnItsWay'
  <2> SUFFICES ASSUME slot # NoJob, OnItsWay(slot)
               PROVE  OnItsWay(slot)'
    BY <1>2 DEF SlotOnItsWay
  <2>1. Submitted(slot) \/ slot = j
    BY <1>1 DEF OnItsWay
  <2>2. \E i \in 1..Len(queue') : queue'[i] = slot
    BY <1>4, <1>11, <2>1 DEF Submitted
  <2> QED
    BY <1>2, <2>2 DEF OnItsWay, Submitted
<1>14. AdmittedIsSubmitted'
  BY <1>2, <1>4, <1>11 DEF AdmittedIsSubmitted
<1>16. ReviewKeepsItsSlot'
  <2> SUFFICES ASSUME NEW k \in Job, Submitted(k)', mem'[k].kind = "review",
                      ~(at' = "over" /\ This' = k), ~Restored'
               PROVE  slot' = k /\ mem'[k].status \in Active
    BY DEF ReviewKeepsItsSlot
  <2>1. Submitted(k) /\ ~Restored /\ ~(at = "over" /\ This = k)
    BY <1>2, <1>3, <1>4, <1>5, <1>10, StayKeeps
  <2> QED
    BY <1>2, <2>1 DEF ReviewKeepsItsSlot
<1> QED
  BY <1>5, <1>6, <1>7, <1>8, <1>9, <1>12, <1>13, <1>14, <1>16

\* The executor refuses it (file_projects.py:2151-2156).
LEMMA SubmitFailsSafe ==
  ASSUME FJInv, SubmitFails
  PROVE  FJInv'
<1> USE DEF FJInv
<1>1. PICK j \in Job : j = request.job
  BY DEF SubmitFails, RequestOK, Request, NoRequest
<1> DEFINE r == [mem[j] EXCEPT !.status = "failed"]
<1>2. /\ Alone /\ request.at = "submit" /\ request' = NoRequest
      /\ mem' = [mem EXCEPT ![j] = r] /\ disk' = [disk EXCEPT ![j] = r] /\ latest' = j
      /\ slot' = IF slot = j THEN NoJob ELSE slot
      /\ faults < MaxFaults /\ faults' = faults + 1
      /\ UNCHANGED <<queue, at, project, door, chapter, continuous, session>>
  BY <1>1 DEF SubmitFails, Save, Fault, worker
<1>3. /\ mem[j] # NoRecord /\ mem[j] \in Record /\ ~Submitted(j)
      /\ NoJob \notin Job
  BY <1>1, <1>2, FileJobsAssumption DEF RequestOK, TypeOK
<1>4. r \in Record /\ r.kind = mem[j].kind /\ r.session = mem[j].session
  BY <1>3 DEF Record, Status
<1> HIDE DEF r
<1>5. r # NoRecord
  BY <1>4, Records
<1>6. /\ mem' \in [Job -> Record \cup {NoRecord}] /\ mem'[j] = r
      /\ disk' \in [Job -> Record \cup {NoRecord}] /\ disk'[j] = r
      /\ \A k \in Job : k # j => mem'[k] = mem[k] /\ disk'[k] = disk[k]
  BY <1>2, <1>4 DEF TypeOK
<1>7. JobsStay
  BY <1>2, <1>4, <1>5, <1>6 DEF JobsStay
<1>8. FilesOK'
  <2>1. \A k \in Job : mem'[k] # NoRecord =>
          mem'[k].session <= session' /\ (disk'[k] # NoRecord => disk'[k] = mem'[k])
    BY <1>2, <1>3, <1>4, <1>6 DEF FilesOK
  <2>2. \A k \in Job : disk'[k] # NoRecord =>
          disk'[k].session <= session' /\ (disk'[k].session = session' => mem'[k] # NoRecord)
    BY <1>2, <1>3, <1>4, <1>5, <1>6 DEF FilesOK
  <2> QED
    BY <1>2, <1>5, <1>6, <2>1, <2>2 DEF FilesOK
<1>9. slot' = NoJob \/ (slot' = slot /\ slot # j /\ slot \in Job)
  BY <1>2 DEF TypeOK
<1>10. faults' \in 0..MaxFaults
  BY <1>2, FileJobsAssumption DEF TypeOK
<1>11. TypeOK'
  BY <1>2, <1>6, <1>9, <1>10 DEF TypeOK, Worked
<1>12. QueueOK'
  BY <1>2, <1>7, StayKeeps
<1>13. RequestOK'
  BY <1>2 DEF RequestOK, Request, NoRequest
<1>14. DoorOK'
  BY <1>2 DEF DoorOK, Alone
<1>15. This' = This /\ \A k \in Job : Submitted(k)' <=> Submitted(k)
  BY <1>2 DEF This, Submitted
<1>16. DirectIsActive' /\ AdmittedIsSubmitted' /\ ReviewNotBesideContinuous'
  BY <1>2, <1>6, <1>9, <1>15
     DEF DirectIsActive, AdmittedIsSubmitted, ReviewNotBesideContinuous
<1>17. SlotOnItsWay'
  <2> SUFFICES ASSUME slot' = slot, slot # j, slot \in Job, OnItsWay(slot)
               PROVE  OnItsWay(slot)'
    BY <1>2, <1>6, <1>9 DEF SlotOnItsWay
  <2>1. Submitted(slot)
    BY <1>1 DEF OnItsWay
  <2> QED
    BY <1>2, <2>1 DEF OnItsWay, Submitted
<1>19. ReviewKeepsItsSlot'
  <2> SUFFICES ASSUME NEW k \in Job, Submitted(k)', mem'[k].kind = "review",
                      ~(at' = "over" /\ This' = k), ~Restored'
               PROVE  slot' = k /\ mem'[k].status \in Active
    BY DEF ReviewKeepsItsSlot
  <2>1. Submitted(k) /\ ~Restored /\ ~(at = "over" /\ This = k)
    BY <1>2, <1>7, <1>15, StayKeeps
  <2>2. k # j /\ mem'[k] = mem[k]
    BY <1>3, <1>6, <2>1
  <2> QED
    BY <1>2, <2>1, <2>2 DEF ReviewKeepsItsSlot
<1> QED
  BY <1>8, <1>11, <1>12, <1>13, <1>14, <1>16, <1>17, <1>19

\* The finally clause (file_projects.py:1622-1625)
LEMMA ReleaseSafe ==
  ASSUME FJInv, Release
  PROVE  FJInv'
<1> USE DEF FJInv
<1>1. /\ Alone /\ Worked /\ at = "over" /\ at' = "idle"
      /\ slot' = IF slot = This THEN NoJob ELSE slot
      /\ queue' = Tail(queue)
      /\ UNCHANGED <<mem, disk, latest, project, door, request, chapter, continuous,
                     session, faults>>
  BY DEF Release, files, outside
<1>2. /\ queue' \in Seq(Job)
      /\ \A i, k \in 1..Len(queue') : queue'[i] = queue'[k] => i = k
      /\ \A k \in Job : Submitted(k)' <=> Submitted(k) /\ k # This
  BY <1>1, Taken
<1>3. This \in Job /\ NoJob \notin Job
  BY <1>1, Members, FileJobsAssumption
<1>4. slot' = NoJob \/ (slot' = slot /\ slot # This /\ slot \in Job)
  BY <1>1 DEF TypeOK
<1>5. FilesOK' /\ JobsStay
  BY <1>1 DEF FilesOK, JobsStay
<1>6. TypeOK'
  BY <1>1, <1>2, <1>4 DEF TypeOK, Places
<1>7. QueueOK'
  BY <1>1, <1>2, Members, MembersNext
<1>8. RequestOK'
  <2>1. CASE request.at # "submit"
    BY <1>1, <2>1 DEF RequestOK
  <2>2. CASE request.at = "submit"
    <3>1. PICK n \in Job : n = request.job
      BY <2>2 DEF RequestOK, Request, NoRequest
    <3>2. /\ mem[n] # NoRecord /\ mem[n].kind \notin Direct /\ ~Submitted(n)
          /\ mem[n].kind \in Authored => mem[n].session = session
      BY <2>2, <3>1 DEF RequestOK
    <3>3. ~Submitted(n)'
      BY <1>2, <3>2
    <3> QED
      BY <1>1, <2>2, <3>1, <3>2, <3>3 DEF RequestOK, Submitted
  <2> QED
    BY <2>1, <2>2
<1>9. DoorOK'
  BY <1>1 DEF DoorOK, Alone
<1>10. DirectIsActive' /\ AdmittedIsSubmitted' /\ ReviewNotBesideContinuous'
  BY <1>1, <1>2, <1>4 DEF DirectIsActive, AdmittedIsSubmitted, ReviewNotBesideContinuous
<1>11. SlotOnItsWay'
  <2> SUFFICES ASSUME slot' = slot, slot # This, slot \in Job, OnItsWay(slot)
               PROVE  OnItsWay(slot)'
    BY <1>1, <1>4 DEF SlotOnItsWay
  <2>1. CASE Submitted(slot)
    <3>1. \E i \in 1..Len(queue') : queue'[i] = slot
      BY <1>2, <2>1 DEF Submitted
    <3> QED
      BY <3>1 DEF OnItsWay, Submitted
  <2>2. CASE ~Submitted(slot)
    BY <1>1, <2>2 DEF OnItsWay
  <2> QED
    BY <2>1, <2>2
<1>12. ReviewKeepsItsSlot'
  <2> SUFFICES ASSUME NEW k \in Job, Submitted(k)', mem'[k].kind = "review", ~Restored'
               PROVE  slot' = k /\ mem'[k].status \in Active
    BY DEF ReviewKeepsItsSlot
  <2>1. Submitted(k) /\ ~Restored /\ k # This
    BY <1>2, <1>5, StayKeeps
  <2>2. slot = k /\ mem[k].status \in Active
    BY <1>1, <2>1 DEF ReviewKeepsItsSlot
  <2> QED
    BY <1>1, <2>1, <2>2
<1> QED
  BY <1>5, <1>6, <1>7, <1>8, <1>9, <1>10, <1>11, <1>12

-------------------------------------------------------------------------------
(* Every step *)

\* A stop empties the memory; the records on disk are of earlier processes
\* from then on.
LEMMA CrashSafe ==
  ASSUME FJInv, Crash
  PROVE  FJInv'
<1> USE DEF FJInv
<1>1. /\ session < MaxCrashes /\ session' = session + 1
      /\ mem' = [k \in Job |-> NoRecord] /\ slot' = NoJob
      /\ queue' = <<>> /\ at' = "idle" /\ project' = FALSE
      /\ door' = "open" /\ request' = NoRequest
      /\ UNCHANGED <<disk, latest, chapter, continuous, faults>>
  BY DEF Crash, files
<1>2. session \in Nat /\ session' \in 0..MaxCrashes
  BY <1>1, FileJobsAssumption DEF TypeOK
<1>3. ASSUME NEW k \in Job
      PROVE  mem'[k] = NoRecord /\ ~Submitted(k)'
  BY <1>1 DEF Submitted
<1>4. TypeOK'
  <2>1. mem' \in [Job -> Record \cup {NoRecord}] /\ disk' \in [Job -> Record \cup {NoRecord}]
    BY <1>1 DEF TypeOK
  <2>2. /\ latest' \in Job \cup {NoJob} /\ chapter' \in 0..MaxChapter
        /\ continuous' \in BOOLEAN /\ faults' \in 0..MaxFaults
    BY <1>1 DEF TypeOK
  <2>3. slot' \in Job \cup {NoJob} /\ queue' \in Seq(Job) /\ door' \in Direct \cup {"open"}
    BY <1>1
  <2>4. at' \in Places /\ project' \in BOOLEAN /\ (project' <=> at' \in {"holding", "reporting"})
    BY <1>1 DEF Places
  <2> QED
    BY <1>1, <1>2, <2>1, <2>2, <2>3, <2>4 DEF TypeOK
<1>5. QueueOK' /\ RequestOK'
  BY <1>1 DEF QueueOK, RequestOK, Request, NoRequest
<1>6. FilesOK'
  <2>1. \A k \in Job : disk[k] # NoRecord => disk[k].session < session'
    <3> SUFFICES ASSUME NEW k \in Job, disk[k] # NoRecord
                 PROVE  disk[k].session < session'
      OBVIOUS
    <3>1. disk[k].session \in 0..MaxCrashes /\ disk[k].session <= session
      BY Records DEF FilesOK, TypeOK
    <3> QED
      BY <1>1, <1>2, <3>1, FileJobsAssumption
  <2>2. \A k \in Job : disk'[k] # NoRecord =>
          disk'[k].session <= session' /\ disk'[k].session # session'
    <3> SUFFICES ASSUME NEW k \in Job, disk[k] # NoRecord
                 PROVE  disk[k].session <= session' /\ disk[k].session # session'
      BY <1>1
    <3>1. disk[k].session \in 0..MaxCrashes /\ disk[k].session < session'
      BY <2>1, Records DEF TypeOK
    <3> QED
      BY <1>2, <3>1, FileJobsAssumption
  <2> QED
    BY <1>1, <1>3, <2>2 DEF FilesOK
<1>7. /\ DoorOK' /\ DirectIsActive' /\ SlotOnItsWay'
      /\ AdmittedIsSubmitted' /\ ReviewNotBesideContinuous'
  BY <1>1 DEF DoorOK, DirectIsActive, SlotOnItsWay, AdmittedIsSubmitted,
     ReviewNotBesideContinuous
<1>8. ReviewKeepsItsSlot'
  BY <1>3 DEF ReviewKeepsItsSlot
<1> QED
  BY <1>4, <1>5, <1>6, <1>7, <1>8

\* It holds at first.
LEMMA InitSafe ==
  ASSUME Init
  PROVE  FJInv
<1>1. /\ mem = [k \in Job |-> NoRecord] /\ disk = mem
      /\ latest = NoJob /\ slot = NoJob /\ queue = <<>> /\ at = "idle"
      /\ door = "open" /\ project = FALSE /\ request = NoRequest
      /\ chapter \in 0..MaxChapter /\ continuous = FALSE /\ session = 0 /\ faults = 0
  BY DEF Init
<1>2. 0 \in 0..MaxCrashes /\ 0 \in 0..MaxFaults
  BY FileJobsAssumption
<1>3. TypeOK
  <2>1. mem \in [Job -> Record \cup {NoRecord}] /\ disk \in [Job -> Record \cup {NoRecord}]
    BY <1>1
  <2>2. /\ latest \in Job \cup {NoJob} /\ slot \in Job \cup {NoJob}
        /\ queue \in Seq(Job) /\ door \in Direct \cup {"open"}
    BY <1>1
  <2>3. at \in Places /\ project \in BOOLEAN /\ (project <=> at \in {"holding", "reporting"})
    BY <1>1 DEF Places
  <2> QED
    BY <1>1, <1>2, <2>1, <2>2, <2>3 DEF TypeOK
<1>4. QueueOK /\ RequestOK /\ FilesOK
  BY <1>1 DEF QueueOK, RequestOK, Request, NoRequest, FilesOK
<1>5. /\ DoorOK /\ DirectIsActive /\ SlotOnItsWay
      /\ AdmittedIsSubmitted /\ ReviewNotBesideContinuous /\ ReviewKeepsItsSlot
  BY <1>1 DEF DoorOK, DirectIsActive, SlotOnItsWay, AdmittedIsSubmitted,
     ReviewNotBesideContinuous, ReviewKeepsItsSlot, Submitted
<1> QED
  BY <1>3, <1>4, <1>5 DEF FJInv

\* The requests that look at jobs
LEMMA ServeSafe ==
  ASSUME FJInv, NEW quiet \in BOOLEAN, Serve(quiet)
  PROVE  FJInv'
<1>1. ASSUME NEW kind \in Kinds, Enter(kind, quiet)
      PROVE  FJInv'
  BY <1>1, EnterSafe
<1>2. ASSUME NEW j \in Job, Register(j, quiet)
      PROVE  FJInv'
  BY <1>2, RegisterSafe
<1>3. CASE AnswerWithActive(quiet)
  BY <1>3, AnswerWithActiveSafe
<1>4. CASE ReadCurrent(quiet)
  BY <1>4, ReadCurrentSafe
<1>5. ASSUME NEW j \in Job, ReadOne(j, quiet)
      PROVE  FJInv'
  BY <1>5, ReadOneSafe
<1>6. CASE StartContinuous(quiet)
  BY <1>6, StartContinuousSafe
<1> QED
  BY <1>1, <1>2, <1>3, <1>4, <1>5, <1>6 DEF Serve

\* Every step keeps the invariant.
LEMMA NextSafe ==
  ASSUME FJInv, [Next]_vars
  PROVE  FJInv'
<1>1. CASE UNCHANGED vars
  BY <1>1, StutterSafe
<1>2. ASSUME NEW quiet \in BOOLEAN, Serve(quiet)
      PROVE  FJInv'
  BY <1>2, ServeSafe
<1>3. ASSUME NEW j \in Job, Admit(j) \/ AdmitUnsubmitted(j) \/ Restore(j)
      PROVE  FJInv'
  BY <1>3, AdmitSafe, AdmitUnsubmittedSafe, RestoreSafe
<1>4. CASE \/ Refuse \/ \E kind \in Kinds : Ask(kind)
           \/ TakeProject \/ WantToReport \/ Write
           \/ EndContinuous \/ ConfirmChapter
  BY <1>4, EasySafe
<1>5. CASE \/ Begin
           \/ \E shown \in {"running", "done"} : ReportStage(shown) \/ ReportHolding(shown)
           \/ \E status \in {"completed", "failed"} : Finish(status)
  BY <1>5, ReportsSafe
<1>6. CASE Submit
  BY <1>6, SubmitSafe
<1>7. CASE SubmitFails
  BY <1>7, SubmitFailsSafe
<1>8. CASE Release
  BY <1>8, ReleaseSafe
<1>9. CASE Crash
  BY <1>9, CrashSafe
<1> QED
  BY <1>1, <1>2, <1>3, <1>4, <1>5, <1>6, <1>7, <1>8, <1>9 DEF Next, Work

(***************************************************************************)
(* FJInv holds in every state of every behaviour.                          *)
(***************************************************************************)
THEOREM JobsInvariant == Spec => []FJInv
<1>1. FJInv /\ [Next]_vars => FJInv'
  BY NextSafe
<1> QED
  BY InitSafe, <1>1, PTL DEF Spec

(***************************************************************************)
(* A review this process works on stays active and keeps the slot,         *)
(* whatever is confirmed, asked or admitted meanwhile                      *)
(* (file_projects.py:1380-1410).                                           *)
(***************************************************************************)
THEOREM ReviewsAreNotDisturbed == Spec => []ReviewKeepsItsSlot
<1>1. FJInv => ReviewKeepsItsSlot
  BY DEF FJInv
<1> QED
  BY <1>1, JobsInvariant, PTL

(***************************************************************************)
(* A review or a preparation of directions in the slot is on the executor  *)
(* (file_projects.py:2252-2265).                                           *)
(***************************************************************************)
THEOREM AdmissionMeansSubmission == Spec => []AdmittedIsSubmitted
<1>1. FJInv => AdmittedIsSubmitted
  BY DEF FJInv
<1> QED
  BY <1>1, JobsInvariant, PTL

(***************************************************************************)
(* It never runs beside a continuous job: each looks for the other under   *)
(* the jobs lock (file_projects.py:2225-2227, 2273-2293).                  *)
(***************************************************************************)
THEOREM OneWriterAtATime == Spec => []ReviewNotBesideContinuous
<1>1. FJInv => ReviewNotBesideContinuous
  BY DEF FJInv
<1> QED
  BY <1>1, JobsInvariant, PTL

(***************************************************************************)
(* A job on record that is active and neither on the executor nor on its   *)
(* way there is ended by the next look at it: if it is an author's job of  *)
(* this process it does not hold the slot (file_projects.py:1367-1435).    *)
(***************************************************************************)
THEOREM NobodyIsLeftActive == Spec => []NoJobLeftActive
<1>1. FJInv => NoJobLeftActive
  <2> SUFFICES ASSUME FJInv, NEW j \in Job, disk[j].status \in Active, ~OnItsWay(j)
               PROVE  Reconciled(j, disk[j], slot, FALSE, TRUE).status \notin Active
    BY DEF NoJobLeftActive
  <2> DEFINE r == disk[j]
             how == CASE r.status \notin Active -> r.status
               [] r.status \in Active /\ Left(r) -> "interrupted"
               [] r.status \in Active /\ ~Left(r) /\ FALSE /\ Overtaken(r) -> "completed"
               [] r.status \in Active /\ ~Left(r) /\ ~(FALSE /\ Overtaken(r))
                  /\ TRUE /\ ~Live(j, r, slot) -> "failed"
               [] OTHER -> r.status
  <2>1. r \in Record /\ r # NoRecord
    BY Records DEF FJInv, TypeOK
  <2>2. ~Live(j, r, slot)
    <3> SUFFICES ASSUME slot = j, r.kind \in Authored, r.session = session
                 PROVE  FALSE
      BY DEF Live
    <3>1. mem[j] = r
      BY <2>1 DEF FJInv, FilesOK
    <3> QED
      BY <2>1, <3>1, FileJobsAssumption DEF FJInv, SlotOnItsWay
  <2>3. how \in {"interrupted", "failed"}
    BY <2>2
  <2>4. Reconciled(j, r, slot, FALSE, TRUE) = [r EXCEPT !.status = how]
    BY DEF Reconciled
  <2> HIDE DEF how
  <2>5. [r EXCEPT !.status = how].status = how
    BY <2>1 DEF Record
  <2> QED
    BY <2>3, <2>4, <2>5 DEF Active
<1> QED
  BY <1>1, JobsInvariant, PTL

===============================================================================
