------------------------- MODULE CandidateReviewProofs -------------------------
(***************************************************************************)
(* Proofs about the drafts of a chapter (candidate_editing.py,             *)
(* review_repair.py, contextual_prose_review.py, candidate_store.py), for  *)
(* every number of chapters, drafts, reviews and changes of the sources.   *)
(*                                                                         *)
(* Three facts carry the properties.  A draft that looks confirmable was   *)
(* reviewed against what is now true (SealedIsFresh), because every change *)
(* of the book moves the source fingerprint, and a review only counts if   *)
(* the fingerprint is still the one it was given.  A draft that was edited *)
(* has given way (EditsInLine).  And while a contextual review is at work  *)
(* on a draft, nothing of it but its status can change (JobOK): the worker *)
(* is alone, and the author's routes save revisions as new drafts.         *)
(***************************************************************************)
EXTENDS CandidateReview, TLAPS, SequenceTheorems, FiniteSetTheorems

-------------------------------------------------------------------------------
(* The inductive invariant *)

\* A draft without the bounds of an instance
Digest == {<<>>} \cup (Nat \X Nat)
Record ==
  [status: Status, chapter: Chapter, operation: Operation, repair: BOOLEAN,
   parent: Nat, base: Nat, contract: Digest,
   state: {"none", "unchecked", "checked"}, source: Nat, sealed: Digest,
   review: Nat, notes: Nat, expression: BOOLEAN]

Shape ==
  /\ draft \in Seq(Record)
  /\ text \in [Chapter -> Nat] /\ source \in Nat
  /\ \A c \in Drafts : draft[c].parent < c /\ draft[c].source <= source

\* A draft with another status, and what it is beside that
With(d, st) == [d EXCEPT !.status = st]
Body(d) == With(d, "pending")

SealedIsFresh == \A c \in Drafts : Sealed(draft[c]) => c \in fresh

\* What a review was given to read is what is now true, unless the sources moved.
Saw(seen, n) ==
  /\ n \in Chapter /\ seen.source \in Nat /\ seen.source <= source
  /\ seen.source = source => seen = Looking(n)

JobOK ==
  /\ job.kind \in {"none", "recheck", "revise", "generate", "repair", "context"}
  /\ job.kind = "none" => job = Idle
  /\ job.kind \in {"recheck", "revise", "context"} => job.draft \in Drafts
  /\ job.kind = "recheck" /\ job.at = "model" => Saw(job.seen, draft[job.draft].chapter)
  /\ job.kind = "generate" => Saw(job.seen, job.chapter)
  /\ job.kind = "repair" =>
       /\ job.made \in Record /\ job.made.repair /\ job.made.state = "unchecked"
       /\ job.made.parent <= Len(draft) /\ job.made.source <= source
  /\ job.kind = "context" => job.copy = Body(draft[job.draft])

CRInv == Shape /\ SealedIsFresh /\ JobOK /\ EditsInLine

\* What a step may do: drafts keep what they were made from, decisions stand but
\* for notes, and what is confirmed was reviewed.
StepOK ==
  \A c \in Drafts :
    /\ Decided(c) => draft'[c].status = draft[c].status \/ c \in revived'
    /\ draft[c].state # "none" /\ ~Confirmed(c) /\ draft'[c].status = "confirmed" => c \in fresh

-------------------------------------------------------------------------------
(* Records and sequences *)

\* A draft's status is not looked at when its review is.
LEMMA StatusOnly ==
  ASSUME NEW d \in Record, NEW st \in Status
  PROVE  /\ With(d, st) \in Record /\ With(d, st).status = st
         /\ With(d, st).chapter = d.chapter /\ With(d, st).parent = d.parent
         /\ With(d, st).repair = d.repair /\ With(d, st).source = d.source
         /\ With(d, st).state = d.state
         /\ With(d, st).sealed = d.sealed /\ Content(With(d, st)) = Content(d)
         /\ Body(With(d, st)) = Body(d)
<1> DEFINE e == [d EXCEPT !.status = st]
<1>1. e \in Record
  BY DEF Record
<1>2. /\ e.status = st
      /\ e.chapter = d.chapter /\ e.parent = d.parent /\ e.repair = d.repair
      /\ e.source = d.source /\ e.state = d.state
      /\ e.sealed = d.sealed /\ e.review = d.review /\ e.notes = d.notes
  BY DEF Record
<1>3. [e EXCEPT !.status = "pending"] = [d EXCEPT !.status = "pending"]
  BY DEF Record
<1> QED
  BY <1>1, <1>2, <1>3 DEF Content, With, Body

\* The types of a draft's fields
LEMMA RecordFields ==
  ASSUME NEW d \in Record
  PROVE  /\ d.status \in Status /\ d.chapter \in Chapter /\ d.operation \in Operation
         /\ d.repair \in BOOLEAN /\ d.parent \in Nat /\ d.base \in Nat /\ d.contract \in Digest
         /\ d.state \in {"none", "unchecked", "checked"} /\ d.source \in Nat
         /\ d.sealed \in Digest /\ d.review \in Nat /\ d.notes \in Nat
         /\ d.expression \in BOOLEAN
  BY DEF Record

\* The drafts as a function, and a draft put in the place of another
LEMMA Replaced ==
  ASSUME Shape, NEW c \in Drafts, NEW d \in Record, draft' = [draft EXCEPT ![c] = d]
  PROVE  /\ draft' \in Seq(Record) /\ Len(draft') = Len(draft) /\ draft'[c] = d
         /\ \A u \in Drafts : u # c => draft'[u] = draft[u]
         /\ Drafts' = Drafts
  BY ExceptSeq DEF Shape, Drafts

\* CandidateStore.save_latest (candidate_store.py)
LEMMA Saved ==
  ASSUME Shape, NEW d \in Record, draft' = SaveLatest(d)
  PROVE  /\ draft' \in Seq(Record) /\ Len(draft') = Len(draft) + 1
         /\ draft'[Len(draft) + 1] = d
         /\ \A u \in Drafts :
              draft'[u] = IF u \in PendingFor(d.chapter)
                          THEN With(draft[u], "superseded") ELSE draft[u]
<1> DEFINE old == [u \in Drafts |-> IF u \in PendingFor(d.chapter)
                                    THEN With(draft[u], "superseded") ELSE draft[u]]
<1>1. Len(draft) \in Nat /\ \A u \in Drafts : draft[u] \in Record
  BY ElementOfSeq, LenProperties DEF Shape, Drafts
<1>2. \A u \in Drafts : old[u] \in Record
  BY <1>1, StatusOnly DEF Status
<1>3. old \in [1..Len(draft) -> Record]
  BY <1>2 DEF Drafts
<1>4. old \in Seq(Record)
  BY <1>1, <1>3, SeqDef
<1>5. Len(old) = Len(draft)
  BY <1>1, <1>3, <1>4, LenProperties
<1>6. draft' = Append(old, d)
  BY DEF SaveLatest, With
<1>7. \A u \in Drafts : old[u] = IF u \in PendingFor(d.chapter)
                                  THEN With(draft[u], "superseded") ELSE draft[u]
  OBVIOUS
<1> HIDE DEF old
<1> QED
  BY <1>1, <1>4, <1>5, <1>6, <1>7, AppendProperties DEF Drafts

-------------------------------------------------------------------------------
(* What happens to drafts *)

\* Existing drafts keep what they were made from, and their decisions.
Kept ==
  /\ \A c \in Drafts : /\ draft'[c].chapter = draft[c].chapter
                       /\ draft'[c].parent = draft[c].parent
                       /\ draft'[c].repair = draft[c].repair
                       /\ Decided(c) => draft'[c].status = draft[c].status \/ c \in revived'
  /\ revived \subseteq revived'

\* The line of revisions: drafts that are only changed leave it as it is.
LEMMA LineKept ==
  ASSUME Shape, EditsInLine, Kept, Drafts' = Drafts
  PROVE  EditsInLine'
<1>1. \A c \in Drafts : IsRevision(c) => draft[c].parent \in Drafts
  <2>1. Len(draft) \in Nat /\ \A c \in Drafts : draft[c] \in Record
    BY ElementOfSeq, LenProperties DEF Shape, Drafts
  <2>2. \A c \in Drafts : draft[c].parent \in Nat /\ draft[c].parent < c
    BY <2>1, RecordFields DEF Shape
  <2> QED
    BY <2>1, <2>2 DEF IsRevision, Drafts, None
<1>2. \A c \in Drafts : IsRevision(c)' <=> IsRevision(c)
  BY DEF Kept, IsRevision
<1>3. \A c \in Drafts : draft'[c].parent = draft[c].parent
  BY DEF Kept
<1>4. \A p \in Drafts : draft[p].status = "superseded" /\ p \notin revived'
                          => draft'[p].status = "superseded"
  BY DEF Kept, Decided
<1> QED
  BY <1>1, <1>2, <1>3, <1>4 DEF EditsInLine, Kept

\* A draft that is added is no revision, or one of a draft that gives way to it.
LEMMA LineGrows ==
  ASSUME Shape, EditsInLine, Kept, Drafts' = Drafts \cup {Len(draft) + 1},
         NEW d \in Record, draft'[Len(draft) + 1] = d,
         \/ d.repair \/ d.parent = None
         \/ /\ d.parent \in Drafts /\ draft[d.parent].status = "pending"
            /\ draft'[d.parent].status = "superseded"
  PROVE  EditsInLine'
<1>1. /\ Len(draft) \in Nat
      /\ \A c \in Drafts : IsRevision(c) => draft[c].parent \in Drafts
  <2>1. Len(draft) \in Nat /\ \A c \in Drafts : draft[c] \in Record
    BY ElementOfSeq, LenProperties DEF Shape, Drafts
  <2>2. \A c \in Drafts : draft[c].parent \in Nat /\ draft[c].parent < c
    BY <2>1, RecordFields DEF Shape
  <2> QED
    BY <2>1, <2>2 DEF IsRevision, Drafts, None
<1>2. \A c \in Drafts : IsRevision(c)' <=> IsRevision(c)
  BY DEF Kept, IsRevision
<1>3. \A c \in Drafts : draft'[c].parent = draft[c].parent
  BY DEF Kept
<1>4. \A p \in Drafts : draft[p].status = "superseded" /\ p \notin revived'
                          => draft'[p].status = "superseded"
  BY DEF Kept, Decided
<1> PICK new \in Nat : new = Len(draft) + 1
  BY <1>1
<1>5. d.parent # None /\ ~d.repair => /\ d.parent \in Drafts
                                     /\ draft[d.parent].status = "pending"
                                     /\ draft'[d.parent].status = "superseded"
  OBVIOUS
<1>9. /\ draft'[new] = d /\ Drafts' = Drafts \cup {new}
      /\ draft'[new].parent # None /\ ~draft'[new].repair
           <=> d.parent # None /\ ~d.repair
  OBVIOUS
<1>6. ASSUME NEW c \in Drafts, IsRevision(c), draft[c].parent \notin revived'
      PROVE  /\ draft[draft[c].parent].status = "superseded"
             /\ \A e \in Drafts : IsRevision(e) /\ draft[e].parent = draft[c].parent => e = c
  BY <1>6 DEF EditsInLine, Kept
<1>7. \A c \in Drafts : c # new
  BY <1>1 DEF Drafts
<1>8. ASSUME NEW c \in Drafts', IsRevision(c)', draft'[c].parent \notin revived'
      PROVE  /\ draft'[draft'[c].parent].status = "superseded"
             /\ \A e \in Drafts' : IsRevision(e)' /\ draft'[e].parent = draft'[c].parent => e = c
  <2>1. CASE c \in Drafts
    <3>1. /\ IsRevision(c) /\ draft'[c].parent = draft[c].parent /\ draft[c].parent \in Drafts
          /\ draft[draft[c].parent].status = "superseded"
          /\ \A e \in Drafts : IsRevision(e) /\ draft[e].parent = draft[c].parent => e = c
      BY <1>1, <1>2, <1>3, <1>6, <1>8, <2>1
    <3>2. ~(d.parent # None /\ ~d.repair /\ d.parent = draft'[c].parent)
      BY <1>5, <3>1
    <3> QED
      BY <1>2, <1>3, <1>4, <1>8, <1>9, <3>1, <3>2 DEF IsRevision
  <2>2. CASE c = new
    <3>1. d.parent # None /\ ~d.repair /\ d.parent \notin revived'
      BY <1>8, <1>9, <2>2 DEF IsRevision
    <3>2. ASSUME NEW e \in Drafts, IsRevision(e), draft[e].parent = d.parent
          PROVE  FALSE
      BY <1>5, <1>6, <3>1, <3>2
    <3> QED
      BY <1>2, <1>3, <1>5, <1>9, <2>2, <3>1, <3>2 DEF IsRevision
  <2> QED
    BY <1>8, <1>9, <2>1, <2>2
<1> QED
  BY <1>8 DEF EditsInLine

\* What stays true of the drafts, whatever is done to one of them
DraftsOK == Shape /\ EditsInLine

\* A draft is put in the place of one.
LEMMA Put ==
  ASSUME DraftsOK, NEW c \in Drafts, NEW d \in Record, draft' = [draft EXCEPT ![c] = d],
         d.chapter = draft[c].chapter, d.parent = draft[c].parent, d.repair = draft[c].repair,
         Decided(c) => d.status = draft[c].status \/ c \in revived',
         revived \subseteq revived', d.source <= source',
         text' \in [Chapter -> Nat], source' \in Nat, source <= source'
  PROVE  /\ DraftsOK' /\ Kept
         /\ Len(draft') = Len(draft) /\ Drafts' = Drafts /\ draft'[c] = d
         /\ \A u \in Drafts : u # c => draft'[u] = draft[u]
<1>1. Shape
  BY DEF DraftsOK
<1>2. /\ draft' \in Seq(Record) /\ Len(draft') = Len(draft) /\ draft'[c] = d
      /\ \A u \in Drafts : u # c => draft'[u] = draft[u]
      /\ Drafts' = Drafts
  BY <1>1, Replaced
<1>3. Kept
  BY <1>2 DEF Kept, Decided
<1>4. \A u \in Drafts : draft'[u].parent < u /\ draft'[u].source <= source'
  <2>1. \A u \in Drafts : draft[u] \in Record /\ draft[u].source \in Nat
    BY <1>1, ElementOfSeq, RecordFields DEF Shape, Drafts
  <2>2. \A u \in Drafts : draft[u].parent < u /\ draft[u].source <= source /\ source \in Nat
    BY <1>1 DEF Shape
  <2>3. \A u \in Drafts : draft[u].source <= source'
    BY <2>1, <2>2
  <2> QED
    BY <1>2, <2>2, <2>3
<1>5. Shape'
  BY <1>2, <1>4 DEF Shape
<1>6. EditsInLine'
  BY <1>1, <1>2, <1>3, LineKept DEF DraftsOK
<1> QED
  BY <1>2, <1>3, <1>5, <1>6 DEF DraftsOK

\* A draft that is no revision is added.
LEMMA Added ==
  ASSUME DraftsOK, NEW d \in Record, draft' = Append(draft, d),
         d.repair \/ d.parent = None, d.parent <= Len(draft), d.source <= source,
         UNCHANGED <<text, source, revived>>
  PROVE  /\ DraftsOK' /\ Kept
         /\ Len(draft') = Len(draft) + 1 /\ Drafts' = Drafts \cup {Len(draft) + 1}
         /\ draft'[Len(draft) + 1] = d
         /\ \A u \in Drafts : draft'[u] = draft[u]
<1>1. Shape /\ EditsInLine
  BY DEF DraftsOK
<1>2. /\ draft' \in Seq(Record) /\ Len(draft') = Len(draft) + 1 /\ draft'[Len(draft) + 1] = d
      /\ \A u \in Drafts : draft'[u] = draft[u]
  BY <1>1, AppendProperties DEF Shape, Drafts
<1>3. Len(draft) \in Nat
  BY <1>1, LenProperties DEF Shape
<1>4. Drafts' = Drafts \cup {Len(draft) + 1}
  BY <1>2, <1>3 DEF Drafts
<1>5. Kept
  BY <1>2 DEF Kept
<1>6. \A u \in Drafts' : draft'[u].parent < u /\ draft'[u].source <= source'
  <2>1. d.parent < Len(draft) + 1
    BY <1>3, RecordFields
  <2> QED
    BY <1>1, <1>2, <1>4, <2>1 DEF Shape
<1>7. Shape'
  BY <1>1, <1>2, <1>6 DEF Shape
<1>8. EditsInLine'
  BY <1>1, <1>2, <1>4, <1>5, LineGrows
<1> QED
  BY <1>2, <1>4, <1>5, <1>7, <1>8 DEF DraftsOK

\* A draft is added and the pending ones of its chapter give way.
LEMMA Latest ==
  ASSUME DraftsOK, NEW d \in Record, draft' = SaveLatest(d),
         d.parent = None \/ d.parent \in PendingFor(d.chapter),
         d.source <= source, UNCHANGED <<text, source, revived>>
  PROVE  /\ DraftsOK' /\ Kept
         /\ Len(draft') = Len(draft) + 1 /\ Drafts' = Drafts \cup {Len(draft) + 1}
         /\ draft'[Len(draft) + 1] = d
         /\ \A u \in Drafts : \/ draft'[u] = draft[u]
                              \/ /\ draft[u].status = "pending"
                                 /\ draft'[u] = With(draft[u], "superseded")
<1>1. Shape /\ EditsInLine
  BY DEF DraftsOK
<1>2. /\ draft' \in Seq(Record) /\ Len(draft') = Len(draft) + 1 /\ draft'[Len(draft) + 1] = d
      /\ \A u \in Drafts :
           draft'[u] = IF u \in PendingFor(d.chapter)
                       THEN With(draft[u], "superseded") ELSE draft[u]
  BY <1>1, Saved
<1>3. Len(draft) \in Nat /\ \A u \in Drafts : draft[u] \in Record
  BY <1>1, ElementOfSeq, LenProperties DEF Shape, Drafts
<1>4. Drafts' = Drafts \cup {Len(draft) + 1}
  BY <1>2, <1>3 DEF Drafts
<1>5. \A u \in Drafts : \/ u \notin PendingFor(d.chapter) /\ draft'[u] = draft[u]
                        \/ /\ u \in PendingFor(d.chapter)
                           /\ draft[u].status = "pending"
                           /\ draft'[u] = With(draft[u], "superseded")
  BY <1>2 DEF PendingFor
<1>6. \A u \in Drafts :
        /\ draft'[u].chapter = draft[u].chapter /\ draft'[u].parent = draft[u].parent
        /\ draft'[u].repair = draft[u].repair /\ draft'[u].source = draft[u].source
        /\ u \in PendingFor(d.chapter) => draft'[u].status = "superseded"
  <2> SUFFICES ASSUME NEW u \in Drafts
               PROVE  /\ draft'[u].chapter = draft[u].chapter
                      /\ draft'[u].parent = draft[u].parent
                      /\ draft'[u].repair = draft[u].repair
                      /\ draft'[u].source = draft[u].source
                      /\ u \in PendingFor(d.chapter) => draft'[u].status = "superseded"
    OBVIOUS
  <2>1. CASE u \notin PendingFor(d.chapter) /\ draft'[u] = draft[u]
    BY <2>1
  <2>2. CASE draft'[u] = With(draft[u], "superseded")
    <3> PICK old \in Record : old = draft[u]
      BY <1>3
    <3> PICK st \in Status : st = "superseded"
      BY DEF Status
    <3>1. /\ With(old, st).status = st
          /\ With(old, st).chapter = old.chapter /\ With(old, st).parent = old.parent
          /\ With(old, st).repair = old.repair /\ With(old, st).source = old.source
      BY StatusOnly
    <3> QED
      BY <2>2, <3>1 DEF With
  <2> QED
    BY <1>5, <2>1, <2>2
<1>7. Kept
  BY <1>5, <1>6 DEF Kept, Decided
<1>8. d.parent # None => d.parent \in Drafts
  BY DEF PendingFor
<1>9. \A u \in Drafts' : draft'[u].parent < u /\ draft'[u].source <= source'
  <2>1. d.parent < Len(draft) + 1
    BY <1>3, <1>8 DEF Drafts, None
  <2> QED
    BY <1>1, <1>2, <1>4, <1>6, <2>1 DEF Shape
<1>10. Shape'
  BY <1>1, <1>2, <1>9 DEF Shape
<1>11. \/ d.repair \/ d.parent = None
       \/ /\ d.parent \in Drafts /\ draft[d.parent].status = "pending"
          /\ draft'[d.parent].status = "superseded"
  BY <1>6 DEF PendingFor
<1>12. EditsInLine'
  BY <1>1, <1>2, <1>4, <1>7, <1>11, LineGrows
<1> QED
  BY <1>2, <1>4, <1>5, <1>7, <1>10, <1>12 DEF DraftsOK

-------------------------------------------------------------------------------
(* What happens beside a job *)

\* Beside the worker only statuses change, drafts are added, and the book moves with
\* the sources.
Beside ==
  /\ source' \in Nat /\ source <= source' /\ (source' = source => text' = text)
  /\ Len(draft) <= Len(draft')
  /\ \A c \in Drafts : draft'[c].chapter = draft[c].chapter /\ Body(draft'[c]) = Body(draft[c])

\* What a review was given stays current until the sources move.
LEMMA SawStill ==
  ASSUME source \in Nat, Beside, NEW seen, NEW n, Saw(seen, n)
  PROVE  Saw(seen, n)'
  BY DEF Saw, Beside, Looking

\* A job is not disturbed by what happens beside it.
LEMMA JobKept ==
  ASSUME Shape, JobOK, Beside, job' = job
  PROVE  JobOK'
<1>1. source \in Nat /\ Len(draft) \in Nat /\ Len(draft') \in Nat
  BY LenProperties DEF Shape, Beside
<1>2. Drafts \subseteq Drafts'
  BY <1>1 DEF Beside, Drafts
<1>3. ASSUME job.kind = "recheck", job.at = "model"
      PROVE  Saw(job.seen, draft[job.draft].chapter)'
  <2>1. job.draft \in Drafts /\ Saw(job.seen, draft[job.draft].chapter)
    BY <1>3 DEF JobOK
  <2> PICK n : n = draft[job.draft].chapter
    OBVIOUS
  <2> PICK seen : seen = job.seen
    OBVIOUS
  <2>2. Saw(seen, n)'
    BY <1>1, <2>1, SawStill
  <2> QED
    BY <2>1, <2>2 DEF Saw, Looking, Beside
<1>4. ASSUME job.kind = "generate"
      PROVE  Saw(job.seen, job.chapter)'
  <2>1. Saw(job.seen, job.chapter)
    BY <1>4 DEF JobOK
  <2> PICK n : n = job.chapter
    OBVIOUS
  <2> PICK seen : seen = job.seen
    OBVIOUS
  <2>2. Saw(seen, n)'
    BY <1>1, <2>1, SawStill
  <2> QED
    BY <2>1, <2>2 DEF Saw, Looking
<1>5. ASSUME job.kind = "repair"
      PROVE  /\ job.made \in Record /\ job.made.repair /\ job.made.state = "unchecked"
             /\ job.made.parent <= Len(draft') /\ job.made.source <= source'
  <2>1. /\ job.made \in Record /\ job.made.repair /\ job.made.state = "unchecked"
        /\ job.made.parent <= Len(draft) /\ job.made.source <= source
    BY <1>5 DEF JobOK
  <2>2. job.made.parent \in Nat /\ job.made.source \in Nat
    BY <2>1, RecordFields
  <2> QED
    BY <1>1, <2>1, <2>2 DEF Beside
<1>6. job.kind = "context" => job.copy = Body(draft'[job.draft])
  BY DEF JobOK, Beside
<1> QED
  BY <1>2, <1>3, <1>4, <1>5, <1>6 DEF JobOK

-------------------------------------------------------------------------------
(* The shapes of a step *)

\* What every step has to keep beside the job
Safe == DraftsOK' /\ SealedIsFresh' /\ StepOK

\* Whether a review counts is not a matter of the draft's status.
LEMMA SealedBody ==
  ASSUME NEW d \in Record, NEW e \in Record, Body(e) = Body(d)
  PROVE  /\ e.state = d.state /\ e.sealed = d.sealed /\ Content(e) = Content(d)
         /\ e.source = d.source /\ e.chapter = d.chapter
<1> PICK pending \in Status : pending = "pending"
  BY DEF Status
<1>1. Body(d) = With(d, pending) /\ Body(e) = With(e, pending)
  BY DEF Body
<1> QED
  BY <1>1, StatusOnly

\* Drafts that change in status only, while the sources stay
LEMMA SealedStays ==
  ASSUME Shape, Shape', SealedIsFresh, source' = source, NEW u \in Drafts, u \in Drafts',
         Body(draft'[u]) = Body(draft[u]), u \in fresh => u \in fresh'
  PROVE  Sealed(draft[u])' => u \in fresh'
<1>1. draft[u] \in Record /\ draft'[u] \in Record
  BY ElementOfSeq, LenProperties DEF Shape, Drafts
<1>2. /\ draft'[u].state = draft[u].state /\ draft'[u].sealed = draft[u].sealed
      /\ Content(draft'[u]) = Content(draft[u])
      /\ draft'[u].source = draft[u].source
  BY <1>1, SealedBody
<1> QED
  BY <1>2 DEF SealedIsFresh, Sealed, Content

\* A draft is saved and the pending ones of its chapter give way.
LEMMA LatestStep ==
  ASSUME CRInv, NEW d \in Record, draft' = SaveLatest(d),
         d.parent = None \/ d.parent \in PendingFor(d.chapter),
         d.source <= source, UNCHANGED <<text, source, revived>>,
         \A u \in Drafts : u \in fresh => u \in fresh',
         d.state = "checked" => Len(draft) + 1 \in fresh'
  PROVE  /\ Safe /\ Beside /\ Len(draft') = Len(draft) + 1
         /\ draft'[Len(draft) + 1] = d
<1>1. Shape /\ DraftsOK /\ SealedIsFresh
  BY DEF CRInv, DraftsOK
<1>2. /\ DraftsOK' /\ Kept
      /\ Len(draft') = Len(draft) + 1 /\ Drafts' = Drafts \cup {Len(draft) + 1}
      /\ draft'[Len(draft) + 1] = d
      /\ \A u \in Drafts : \/ draft'[u] = draft[u]
                           \/ /\ draft[u].status = "pending"
                              /\ draft'[u] = With(draft[u], "superseded")
  BY <1>1, Latest
<1>3. Shape'
  BY <1>2 DEF DraftsOK
<1>4. Len(draft) \in Nat /\ source \in Nat /\ \A u \in Drafts : draft[u] \in Record
  BY <1>1, ElementOfSeq, LenProperties DEF Shape, Drafts
<1>5. \A u \in Drafts : Body(draft'[u]) = Body(draft[u]) /\ (draft'[u] = draft[u] \/ ~Confirmed(u)')
  <2> SUFFICES ASSUME NEW u \in Drafts
               PROVE  Body(draft'[u]) = Body(draft[u]) /\ (draft'[u] = draft[u] \/ ~Confirmed(u)')
    OBVIOUS
  <2> PICK old \in Record : old = draft[u]
    BY <1>4
  <2> PICK st \in Status : st = "superseded"
    BY DEF Status
  <2>1. Body(With(old, st)) = Body(old) /\ With(old, st).status = st
    BY StatusOnly
  <2> QED
    BY <1>2, <2>1 DEF Confirmed
<1>6. SealedIsFresh'
  <2> SUFFICES ASSUME NEW u \in Drafts', Sealed(draft[u])'
               PROVE  u \in fresh'
    BY DEF SealedIsFresh
  <2>1. CASE u \in Drafts
    BY <1>1, <1>3, <1>5, <2>1, SealedStays DEF Sealed
  <2>2. CASE u = Len(draft) + 1
    BY <1>2, <2>2 DEF Sealed
  <2> QED
    BY <1>2, <2>1, <2>2
<1>7. StepOK
  BY <1>2, <1>5 DEF StepOK, Kept, Confirmed
<1>8. Beside
  BY <1>2, <1>4, <1>5 DEF Beside, Kept
<1> QED
  BY <1>2, <1>6, <1>7, <1>8 DEF Safe

\* A repair is added beside the drafts that are there.
LEMMA AddedStep ==
  ASSUME CRInv, NEW d \in Record, draft' = Append(draft, d), d.repair,
         d.state = "unchecked", d.parent <= Len(draft), d.source <= source,
         UNCHANGED <<text, source, revived, fresh>>
  PROVE  /\ Safe /\ Beside /\ Len(draft') = Len(draft) + 1
         /\ draft'[Len(draft) + 1] = d
<1>1. Shape /\ DraftsOK /\ SealedIsFresh
  BY DEF CRInv, DraftsOK
<1>2. /\ DraftsOK' /\ Kept
      /\ Len(draft') = Len(draft) + 1 /\ Drafts' = Drafts \cup {Len(draft) + 1}
      /\ draft'[Len(draft) + 1] = d
      /\ \A u \in Drafts : draft'[u] = draft[u]
  BY <1>1, Added
<1>3. Len(draft) \in Nat /\ source \in Nat
  BY <1>1, LenProperties DEF Shape
<1>4. SealedIsFresh'
  <2> SUFFICES ASSUME NEW u \in Drafts', Sealed(draft[u])'
               PROVE  u \in fresh'
    BY DEF SealedIsFresh
  <2>1. CASE u \in Drafts
    BY <1>1, <1>2, <2>1 DEF Sealed, Content, SealedIsFresh
  <2>2. CASE u = Len(draft) + 1
    BY <1>2, <2>2 DEF Sealed
  <2> QED
    BY <1>2, <2>1, <2>2
<1>5. StepOK
  BY <1>2 DEF StepOK, Kept, Confirmed
<1>6. \A u \in Drafts : draft'[u].chapter = draft[u].chapter /\ Body(draft'[u]) = Body(draft[u])
  BY <1>2
<1>7. Beside
  <2>1. /\ source' \in Nat /\ source <= source' /\ text' = text
        /\ Len(draft) <= Len(draft')
    BY <1>2, <1>3
  <2> QED
    BY <1>6, <2>1 DEF Beside
<1> QED
  BY <1>2, <1>4, <1>5, <1>7 DEF Safe

\* The worker writes to its own draft: what it was made from stays, the sources too.
LEMMA PutStep ==
  ASSUME CRInv, NEW c \in Drafts, NEW d \in Record, draft' = [draft EXCEPT ![c] = d],
         d.chapter = draft[c].chapter, d.parent = draft[c].parent, d.repair = draft[c].repair,
         Decided(c) => d.status = draft[c].status \/ c \in revived',
         d.status = "confirmed" => draft[c].status = "confirmed",
         revived \subseteq revived', d.source <= source,
         UNCHANGED <<text, source>>,
         \A u \in Drafts : u # c /\ u \in fresh => u \in fresh',
         Sealed(d) => c \in fresh'
  PROVE  Safe /\ Drafts' = Drafts /\ draft'[c] = d
<1>1. Shape /\ DraftsOK /\ SealedIsFresh
  BY DEF CRInv, DraftsOK
<1>2. text' \in [Chapter -> Nat] /\ source' \in Nat /\ source <= source' /\ d.source <= source'
  BY <1>1 DEF Shape
<1>3. /\ DraftsOK' /\ Kept
      /\ Len(draft') = Len(draft) /\ Drafts' = Drafts /\ draft'[c] = d
      /\ \A u \in Drafts : u # c => draft'[u] = draft[u]
  BY <1>1, <1>2, Put
<1>4. SealedIsFresh'
  <2> SUFFICES ASSUME NEW u \in Drafts', Sealed(draft[u])'
               PROVE  u \in fresh'
    BY DEF SealedIsFresh
  <2>1. CASE u # c
    BY <1>1, <1>3, <2>1 DEF Sealed, Content, SealedIsFresh
  <2>2. CASE u = c
    BY <1>3, <2>2 DEF Sealed, Content
  <2> QED
    BY <2>1, <2>2
<1>5. StepOK
  BY <1>3 DEF StepOK, Kept, Confirmed
<1> QED
  BY <1>3, <1>4, <1>5 DEF Safe

\* Nothing but the job changes.
LEMMA StillStep ==
  ASSUME CRInv, UNCHANGED <<draft, text, source, fresh, revived>>
  PROVE  Safe
<1>1. DraftsOK'
  BY DEF CRInv, DraftsOK, Shape, EditsInLine, IsRevision, Drafts
<1>2. SealedIsFresh'
  BY DEF CRInv, SealedIsFresh, Sealed, Content, Drafts
<1>3. StepOK
  BY DEF StepOK, Confirmed
<1> QED
  BY <1>1, <1>2, <1>3 DEF Safe

\* The invariant after a step, put together
LEMMA SafeStep ==
  ASSUME Safe, JobOK'
  PROVE  CRInv' /\ StepOK
  BY DEF Safe, DraftsOK, CRInv

\* Beside a job that goes on
LEMMA BesideStep ==
  ASSUME CRInv, Safe, Beside, job' = job
  PROVE  CRInv' /\ StepOK
  BY JobKept, SafeStep DEF CRInv

\* The worker is done
LEMMA DoneStep ==
  ASSUME Safe, job' = Idle
  PROVE  CRInv' /\ StepOK
<1>1. JobOK'
  BY DEF JobOK, Idle
<1> QED
  BY <1>1, SafeStep

\* The facts an action starts from
LEMMA Facts ==
  ASSUME CRInv
  PROVE  /\ Shape /\ SealedIsFresh /\ JobOK /\ DraftsOK
         /\ source \in Nat /\ Len(draft) \in Nat
         /\ \A c \in Drafts : /\ draft[c] \in Record /\ draft[c].chapter \in Chapter
                              /\ draft[c].operation \in Operation
                              /\ draft[c].source <= source /\ draft[c].parent < c
                              /\ c \in Nat /\ c # None /\ c <= Len(draft)
                              /\ Content(draft[c]) \in Digest
         /\ \A n \in Chapter : text[n] \in Nat
<1>1. Shape /\ SealedIsFresh /\ JobOK /\ DraftsOK
  BY DEF CRInv, DraftsOK
<1>2. Len(draft) \in Nat /\ \A c \in Drafts : draft[c] \in Record
  BY <1>1, ElementOfSeq, LenProperties DEF Shape, Drafts
<1>3. \A c \in Drafts : /\ draft[c].chapter \in Chapter /\ draft[c].operation \in Operation
                        /\ draft[c].review \in Nat /\ draft[c].notes \in Nat
  BY <1>2, RecordFields
<1> QED
  BY <1>1, <1>2, <1>3 DEF Shape, Drafts, None, Content, Digest

\* The draft an edit of c makes: a revision of c, not yet reviewed
LEMMA RevisionIs ==
  ASSUME CRInv, NEW c \in Drafts
  PROVE  /\ Revision(c) \in Record
         /\ Revision(c).parent = c /\ Revision(c).chapter = draft[c].chapter
         /\ Revision(c).state = "unchecked" /\ Revision(c).source = source
<1>1. draft[c].chapter \in Chapter /\ source \in Nat /\ c \in Nat
  BY Facts
<1> QED
  BY <1>1 DEF Revision, NewDraft, Record, Digest, Status, Operation, None

\* A draft as the pipeline writes it: made from none, without a review
LEMMA NewDraftIs ==
  ASSUME NEW n \in Chapter, NEW op \in Operation
  PROVE  /\ NewDraft(n, op) \in Record
         /\ NewDraft(n, op).chapter = n /\ NewDraft(n, op).operation = op
         /\ NewDraft(n, op).parent = None /\ NewDraft(n, op).source = 0
         /\ NewDraft(n, op).state = "none"
  BY DEF NewDraft, Record, Digest, Status, None

-------------------------------------------------------------------------------
(* Authors *)

\* save_edit: the draft that was edited gives way to the edit.
LEMMA SaveEditSafe ==
  ASSUME CRInv, NEW c \in Drafts, SaveEdit(c)
  PROVE  CRInv' /\ StepOK
<1>1. /\ draft[c].status = "pending" /\ draft' = SaveLatest(Revision(c))
      /\ UNCHANGED <<text, source, job, fresh, revived>>
  BY DEF SaveEdit
<1>2. c \in PendingFor(Revision(c).chapter)
  BY <1>1, RevisionIs DEF PendingFor
<1>3. source \in Nat
  BY Facts
<1>4. Safe /\ Beside
  BY <1>1, <1>2, <1>3, RevisionIs, LatestStep
<1> QED
  BY <1>1, <1>4, BesideStep

\* What an author decides is a status.
LEMMA StatusIs ==
  ASSUME CRInv, NEW c \in Drafts, NEW st \in Status, draft[c].status = "pending",
         draft' = [draft EXCEPT ![c] = With(@, st)],
         text' \in [Chapter -> Nat], source' \in Nat, source <= source', UNCHANGED revived
  PROVE  /\ DraftsOK' /\ Kept /\ Len(draft') = Len(draft) /\ Drafts' = Drafts
         /\ draft'[c] = With(draft[c], st) /\ draft'[c].status = st
         /\ \A u \in Drafts : u # c => draft'[u] = draft[u]
         /\ \A u \in Drafts : /\ Body(draft'[u]) = Body(draft[u])
                              /\ draft'[u].chapter = draft[u].chapter
                              /\ draft'[u].source = draft[u].source
<1> PICK old \in Record : old = draft[c]
  BY Facts
<1>1. /\ With(old, st) \in Record /\ With(old, st).status = st
      /\ With(old, st).chapter = old.chapter /\ With(old, st).parent = old.parent
      /\ With(old, st).repair = old.repair /\ With(old, st).source = old.source
      /\ Body(With(old, st)) = Body(old)
  BY StatusOnly
<1> PICK d \in Record : d = With(old, st)
  BY <1>1
<1>2. draft' = [draft EXCEPT ![c] = d]
  OBVIOUS
<1>3. /\ d.source <= source' /\ DraftsOK
  <2>1. old.source <= source /\ old.source \in Nat /\ source \in Nat
    BY Facts, RecordFields
  <2> QED
    BY <1>1, <2>1, Facts
<1>4. Decided(c) => d.status = draft[c].status \/ c \in revived'
  BY DEF Decided
<1>5. /\ DraftsOK' /\ Kept
      /\ Len(draft') = Len(draft) /\ Drafts' = Drafts /\ draft'[c] = d
      /\ \A u \in Drafts : u # c => draft'[u] = draft[u]
  BY <1>1, <1>2, <1>3, <1>4, Put
<1> QED
  BY <1>1, <1>5

\* Discarding changes a status.
LEMMA DiscardSafe ==
  ASSUME CRInv, NEW c \in Drafts, Discard(c)
  PROVE  CRInv' /\ StepOK
<1> PICK st \in Status : st = "discarded"
  BY DEF Status
<1>1. /\ draft[c].status = "pending" /\ draft' = [draft EXCEPT ![c] = With(@, st)]
      /\ UNCHANGED <<text, source, job, fresh, revived>>
  BY DEF Discard, With
<1>2. /\ Shape /\ SealedIsFresh /\ source \in Nat /\ Len(draft) \in Nat
      /\ text' \in [Chapter -> Nat] /\ source' \in Nat /\ source <= source'
  BY <1>1, Facts DEF Shape
<1>3. /\ DraftsOK' /\ Kept /\ Len(draft') = Len(draft) /\ Drafts' = Drafts
      /\ draft'[c].status = st
      /\ \A u \in Drafts : u # c => draft'[u] = draft[u]
      /\ \A u \in Drafts : Body(draft'[u]) = Body(draft[u]) /\ draft'[u].chapter = draft[u].chapter
  BY <1>1, <1>2, StatusIs
<1>4. SealedIsFresh'
  BY <1>1, <1>2, <1>3, SealedStays DEF SealedIsFresh, DraftsOK
<1>5. StepOK
  BY <1>3 DEF StepOK, Kept, Confirmed
<1>6. Beside
  BY <1>1, <1>2, <1>3 DEF Beside
<1> QED
  BY <1>1, <1>3, <1>4, <1>5, <1>6, BesideStep DEF Safe

\* The book moves, and with it the sources: no review of before counts any more.
LEMMA ConfirmSafe ==
  ASSUME CRInv, NEW c \in Drafts, Confirm(c)
  PROVE  CRInv' /\ StepOK
<1> PICK st \in Status : st = "confirmed"
  BY DEF Status
<1>1. /\ draft[c].status = "pending" /\ draft' = [draft EXCEPT ![c] = With(@, st)]
      /\ text' = [text EXCEPT ![draft[c].chapter] = c] /\ source' = source + 1
      /\ UNCHANGED <<job, revived>>
      /\ draft[c].state # "none" => Sealed(draft[c])
  BY DEF Confirm, Confirmable, With
<1>2. /\ Shape /\ SealedIsFresh /\ source \in Nat /\ Len(draft) \in Nat
      /\ text' \in [Chapter -> Nat] /\ source' \in Nat /\ source <= source'
      /\ \A u \in Drafts : draft[u].source <= source /\ draft[u].source \in Nat
  BY <1>1, Facts, RecordFields DEF Shape
<1>3. /\ DraftsOK' /\ Kept /\ Len(draft') = Len(draft) /\ Drafts' = Drafts
      /\ \A u \in Drafts : u # c => draft'[u] = draft[u]
      /\ \A u \in Drafts : /\ Body(draft'[u]) = Body(draft[u])
                           /\ draft'[u].chapter = draft[u].chapter
                           /\ draft'[u].source = draft[u].source
  BY <1>1, <1>2, StatusIs
<1>4. SealedIsFresh'
  BY <1>1, <1>2, <1>3 DEF SealedIsFresh, Sealed
<1>5. StepOK
  BY <1>1, <1>2, <1>3 DEF StepOK, Kept, Confirmed, SealedIsFresh
<1>6. Beside
  BY <1>1, <1>2, <1>3 DEF Beside
<1> QED
  BY <1>1, <1>3, <1>4, <1>5, <1>6, BesideStep DEF Safe

\* An edit of the sources takes what the seals are worth.
LEMMA EditSourcesSafe ==
  ASSUME CRInv, EditSources
  PROVE  CRInv' /\ StepOK
<1>1. source' = source + 1 /\ UNCHANGED <<draft, text, job, revived>>
  BY DEF EditSources
<1>2. /\ Shape /\ EditsInLine /\ source \in Nat /\ Len(draft) \in Nat
      /\ \A u \in Drafts : draft[u].source <= source /\ draft[u].source \in Nat
  BY Facts, RecordFields DEF CRInv
<1>3. /\ Drafts' = Drafts
      /\ \A u \in Drafts : draft'[u].source <= source /\ draft'[u].source <= source'
  BY <1>1, <1>2 DEF Drafts
<1>4. DraftsOK'
  BY <1>1, <1>2, <1>3 DEF DraftsOK, Shape, EditsInLine, IsRevision
<1>5. SealedIsFresh'
  BY <1>1, <1>2, <1>3 DEF SealedIsFresh, Sealed
<1>6. StepOK
  BY <1>1 DEF StepOK, Confirmed
<1>7. Beside
  BY <1>1, <1>2 DEF Beside
<1> QED
  BY <1>1, <1>4, <1>5, <1>6, <1>7, BesideStep DEF Safe

\* A draft without its seal
LEMMA UncheckedIs ==
  ASSUME NEW d \in Record
  PROVE  /\ Unchecked(d) \in Record /\ Unchecked(d).state = "unchecked"
         /\ Unchecked(d).status = d.status /\ Unchecked(d).chapter = d.chapter
         /\ Unchecked(d).parent = d.parent /\ Unchecked(d).repair = d.repair
         /\ Unchecked(d).source = d.source
         /\ \A n \in Nat : /\ [Unchecked(d) EXCEPT !.source = n] \in Record
                           /\ [Unchecked(d) EXCEPT !.source = n].state = "unchecked"
                           /\ [Unchecked(d) EXCEPT !.source = n].status = d.status
                           /\ [Unchecked(d) EXCEPT !.source = n].chapter = d.chapter
                           /\ [Unchecked(d) EXCEPT !.source = n].parent = d.parent
                           /\ [Unchecked(d) EXCEPT !.source = n].repair = d.repair
                           /\ [Unchecked(d) EXCEPT !.source = n].source = n
<1>1. Unchecked(d) \in Record
  BY DEF Unchecked, Record, Digest
<1>2. /\ Unchecked(d).state = "unchecked"
      /\ Unchecked(d).status = d.status /\ Unchecked(d).chapter = d.chapter
      /\ Unchecked(d).parent = d.parent /\ Unchecked(d).repair = d.repair
      /\ Unchecked(d).source = d.source
  BY DEF Unchecked, Record
<1> PICK e \in Record : e = Unchecked(d)
  BY <1>1
<1>3. ASSUME NEW n \in Nat
      PROVE  /\ [e EXCEPT !.source = n] \in Record
             /\ [e EXCEPT !.source = n].state = e.state
             /\ [e EXCEPT !.source = n].status = e.status
             /\ [e EXCEPT !.source = n].chapter = e.chapter
             /\ [e EXCEPT !.source = n].parent = e.parent
             /\ [e EXCEPT !.source = n].repair = e.repair
             /\ [e EXCEPT !.source = n].source = n
  BY DEF Record
<1> QED
  BY <1>1, <1>2, <1>3

\* A draft that is to be reviewed again takes the place of itself.
LEMMA Reopened ==
  ASSUME CRInv, NEW c \in Drafts, NEW d \in Record, draft' = [draft EXCEPT ![c] = d],
         d.status = draft[c].status, d.chapter = draft[c].chapter,
         d.parent = draft[c].parent, d.repair = draft[c].repair,
         d.state = "unchecked", d.source <= source,
         UNCHANGED <<text, source, fresh, revived>>
  PROVE  Safe /\ Drafts' = Drafts /\ draft'[c] = d
<1>1. ~Sealed(d)
  BY DEF Sealed
<1> QED
  BY <1>1, PutStep

\* start_candidate_review_job, for a recheck: the seal goes before the job is queued.
LEMMA AskRecheckSafe ==
  ASSUME CRInv, NEW c \in Drafts, AskRecheck(c)
  PROVE  CRInv' /\ StepOK
<1> PICK old \in Record : old = draft[c]
  BY Facts
<1>1. /\ draft' = [draft EXCEPT ![c] = Unchecked(old)]
      /\ job' = [kind |-> "recheck", at |-> "queued", draft |-> c, expected |-> draft'[c]]
      /\ UNCHANGED <<text, source, fresh, revived>>
  BY DEF AskRecheck
<1> PICK d \in Record : d = Unchecked(old)
  BY UncheckedIs
<1>2. /\ d.state = "unchecked" /\ d.status = old.status /\ d.chapter = old.chapter
      /\ d.parent = old.parent /\ d.repair = old.repair /\ d.source = old.source
  BY UncheckedIs
<1>3. d.source <= source
  BY <1>2, Facts
<1>4. UNCHANGED <<text, source, fresh, revived>>
  BY <1>1
<1>5. Safe /\ Drafts' = Drafts
  BY <1>1, <1>2, <1>3, <1>4, Reopened
<1>6. JobOK'
  BY <1>1, <1>5 DEF JobOK
<1> QED
  BY <1>5, <1>6, SafeStep

\* start_candidate_review_job, for a revision
LEMMA AskRevisionSafe ==
  ASSUME CRInv, NEW c \in Drafts, AskRevision(c)
  PROVE  CRInv' /\ StepOK
<1>1. /\ job' = [kind |-> "revise", at |-> "queued", draft |-> c, expected |-> draft[c]]
      /\ UNCHANGED <<draft, text, source, fresh, revived>>
  BY DEF AskRevision
<1>2. JobOK'
  BY <1>1 DEF JobOK, Drafts
<1> QED
  BY <1>1, <1>2, StillStep, SafeStep

-------------------------------------------------------------------------------
(* The worker writes a chapter *)

\* The number of chapters of the book is a number.
LEMMA CurrentIs ==
  Current \in Nat
<1>1. {n \in Chapter : text[n] # None} \subseteq 1..MaxChapter
  BY DEF Chapter
<1>2. IsFiniteSet(1..MaxChapter)
  BY ReviewAssumption, FS_Interval
<1> QED
  BY <1>1, <1>2, FS_Subset, FS_CardinalityType DEF Current

\* generate_next_chapter: what it reads is what is now true.
LEMMA StartGenerateSafe ==
  ASSUME CRInv, StartGenerate(TRUE) \/ StartGenerate(FALSE)
  PROVE  CRInv' /\ StepOK
<1>1. /\ Current < MaxChapter
      /\ job'.kind = "generate" /\ job'.chapter = Current + 1 /\ job'.seen = Looking(Current + 1)
      /\ UNCHANGED <<draft, text, source, fresh, revived>>
  BY DEF StartGenerate
<1>2. Current + 1 \in Chapter
  BY <1>1, CurrentIs, ReviewAssumption DEF Chapter
<1> PICK n \in Chapter : n = Current + 1
  BY <1>2
<1>3. source \in Nat
  BY Facts
<1>4. /\ job'.kind = "generate" /\ job'.chapter = n
      /\ job'.seen = [source |-> source, text |-> text[n]]
  BY <1>1 DEF Looking
<1>5. Saw(job.seen, job.chapter)'
  BY <1>1, <1>3, <1>4 DEF Saw, Looking
<1>6. JobOK'
  BY <1>4, <1>5 DEF JobOK
<1> QED
  BY <1>1, <1>6, StillStep, SafeStep

\* The chapter a generation is for
LEMMA ForChapter ==
  ASSUME CRInv, job.kind = "generate"
  PROVE  /\ job.chapter \in Chapter
         /\ job.seen.source = source => job.seen = Looking(job.chapter)
  BY Facts DEF JobOK, Saw

\* A chapter saved without a review
LEMMA SaveUnboundSafe ==
  ASSUME CRInv, SaveUnbound
  PROVE  CRInv' /\ StepOK
<1>1. /\ job.kind = "generate"
      /\ draft' = SaveLatest(NewDraft(job.chapter, "generate")) /\ job' = Idle
      /\ UNCHANGED <<text, source, fresh, revived>>
  BY DEF SaveUnbound
<1> PICK n \in Chapter : n = job.chapter
  BY <1>1, ForChapter
<1> PICK op \in Operation : op = "generate"
  BY DEF Operation
<1> PICK d \in Record : d = NewDraft(n, op)
  BY NewDraftIs
<1>2. d.parent = None /\ d.source = 0 /\ d.state = "none"
  BY NewDraftIs
<1>3. source \in Nat
  BY Facts
<1>4. Safe
  BY <1>1, <1>2, <1>3, LatestStep
<1> QED
  BY <1>1, <1>4, DoneStep

\* A chapter saved to be reviewed
LEMMA SaveBoundUncheckedSafe ==
  ASSUME CRInv, SaveBound("unchecked")
  PROVE  CRInv' /\ StepOK
<1> DEFINE e == [NewDraft(job.chapter, "generate") EXCEPT !.state = "unchecked", !.source = source]
<1>1. /\ job.kind = "generate" /\ draft' = SaveLatest(e) /\ job' = Idle
      /\ UNCHANGED <<text, source, fresh, revived>>
  BY DEF SaveBound
<1>2. job.chapter \in Chapter /\ source \in Nat
  BY <1>1, ForChapter, Facts
<1>3. e \in Record /\ e.parent = None /\ e.source = source /\ e.state = "unchecked"
  BY <1>2 DEF NewDraft, Record, Digest, Status, Operation, None
<1> HIDE DEF e
<1> PICK d \in Record : d = e
  BY <1>3
<1>4. Safe
  BY <1>1, <1>2, <1>3, LatestStep
<1> QED
  BY <1>1, <1>4, DoneStep

\* A generation that was reviewed is saved only if the sources are those it was given.
LEMMA SaveBoundCheckedSafe ==
  ASSUME CRInv, SaveBound("checked")
  PROVE  CRInv' /\ StepOK
<1> DEFINE e == [[NewDraft(job.chapter, "generate") EXCEPT !.state = "checked", !.source = source]
                   EXCEPT !.review = 1, !.sealed = <<1, 0>>]
<1>1. /\ job.kind = "generate" /\ job.seen.source = source
      /\ draft' = SaveLatest(e) /\ job' = Idle
      /\ fresh' = Reread(Len(draft) + 1, job.seen)
      /\ UNCHANGED <<text, source, revived>>
  BY DEF SaveBound
<1>2. job.chapter \in Chapter /\ source \in Nat /\ job.seen = Looking(job.chapter)
  BY <1>1, ForChapter, Facts
<1>3. e \in Record /\ e.parent = None /\ e.source = source
  BY <1>2 DEF NewDraft, Record, Digest, Status, Operation, None
<1> HIDE DEF e
<1> PICK d \in Record : d = e
  BY <1>3
<1>4. fresh' = fresh \cup {Len(draft) + 1}
  BY <1>1, <1>2, Facts DEF Reread, Drafts
<1>5. Safe
  BY <1>1, <1>2, <1>3, <1>4, LatestStep
<1> QED
  BY <1>1, <1>5, DoneStep

\* regenerate_chapter, expand_chapter and polish_chapter of a confirmed chapter
LEMMA RewriteChapterSafe ==
  ASSUME CRInv, NEW n \in Chapter, RewriteChapter(n)
  PROVE  CRInv' /\ StepOK
<1>1. /\ draft' = SaveLatest(NewDraft(n, "regenerate"))
      /\ UNCHANGED <<text, source, job, fresh, revived>>
  BY DEF RewriteChapter
<1> PICK op \in Operation : op = "regenerate"
  BY DEF Operation
<1> PICK d \in Record : d = NewDraft(n, op)
  BY NewDraftIs
<1>2. d.parent = None /\ d.source = 0 /\ d.state = "none"
  BY NewDraftIs
<1>3. source \in Nat
  BY Facts
<1>4. Safe /\ Beside
  BY <1>1, <1>2, <1>3, LatestStep
<1> QED
  BY <1>1, <1>4, BesideStep

\* polish_chapter of a draft adds a repair beside it.
LEMMA PolishDraftSafe ==
  ASSUME CRInv, NEW c \in Drafts, PolishDraft(c)
  PROVE  CRInv' /\ StepOK
<1> DEFINE e == [NewDraft(draft[c].chapter, draft[c].operation) EXCEPT
                   !.repair = TRUE, !.parent = c, !.state = "unchecked", !.source = source,
                   !.base = IF draft[c].operation = "regenerate"
                            THEN text[draft[c].chapter] ELSE None]
<1>1. draft' = Append(draft, e) /\ UNCHANGED <<text, source, job, fresh, revived>>
  BY DEF PolishDraft
<1>2. /\ draft[c].chapter \in Chapter /\ draft[c].operation \in Operation
      /\ text[draft[c].chapter] \in Nat /\ c \in Nat /\ c <= Len(draft) /\ source \in Nat
  BY Facts
<1>3. /\ e \in Record /\ e.repair /\ e.state = "unchecked" /\ e.parent = c
      /\ e.source = source
  BY <1>2 DEF NewDraft, Record, Digest, Status, None
<1> HIDE DEF e
<1> PICK d \in Record : d = e
  BY <1>3
<1>4. Safe /\ Beside
  BY <1>1, <1>2, <1>3, AddedStep
<1> QED
  BY <1>1, <1>4, BesideStep

-------------------------------------------------------------------------------
(* The worker repairs *)

\* The draft a repair of a draft will be
Repair(n, op, parent, contract, base) ==
  [NewDraft(n, op) EXCEPT !.repair = TRUE, !.parent = parent, !.contract = contract,
                          !.state = "unchecked", !.source = source, !.base = base]

\* A repair is a draft beside the line of revisions.
LEMMA RepairIs ==
  ASSUME source \in Nat, NEW n \in Chapter, NEW op \in Operation, NEW parent \in Nat,
         NEW contract \in Digest, NEW base \in Nat
  PROVE  /\ Repair(n, op, parent, contract, base) \in Record
         /\ Repair(n, op, parent, contract, base).repair
         /\ Repair(n, op, parent, contract, base).state = "unchecked"
         /\ Repair(n, op, parent, contract, base).parent = parent
         /\ Repair(n, op, parent, contract, base).source = source
<1>1. <<>> \in Digest
  BY DEF Digest
<1> QED
  BY <1>1 DEF Repair, NewDraft, Record, Status, None

\* repair_chapter_review of a draft
LEMMA StartRepairSafe ==
  ASSUME CRInv, NEW c \in Drafts, StartRepair(c)
  PROVE  CRInv' /\ StepOK
<1> DEFINE e == [NewDraft(draft[c].chapter, draft[c].operation) EXCEPT
                   !.repair = TRUE, !.parent = c, !.contract = Content(draft[c]),
                   !.state = "unchecked", !.source = source,
                   !.base = IF draft[c].operation = "regenerate"
                            THEN text[draft[c].chapter] ELSE None]
<1>1. /\ job'.kind = "repair" /\ job'.made = e
      /\ UNCHANGED <<draft, text, source, fresh, revived>>
  BY DEF StartRepair
<1>2. /\ draft[c].chapter \in Chapter /\ draft[c].operation \in Operation
      /\ text[draft[c].chapter] \in Nat /\ c \in Nat /\ c <= Len(draft) /\ source \in Nat
      /\ Content(draft[c]) \in Digest
  BY Facts
<1>3. /\ e \in Record /\ e.repair /\ e.state = "unchecked" /\ e.parent = c
      /\ e.source = source
  <2> PICK base \in Nat : base = IF draft[c].operation = "regenerate"
                                 THEN text[draft[c].chapter] ELSE None
    BY <1>2 DEF None
  <2>1. e = Repair(draft[c].chapter, draft[c].operation, c, Content(draft[c]), base)
    BY DEF Repair
  <2> HIDE DEF e
  <2> QED
    BY <1>2, <2>1, RepairIs
<1> HIDE DEF e
<1>4. JobOK'
  BY <1>1, <1>2, <1>3 DEF JobOK
<1> QED
  BY <1>1, <1>4, StillStep, SafeStep

\* repair_chapter_review of a confirmed chapter
LEMMA StartChapterRepairSafe ==
  ASSUME CRInv, NEW n \in Chapter, StartChapterRepair(n)
  PROVE  CRInv' /\ StepOK
<1> DEFINE e == [NewDraft(n, "regenerate") EXCEPT
                   !.repair = TRUE, !.contract = <<None, None>>, !.base = text[n],
                   !.state = "unchecked", !.source = source]
<1>1. /\ job'.kind = "repair" /\ job'.made = e
      /\ UNCHANGED <<draft, text, source, fresh, revived>>
  BY DEF StartChapterRepair
<1>2. text[n] \in Nat /\ Len(draft) \in Nat /\ source \in Nat
  BY Facts
<1>3. /\ e \in Record /\ e.repair /\ e.state = "unchecked" /\ e.parent = 0
      /\ e.source = source
  BY <1>2 DEF NewDraft, Record, Digest, Status, Operation, None
<1> HIDE DEF e
<1>4. JobOK'
  BY <1>1, <1>2, <1>3 DEF JobOK
<1> QED
  BY <1>1, <1>4, StillStep, SafeStep

\* The repair is added and handed to a recheck.
LEMMA SaveRepairSafe ==
  ASSUME CRInv, SaveRepair
  PROVE  CRInv' /\ StepOK
<1>1. /\ job.kind = "repair" /\ draft' = Append(draft, job.made)
      /\ job'.kind = "recheck" /\ job'.at = "queued" /\ job'.draft = Len(draft')
      /\ UNCHANGED <<text, source, fresh, revived>>
  BY DEF SaveRepair
<1>2. /\ job.made \in Record /\ job.made.repair /\ job.made.state = "unchecked"
      /\ job.made.parent <= Len(draft) /\ job.made.source <= source
  BY <1>1, Facts DEF JobOK
<1> PICK d \in Record : d = job.made
  BY <1>2
<1>3. Safe /\ Len(draft') = Len(draft) + 1
  BY <1>1, <1>2, AddedStep
<1>4. Len(draft') \in Drafts'
  BY <1>3, Facts DEF Drafts
<1>5. JobOK'
  BY <1>1, <1>4 DEF JobOK
<1> QED
  BY <1>3, <1>5, SafeStep

-------------------------------------------------------------------------------
(* The worker reviews the facts and revises *)

\* recheck takes the seal off, notes the sources and reads them in one section.
LEMMA StartRecheckSafe ==
  ASSUME CRInv, StartRecheck
  PROVE  CRInv' /\ StepOK
<1>1. job.kind = "recheck"
  BY DEF StartRecheck
<1> PICK c \in Drafts : c = job.draft
  BY <1>1, Facts DEF JobOK
<1> PICK old \in Record : old = draft[c]
  BY Facts
<1>2. source \in Nat /\ UNCHANGED <<text, source, fresh, revived>>
  BY Facts DEF StartRecheck
<1>3. PICK d \in Record :
        /\ draft' = [draft EXCEPT ![c] = d]
        /\ job' = [kind |-> "recheck", at |-> "model", draft |-> c,
                   expected |-> d, seen |-> Looking(d.chapter)]
        /\ d.state = "unchecked" /\ d.status = old.status /\ d.chapter = old.chapter
        /\ d.parent = old.parent /\ d.repair = old.repair /\ d.source = source
  BY <1>2, UncheckedIs DEF StartRecheck
<1>4. d.source <= source /\ d.state = "unchecked"
  BY <1>2, <1>3
<1>5. Safe /\ Drafts' = Drafts /\ draft'[c] = d
  <2>1. /\ draft' = [draft EXCEPT ![c] = d] /\ d.status = draft[c].status
        /\ d.chapter = draft[c].chapter /\ d.parent = draft[c].parent
        /\ d.repair = draft[c].repair
    BY <1>3
  <2> QED
    BY <1>2, <1>4, <2>1, Reopened
<1>6. /\ d.chapter \in Chapter
      /\ job'.kind = "recheck" /\ job'.at = "model" /\ job'.draft = c
      /\ job'.seen = [source |-> source, text |-> text[d.chapter]]
  BY <1>3, Facts DEF Looking
<1>7. Saw(job.seen, draft[job.draft].chapter)'
  <2>1. /\ source' = source /\ text' = text /\ draft'[job'.draft].chapter = d.chapter
        /\ job'.seen.source = source /\ source <= source
    BY <1>2, <1>5, <1>6
  <2>2. job'.seen = Looking(draft[job.draft].chapter)'
    BY <1>6, <2>1 DEF Looking
  <2> QED
    BY <1>2, <1>6, <2>1, <2>2 DEF Saw
<1>8. JobOK'
  BY <1>5, <1>6, <1>7 DEF JobOK
<1> QED
  BY <1>5, <1>8, SafeStep

\* recheck refuses after it has saved the draft without its seal.
LEMMA RefuseRecheckSafe ==
  ASSUME CRInv, RefuseRecheck
  PROVE  CRInv' /\ StepOK
<1>1. job.kind = "recheck" /\ job' = Idle
  BY DEF RefuseRecheck
<1> PICK c \in Drafts : c = job.draft
  BY <1>1, Facts DEF JobOK
<1> PICK old \in Record : old = draft[c]
  BY Facts
<1>2. source \in Nat /\ UNCHANGED <<text, source, fresh, revived>>
  BY Facts DEF RefuseRecheck
<1>3. PICK d \in Record :
        /\ draft' = [draft EXCEPT ![c] = d]
        /\ d.state = "unchecked" /\ d.status = old.status /\ d.chapter = old.chapter
        /\ d.parent = old.parent /\ d.repair = old.repair /\ d.source = source
  BY <1>2, UncheckedIs DEF RefuseRecheck
<1>4. d.source <= source
  BY <1>2, <1>3
<1>5. Safe
  BY <1>2, <1>3, <1>4, Reopened
<1> QED
  BY <1>1, <1>5, DoneStep

\* An answer counts if the sources are the ones the review was given: then it was
\* also given the text the draft replaces.
LEMMA StoreReviewSafe ==
  ASSUME CRInv, StoreReview
  PROVE  CRInv' /\ StepOK
<1>1. /\ job.kind = "recheck" /\ job.at = "model" /\ job' = Idle
      /\ job.seen.source = source
  BY DEF StoreReview
<1> PICK c \in Drafts : c = job.draft
  BY <1>1, Facts DEF JobOK
<1> PICK old \in Record : old = draft[c]
  BY Facts
<1>2. /\ fresh' = Reread(c, job.seen) /\ UNCHANGED <<text, source, revived>>
      /\ \E expression \in BOOLEAN :
           draft' = [draft EXCEPT ![c] =
                       [old EXCEPT !.state = "checked", !.review = old.review + 1,
                                   !.sealed = <<old.review + 1, old.notes>>,
                                   !.expression = expression]]
  BY DEF StoreReview
<1>3. PICK expression \in BOOLEAN :
        draft' = [draft EXCEPT ![c] =
                    [old EXCEPT !.state = "checked", !.review = old.review + 1,
                                !.sealed = <<old.review + 1, old.notes>>,
                                !.expression = expression]]
  BY <1>2
<1> DEFINE e == [old EXCEPT !.state = "checked", !.review = old.review + 1,
                            !.sealed = <<old.review + 1, old.notes>>,
                            !.expression = expression]
<1>4. /\ e \in Record /\ e.status = old.status /\ e.chapter = old.chapter
      /\ e.parent = old.parent /\ e.repair = old.repair /\ e.source = old.source
  <2> DEFINE review == old.review + 1
             sealed == <<old.review + 1, old.notes>>
             f == [old EXCEPT !.state = "checked", !.review = review]
             g == [f EXCEPT !.sealed = sealed, !.expression = expression]
  <2>1. review \in Nat /\ sealed \in Digest
    BY RecordFields DEF Digest
  <2> HIDE DEF review, sealed
  <2>2. /\ f \in Record /\ f.status = old.status /\ f.chapter = old.chapter
        /\ f.parent = old.parent /\ f.repair = old.repair /\ f.source = old.source
    BY <2>1 DEF Record
  <2>3. [old EXCEPT !.state = "checked", !.review = review, !.sealed = sealed,
                    !.expression = expression] = g
    BY DEF Record
  <2> HIDE DEF f
  <2>4. /\ g \in Record /\ g.status = f.status /\ g.chapter = f.chapter
        /\ g.parent = f.parent /\ g.repair = f.repair /\ g.source = f.source
    BY <2>1, <2>2 DEF Record
  <2> HIDE DEF g
  <2>5. e = g
    BY <2>3 DEF review, sealed
  <2> QED
    BY <2>2, <2>4, <2>5
<1>5. draft' = [draft EXCEPT ![c] = e]
  BY <1>3
<1> HIDE DEF e
<1> PICK d \in Record : d = e
  BY <1>4
<1>6. Saw(job.seen, draft[c].chapter)
  BY <1>1, Facts DEF JobOK
<1>7. fresh' = fresh \cup {c}
  BY <1>1, <1>2, <1>6 DEF Saw, Reread
<1>8. d.source <= source
  BY <1>4, Facts
<1>9. Safe
  BY <1>2, <1>4, <1>5, <1>7, <1>8, PutStep
<1> QED
  BY <1>1, <1>9, DoneStep

\* revise_with_ai reads the draft.
LEMMA StartRevisionSafe ==
  ASSUME CRInv, StartRevision
  PROVE  CRInv' /\ StepOK
<1>1. /\ job.kind = "revise" /\ job'.kind = "revise" /\ job'.draft = job.draft
      /\ UNCHANGED <<draft, text, source, fresh, revived>>
  BY DEF StartRevision
<1>2. JobOK'
  BY <1>1, Facts DEF JobOK, Drafts
<1> QED
  BY <1>1, <1>2, StillStep, SafeStep

\* The model gives the body back as it was: nothing is saved, the recheck is next.
LEMMA KeepBodySafe ==
  ASSUME CRInv, KeepBody
  PROVE  CRInv' /\ StepOK
<1>1. /\ job.kind = "revise" /\ job'.kind = "recheck" /\ job'.at = "queued"
      /\ job'.draft = job.draft
      /\ UNCHANGED <<draft, text, source, fresh, revived>>
  BY DEF KeepBody
<1>2. JobOK'
  BY <1>1, Facts DEF JobOK, Drafts
<1> QED
  BY <1>1, <1>2, StillStep, SafeStep

\* revise_with_ai saves only if the draft it read is still pending: that one gives way.
LEMMA SaveRevisionSafe ==
  ASSUME CRInv, SaveRevision
  PROVE  CRInv' /\ StepOK
<1>1. job.kind = "revise"
  BY DEF SaveRevision
<1> PICK c \in Drafts : c = job.draft
  BY <1>1, Facts DEF JobOK
<1>2. /\ draft[c].status = "pending" /\ draft' = SaveLatest(Revision(c))
      /\ job'.kind = "recheck" /\ job'.at = "queued" /\ job'.draft = Len(draft')
      /\ UNCHANGED <<text, source, fresh, revived>>
  BY DEF SaveRevision, Pending
<1>3. c \in PendingFor(Revision(c).chapter)
  BY <1>2, RevisionIs DEF PendingFor
<1>4. source \in Nat
  BY Facts
<1>5. Safe /\ Len(draft') = Len(draft) + 1
  BY <1>2, <1>3, <1>4, RevisionIs, LatestStep
<1>6. Len(draft') \in Drafts'
  BY <1>5, Facts DEF Drafts
<1>7. JobOK'
  BY <1>2, <1>6 DEF JobOK
<1> QED
  BY <1>5, <1>7, SafeStep

-------------------------------------------------------------------------------
(* The worker reviews in context *)

\* run_chapter_context_review has a repair rechecked first.
LEMMA RecheckForContextSafe ==
  ASSUME CRInv, NEW c \in Drafts, RecheckForContext(c)
  PROVE  CRInv' /\ StepOK
<1>1. /\ job' = [kind |-> "recheck", at |-> "queued", draft |-> c, expected |-> draft[c]]
      /\ UNCHANGED <<draft, text, source, fresh, revived>>
  BY DEF RecheckForContext
<1>2. JobOK'
  BY <1>1 DEF JobOK, Drafts
<1> QED
  BY <1>1, <1>2, StillStep, SafeStep

\* run_chapter_context_review reads a pending draft.
LEMMA ReadForContextSafe ==
  ASSUME CRInv, NEW c \in Drafts, ReadForContext(c)
  PROVE  CRInv' /\ StepOK
<1> PICK old \in Record : old = draft[c]
  BY Facts
<1>1. /\ old.status = "pending"
      /\ job'.kind = "context" /\ job'.draft = c /\ job'.copy = old
      /\ UNCHANGED <<draft, text, source, fresh, revived>>
  BY DEF ReadForContext
<1>2. Body(old) = old
  BY <1>1 DEF Body, With, Record
<1>3. JobOK'
  BY <1>1, <1>2 DEF JobOK, Drafts
<1> QED
  BY <1>1, <1>3, StillStep, SafeStep

\* The file is hashed later: its status may be another one by then.
LEMMA HashFileSafe ==
  ASSUME CRInv, HashFile
  PROVE  CRInv' /\ StepOK
<1>1. /\ job.kind = "context" /\ job'.kind = "context" /\ job'.draft = job.draft
      /\ job'.copy = job.copy
      /\ UNCHANGED <<draft, text, source, fresh, revived>>
  BY DEF HashFile
<1>2. JobOK'
  BY <1>1, Facts DEF JobOK, Drafts
<1> QED
  BY <1>1, <1>2, StillStep, SafeStep

\* The copy that is saved is the draft as it was, with its notes: sealed again if it was.
LEMMA StoreNotesSafe ==
  ASSUME CRInv, StoreNotes
  PROVE  CRInv' /\ StepOK
<1>1. /\ job.kind = "context" /\ job' = Idle
      /\ job.copy.state = "checked" => Sealed(job.copy)
      /\ UNCHANGED <<text, source, fresh>>
  BY DEF StoreNotes
<1> PICK c \in Drafts : c = job.draft
  BY <1>1, Facts DEF JobOK
<1> PICK old \in Record : old = draft[c]
  BY Facts
<1> PICK pending \in Status : pending = "pending"
  BY DEF Status
<1>2. job.copy = With(old, pending)
  BY <1>1, Facts DEF JobOK, Body
<1>3. /\ With(old, pending) \in Record /\ With(old, pending).status = pending
      /\ With(old, pending).chapter = old.chapter /\ With(old, pending).parent = old.parent
      /\ With(old, pending).repair = old.repair /\ With(old, pending).source = old.source
      /\ With(old, pending).state = old.state /\ With(old, pending).sealed = old.sealed
      /\ Content(With(old, pending)) = Content(old)
  BY StatusOnly
<1> PICK copy \in Record : copy = job.copy
  BY <1>2, <1>3
<1>4. /\ draft' = [draft EXCEPT ![c] = Annotated(copy)]
      /\ revived' = IF draft[c].status # "pending" THEN revived \cup {c} ELSE revived
  BY DEF StoreNotes
<1>5. /\ Annotated(copy) \in Record
      /\ Annotated(copy).status = copy.status /\ Annotated(copy).chapter = copy.chapter
      /\ Annotated(copy).parent = copy.parent /\ Annotated(copy).repair = copy.repair
      /\ Annotated(copy).source = copy.source /\ Annotated(copy).state = copy.state
  <2> DEFINE annotated == [copy EXCEPT !.notes = @ + 1]
  <2>1. /\ annotated \in Record
        /\ annotated.status = copy.status /\ annotated.chapter = copy.chapter
        /\ annotated.parent = copy.parent /\ annotated.repair = copy.repair
        /\ annotated.source = copy.source /\ annotated.state = copy.state
    BY DEF Record
  <2>2. Annotated(copy) = IF copy.state = "checked"
                          THEN [annotated EXCEPT !.sealed = Content(annotated)] ELSE annotated
    BY DEF Annotated
  <2> HIDE DEF annotated
  <2> PICK e \in Record : e = annotated
    BY <2>1
  <2>3. Content(e) \in Digest
    BY RecordFields DEF Content, Digest
  <2>4. /\ [e EXCEPT !.sealed = Content(e)] \in Record
        /\ [e EXCEPT !.sealed = Content(e)].status = e.status
        /\ [e EXCEPT !.sealed = Content(e)].chapter = e.chapter
        /\ [e EXCEPT !.sealed = Content(e)].parent = e.parent
        /\ [e EXCEPT !.sealed = Content(e)].repair = e.repair
        /\ [e EXCEPT !.sealed = Content(e)].source = e.source
        /\ [e EXCEPT !.sealed = Content(e)].state = e.state
    BY <2>3 DEF Record
  <2> QED
    BY <2>1, <2>2, <2>4
<1> PICK d \in Record : d = Annotated(copy)
  BY <1>5
<1>6. Sealed(d) => c \in fresh
  <2>1. Sealed(d) => Sealed(old)
    BY <1>1, <1>2, <1>3, <1>5 DEF Sealed
  <2> QED
    BY <2>1, Facts DEF SealedIsFresh
<1>7. /\ d.chapter = draft[c].chapter /\ d.parent = draft[c].parent
      /\ d.repair = draft[c].repair /\ d.source <= source
      /\ Decided(c) => c \in revived'
      /\ d.status # "confirmed" /\ revived \subseteq revived'
  BY <1>2, <1>3, <1>4, <1>5, Facts DEF Decided
<1>8. Safe
  BY <1>1, <1>4, <1>6, <1>7, PutStep
<1> QED
  BY <1>1, <1>8, DoneStep

\* A job that fails saves nothing.
LEMMA FailSafe ==
  ASSUME CRInv, Fail
  PROVE  CRInv' /\ StepOK
  BY StillStep, DoneStep DEF Fail

-------------------------------------------------------------------------------
\* The invariant holds in a book without drafts.
LEMMA InitSafe ==
  ASSUME Init
  PROVE  CRInv
<1>1. /\ draft = <<>> /\ source = 0 /\ job = Idle /\ Drafts = {}
  BY DEF Init, Drafts
<1>2. text \in [Chapter -> Nat]
  <2>1. PICK k \in 0..MaxChapter : text = [n \in Chapter |-> IF n <= k THEN Earlier ELSE None]
    BY DEF Init
  <2>2. Earlier \in Nat /\ None \in Nat
    BY ReviewAssumption DEF Earlier, None
  <2> QED
    BY <2>1, <2>2
<1>3. draft \in Seq(Record)
  BY <1>1, EmptySeq
<1> QED
  BY <1>1, <1>2, <1>3 DEF CRInv, Shape, SealedIsFresh, JobOK, EditsInLine, Idle

\* What authors do
LEMMA AuthorSafe ==
  ASSUME CRInv, Author
  PROVE  CRInv' /\ StepOK
<1>1. ASSUME NEW c \in Drafts,
             SaveEdit(c) \/ Confirm(c) \/ Discard(c) \/ AskRecheck(c) \/ AskRevision(c)
      PROVE  CRInv' /\ StepOK
  BY <1>1, SaveEditSafe, ConfirmSafe, DiscardSafe, AskRecheckSafe, AskRevisionSafe
<1> QED
  BY <1>1, EditSourcesSafe DEF Author

\* What the worker does
LEMMA WorkSafe ==
  ASSUME CRInv, Work
  PROVE  CRInv' /\ StepOK
<1>1. CASE StartGenerate(TRUE) \/ StartGenerate(FALSE)
  BY <1>1, StartGenerateSafe
<1>2. CASE SaveUnbound \/ SaveBound("unchecked") \/ SaveBound("checked")
  BY <1>2, SaveUnboundSafe, SaveBoundUncheckedSafe, SaveBoundCheckedSafe
<1>3. ASSUME NEW n \in Chapter, RewriteChapter(n) \/ StartChapterRepair(n)
      PROVE  CRInv' /\ StepOK
  BY <1>3, RewriteChapterSafe, StartChapterRepairSafe
<1>4. ASSUME NEW c \in Drafts, PolishDraft(c) \/ StartRepair(c)
                                  \/ RecheckForContext(c) \/ ReadForContext(c)
      PROVE  CRInv' /\ StepOK
  BY <1>4, PolishDraftSafe, StartRepairSafe, RecheckForContextSafe, ReadForContextSafe
<1>5. CASE SaveRepair \/ StartRecheck \/ RefuseRecheck \/ StoreReview
  BY <1>5, SaveRepairSafe, StartRecheckSafe, RefuseRecheckSafe, StoreReviewSafe
<1>6. CASE StartRevision \/ KeepBody \/ SaveRevision \/ HashFile \/ StoreNotes \/ Fail
  BY <1>6, StartRevisionSafe, KeepBodySafe, SaveRevisionSafe, HashFileSafe, StoreNotesSafe,
     FailSafe
<1> QED
  BY <1>1, <1>2, <1>3, <1>4, <1>5, <1>6 DEF Work

\* Every step keeps the invariant, and decides nothing against it.
LEMMA StepSafe ==
  ASSUME CRInv, [Next]_vars
  PROVE  CRInv' /\ (vars' # vars => StepOK)
<1>1. CASE Next
  BY <1>1, AuthorSafe, WorkSafe DEF Next
<1>2. CASE UNCHANGED vars
  <2>1. UNCHANGED <<draft, text, source, job, fresh, revived>>
    BY <1>2 DEF vars
  <2>2. JobOK'
    BY <2>1, Facts DEF JobOK, Saw, Looking, Drafts
  <2> QED
    BY <1>2, <2>1, <2>2, StillStep, SafeStep
<1> QED
  BY <1>1, <1>2

-------------------------------------------------------------------------------
(* The theorems *)

(***************************************************************************)
(* What is true of the drafts, of the reviews that count and of the        *)
(* worker's job, whatever is edited meanwhile.                             *)
(***************************************************************************)
THEOREM CRInvariant == Spec => []CRInv
<1>1. Init => CRInv
  BY InitSafe
<1>2. CRInv /\ [Next]_vars => CRInv'
  BY StepSafe
<1> QED
  BY <1>1, <1>2, PTL DEF Spec

(***************************************************************************)
(* Revisions of a draft form a line (candidate_editing.py line 96): an     *)
(* edit by hand and a revision by a model from the same draft do not both  *)
(* come through, and none is built on a draft already decided.             *)
(***************************************************************************)
THEOREM OneLineOfEdits == Spec => []EditsInLine
<1>1. CRInv => EditsInLine
  BY DEF CRInv
<1> QED
  BY <1>1, CRInvariant, PTL

(***************************************************************************)
(* A draft that needs a review is confirmed only if its last review read   *)
(* this draft, the sources as they still are and the text it replaces      *)
(* (candidate_editing.py line 3: "no old review/delta can approve the      *)
(* edited body").                                                          *)
(***************************************************************************)
THEOREM NoOldReviewApproves == Spec => ReviewedAsConfirmed
<1>1. CRInv /\ [Next]_vars =>
        [\A c \in Drafts :
           draft[c].state # "none" /\ ~Confirmed(c) /\ Confirmed(c)' => c \in fresh]_vars
  BY StepSafe DEF StepOK, Confirmed
<1> QED
  BY <1>1, CRInvariant, PTL DEF Spec, ReviewedAsConfirmed

(***************************************************************************)
(* A draft confirmed, discarded or superseded while a job read it is not   *)
(* changed back by the job's answer, unless the job is a contextual review *)
(* (contextual_prose_review.py lines 202-249).                             *)
(***************************************************************************)
THEOREM DecisionsStand == Spec => OnlyNotesRevive
<1>1. CRInv /\ [Next]_vars =>
        [\A c \in Drafts : Decided(c) => draft'[c].status = draft[c].status
                                           \/ c \in revived']_vars
  BY StepSafe DEF StepOK
<1> QED
  BY <1>1, CRInvariant, PTL DEF Spec, OnlyNotesRevive

===============================================================================
