--------------------------- MODULE CandidateReview ---------------------------
(***************************************************************************)
(* The drafts of a chapter between the model that wrote them and the book: *)
(* packages/story_core/candidate_editing.py, review_repair.py,             *)
(* contextual_prose_review.py, candidate_draft.py and                      *)
(* persistence/candidate_store.py, with the confirmation and generation    *)
(* paths of file_project_store.py.                                         *)
(*                                                                         *)
(* Models are called without the project lock.  A job therefore reads a    *)
(* draft and the project's sources under the lock, lets go, and compares   *)
(* both when it comes back; in between the author may edit, confirm or     *)
(* discard.  The jobs of a project run one at a time (FileGenerationJobs). *)
(*                                                                         *)
(* Abstracted: the body of a draft never changes, a changed body is a new  *)
(* draft; what a review said to how often the draft was reviewed; the      *)
(* files execution.source_fingerprint covers to a version number.  Writes  *)
(* under the project lock are one step (ChapterFiles opens them up).  Left *)
(* out: the opening graph's own authority, drafts of older releases, an    *)
(* edit that keeps the body (save_edit answers with the draft as it is),   *)
(* and the contextual review of a confirmed chapter, which changes that    *)
(* chapter's report alone: no fingerprint covers it, and to a repair of    *)
(* the chapter it is one more reason to be refused.                        *)
(***************************************************************************)
EXTENDS Naturals, Sequences, FiniteSets, SequencesExt

CONSTANTS
  MaxChapter,     \* bound: chapters of the book
  MaxDrafts,      \* bound: drafts ever saved
  MaxSource,      \* bound: versions of the sources an author may reach by editing
  MaxReviews,     \* bound: reviews of the facts, of all the drafts
  MaxNotes        \* bound: contextual reviews, of all the drafts

ASSUME ReviewAssumption ==
  /\ MaxChapter \in Nat \ {0} /\ MaxDrafts \in Nat
  /\ MaxSource \in Nat /\ MaxReviews \in Nat /\ MaxNotes \in Nat

VARIABLES
  draft,     \* the drafts saved, in the order they were created
  text,      \* for each chapter, the draft the book holds
  source,    \* version of what the source fingerprint covers
  job,       \* what the worker is at
  fresh,     \* history: drafts whose last review of the facts read what is now true
  revived    \* history: decided drafts a contextual review made pending

vars == <<draft, text, source, job, fresh, revived>>

Chapter == 1..MaxChapter
Earlier == MaxDrafts + 1        \* a text confirmed before the first step
None == 0                       \* no draft, no review, no text

Status == {"pending", "confirmed", "discarded", "superseded"}
Operation == {"generate", "regenerate"}

Draft ==
  [status: Status, chapter: Chapter, operation: Operation,
   repair: BOOLEAN,                            \* binding kind legacy-review-repair/v1
   parent: 0..MaxDrafts, base: 0..Earlier,     \* what it was made from
   contract: {<<>>} \cup ((0..MaxReviews) \X (0..MaxNotes)),
   state: {"none", "unchecked", "checked"}, source: Nat,  \* review_binding
   sealed: {<<>>} \cup ((0..MaxReviews) \X (0..MaxNotes)),
   review: 0..MaxReviews, notes: 0..MaxNotes,  \* what quality_report says
   expression: BOOLEAN]                        \* only the expression changed

Idle == [kind |-> "none"]
Drafts == 1..Len(draft)
Current == Cardinality({n \in Chapter : text[n] # None})
PendingFor(n) == {c \in Drafts : draft[c].status = "pending" /\ draft[c].chapter = n}

\* review_digest
Content(d) == <<d.review, d.notes>>

-------------------------------------------------------------------------------
(* The checks shared by the operations                                       *)

\* What _pending asks of a draft beside its status
InPlace(d, legacy) ==
  IF legacy /\ d.repair
  THEN IF d.operation = "regenerate" THEN d.base = text[d.chapter]
       ELSE d.chapter = Current + 1 \/ (d.contract # <<>> /\ d.parent # None /\ d.source = source)
  ELSE d.operation = "generate" /\ d.chapter = Current + 1

\* Mutant: a decided draft passes, as long as nothing else about it changed
SameDraft(c, expected, legacy) ==
  /\ Content(draft[c]) = Content(expected)
  /\ InPlace(draft[c], legacy)

\* _pending with an expected authority
Pending(c, expected, legacy) ==
  /\ draft[c].status = "pending" /\ draft[c] = expected
  /\ InPlace(draft[c], legacy)

Sealed(d) == d.state = "checked" /\ d.sealed = Content(d) /\ d.source = source

\* Mutant: a checked draft is not compared with the sources again
ConfirmableOnceChecked(d) ==
  /\ d.operation = "generate" /\ d.chapter <= Current
       => d.repair /\ d.parent # None /\ d.contract # <<>> /\ d.expression
  /\ d.state # "none" => d.state = "checked" /\ d.sealed = Content(d)

\* assert_review_current
Confirmable(d) ==
  /\ d.operation = "generate" /\ d.chapter <= Current
       => d.repair /\ d.parent # None /\ d.contract # <<>> /\ d.expression
  /\ d.state # "none" => Sealed(d)

NewDraft(chapter, operation) ==
  [status |-> "pending", chapter |-> chapter, operation |-> operation, repair |-> FALSE,
   parent |-> None, base |-> None, contract |-> <<>>, state |-> "none", source |-> 0,
   sealed |-> <<>>, review |-> None, notes |-> None, expression |-> FALSE]

\* Mutant: every other draft of the chapter gives way
SaveOnly(d) ==
  Append([c \in Drafts |-> IF draft[c].chapter = d.chapter
                           THEN [draft[c] EXCEPT !.status = "superseded"] ELSE draft[c]], d)

\* CandidateStore.save_latest: other pending drafts of the chapter give way
SaveLatest(d) ==
  Append([c \in Drafts |-> IF c \in PendingFor(d.chapter)
                           THEN [draft[c] EXCEPT !.status = "superseded"] ELSE draft[c]], d)

RoomForDraft == Len(draft) < MaxDrafts
RoomForReview == MapThenSumSet(LAMBDA c : draft[c].review, Drafts) < MaxReviews
RoomForNotes == MapThenSumSet(LAMBDA c : draft[c].notes, Drafts) < MaxNotes

\* What a review of the facts of chapter n is given to read beside the draft
Looking(n) == [source |-> source, text |-> text[n]]

\* The drafts with a review of what is now true, once one that was given `seen` is stored
Reread(c, seen) ==
  IF seen = Looking(IF c \in Drafts THEN draft[c].chapter ELSE job.chapter)
  THEN fresh \cup {c} ELSE fresh \ {c}

\* The draft is to be reviewed again: state and result of review_binding
Unchecked(d) == [d EXCEPT !.state = "unchecked", !.sealed = <<>>]

-------------------------------------------------------------------------------
Init ==
  /\ draft = <<>>
  /\ \E k \in 0..MaxChapter : text = [n \in Chapter |-> IF n <= k THEN Earlier ELSE None]
  /\ source = 0
  /\ job = Idle
  /\ fresh = {}
  /\ revived = {}

-------------------------------------------------------------------------------
(* Authors.  What they ask for names the draft and the sources their page    *)
(* showed; if either has changed since, the request is refused and nothing   *)
(* happens, so the page is taken to be current.                              *)

EditSources ==
  /\ source < MaxSource
  /\ source' = source + 1
  /\ fresh' = {}
  /\ UNCHANGED <<draft, text, job, revived>>

Revision(c) ==
  [NewDraft(draft[c].chapter, "generate") EXCEPT
     !.parent = c, !.state = "unchecked", !.source = source]

\* save_edit
SaveEdit(c) ==
  /\ draft[c].status = "pending" /\ InPlace(draft[c], FALSE) /\ RoomForDraft
  /\ draft' = SaveLatest(Revision(c))
  /\ UNCHANGED <<text, source, job, fresh, revived>>

Confirm(c) ==
  /\ draft[c].status = "pending" /\ Confirmable(draft[c])
  /\ draft' = [draft EXCEPT ![c].status = "confirmed"]
  /\ text' = [text EXCEPT ![draft[c].chapter] = c]
  /\ source' = source + 1
  /\ fresh' = {}
  /\ UNCHANGED <<job, revived>>

Discard(c) ==
  /\ draft[c].status = "pending"
  /\ draft' = [draft EXCEPT ![c].status = "discarded"]
  /\ UNCHANGED <<text, source, job, fresh, revived>>

\* start_candidate_review_job: a recheck unseals the draft at once
AskRecheck(c) ==
  /\ job = Idle
  /\ draft[c].status = "pending" /\ InPlace(draft[c], FALSE)
  /\ draft' = [draft EXCEPT ![c] = Unchecked(@)]
  /\ job' = [kind |-> "recheck", at |-> "queued", draft |-> c,
             expected |-> draft'[c]]
  /\ UNCHANGED <<text, source, fresh, revived>>

AskRevision(c) ==
  /\ job = Idle
  /\ draft[c].status = "pending" /\ InPlace(draft[c], FALSE)
  /\ job' = [kind |-> "revise", at |-> "queued", draft |-> c,
             expected |-> draft[c]]
  /\ UNCHANGED <<draft, text, source, fresh, revived>>

Author ==
  \/ \E c \in Drafts : \/ SaveEdit(c) \/ Confirm(c) \/ Discard(c)
                        \/ AskRecheck(c) \/ AskRevision(c)
  \/ EditSources

-------------------------------------------------------------------------------
(* generate_next_chapter; "strict" is require_review                         *)

StartGenerate(strict) ==
  /\ job = Idle /\ Current < MaxChapter
  /\ strict => PendingFor(Current + 1) = {}
  /\ job' = [kind |-> "generate", strict |-> strict, chapter |-> Current + 1,
             seen |-> Looking(Current + 1)]
  /\ UNCHANGED <<draft, text, source, fresh, revived>>

SaveUnbound ==
  /\ job.kind = "generate" /\ RoomForDraft
  /\ ~job.strict
  /\ draft' = SaveLatest(NewDraft(job.chapter, "generate"))
  /\ job' = Idle
  /\ UNCHANGED <<text, source, fresh, revived>>

SaveBound(state) ==
  /\ job.kind = "generate" /\ RoomForDraft
  /\ job.strict /\ job.seen.source = source /\ PendingFor(job.chapter) = {}
  /\ LET d == [NewDraft(job.chapter, "generate") EXCEPT !.state = state, !.source = source] IN
     IF state = "checked"
     THEN /\ RoomForReview
          /\ draft' = SaveLatest([d EXCEPT !.review = 1, !.sealed = <<1, 0>>])
          /\ fresh' = Reread(Len(draft) + 1, job.seen)
     ELSE /\ draft' = SaveLatest(d)
          /\ UNCHANGED fresh
  /\ job' = Idle
  /\ UNCHANGED <<text, source, revived>>

\* regenerate_chapter, expand_chapter and polish_chapter of a confirmed
\* chapter hold the project lock for as long as they run
RewriteChapter(n) ==
  /\ job = Idle /\ text[n] # None /\ RoomForDraft
  /\ draft' = SaveLatest(NewDraft(n, "regenerate"))
  /\ UNCHANGED <<text, source, job, fresh, revived>>

\* polish_chapter of a draft keeps the draft
PolishDraft(c) ==
  /\ job = Idle /\ draft[c].status = "pending" /\ RoomForDraft
  /\ draft' = Append(draft,
       [NewDraft(draft[c].chapter, draft[c].operation) EXCEPT
          !.repair = TRUE, !.parent = c, !.state = "unchecked", !.source = source,
          !.base = IF draft[c].operation = "regenerate" THEN text[draft[c].chapter] ELSE None])
  /\ UNCHANGED <<text, source, job, fresh, revived>>

-------------------------------------------------------------------------------
(* repair_chapter_review                                                     *)

StartRepair(c) ==
  /\ job = Idle /\ draft[c].status = "pending"
  /\ job' = [kind |-> "repair", draft |-> c, expected |-> draft[c], source |-> source,
        made |-> [NewDraft(draft[c].chapter, draft[c].operation) EXCEPT
                    !.repair = TRUE, !.parent = c, !.contract = Content(draft[c]),
                    !.state = "unchecked", !.source = source,
                    !.base = IF draft[c].operation = "regenerate"
                             THEN text[draft[c].chapter] ELSE None]]
  /\ UNCHANGED <<draft, text, source, fresh, revived>>

StartChapterRepair(n) ==
  /\ job = Idle /\ text[n] # None
  /\ job' = [kind |-> "repair", draft |-> None, source |-> source,
        made |-> [NewDraft(n, "regenerate") EXCEPT
                    !.repair = TRUE, !.contract = <<None, None>>, !.base = text[n],
                    !.state = "unchecked", !.source = source]]
  /\ UNCHANGED <<draft, text, source, fresh, revived>>

SaveRepair ==
  /\ job.kind = "repair" /\ RoomForDraft
  /\ LET j == job IN
     /\ j.source = source
     /\ j.draft # None => draft[j.draft] = j.expected
     /\ draft' = Append(draft, j.made)
     /\ job' = [kind |-> "recheck", at |-> "queued",
             draft |-> Len(draft'), expected |-> j.made]
  /\ UNCHANGED <<text, source, fresh, revived>>

-------------------------------------------------------------------------------
(* recheck and revise_with_ai                                                *)

\* The draft a repair was made from still says what it was to correct
SameContract(d) ==
  d.contract # <<>> /\ d.parent # None => Content(draft[d.parent]) = d.contract

StartRecheck ==
  /\ job.kind = "recheck" /\ job.at = "queued"
  /\ LET c == job.draft
         d == [Unchecked(draft[c]) EXCEPT !.source = source] IN
     /\ Pending(c, job.expected, TRUE)
     /\ draft' = [draft EXCEPT ![c] = d]
     /\ SameContract(d)
     /\ job' = [kind |-> "recheck", at |-> "model", draft |-> c,
             expected |-> d, seen |-> Looking(d.chapter)]
  /\ UNCHANGED <<text, source, fresh, revived>>

\* The saved parts stay saved when the rest of recheck's first phase refuses
RefuseRecheck ==
  /\ job.kind = "recheck" /\ job.at = "queued"
  /\ LET c == job.draft IN
     /\ Pending(c, job.expected, TRUE)
     /\ draft' = [draft EXCEPT ![c] = [Unchecked(@) EXCEPT !.source = source]]
  /\ job' = Idle
  /\ UNCHANGED <<text, source, fresh, revived>>

StoreReview ==
  /\ job.kind = "recheck" /\ job.at = "model"
  /\ LET c == job.draft
         r == draft[c].review + 1 IN
     /\ Pending(c, job.expected, TRUE)
     /\ RoomForReview /\ job.seen.source = source
     /\ fresh' = Reread(c, job.seen)
     /\ \E expression \in (IF draft[c].repair THEN BOOLEAN ELSE {FALSE}) :
          draft' = [draft EXCEPT ![c] =
                      [@ EXCEPT !.state = "checked", !.review = r, !.sealed = <<r, draft[c].notes>>,
                                !.expression = expression]]
  /\ job' = Idle
  /\ UNCHANGED <<text, source, revived>>

StartRevision ==
  /\ job.kind = "revise" /\ job.at = "queued"
  /\ Pending(job.draft, job.expected, FALSE)
  /\ job' = [kind |-> "revise", at |-> "model", draft |-> job.draft,
             expected |-> job.expected, source |-> source]
  /\ UNCHANGED <<draft, text, source, fresh, revived>>

\* The model gives the body back as it was: the same draft is checked again
KeepBody ==
  /\ job.kind = "revise" /\ job.at = "model"
  /\ Pending(job.draft, job.expected, FALSE) /\ job.source = source
  /\ job' = [kind |-> "recheck", at |-> "queued", draft |-> job.draft,
             expected |-> draft[job.draft]]
  /\ UNCHANGED <<draft, text, source, fresh, revived>>

SaveRevision ==
  /\ job.kind = "revise" /\ job.at = "model" /\ RoomForDraft
  /\ LET j == job IN
     /\ Pending(j.draft, j.expected, FALSE) /\ j.source = source
     /\ draft' = SaveLatest(Revision(j.draft))
     /\ job' = [kind |-> "recheck", at |-> "queued",
             draft |-> Len(draft'), expected |-> Revision(j.draft)]
  /\ UNCHANGED <<text, source, fresh, revived>>

-------------------------------------------------------------------------------
(* run_chapter_context_review of a draft: the copy in memory is read before  *)
(* the file is hashed, and saved if the file still has that hash.            *)

\* A repair nobody has checked is rechecked first; the review then goes on as
\* ReadForContext does with the draft the recheck has just stored
RecheckForContext(c) ==
  /\ job = Idle /\ draft[c].status = "pending"
  /\ draft[c].repair /\ draft[c].state # "checked"
  /\ job' = [kind |-> "recheck", at |-> "queued", draft |-> c, expected |-> draft[c]]
  /\ UNCHANGED <<draft, text, source, fresh, revived>>

ReadForContext(c) ==
  /\ job = Idle /\ draft[c].status = "pending" /\ RoomForNotes
  /\ draft[c].repair => Sealed(draft[c])
  /\ job' = [kind |-> "context", at |-> "read", draft |-> c,
             copy |-> draft[c]]
  /\ UNCHANGED <<draft, text, source, fresh, revived>>

HashFile ==
  /\ job.kind = "context" /\ job.at = "read"
  /\ job' = [kind |-> "context", at |-> "model", draft |-> job.draft,
             copy |-> job.copy, before |-> draft[job.draft]]
  /\ UNCHANGED <<draft, text, source, fresh, revived>>

Annotated(d) ==
  LET annotated == [d EXCEPT !.notes = @ + 1] IN
  IF d.state = "checked" THEN [annotated EXCEPT !.sealed = Content(annotated)] ELSE annotated

StoreNotes ==
  /\ job.kind = "context" /\ job.at = "model"
  /\ LET j == job IN
     /\ draft[j.draft] = j.before
     /\ j.copy.state = "checked" => Sealed(j.copy)
     /\ draft' = [draft EXCEPT ![j.draft] = Annotated(j.copy)]
     /\ revived' = IF draft[j.draft].status # "pending" THEN revived \cup {j.draft} ELSE revived
  /\ job' = Idle
  /\ UNCHANGED <<text, source, fresh>>

-------------------------------------------------------------------------------
\* A check refuses, a model fails, nothing is saved
Fail ==
  /\ job # Idle
  /\ job' = Idle
  /\ UNCHANGED <<draft, text, source, fresh, revived>>

Work ==
  \/ StartGenerate(TRUE) \/ StartGenerate(FALSE)
  \/ SaveUnbound \/ SaveBound("unchecked") \/ SaveBound("checked")
  \/ \E n \in Chapter : RewriteChapter(n) \/ StartChapterRepair(n)
  \/ \E c \in Drafts : PolishDraft(c) \/ StartRepair(c)
                        \/ RecheckForContext(c) \/ ReadForContext(c)
  \/ SaveRepair
  \/ StartRecheck \/ RefuseRecheck \/ StoreReview
  \/ StartRevision \/ KeepBody \/ SaveRevision
  \/ HashFile \/ StoreNotes
  \/ Fail

Next == Author \/ Work
Spec == Init /\ [][Next]_vars

-------------------------------------------------------------------------------
TypeOK ==
  /\ draft \in Seq(Draft) /\ Len(draft) <= MaxDrafts
  /\ text \in [Chapter -> 0..Earlier]
  /\ source \in Nat
  /\ \A c \in Drafts : draft[c].parent < c /\ (draft[c].state = "checked" <=> draft[c].sealed # <<>>)
  /\ \A c \in fresh : c \in Drafts /\ draft[c].review # None
  /\ revived \subseteq Drafts

(***************************************************************************)
(* "no old review/delta can approve the edited body" (candidate_editing.py *)
(* line 3): a draft that needs a review is confirmed only if that review   *)
(* read this very draft, against the sources as they still are and against *)
(* the text of the book that it replaces, whatever the author did in the    *)
(* meantime.                                                               *)
(***************************************************************************)
Confirmed(c) == c \in Drafts /\ draft[c].status = "confirmed"
ReviewedAsConfirmed ==
  [][\A c \in Drafts :
       draft[c].state # "none" /\ ~Confirmed(c) /\ Confirmed(c)'
         => c \in fresh]_vars

(***************************************************************************)
(* Revisions of a draft form a line: "Return a new pending candidate;      *)
(* retain the old draft as superseded" (candidate_editing.py line 96).  An *)
(* edit by hand and one by a model that start from the same draft do not   *)
(* both come through, and none is built on a draft already decided.        *)
(* Excepted are drafts a contextual review made pending again.             *)
(***************************************************************************)
IsRevision(c) == draft[c].parent # None /\ ~draft[c].repair
EditsInLine ==
  \A c \in Drafts : IsRevision(c) /\ draft[c].parent \notin revived =>
    /\ draft[draft[c].parent].status = "superseded"
    /\ \A d \in Drafts : IsRevision(d) /\ draft[d].parent = draft[c].parent => d = c

(***************************************************************************)
(* A draft that was confirmed, discarded or superseded while a job was     *)
(* reading it is not changed back by the job's answer; only a contextual   *)
(* review does that (contextual_prose_review.py:202-249).                  *)
(***************************************************************************)
Decided(c) == draft[c].status # "pending"
OnlyNotesRevive ==
  [][\A c \in Drafts : Decided(c) => draft'[c].status = draft[c].status \/ c \in revived']_vars

===============================================================================
