-------------------------- MODULE ChapterFilesProofs --------------------------
(***************************************************************************)
(* Proofs about the way of a chapter to the disk (file_project_store.py,   *)
(* project_transaction.py, snapshot_store.py, build_graph/store.py), for   *)
(* every number of chapters, operations, failed rollbacks and stops.       *)
(*                                                                         *)
(* All rests on what an operation has done so far: the files of its plan   *)
(* that it has come to hold its version, every other file what was read    *)
(* when the lock was taken, and no file had that version before (TxOK).    *)
(* The candidate comes last in the plan, so one that is marked has all     *)
(* files behind it, and one whose operation breaks off is not marked.      *)
(***************************************************************************)
EXTENDS ChapterFiles, TLAPS, SequenceTheorems, FiniteSetTheorems

-------------------------------------------------------------------------------
(* The inductive invariant *)

\* What a file may hold, and the steps of a plan, without the bound of an instance
Bytes == [ver: Nat, whole: BOOLEAN]
Steps == [file: File, atomic: BOOLEAN]
Disk == [File -> Bytes]
Tx == [kind: Kind, plan: Seq(Steps), at: Nat, phase: {"writing", "restoring"}, held: Disk]

\* The files that say whether a candidate is confirmed
Marks == {"candidate", "revision", "repair"}
Mark == Marks \X Chapter

Types ==
  /\ opening \in BOOLEAN /\ hurt \in BOOLEAN /\ last \in Nat
  /\ disk \in Disk /\ \A f \in File : disk[f].ver <= last
  /\ tx \in {NoTx} \cup Tx

\* The plan of the operation, and what was read before it
Planned ==
  /\ \E top \in 0..MaxChapter, n \in Chapter : tx.plan = Plan(opening, top, tx.kind, n)
  /\ \A f \in File : tx.held[f].ver < last

\* The files the plan names before step k
WrittenBefore(k) == {tx.plan[i].file : i \in 1..k - 1}

WritingOK ==
  /\ tx.at \in 1..Len(tx.plan) + 1
  /\ \A f \in File :
       disk[f] = IF f \in WrittenBefore(tx.at) THEN Whole(last) ELSE tx.held[f]

RestoringOK ==
  /\ tx.at \in {1, 2}
  /\ Managed(tx.kind, tx.plan) # {}
  /\ \A f \in File \ Written(tx.plan) : disk[f] = tx.held[f]
  /\ \A f \in Mark : disk[f] = tx.held[f]
  /\ tx.at = 2 => \A f \in Created : disk[f] = Absent

TxOK ==
  tx # NoTx =>
    /\ Planned
    /\ tx.phase = "writing" => WritingOK
    /\ tx.phase = "restoring" => RestoringOK

CFInv == Types /\ TxOK /\ ConfirmedMeansWritten

-------------------------------------------------------------------------------
(* Files and plans *)

\* The files of a project, and which of them are markers
LEMMA Files ==
  /\ \A name \in Shared : <<name, 0>> \in File /\ <<name, 0>> \notin Mark
  /\ \A name \in PerChapter, n \in Chapter :
       <<name, n>> \in File /\ (<<name, n>> \in Mark <=> name \in Marks)
  /\ Mark \subseteq File
<1>1. 0 \notin Chapter
  BY DEF Chapter
<1>2. Marks \subseteq PerChapter
  BY DEF Marks, PerChapter
<1> QED
  BY <1>1, <1>2 DEF File, Mark

\* Which files an operation puts back if it raises
LEMMA ManagedFiles ==
  /\ \A name \in {"state", "project", "opening", "commit", "canon", "stale"} :
       <<name, 0>> \in ManagedByConfirmation
  /\ \A name \in PerChapter, n \in Chapter : <<name, n>> \in ManagedByConfirmation
  /\ Mark \subseteq ManagedByConfirmation /\ ManagedByConfirmation # {}
<1>1. Marks \subseteq PerChapter
  BY DEF Marks, PerChapter
<1> QED
  BY <1>1 DEF ManagedByConfirmation, Mark

\* A part of a plan that writes no marker, and a plan that writes one last
Unmarked(s) == \A i \in 1..Len(s) : s[i].file \notin Mark
MarkedLast(s) == \A i \in 1..Len(s) : s[i].file \in Mark => i = Len(s) /\ s[i].atomic

\* One part of a plan after the other
LEMMA Together ==
  ASSUME NEW s \in Seq(Steps), NEW t \in Seq(Steps)
  PROVE  /\ s \o t \in Seq(Steps)
         /\ Len(s \o t) = Len(s) + Len(t)
         /\ Len(t) > 0 => (s \o t)[Len(s \o t)] = t[Len(t)]
         /\ Written(s \o t) = Written(s) \cup Written(t)
         /\ Unmarked(s) /\ Unmarked(t) => Unmarked(s \o t)
         /\ Unmarked(s) /\ MarkedLast(t) => MarkedLast(s \o t)
<1>1. /\ s \o t \in Seq(Steps) /\ Len(s \o t) = Len(s) + Len(t)
      /\ \A i \in 1..Len(s) + Len(t) :
           (s \o t)[i] = IF i <= Len(s) THEN s[i] ELSE t[i - Len(s)]
  BY ConcatProperties
<1>2. Len(s) \in Nat /\ Len(t) \in Nat
  BY LenProperties
<1> PICK u \in Seq(Steps) : u = s \o t
  BY <1>1
<1>3. /\ \A i \in 1..Len(s) : i \in 1..Len(u) /\ u[i] = s[i]
      /\ \A i \in 1..Len(t) : Len(s) + i \in 1..Len(u) /\ u[Len(s) + i] = t[i]
  BY <1>1, <1>2
<1>4. \A i \in 1..Len(u) : \/ i \in 1..Len(s) /\ u[i] = s[i]
                           \/ /\ i - Len(s) \in 1..Len(t) /\ u[i] = t[i - Len(s)]
                              /\ i = Len(u) <=> i - Len(s) = Len(t)
  BY <1>1, <1>2
<1>5. Len(t) > 0 => u[Len(u)] = t[Len(t)]
  BY <1>1, <1>2, <1>3
<1>6. Written(u) = Written(s) \cup Written(t)
  BY <1>3, <1>4 DEF Written
<1>7. Unmarked(s) /\ Unmarked(t) => Unmarked(u)
  BY <1>4 DEF Unmarked
<1>8. Unmarked(s) /\ MarkedLast(t) => MarkedLast(u)
  BY <1>4 DEF Unmarked, MarkedLast
<1> QED
  BY <1>1, <1>5, <1>6, <1>7, <1>8

\* A single step
LEMMA Single ==
  ASSUME NEW s \in Steps
  PROVE  /\ <<s>> \in Seq(Steps) /\ Len(<<s>>) = 1 /\ <<s>>[1] = s
         /\ Written(<<s>>) = {s.file}
         /\ s.file \notin Mark => Unmarked(<<s>>)
         /\ s.atomic => MarkedLast(<<s>>)
  BY DEF Written, Unmarked, MarkedLast

\* Two steps
LEMMA Pair ==
  ASSUME NEW s \in Steps, NEW t \in Steps
  PROVE  /\ <<s, t>> \in Seq(Steps) /\ Len(<<s, t>>) = 2
         /\ Written(<<s, t>>) = {s.file, t.file}
         /\ s.file \notin Mark /\ t.file \notin Mark => Unmarked(<<s, t>>)
  BY DEF Written, Unmarked

\* The steps that write in place, and those that replace
LEMMA StepIs ==
  /\ \A name \in Shared : /\ InPlace(name, 0) \in Steps /\ InPlace(name, 0).file = <<name, 0>>
                          /\ Replaced(name, 0) \in Steps /\ Replaced(name, 0).file = <<name, 0>>
  /\ \A name \in PerChapter, n \in Chapter :
       /\ InPlace(name, n) \in Steps /\ InPlace(name, n).file = <<name, n>>
       /\ Replaced(name, n) \in Steps /\ Replaced(name, n).file = <<name, n>>
       /\ Replaced(name, n).atomic
  BY Files DEF InPlace, Replaced, Steps

-------------------------------------------------------------------------------
(* The parts of the plans *)

\* What a confirmation can put back
Recoverable(s) == s \in Seq(Steps) /\ Written(s) \subseteq ManagedByConfirmation

\* Two parts that can be put back, one after the other
LEMMA RecoverableTogether ==
  ASSUME NEW s, NEW t, Recoverable(s), Recoverable(t)
  PROVE  Recoverable(s \o t)
  BY Together DEF Recoverable

\* persist_bundle for a new chapter
LEMMA NewChapterIs ==
  ASSUME NEW n \in Chapter
  PROVE  Recoverable(NewChapter(n)) /\ Unmarked(NewChapter(n))
<1>1. /\ InPlace("state", 0) \in Steps /\ InPlace("project", 0) \in Steps
      /\ InPlace("body", n) \in Steps /\ InPlace("chapter", n) \in Steps
      /\ InPlace("review", n) \in Steps /\ InPlace("commit", 0) \in Steps
  BY StepIs DEF Shared, PerChapter
<1>2. /\ InPlace("state", 0).file = <<"state", 0>> /\ InPlace("project", 0).file = <<"project", 0>>
      /\ InPlace("body", n).file = <<"body", n>> /\ InPlace("chapter", n).file = <<"chapter", n>>
      /\ InPlace("review", n).file = <<"review", n>> /\ InPlace("commit", 0).file = <<"commit", 0>>
  BY DEF InPlace
<1>3. /\ <<"state", 0>> \notin Mark /\ <<"project", 0>> \notin Mark /\ <<"commit", 0>> \notin Mark
      /\ <<"body", n>> \notin Mark /\ <<"chapter", n>> \notin Mark /\ <<"review", n>> \notin Mark
  BY Files DEF Shared, PerChapter, Marks
<1>4. /\ <<"state", 0>> \in ManagedByConfirmation /\ <<"project", 0>> \in ManagedByConfirmation
      /\ <<"commit", 0>> \in ManagedByConfirmation /\ <<"body", n>> \in ManagedByConfirmation
      /\ <<"chapter", n>> \in ManagedByConfirmation /\ <<"review", n>> \in ManagedByConfirmation
  BY ManagedFiles DEF PerChapter
<1> QED
  BY <1>1, <1>2, <1>3, <1>4 DEF NewChapter, Recoverable, Unmarked, Written

\* The canon and the snapshot
LEMMA AftermathIs ==
  ASSUME NEW n \in Chapter
  PROVE  Recoverable(Aftermath(n)) /\ Unmarked(Aftermath(n))
<1>1. /\ Replaced("canon", 0) \in Steps /\ InPlace("snapshot", n) \in Steps
      /\ Replaced("canon", 0).file = <<"canon", 0>>
      /\ InPlace("snapshot", n).file = <<"snapshot", n>>
  BY StepIs DEF Shared, PerChapter
<1>2. <<"canon", 0>> \notin Mark /\ <<"snapshot", n>> \notin Mark
  BY Files DEF Shared, PerChapter, Marks
<1>3. <<"canon", 0>> \in ManagedByConfirmation /\ <<"snapshot", n>> \in ManagedByConfirmation
  BY ManagedFiles DEF PerChapter
<1> QED
  BY <1>1, <1>2, <1>3, Pair DEF Aftermath, Recoverable

\* record_confirmation, if the project uses the opening graph
LEMMA ReceiptIs ==
  ASSUME NEW n \in Chapter
  PROVE  Recoverable(Receipt(opening, n)) /\ Unmarked(Receipt(opening, n))
<1>1. /\ Replaced("opening", 0) \in Steps /\ Replaced("receipt", n) \in Steps
      /\ Replaced("opening", 0).file = <<"opening", 0>>
      /\ Replaced("receipt", n).file = <<"receipt", n>>
  BY StepIs DEF Shared, PerChapter
<1>2. <<"opening", 0>> \notin Mark /\ <<"receipt", n>> \notin Mark
  BY Files DEF Shared, PerChapter, Marks
<1>3. <<"opening", 0>> \in ManagedByConfirmation /\ <<"receipt", n>> \in ManagedByConfirmation
  BY ManagedFiles DEF PerChapter
<1>4. Recoverable(<<Replaced("opening", 0), Replaced("receipt", n)>>)
      /\ Unmarked(<<Replaced("opening", 0), Replaced("receipt", n)>>)
  BY <1>1, <1>2, <1>3, Pair DEF Recoverable
<1>5. Recoverable(<<>>) /\ Unmarked(<<>>)
  BY DEF Recoverable, Unmarked, Written
<1> QED
  BY <1>4, <1>5 DEF Receipt

\* The last step of a confirmation
LEMMA MarkerIs ==
  ASSUME NEW name \in Marks, NEW n \in Chapter
  PROVE  /\ Recoverable(<<Replaced(name, n)>>) /\ MarkedLast(<<Replaced(name, n)>>)
         /\ Len(<<Replaced(name, n)>>) = 1
         /\ <<Replaced(name, n)>>[1].file = <<name, n>>
         /\ Written(<<Replaced(name, n)>>) = {<<name, n>>}
<1>1. name \in PerChapter
  BY DEF Marks, PerChapter
<1>2. /\ Replaced(name, n) \in Steps /\ Replaced(name, n).file = <<name, n>>
      /\ Replaced(name, n).atomic
  BY <1>1, StepIs
<1> QED
  BY <1>1, <1>2, Single, ManagedFiles DEF Recoverable

\* The last steps of a rewrite: the stale list, then the marker
LEMMA StaleIs ==
  ASSUME NEW n \in Chapter
  PROVE  LET s == <<InPlace("stale", 0), Replaced("revision", n)>> IN
         /\ Recoverable(s) /\ MarkedLast(s) /\ Len(s) = 2
         /\ s[2].file = <<"revision", n>>
<1>1. /\ InPlace("stale", 0) \in Steps /\ InPlace("stale", 0).file = <<"stale", 0>>
      /\ Replaced("revision", n) \in Steps /\ Replaced("revision", n).file = <<"revision", n>>
      /\ Replaced("revision", n).atomic
  BY StepIs DEF Shared, PerChapter
<1>2. <<"stale", 0>> \notin Mark
  BY Files DEF Shared
<1>3. <<"stale", 0>> \in ManagedByConfirmation /\ <<"revision", n>> \in ManagedByConfirmation
  BY ManagedFiles DEF PerChapter
<1> QED
  BY <1>1, <1>2, <1>3, Pair DEF Recoverable, MarkedLast

\* _persist_historical_transaction of chapter n in a book of top chapters
LEMMA RewrittenIs ==
  ASSUME NEW n \in Chapter, NEW top \in 0..MaxChapter
  PROVE  /\ Recoverable(RewrittenChapter(n, top)) /\ Unmarked(RewrittenChapter(n, top))
         /\ Len(RewrittenChapter(n, top)) > 0
         /\ Written(RewrittenChapter(n, n)) \subseteq Written(RewrittenChapter(n, top))
<1> DEFINE head == <<Replaced("state", 0), Replaced("project", 0)>>
           rebased(m) == [i \in 1..m - n |-> Replaced("chapter", n + i)]
           own == <<Replaced("chapter", n), Replaced("review", n),
                    InPlace("body", n), InPlace("commit", 0)>>
<1>1. head \in Seq(Steps) /\ Recoverable(head) /\ Unmarked(head) /\ Len(head) = 2
  <2>1. /\ Replaced("state", 0) \in Steps /\ Replaced("project", 0) \in Steps
        /\ Replaced("state", 0).file = <<"state", 0>>
        /\ Replaced("project", 0).file = <<"project", 0>>
    BY StepIs DEF Shared
  <2>2. <<"state", 0>> \notin Mark /\ <<"project", 0>> \notin Mark
    BY Files DEF Shared
  <2>3. <<"state", 0>> \in ManagedByConfirmation /\ <<"project", 0>> \in ManagedByConfirmation
    BY ManagedFiles
  <2> QED
    BY <2>1, <2>2, <2>3, Pair DEF Recoverable
<1>2. own \in Seq(Steps) /\ Recoverable(own) /\ Unmarked(own)
  <2>1. /\ Replaced("chapter", n) \in Steps /\ Replaced("review", n) \in Steps
        /\ InPlace("body", n) \in Steps /\ InPlace("commit", 0) \in Steps
    BY StepIs DEF Shared, PerChapter
  <2>2. /\ Replaced("chapter", n).file = <<"chapter", n>>
        /\ Replaced("review", n).file = <<"review", n>>
        /\ InPlace("body", n).file = <<"body", n>> /\ InPlace("commit", 0).file = <<"commit", 0>>
    BY DEF Replaced, InPlace
  <2>3. /\ <<"chapter", n>> \notin Mark /\ <<"review", n>> \notin Mark
        /\ <<"body", n>> \notin Mark /\ <<"commit", 0>> \notin Mark
    BY Files DEF Shared, PerChapter, Marks
  <2>4. /\ <<"chapter", n>> \in ManagedByConfirmation /\ <<"review", n>> \in ManagedByConfirmation
        /\ <<"body", n>> \in ManagedByConfirmation /\ <<"commit", 0>> \in ManagedByConfirmation
    BY ManagedFiles DEF PerChapter
  <2> QED
    BY <2>1, <2>2, <2>3, <2>4 DEF Recoverable, Unmarked, Written
<1>3. ASSUME NEW m \in 0..MaxChapter
      PROVE  rebased(m) \in Seq(Steps) /\ Recoverable(rebased(m)) /\ Unmarked(rebased(m))
  <2>1. n \in Nat /\ m \in Nat /\ MaxChapter \in Nat /\ n >= 1
    BY FilesAssumption DEF Chapter
  <2> PICK k \in Nat : 1..m - n = 1..k /\ k <= MaxChapter /\ (k = 0 \/ n + k <= MaxChapter)
    <3>1. CASE m <= n
      BY <2>1, <3>1
    <3>2. CASE m > n
      BY <2>1, <3>2
    <3> QED
      BY <2>1, <3>1, <3>2
  <2>2. \A i \in 1..k : n + i \in Chapter
    BY <2>1 DEF Chapter
  <2>3. \A i \in 1..k : /\ Replaced("chapter", n + i) \in Steps
                        /\ Replaced("chapter", n + i).file = <<"chapter", n + i>>
                        /\ <<"chapter", n + i>> \notin Mark
                        /\ <<"chapter", n + i>> \in ManagedByConfirmation
    BY <2>2, StepIs, Files, ManagedFiles DEF PerChapter, Marks
  <2>4. /\ rebased(m) \in [1..k -> Steps]
        /\ \A i \in 1..k : rebased(m)[i].file \notin Mark
        /\ \A i \in 1..k : rebased(m)[i].file \in ManagedByConfirmation
    BY <2>3
  <2> HIDE DEF rebased
  <2>5. rebased(m) \in Seq(Steps) /\ Len(rebased(m)) = k
    BY <2>4, SeqDef, LenProperties
  <2> QED
    BY <2>4, <2>5 DEF Recoverable, Unmarked, Written
<1>4. \A m \in 0..MaxChapter : RewrittenChapter(n, m) = (head \o rebased(m)) \o own
  BY DEF RewrittenChapter
<1>5. n \in 0..MaxChapter
  BY DEF Chapter
<1>6. rebased(n) = <<>>
  BY <1>5
<1> HIDE DEF head, rebased, own
<1>7. ASSUME NEW m \in 0..MaxChapter
      PROVE  /\ Recoverable(RewrittenChapter(n, m)) /\ Unmarked(RewrittenChapter(n, m))
             /\ Len(RewrittenChapter(n, m)) > 0
             /\ Written(RewrittenChapter(n, m))
                  = (Written(head) \cup Written(rebased(m))) \cup Written(own)
  <2> PICK middle \in Seq(Steps) : middle = rebased(m)
    BY <1>3
  <2> PICK front \in Seq(Steps) : front = head \o middle
    BY <1>1, Together
  <2>1. Recoverable(front) /\ Unmarked(front) /\ Len(front) > 0
        /\ Written(front) = Written(head) \cup Written(middle)
    <3>1. Len(middle) \in Nat /\ Len(front) = 2 + Len(middle)
      <4>1. Len(middle) \in Nat
        BY LenProperties
      <4>2. Len(front) = Len(head) + Len(middle)
        BY <1>1, Together
      <4> QED
        BY <1>1, <4>1, <4>2
    <3>2. Recoverable(front)
      BY <1>1, <1>3, RecoverableTogether
    <3>3. Unmarked(front) /\ Written(front) = Written(head) \cup Written(middle)
      BY <1>1, <1>3, Together
    <3> QED
      BY <3>1, <3>2, <3>3
  <2>2. Recoverable(front \o own) /\ Unmarked(front \o own) /\ Len(front \o own) > 0
        /\ Written(front \o own) = Written(front) \cup Written(own)
    <3>1. Len(front) \in Nat /\ Len(own) \in Nat /\ Len(front \o own) = Len(front) + Len(own)
      BY <1>2, LenProperties, Together
    <3>2. Recoverable(front \o own)
      BY <1>2, <2>1, RecoverableTogether
    <3>3. Unmarked(front \o own) /\ Written(front \o own) = Written(front) \cup Written(own)
      BY <1>2, <2>1, Together
    <3> QED
      BY <2>1, <3>1, <3>2, <3>3
  <2> QED
    BY <1>4, <2>1, <2>2
<1>8. Written(RewrittenChapter(n, n)) \subseteq Written(RewrittenChapter(n, top))
  <2>1. Written(rebased(n)) = {}
    BY <1>6 DEF Written
  <2> QED
    BY <1>5, <1>7, <2>1
<1> QED
  BY <1>7, <1>8

-------------------------------------------------------------------------------
(* The plans *)

\* What is used of the plan of an operation: it writes a marker in the last step only,
\* that of the candidate it confirms, and what it writes can be put back.
PlanOK(plan, kind, n) ==
  /\ plan \in Seq(Steps) /\ MarkedLast(plan)
  /\ \A i \in 1..Len(plan) :
       plan[i].file \in Mark => kind \in Confirmation /\ plan[i].file = <<Marker(kind), n>>
  /\ kind # "generate" => Written(plan) \subseteq Managed(kind, plan)

\* A plan whose only marker is its last step
LEMMA LastIsMarker ==
  ASSUME NEW kind \in Confirmation, NEW n \in Chapter, NEW plan, Recoverable(plan),
         MarkedLast(plan), plan[Len(plan)].file = <<Marker(kind), n>>
  PROVE  PlanOK(plan, kind, n)
<1>1. Managed(kind, plan) = ManagedByConfirmation
  BY DEF Managed, Confirmation
<1>2. \A i \in 1..Len(plan) : plan[i].file \in Mark => plan[i].file = <<Marker(kind), n>>
  BY DEF MarkedLast
<1> QED
  BY <1>1, <1>2 DEF PlanOK, Recoverable

\* A plan without a marker
LEMMA NoMarker ==
  ASSUME NEW kind \in Kind \ Confirmation, NEW n \in Chapter, NEW plan \in Seq(Steps),
         Unmarked(plan)
  PROVE  PlanOK(plan, kind, n)
<1>1. kind # "generate" => Managed(kind, plan) = Written(plan)
  BY DEF Managed
<1> QED
  BY <1>1 DEF PlanOK, Unmarked, MarkedLast

\* The draft of a new chapter
LEMMA ConfirmPlan ==
  ASSUME NEW n \in Chapter
  PROVE  PlanOK(((NewChapter(n) \o Aftermath(n)) \o Receipt(opening, n))
                  \o <<Replaced("candidate", n)>>, "confirm", n)
<1> PICK a : a = NewChapter(n) /\ Recoverable(a) /\ Unmarked(a)
  BY NewChapterIs
<1> PICK b : b = Aftermath(n) /\ Recoverable(b) /\ Unmarked(b)
  BY AftermathIs
<1> PICK c : c = Receipt(opening, n) /\ Recoverable(c) /\ Unmarked(c)
  BY ReceiptIs
<1> PICK name \in Marks : name = "candidate"
  BY DEF Marks
<1> PICK d : /\ d = <<Replaced(name, n)>> /\ Recoverable(d) /\ MarkedLast(d) /\ Len(d) = 1
             /\ d[1].file = <<name, n>>
  BY MarkerIs
<1>1. Recoverable(a \o b) /\ Unmarked(a \o b)
  BY RecoverableTogether, Together DEF Recoverable
<1> PICK ab : ab = a \o b
  OBVIOUS
<1>2. Recoverable(ab \o c) /\ Unmarked(ab \o c)
  BY <1>1, RecoverableTogether, Together DEF Recoverable
<1> PICK abc : abc = ab \o c
  OBVIOUS
<1>3. Recoverable(abc \o d) /\ MarkedLast(abc \o d)
  BY <1>2, RecoverableTogether, Together DEF Recoverable
<1>4. (abc \o d)[Len(abc \o d)].file = <<name, n>>
  BY <1>2, Together DEF Recoverable
<1> PICK plan : plan = abc \o d
  OBVIOUS
<1> PICK kind \in Confirmation : kind = "confirm" /\ Marker(kind) = name
  BY DEF Confirmation, Marker
<1>5. PlanOK(plan, kind, n)
  BY <1>3, <1>4, LastIsMarker
<1> QED
  BY <1>5

\* The rewrite of a chapter
LEMMA RewritePlan ==
  ASSUME NEW n \in Chapter, NEW top \in 0..MaxChapter
  PROVE  /\ PlanOK((RewrittenChapter(n, top) \o Aftermath(n))
                     \o <<InPlace("stale", 0), Replaced("revision", n)>>, "confirm_rewrite", n)
         /\ Written((RewrittenChapter(n, n) \o Aftermath(n))
                      \o <<InPlace("stale", 0), Replaced("revision", n)>>)
              \subseteq Written((RewrittenChapter(n, top) \o Aftermath(n))
                      \o <<InPlace("stale", 0), Replaced("revision", n)>>)
<1> PICK s \in 0..MaxChapter : s = n
  BY DEF Chapter
<1> PICK o : o = RewrittenChapter(n, s) /\ Recoverable(o) /\ Unmarked(o)
  BY RewrittenIs
<1> PICK a : a = RewrittenChapter(n, top) /\ Recoverable(a) /\ Unmarked(a)
  BY RewrittenIs
<1>1. Written(o) \subseteq Written(a)
  BY RewrittenIs
<1> PICK b : b = Aftermath(n) /\ Recoverable(b) /\ Unmarked(b)
  BY AftermathIs
<1> DEFINE end == <<InPlace("stale", 0), Replaced("revision", n)>>
<1>2. Recoverable(end) /\ MarkedLast(end) /\ Len(end) = 2 /\ end[2].file = <<"revision", n>>
  BY StaleIs
<1> HIDE DEF end
<1> PICK c : c = end
  OBVIOUS
<1>3. /\ Recoverable(a \o b) /\ Unmarked(a \o b) /\ Written(a \o b) = Written(a) \cup Written(b)
      /\ Recoverable(o \o b) /\ Written(o \o b) = Written(o) \cup Written(b)
  <2>1. a \in Seq(Steps) /\ b \in Seq(Steps) /\ o \in Seq(Steps)
    BY DEF Recoverable
  <2>2. Unmarked(a \o b) /\ Written(a \o b) = Written(a) \cup Written(b)
    BY <2>1, Together
  <2>3. Written(o \o b) = Written(o) \cup Written(b)
    BY <2>1, Together
  <2> QED
    BY <2>2, <2>3, RecoverableTogether
<1> PICK ab : ab = a \o b
  OBVIOUS
<1> PICK ob : ob = o \o b
  OBVIOUS
<1>4. /\ Recoverable(ab \o c) /\ MarkedLast(ab \o c)
      /\ Written(ab \o c) = Written(ab) \cup Written(c)
      /\ Written(ob \o c) = Written(ob) \cup Written(c)
  <2>1. ab \in Seq(Steps) /\ ob \in Seq(Steps) /\ c \in Seq(Steps)
    BY <1>2, <1>3 DEF Recoverable
  <2>2. MarkedLast(ab \o c) /\ Written(ab \o c) = Written(ab) \cup Written(c)
    BY <1>2, <1>3, <2>1, Together
  <2>3. Written(ob \o c) = Written(ob) \cup Written(c)
    BY <2>1, Together
  <2>4. Recoverable(ab \o c)
    BY <1>2, <1>3, RecoverableTogether
  <2> QED
    BY <2>2, <2>3, <2>4
<1>5. (ab \o c)[Len(ab \o c)].file = <<"revision", n>>
  <2>1. ab \in Seq(Steps) /\ c \in Seq(Steps) /\ Len(c) = 2 /\ c[2].file = <<"revision", n>>
    BY <1>2, <1>3 DEF Recoverable
  <2>2. Len(c) > 0
    BY <2>1
  <2>3. (ab \o c)[Len(ab \o c)] = c[Len(c)]
    BY <2>1, <2>2, Together, Zenon
  <2> QED
    BY <2>1, <2>3
<1> PICK plan : plan = ab \o c
  OBVIOUS
<1> PICK kind \in Confirmation : kind = "confirm_rewrite" /\ Marker(kind) = "revision"
  BY DEF Confirmation, Marker
<1>6. PlanOK(plan, kind, n)
  BY <1>4, <1>5, LastIsMarker
<1>7. Written(ob \o c) \subseteq Written(plan)
  BY <1>1, <1>3, <1>4
<1> QED
  BY <1>6, <1>7 DEF end

\* A repair of the expression
LEMMA RepairPlan ==
  ASSUME NEW n \in Chapter
  PROVE  PlanOK(<<InPlace("body", n), Replaced("chapter", n), Replaced("review", n),
                  InPlace("commit", 0), Replaced("repair", n)>>, "confirm_repair", n)
<1> DEFINE s == <<InPlace("body", n), Replaced("chapter", n), Replaced("review", n),
                  InPlace("commit", 0), Replaced("repair", n)>>
<1>1. /\ InPlace("body", n) \in Steps /\ Replaced("chapter", n) \in Steps
      /\ Replaced("review", n) \in Steps /\ InPlace("commit", 0) \in Steps
      /\ Replaced("repair", n) \in Steps /\ Replaced("repair", n).atomic
  BY StepIs DEF Shared, PerChapter
<1>2. /\ InPlace("body", n).file = <<"body", n>> /\ Replaced("chapter", n).file = <<"chapter", n>>
      /\ Replaced("review", n).file = <<"review", n>> /\ InPlace("commit", 0).file = <<"commit", 0>>
      /\ Replaced("repair", n).file = <<"repair", n>>
  BY DEF InPlace, Replaced
<1>3. /\ <<"body", n>> \notin Mark /\ <<"chapter", n>> \notin Mark /\ <<"review", n>> \notin Mark
      /\ <<"commit", 0>> \notin Mark
  BY Files DEF Shared, PerChapter, Marks
<1>4. /\ <<"body", n>> \in ManagedByConfirmation /\ <<"chapter", n>> \in ManagedByConfirmation
      /\ <<"review", n>> \in ManagedByConfirmation /\ <<"commit", 0>> \in ManagedByConfirmation
      /\ <<"repair", n>> \in ManagedByConfirmation
  BY ManagedFiles DEF PerChapter
<1>5. Recoverable(s) /\ MarkedLast(s) /\ s[Len(s)].file = <<"repair", n>>
  BY <1>1, <1>2, <1>3, <1>4 DEF Recoverable, MarkedLast, Written
<1> HIDE DEF s
<1> PICK plan : plan = s
  OBVIOUS
<1> PICK kind \in Confirmation : kind = "confirm_repair" /\ Marker(kind) = "repair"
  BY DEF Confirmation, Marker
<1>6. PlanOK(plan, kind, n)
  BY <1>5, LastIsMarker
<1> QED
  BY <1>6 DEF s

\* A save of the Build Graph
LEMMA GraphPlan ==
  LET s == <<Replaced("manifest", 0), Replaced("artifact", 0), Replaced("run", 0)>> IN
  s \in Seq(Steps) /\ Unmarked(s)
<1>1. /\ Replaced("manifest", 0) \in Steps /\ Replaced("artifact", 0) \in Steps
      /\ Replaced("run", 0) \in Steps
  BY StepIs DEF Shared
<1>2. /\ Replaced("manifest", 0).file = <<"manifest", 0>>
      /\ Replaced("artifact", 0).file = <<"artifact", 0>>
      /\ Replaced("run", 0).file = <<"run", 0>>
  BY DEF Replaced
<1>3. <<"manifest", 0>> \notin Mark /\ <<"artifact", 0>> \notin Mark /\ <<"run", 0>> \notin Mark
  BY Files DEF Shared
<1> QED
  BY <1>1, <1>2, <1>3 DEF Unmarked
\* The plan of every operation
LEMMA PlanIs ==
  ASSUME NEW kind \in Kind, NEW n \in Chapter, NEW top \in 0..MaxChapter
  PROVE  /\ PlanOK(Plan(opening, top, kind, n), kind, n)
         /\ Written(Plan(opening, n, kind, n)) \subseteq Written(Plan(opening, top, kind, n))
<1>1. CASE kind = "confirm"
  <2>1. \A m : Plan(opening, m, kind, n)
                 = ((NewChapter(n) \o Aftermath(n)) \o Receipt(opening, n))
                      \o <<Replaced("candidate", n)>>
    BY <1>1 DEF Plan
  <2> QED
    BY <1>1, <2>1, ConfirmPlan
<1>2. CASE kind = "confirm_rewrite"
  <2>1. \A m : Plan(opening, m, kind, n)
                 = (RewrittenChapter(n, m) \o Aftermath(n))
                      \o <<InPlace("stale", 0), Replaced("revision", n)>>
    BY <1>2 DEF Plan
  <2> QED
    BY <1>2, <2>1, RewritePlan
<1>3. CASE kind = "confirm_repair"
  <2>1. \A m : Plan(opening, m, kind, n)
                 = <<InPlace("body", n), Replaced("chapter", n), Replaced("review", n),
                     InPlace("commit", 0), Replaced("repair", n)>>
    BY <1>3 DEF Plan
  <2> QED
    BY <1>3, <2>1, RepairPlan
<1>4. CASE kind = "generate"
  <2>1. \A m : Plan(opening, m, kind, n) = NewChapter(n)
    BY <1>4 DEF Plan
  <2>2. kind \in Kind \ Confirmation
    BY <1>4 DEF Confirmation
  <2> QED
    BY <2>1, <2>2, NewChapterIs, NoMarker DEF Recoverable
<1>5. CASE kind = "rewrite"
  <2>1. \A m : Plan(opening, m, kind, n) = RewrittenChapter(n, m)
    BY <1>5 DEF Plan
  <2>2. kind \in Kind \ Confirmation
    BY <1>5 DEF Confirmation
  <2> QED
    BY <2>1, <2>2, RewrittenIs, NoMarker DEF Recoverable
<1>6. CASE kind = "graph"
  <2>1. \A m : Plan(opening, m, kind, n)
                 = <<Replaced("manifest", 0), Replaced("artifact", 0), Replaced("run", 0)>>
    BY <1>6 DEF Plan
  <2>2. kind \in Kind \ Confirmation
    BY <1>6 DEF Confirmation
  <2> QED
    BY <2>1, <2>2, GraphPlan, NoMarker
<1> QED
  BY <1>1, <1>2, <1>3, <1>4, <1>5, <1>6 DEF Kind

\* The chapters of a book are within the bound
LEMMA TopIs == Top \in 0..MaxChapter
<1> DEFINE there == {n \in Chapter : disk[<<"chapter", n>>] # Absent}
<1>1. IsFiniteSet(Chapter) /\ Cardinality(Chapter) = MaxChapter
  BY FilesAssumption, FS_Interval DEF Chapter
<1>2. there \subseteq Chapter
  OBVIOUS
<1>3. Cardinality(there) \in Nat /\ Cardinality(there) <= MaxChapter
  BY <1>1, <1>2, FS_Subset, FS_CardinalityType
<1> QED
  BY <1>3, FilesAssumption DEF Top
-------------------------------------------------------------------------------
(* An operation at work *)

\* No operation at work is taken for none, and its plan is one of those above
LEMMA AtWork ==
  ASSUME Types, TxOK, tx # NoTx
  PROVE  /\ tx \in Tx
         /\ \E n \in Chapter :
              /\ PlanOK(tx.plan, tx.kind, n)
              /\ Written(Plan(opening, n, tx.kind, n)) \subseteq Written(tx.plan)
         /\ \A f \in File : tx.held[f].ver < last
<1>1. tx \in Tx
  BY DEF Types
<1>2. tx.kind \in Kind
  BY <1>1 DEF Tx
<1>3. PICK top \in 0..MaxChapter, n \in Chapter : tx.plan = Plan(opening, top, tx.kind, n)
  BY DEF TxOK, Planned
<1>4. /\ PlanOK(tx.plan, tx.kind, n)
      /\ Written(Plan(opening, n, tx.kind, n)) \subseteq Written(tx.plan)
  BY <1>2, <1>3, PlanIs
<1> QED
  BY <1>1, <1>4 DEF TxOK, Planned

\* and the other way round
LEMMA TxIsNotNone == \A t \in Tx : t # NoTx
  BY DEF Tx, NoTx, Kind

\* The files of a plan, and those an operation puts back, are files of the project
LEMMA FilesOfPlan ==
  ASSUME NEW plan \in Seq(Steps), NEW kind \in Kind
  PROVE  Written(plan) \subseteq File /\ Managed(kind, plan) \subseteq File
<1>1. \A i \in 1..Len(plan) : plan[i].file \in File
  <2>1. \A i \in 1..Len(plan) : plan[i] \in Steps
    BY ElementOfSeq
  <2> QED
    BY <2>1 DEF Steps
<1>2. Written(plan) \subseteq File
  BY <1>1 DEF Written
<1>3. ManagedByConfirmation \subseteq File
  <2>1. \A name \in {"state", "project", "opening", "commit", "canon", "stale"} :
          <<name, 0>> \in File
    BY Files DEF Shared
  <2>2. PerChapter \X Chapter \subseteq File
    BY DEF File
  <2> QED
    BY <2>1, <2>2 DEF ManagedByConfirmation
<1>4. Managed(kind, plan) \in {ManagedByConfirmation, {}, Written(plan)}
  BY DEF Managed
<1> QED
  BY <1>2, <1>3, <1>4

\* The step an operation has before it: what it leaves when it breaks off.
\* A marker is replaced whole or not at all, and is still as it was read.
LEMMA StepBreaks ==
  ASSUME Types, TxOK, Unfinished
  PROVE  /\ tx.at \in Nat /\ tx.at >= 1 /\ tx.at <= Len(tx.plan)
         /\ Step \in Steps /\ Step.file \in Written(tx.plan)
         /\ \A content \in BrokenOff : content \in Bytes /\ content.ver <= last
         /\ \A f \in Mark : disk[f] = tx.held[f]
         /\ Step.file \in Mark => BrokenOff = {disk[Step.file]}
<1>1. tx \in Tx /\ tx.phase = "writing" /\ tx.at <= Len(tx.plan)
  BY AtWork DEF Unfinished, Writing
<1>2. PICK n \in Chapter : PlanOK(tx.plan, tx.kind, n)
  BY <1>1, AtWork, TxIsNotNone
<1>3. tx.plan \in Seq(Steps) /\ Len(tx.plan) \in Nat
  BY <1>2, LenProperties DEF PlanOK
<1>4. WritingOK
  BY <1>1, TxIsNotNone DEF TxOK
<1>5. tx.at \in 1..Len(tx.plan) /\ tx.at \in Nat /\ tx.at >= 1
  BY <1>1, <1>3, <1>4 DEF WritingOK
<1>6. Step \in Steps /\ Step.file \in Written(tx.plan) /\ Step.file \in File
  <2>1. Step \in Steps
    BY <1>3, <1>5, ElementOfSeq DEF Step
  <2> QED
    BY <1>5, <2>1 DEF Step, Steps, Written
<1>7. \A content \in BrokenOff : content \in Bytes /\ content.ver <= last
  <2>1. disk[Step.file] \in Bytes /\ disk[Step.file].ver <= last
    BY <1>6 DEF Types, Disk
  <2>2. Torn(last) \in Bytes /\ Torn(last).ver <= last /\ Absent \in Bytes /\ Absent.ver <= last
    BY DEF Torn, Absent, Bytes, Types
  <2>3. \A content \in BrokenOff : content \in {disk[Step.file], Torn(last), Absent}
    BY DEF BrokenOff
  <2> QED
    BY <2>1, <2>2, <2>3
<1>8. ASSUME NEW f \in Mark
      PROVE  disk[f] = tx.held[f]
  <2>1. \A i \in 1..tx.at - 1 : i \in 1..Len(tx.plan) /\ i # Len(tx.plan)
    BY <1>3, <1>5
  <2>2. f \notin WrittenBefore(tx.at)
    BY <1>2, <2>1 DEF WrittenBefore, PlanOK, MarkedLast
  <2>3. f \in File
    BY Files
  <2> QED
    BY <1>4, <2>2, <2>3 DEF WritingOK
<1>9. ASSUME Step.file \in Mark
      PROVE  BrokenOff = {disk[Step.file]}
  <2>1. Step.atomic
    BY <1>2, <1>5, <1>9 DEF PlanOK, MarkedLast, Step
  <2>2. Step.file[1] # "body"
    BY <1>9 DEF Mark, Marks
  <2> QED
    BY <2>1, <2>2 DEF BrokenOff
<1> QED
  BY <1>1, <1>5, <1>6, <1>7, <1>8, <1>9

\* An operation that is being rolled back has left the markers as they were
LEMMA HalfIs ==
  ASSUME Types, TxOK, Restoring, NEW d \in HalfRestored
  PROVE  /\ d \in Disk /\ \A f \in File : d[f].ver <= last
         /\ \A f \in Mark : d[f] = tx.held[f]
<1>1. tx \in Tx /\ RestoringOK /\ \A f \in File : tx.held[f].ver < last
  BY AtWork DEF Restoring, TxOK
<1>2. \A f \in File : /\ disk[f] \in Bytes /\ disk[f].ver <= last
                      /\ tx.held[f] \in Bytes /\ tx.held[f].ver <= last
                      /\ Torn(tx.held[f].ver) \in Bytes /\ Torn(tx.held[f].ver).ver <= last
  <2>1. \A f \in File : tx.held[f] \in Bytes /\ tx.held[f].ver \in Nat
    BY <1>1 DEF Tx, Disk, Bytes
  <2>2. \A f \in File : Torn(tx.held[f].ver) \in Bytes
    BY <2>1 DEF Torn, Bytes
  <2>3. \A f \in File : Torn(tx.held[f].ver).ver = tx.held[f].ver
    BY DEF Torn
  <2> QED
    BY <1>1, <2>1, <2>2, <2>3 DEF Types, Disk
<1>3. \A f \in Mark : f \in File /\ disk[f] = tx.held[f] /\ f \notin Differing
  BY <1>1, Files DEF RestoringOK, Differing
<1>4. CASE tx.at = 1
  BY <1>2, <1>3, <1>4 DEF HalfRestored, Types
<1>5. CASE tx.at # 1
  <2>1. PICK ready \in SUBSET Differing :
          \/ d = [f \in File |-> IF f \in ready THEN tx.held[f] ELSE disk[f]]
          \/ \E g \in Differing \ ready :
               d = [f \in File |-> IF f = g THEN Torn(tx.held[g].ver)
                                   ELSE IF f \in ready THEN tx.held[f] ELSE disk[f]]
    BY <1>5 DEF HalfRestored
  <2>2. CASE d = [f \in File |-> IF f \in ready THEN tx.held[f] ELSE disk[f]]
    <3>1. \A f \in File : d[f] \in Bytes /\ d[f].ver <= last
      BY <1>2, <2>2
    <3>2. \A f \in Mark : d[f] = tx.held[f]
      BY <1>3, <2>2
    <3>3. d \in Disk
      BY <2>2, <3>1 DEF Disk
    <3> QED
      BY <3>1, <3>2, <3>3
  <2>3. ASSUME NEW g \in Differing \ ready,
               d = [f \in File |-> IF f = g THEN Torn(tx.held[g].ver)
                                   ELSE IF f \in ready THEN tx.held[f] ELSE disk[f]]
        PROVE  /\ d \in Disk /\ \A f \in File : d[f].ver <= last
               /\ \A f \in Mark : d[f] = tx.held[f]
    <3>1. \A f \in File : d[f] \in Bytes /\ d[f].ver <= last
      BY <1>2, <2>3
    <3>2. \A f \in Mark : d[f] = tx.held[f]
      BY <1>3, <2>3
    <3>3. d \in Disk
      BY <2>3, <3>1 DEF Disk
    <3> QED
      BY <3>1, <3>2, <3>3
  <2> QED
    BY <2>1, <2>2, <2>3
<1> QED
  BY <1>4, <1>5

\* Where no marker has the version of the last operation, nothing is claimed
LEMMA NoneMarked ==
  ASSUME \A f \in Mark : disk'[f].ver # last'
  PROVE  ConfirmedMeansWritten'
<1>1. \A kind \in Confirmation, n \in Chapter : <<Marker(kind), n>> \in Mark
  BY DEF Confirmation, Marker, Mark, Marks
<1>2. \A kind \in Confirmation, n \in Chapter : disk'[<<Marker(kind), n>>] # Whole(last')
  BY <1>1 DEF Whole
<1> QED
  BY <1>2 DEF ConfirmedMeansWritten
-------------------------------------------------------------------------------
(* The steps *)

\* Nothing has been written yet
LEMMA InitOK == Init => CFInv
<1> SUFFICES ASSUME Init
             PROVE  CFInv
  OBVIOUS
<1>1. Types
  <2>1. Original \in Disk /\ \A f \in File : Original[f].ver <= 0
    BY DEF Original, Disk, Bytes, Whole, Absent
  <2> QED
    BY <2>1 DEF Init, Types
<1>2. TxOK
  BY DEF Init, TxOK
<1>3. ConfirmedMeansWritten
  BY DEF Init, ConfirmedMeansWritten
<1> QED
  BY <1>1, <1>2, <1>3 DEF CFInv

\* The new version is one that no file has
LEMMA BeginOK ==
  ASSUME CFInv, NEW kind \in Kind, NEW n \in Chapter, Begin(kind, n)
  PROVE  CFInv'
<1> USE DEF CFInv
<1>1. last' = last + 1 /\ last \in Nat /\ last' \in Nat /\ last < last'
  BY DEF Begin, Types
<1>2. /\ Top \in 0..MaxChapter
      /\ PlanOK(Plan(opening, Top, kind, n), kind, n)
  BY TopIs, PlanIs
<1> PICK plan \in Seq(Steps) : plan = Plan(opening, Top, kind, n)
  BY <1>2 DEF PlanOK
<1>3. /\ tx' = [kind |-> kind, plan |-> plan, at |-> 1, phase |-> "writing", held |-> disk]
      /\ disk' = disk /\ opening' = opening /\ hurt' = hurt
  BY DEF Begin
<1>4. /\ tx' \in Tx /\ tx'.kind = kind /\ tx'.plan = plan /\ tx'.at = 1
      /\ tx'.phase = "writing" /\ tx'.held = disk
  BY <1>3 DEF Tx, Types
<1>5. \A f \in File : disk[f] \in Bytes /\ disk[f].ver \in Nat /\ disk[f].ver < last'
  BY <1>1 DEF Types, Disk, Bytes
<1>6. Types'
  BY <1>1, <1>3, <1>4, <1>5 DEF Types
<1>7. TxOK'
  <2>1. tx'.plan = Plan(opening', Top, tx'.kind, n)
    BY <1>3, <1>4
  <2>2. Planned'
    BY <1>2, <1>4, <1>5, <2>1 DEF Planned
  <2>3. Len(plan) \in Nat
    BY LenProperties
  <2>4. \A f \in File : f \notin {tx'.plan[i].file : i \in 1..tx'.at - 1}
    BY <1>4
  <2>5. tx'.at \in 1..Len(tx'.plan) + 1
    BY <1>4, <2>3
  <2>6. WritingOK'
    BY <1>3, <1>4, <2>4, <2>5 DEF WritingOK, WrittenBefore
  <2> QED
    BY <1>4, <2>2, <2>6 DEF TxOK
<1>8. ConfirmedMeansWritten'
  <2>1. \A f \in Mark : disk'[f].ver # last'
    BY <1>3, <1>5, Files
  <2> QED
    BY <2>1, NoneMarked
<1> QED
  BY <1>6, <1>7, <1>8

\* One more file of the plan; when it is the marker, all the others are there
LEMMA WriteOK ==
  ASSUME CFInv, Write
  PROVE  CFInv'
<1> USE DEF CFInv
<1>1. tx \in Tx /\ tx # NoTx /\ tx.phase = "writing" /\ WritingOK /\ Planned
  BY AtWork DEF Write, Unfinished, Writing, TxOK
<1> PICK n \in Chapter : /\ PlanOK(tx.plan, tx.kind, n)
                         /\ Written(Plan(opening, n, tx.kind, n)) \subseteq Written(tx.plan)
  BY <1>1, AtWork
<1> PICK plan \in Seq(Steps) : plan = tx.plan
  BY DEF PlanOK
<1> PICK k \in Nat : k = tx.at
  BY <1>1 DEF Tx
<1>2. k \in 1..Len(plan) /\ Len(plan) \in Nat /\ Step = plan[k] /\ Step.file \in File
  <2>1. k >= 1 /\ k <= Len(plan) /\ Step \in Steps
    BY StepBreaks DEF Write
  <2> QED
    BY <2>1, LenProperties DEF Step, Steps
<1>3. /\ tx' = [tx EXCEPT !.at = k + 1]
      /\ disk' = [disk EXCEPT ![Step.file] = Whole(last)]
      /\ opening' = opening /\ hurt' = hurt /\ last' = last
  BY DEF Write
<1>4. /\ tx' \in Tx /\ tx'.kind = tx.kind /\ tx'.plan = plan /\ tx'.at = k + 1
      /\ tx'.phase = "writing" /\ tx'.held = tx.held
  BY <1>1, <1>3 DEF Tx
<1>5. Types'
  <2>1. Whole(last) \in Bytes /\ Whole(last).ver <= last
    BY DEF Types, Whole, Bytes
  <2>2. disk' \in Disk /\ \A f \in File : disk'[f].ver <= last
    BY <1>2, <1>3, <2>1 DEF Types, Disk
  <2> QED
    BY <1>3, <1>4, <2>2 DEF Types
<1> DEFINE before(j) == {plan[i].file : i \in 1..j - 1}
<1>6. \A f \in File : disk'[f] = IF f \in before(k + 1) THEN Whole(last) ELSE tx.held[f]
  <2>1. before(k + 1) = before(k) \cup {plan[k].file}
    <3>1. 1..(k + 1) - 1 = (1..k - 1) \cup {k}
      BY <1>2
    <3> QED
      BY <3>1
  <2>2. before(k) = WrittenBefore(tx.at)
    BY DEF WrittenBefore
  <2>3. \A f \in File : disk'[f] = IF f = plan[k].file THEN Whole(last) ELSE disk[f]
    BY <1>2, <1>3 DEF Types, Disk
  <2>4. \A f \in File : disk[f] = IF f \in before(k) THEN Whole(last) ELSE tx.held[f]
    BY <1>1, <2>2 DEF WritingOK
  <2> HIDE DEF before
  <2> QED
    BY <2>1, <2>3, <2>4
<1>7. TxOK'
  <2>1. Planned'
    <3>1. PICK top \in 0..MaxChapter, m \in Chapter : tx.plan = Plan(opening, top, tx.kind, m)
      BY <1>1 DEF Planned
    <3>2. tx'.plan = Plan(opening', top, tx'.kind, m)
      BY <1>3, <1>4, <3>1
    <3>3. \A f \in File : tx'.held[f].ver < last'
      BY <1>1, <1>3, <1>4 DEF Planned
    <3> QED
      BY <3>2, <3>3 DEF Planned
  <2>2. {tx'.plan[i].file : i \in 1..tx'.at - 1} = before(k + 1)
    BY <1>4
  <2>3. tx'.at \in 1..Len(tx'.plan) + 1
    BY <1>2, <1>4
  <2> HIDE DEF before
  <2>4. WritingOK'
    BY <1>3, <1>4, <1>6, <2>2, <2>3 DEF WritingOK, WrittenBefore
  <2> QED
    BY <1>4, <2>1, <2>4 DEF TxOK
<1>8. ConfirmedMeansWritten'
  <2> SUFFICES ASSUME NEW kind \in Confirmation, NEW m \in Chapter,
                      disk'[<<Marker(kind), m>>] = Whole(last)
               PROVE  \A f \in Written(Plan(opening, m, kind, m)) : disk'[f] = Whole(last)
    BY <1>3 DEF ConfirmedMeansWritten
  <2>1. <<Marker(kind), m>> \in Mark
    BY DEF Confirmation, Marker, Mark, Marks
  <2>2. <<Marker(kind), m>> \in File
    BY <2>1, Files
  <2>3. tx.held[<<Marker(kind), m>>] # Whole(last)
    <3>1. tx.held[<<Marker(kind), m>>].ver < last /\ last \in Nat
      BY <1>1, <2>2 DEF Planned, Types
    <3> QED
      BY <3>1 DEF Whole
  <2>4. PICK i \in 1..(k + 1) - 1 : plan[i].file = <<Marker(kind), m>>
    BY <1>6, <2>2, <2>3
  <2>5. i \in 1..Len(plan)
    BY <1>2, <2>4
  <2>6. tx.kind \in Confirmation /\ <<Marker(kind), m>> = <<Marker(tx.kind), n>> /\ i = Len(plan)
    BY <2>1, <2>4, <2>5 DEF PlanOK, MarkedLast
  <2>7. m = n /\ kind = tx.kind
    BY <2>6 DEF Confirmation, Marker
  <2>8. Written(plan) = before(k + 1)
    <3>1. 1..(k + 1) - 1 = 1..Len(plan)
      BY <1>2, <2>4, <2>6
    <3> QED
      BY <3>1 DEF Written
  <2>9. Written(plan) \subseteq File
    BY <1>1, FilesOfPlan DEF Tx
  <2> HIDE DEF before
  <2>10. \A f \in Written(plan) : disk'[f] = Whole(last)
    BY <1>6, <2>8, <2>9
  <2> QED
    BY <2>7, <2>10
<1> QED
  BY <1>5, <1>7, <1>8

\* Nothing is written any more: either all of it is there, or no marker is
LEMMA DoneOK ==
  ASSUME CFInv, Done
  PROVE  CFInv'
<1>1. Types'
  BY DEF CFInv, Done, Types
<1>2. TxOK'
  BY DEF Done, TxOK
<1>3. ConfirmedMeansWritten'
  BY DEF CFInv, Done, Writing, Restoring, ConfirmedMeansWritten
<1> QED
  BY <1>1, <1>2, <1>3 DEF CFInv
\* A step that breaks off leaves the markers as they were read
LEMMA BrokenStep ==
  ASSUME CFInv, Unfinished, NEW content \in BrokenOff,
         disk' = [disk EXCEPT ![Step.file] = content]
  PROVE  /\ disk' \in Disk /\ \A f \in File : disk'[f].ver <= last
         /\ \A f \in Mark : disk'[f] = tx.held[f]
         /\ \A f \in File \ Written(tx.plan) : disk'[f] = tx.held[f]
<1>1. /\ Step.file \in File /\ Step.file \in Written(tx.plan)
      /\ content \in Bytes /\ content.ver <= last
      /\ \A f \in Mark : disk[f] = tx.held[f]
      /\ Step.file \in Mark => content = disk[Step.file]
  BY StepBreaks DEF CFInv, Steps
<1>2. disk \in Disk /\ \A f \in File : disk[f].ver <= last
  BY DEF CFInv, Types
<1>3. \A f \in File : disk'[f] = IF f = Step.file THEN content ELSE disk[f]
  BY <1>1, <1>2 DEF Disk
<1>4. disk' \in Disk /\ \A f \in File : disk'[f].ver <= last
  BY <1>1, <1>2, <1>3 DEF Disk
<1>5. \A f \in Mark : disk'[f] = tx.held[f]
  BY <1>1, <1>3, Files
<1>6. \A f \in File \ Written(tx.plan) : disk[f] = tx.held[f]
  <2>1. WritingOK /\ tx.at - 1 <= Len(tx.plan) /\ tx.at \in Nat /\ Len(tx.plan) \in Nat
    <3>1. tx.at \in Nat /\ tx.at <= Len(tx.plan) /\ tx.plan \in Seq(Steps)
      BY StepBreaks, AtWork DEF CFInv, Unfinished, Writing, PlanOK
    <3>2. Len(tx.plan) \in Nat
      BY <3>1, LenProperties
    <3> QED
      BY <3>1, <3>2 DEF CFInv, TxOK, Unfinished, Writing
  <2>2. WrittenBefore(tx.at) \subseteq Written(tx.plan)
    BY <2>1 DEF WrittenBefore, Written
  <2> QED
    BY <2>1, <2>2 DEF WritingOK
<1>7. \A f \in File \ Written(tx.plan) : disk'[f] = tx.held[f]
  BY <1>1, <1>3, <1>6
<1> QED
  BY <1>4, <1>5, <1>7

\* Once the operation has ended, it is enough that the markers are as they were read
LEMMA Ended ==
  ASSUME CFInv, tx # NoTx, tx' = NoTx, opening' = opening, last' = last, hurt' \in BOOLEAN,
         disk' \in Disk, \A f \in File : disk'[f].ver <= last,
         \A f \in Mark : disk'[f] = tx.held[f]
  PROVE  CFInv'
<1>1. Types'
  BY DEF CFInv, Types
<1>2. TxOK'
  BY DEF TxOK
<1>3. \A f \in Mark : f \in File /\ tx.held[f].ver < last /\ tx.held[f] \in Bytes
  BY AtWork, Files DEF CFInv, Tx, Disk
<1>4. \A f \in Mark : disk'[f].ver # last'
  BY <1>3 DEF CFInv, Types, Bytes
<1>5. ConfirmedMeansWritten'
  BY <1>4, NoneMarked
<1> QED
  BY <1>1, <1>2, <1>5 DEF CFInv

\* What an operation that raises has written can be put back, if anything can
LEMMA RaiseOK ==
  ASSUME CFInv, Raise
  PROVE  CFInv'
<1>1. Unfinished /\ tx \in Tx /\ tx # NoTx /\ Planned
  BY AtWork DEF CFInv, Raise, Unfinished, Writing, TxOK
<1> PICK content \in BrokenOff : disk' = [disk EXCEPT ![Step.file] = content]
  BY DEF Raise
<1>2. /\ disk' \in Disk /\ \A f \in File : disk'[f].ver <= last
      /\ \A f \in Mark : disk'[f] = tx.held[f]
      /\ \A f \in File \ Written(tx.plan) : disk'[f] = tx.held[f]
  BY <1>1, BrokenStep
<1>3. opening' = opening /\ last' = last
  BY DEF Raise
<1>4. hurt' \in BOOLEAN
  BY DEF Raise, CFInv, Types
<1>5. CASE Managed(tx.kind, tx.plan) = {}
  <2>1. tx' = NoTx
    BY <1>5 DEF Raise
  <2> QED
    BY <1>1, <1>2, <1>3, <1>4, <2>1, Ended
<1>6. CASE Managed(tx.kind, tx.plan) # {}
  <2>1. tx' = [tx EXCEPT !.phase = "restoring", !.at = 1]
    BY <1>6 DEF Raise
  <2>2. /\ tx' \in Tx /\ tx'.kind = tx.kind /\ tx'.plan = tx.plan /\ tx'.at = 1
        /\ tx'.phase = "restoring" /\ tx'.held = tx.held
    BY <1>1, <2>1 DEF Tx
  <2>3. Types'
    BY <1>2, <1>3, <1>4, <2>2 DEF Types, CFInv
  <2>4. Planned'
    BY <1>1, <1>3, <2>2 DEF Planned
  <2>5. RestoringOK'
    BY <1>2, <1>6, <2>2 DEF RestoringOK
  <2>6. TxOK'
    BY <2>2, <2>4, <2>5 DEF TxOK
  <2>7. Restoring'
    BY <2>2, TxIsNotNone DEF Restoring
  <2> QED
    BY <2>3, <2>6, <2>7 DEF CFInv, ConfirmedMeansWritten
<1> QED
  BY <1>5, <1>6

\* The rollback begins with the files the operation created
LEMMA DeleteCreatedOK ==
  ASSUME CFInv, DeleteCreated
  PROVE  CFInv'
<1>1. tx \in Tx /\ tx # NoTx /\ Planned /\ RestoringOK
  BY AtWork DEF CFInv, DeleteCreated, Restoring, TxOK
<1>2. /\ disk' = [f \in File |-> IF f \in Created THEN Absent ELSE disk[f]]
      /\ tx' = [tx EXCEPT !.at = 2] /\ opening' = opening /\ last' = last /\ hurt' = hurt
  BY DEF DeleteCreated
<1>3. /\ tx' \in Tx /\ tx'.kind = tx.kind /\ tx'.plan = tx.plan /\ tx'.at = 2
      /\ tx'.phase = "restoring" /\ tx'.held = tx.held
  BY <1>1, <1>2 DEF DeleteCreated, Restoring, Tx
<1>4. \A f \in Created : f \in File /\ tx.held[f] = Absent
  <2>1. PICK n \in Chapter : PlanOK(tx.plan, tx.kind, n)
    BY <1>1, AtWork DEF CFInv
  <2>2. Managed(tx.kind, tx.plan) \subseteq File
    BY <1>1, <2>1, FilesOfPlan DEF PlanOK, Tx
  <2> QED
    BY <2>2 DEF Created
<1>5. Types'
  <2>1. Absent \in Bytes /\ Absent.ver <= last
    BY DEF Absent, Bytes, CFInv, Types
  <2>2. \A f \in File : disk'[f] \in Bytes /\ disk'[f].ver <= last
    BY <1>2, <2>1 DEF CFInv, Types, Disk
  <2>3. disk' \in Disk
    BY <1>2, <2>2 DEF Disk
  <2> QED
    BY <1>2, <1>3, <2>2, <2>3 DEF CFInv, Types
<1>6. RestoringOK'
  <2>1. Created' = Created
    BY <1>3 DEF Created
  <2>2. \A f \in File : disk[f] = tx.held[f] => disk'[f] = tx.held[f]
    BY <1>2, <1>4
  <2>3. \A f \in File \ Written(tx'.plan) : disk'[f] = tx'.held[f]
    BY <1>1, <1>3, <2>2 DEF RestoringOK
  <2>4. \A f \in Mark : disk'[f] = tx'.held[f]
    BY <1>1, <1>3, <2>2, Files DEF RestoringOK
  <2>5. \A f \in Created' : disk'[f] = Absent
    BY <1>2, <1>4, <2>1
  <2>6. tx'.at \in {1, 2} /\ Managed(tx'.kind, tx'.plan) # {}
    BY <1>1, <1>3 DEF RestoringOK
  <2> QED
    BY <2>3, <2>4, <2>5, <2>6 DEF RestoringOK
<1>7. Planned'
  BY <1>1, <1>2, <1>3 DEF Planned
<1>8. TxOK'
  BY <1>3, <1>6, <1>7 DEF TxOK
<1>9. Restoring'
  BY <1>3, TxIsNotNone DEF Restoring
<1> QED
  BY <1>5, <1>8, <1>9 DEF CFInv, ConfirmedMeansWritten

\* After a rollback every file is what it was when the lock was taken
LEMMA AsHeld ==
  ASSUME CFInv, Restored
  PROVE  \A f \in File : disk'[f] = tx.held[f]
<1>1. tx \in Tx /\ RestoringOK /\ tx.at = 2
  BY AtWork DEF CFInv, Restored, Restoring, TxOK
<1>2. PICK n \in Chapter : PlanOK(tx.plan, tx.kind, n)
  BY AtWork DEF CFInv, Restored, Restoring
<1>3. Written(tx.plan) \subseteq Managed(tx.kind, tx.plan)
  <2>1. tx.kind # "generate"
    BY <1>1 DEF RestoringOK, Managed, Confirmation
  <2> QED
    BY <1>2, <2>1 DEF PlanOK
<1>4. disk' = [f \in File |-> IF f \in Differing THEN tx.held[f] ELSE disk[f]]
  BY DEF Restored
<1> SUFFICES ASSUME NEW f \in File
             PROVE  disk'[f] = tx.held[f]
  OBVIOUS
<1>5. CASE f \notin Written(tx.plan)
  BY <1>1, <1>4, <1>5 DEF RestoringOK
<1>6. CASE f \in Created
  BY <1>1, <1>4, <1>6 DEF RestoringOK, Created
<1>7. CASE f \in Managed(tx.kind, tx.plan) \ Created
  BY <1>4, <1>7 DEF Differing
<1> QED
  BY <1>3, <1>5, <1>6, <1>7

\* The rollback ends with every file as it was
LEMMA RestoredOK ==
  ASSUME CFInv, Restored
  PROVE  CFInv'
<1>1. tx \in Tx /\ tx # NoTx /\ \A f \in File : tx.held[f].ver < last
  BY AtWork DEF CFInv, Restored, Restoring
<1>2. \A f \in File : disk'[f] = tx.held[f]
  BY AsHeld
<1>3. \A f \in File : tx.held[f] \in Bytes /\ tx.held[f].ver <= last
  BY <1>1 DEF CFInv, Types, Tx, Disk, Bytes
<1>4. disk' \in Disk
  <2>1. disk' = [f \in File |-> IF f \in Differing THEN tx.held[f] ELSE disk[f]]
    BY DEF Restored
  <2> QED
    BY <1>2, <1>3, <2>1 DEF Disk
<1>5. \A f \in File : disk'[f].ver <= last
  BY <1>2, <1>3
<1>6. \A f \in Mark : disk'[f] = tx.held[f]
  BY <1>2, Files
<1>7. opening' = opening /\ last' = last /\ hurt' \in BOOLEAN /\ tx' = NoTx
  BY DEF Restored, CFInv, Types
<1> QED
  BY <1>1, <1>4, <1>5, <1>6, <1>7, Ended

\* A rollback that fails leaves the markers as they were
LEMMA RollbackFailsOK ==
  ASSUME CFInv, RollbackFails
  PROVE  CFInv'
<1>1. /\ disk' \in Disk /\ \A f \in File : disk'[f].ver <= last
      /\ \A f \in Mark : disk'[f] = tx.held[f]
  BY HalfIs DEF CFInv, RollbackFails
<1>2. /\ tx # NoTx /\ tx' = NoTx /\ opening' = opening /\ last' = last
      /\ hurt' \in BOOLEAN
  BY DEF RollbackFails, Restoring
<1> QED
  BY <1>1, <1>2, Ended

\* and so does the end of the process, unless everything had been written
LEMMA StopOK ==
  ASSUME CFInv, Stop
  PROVE  CFInv'
<1>1. /\ tx # NoTx /\ tx' = NoTx /\ opening' = opening /\ last' = last
      /\ hurt' \in BOOLEAN
  BY DEF Stop
<1>2. CASE Unfinished /\ \E content \in BrokenOff : disk' = [disk EXCEPT ![Step.file] = content]
  BY <1>1, <1>2, BrokenStep, Ended
<1>3. CASE Restoring /\ disk' \in HalfRestored
  <2>1. /\ disk' \in Disk /\ \A f \in File : disk'[f].ver <= last
        /\ \A f \in Mark : disk'[f] = tx.held[f]
    BY <1>3, HalfIs DEF CFInv
  <2> QED
    BY <1>1, <2>1, Ended
<1>4. CASE Writing /\ disk' = disk
  <2>1. Types' /\ TxOK'
    BY <1>1, <1>4 DEF CFInv, Types, TxOK
  <2>2. ConfirmedMeansWritten'
    BY <1>1, <1>4 DEF CFInv, Writing, Restoring, ConfirmedMeansWritten
  <2> QED
    BY <2>1, <2>2 DEF CFInv
<1> QED
  BY <1>2, <1>3, <1>4 DEF Stop
-------------------------------------------------------------------------------
(* The theorems *)

(***************************************************************************)
(* The invariant holds for every number of chapters, operations and        *)
(* faults: what is being written is exactly the plan up to its current     *)
(* step, and an operation that raises leaves no file it cannot put back    *)
(* except where persist_bundle runs without a transaction.                 *)
(***************************************************************************)
THEOREM CFInvariant == Spec => []CFInv
<1>1. Init => CFInv
  BY InitOK
<1>2. CFInv /\ [Next]_vars => CFInv'
  <2> SUFFICES ASSUME CFInv, [Next]_vars
               PROVE  CFInv'
    OBVIOUS
  <2>1. ASSUME NEW kind \in Kind, NEW n \in Chapter, Begin(kind, n)
        PROVE  CFInv'
    BY <2>1, BeginOK
  <2>2. CASE Write
    BY <2>2, WriteOK
  <2>3. CASE Done
    BY <2>3, DoneOK
  <2>4. CASE Raise
    BY <2>4, RaiseOK
  <2>5. CASE DeleteCreated
    BY <2>5, DeleteCreatedOK
  <2>6. CASE Restored
    BY <2>6, RestoredOK
  <2>7. CASE RollbackFails
    BY <2>7, RollbackFailsOK
  <2>8. CASE Stop
    BY <2>8, StopOK
  <2>9. CASE UNCHANGED vars
    <3>1. Types' /\ TxOK'
      BY <2>9 DEF vars, CFInv, Types, TxOK, Planned, WritingOK, WrittenBefore, RestoringOK,
                  Created
    <3>2. ConfirmedMeansWritten'
      BY <2>9 DEF vars, CFInv, ConfirmedMeansWritten, Restoring
    <3> QED
      BY <3>1, <3>2 DEF CFInv
  <2> QED
    BY <2>1, <2>2, <2>3, <2>4, <2>5, <2>6, <2>7, <2>8, <2>9 DEF Next
<1> QED
  BY <1>1, <1>2, PTL DEF Spec

(***************************************************************************)
(* A candidate the last operation marked as confirmed has every file of    *)
(* its confirmation, whatever raises, fails to be rolled back or stops     *)
(* (project_transaction.py:166-171).                                       *)
(***************************************************************************)
THEOREM MarkedIsWhole == Spec => []ConfirmedMeansWritten
<1>1. CFInv => ConfirmedMeansWritten
  BY DEF CFInv
<1> QED
  BY <1>1, CFInvariant, PTL

-------------------------------------------------------------------------------
(* The book only changes by whole operations *)

\* A book without chapters has no later chapter either
LEMMA PlanOfNone ==
  ASSUME NEW kind \in Kind, NEW n \in Chapter
  PROVE  Plan(opening, 0, kind, n) = Plan(opening, 1, kind, n)
<1>1. n \in Nat /\ n >= 1
  BY DEF Chapter
<1>2. 1..0 - n = {} /\ 1..1 - n = {}
  BY <1>1
<1>3. [i \in 1..0 - n |-> Replaced("chapter", n + i)]
        = [i \in 1..1 - n |-> Replaced("chapter", n + i)]
  BY <1>2
<1>4. RewrittenChapter(n, 0) = RewrittenChapter(n, 1)
  BY <1>3 DEF RewrittenChapter
<1> QED
  BY <1>4 DEF Plan

\* The units of the book
Units == {Written(Plan(open, top, kind, n)) :
            open \in BOOLEAN, top \in Chapter, kind \in Kind, n \in Chapter}

\* What an operation writes is a unit of the book
LEMMA PlanIsUnit ==
  ASSUME Types, TxOK, tx # NoTx
  PROVE  Written(tx.plan) \in Units
<1>1. tx.kind \in Kind
  BY AtWork DEF Tx
<1>2. PICK top \in 0..MaxChapter, n \in Chapter : tx.plan = Plan(opening, top, tx.kind, n)
  BY DEF TxOK, Planned
<1>3. 1 \in Chapter
  BY FilesAssumption DEF Chapter
<1>4. PICK m \in Chapter : tx.plan = Plan(opening, m, tx.kind, n)
  <2>1. CASE top = 0
    BY <1>1, <1>2, <1>3, <2>1, PlanOfNone
  <2>2. CASE top # 0
    BY <1>2, <2>2, FilesAssumption DEF Chapter
  <2> QED
    BY <2>1, <2>2
<1>5. opening \in BOOLEAN
  BY DEF Types
<1> QED
  BY <1>1, <1>4, <1>5 DEF Units

\* The files of an operation that is done change together; what is seen from
\* outside is then what is on disk
LEMMA DoneOfBook ==
  ASSUME CFInv, Done, ~hurt
  PROVE  Book!BookNext
<1>1. tx \in Tx /\ tx # NoTx /\ WritingOK /\ \A f \in File : tx.held[f].ver < last
  BY AtWork DEF CFInv, Done, Writing, TxOK
<1> PICK unit \in Units : unit = Written(tx.plan)
  BY <1>1, PlanIsUnit DEF CFInv
<1>2. unit = WrittenBefore(tx.at) /\ unit \subseteq File
  <2>1. tx.plan \in Seq(Steps) /\ tx.at \in 1..Len(tx.plan) + 1 /\ ~(tx.at <= Len(tx.plan))
    BY <1>1 DEF Done, Unfinished, Tx, WritingOK
  <2>2. Len(tx.plan) \in Nat
    BY <2>1, LenProperties
  <2>3. 1..tx.at - 1 = 1..Len(tx.plan)
    BY <2>1, <2>2
  <2>4. unit = WrittenBefore(tx.at)
    BY <2>3 DEF Written, WrittenBefore
  <2> QED
    BY <1>1, <2>1, <2>4, FilesOfPlan DEF Tx
<1>3. \A f \in File : Seen'[f] = disk[f] /\ Seen[f] = tx.held[f]
  BY <1>1 DEF Done, Seen
<1>4. \A f \in File : disk[f] = IF f \in unit THEN Whole(last) ELSE tx.held[f]
  BY <1>1, <1>2 DEF WritingOK
<1>5. \A f \in File : tx.held[f] # Whole(last)
  <2>1. last \in Nat /\ \A f \in File : tx.held[f].ver \in Nat
    BY <1>1 DEF CFInv, Types, Tx, Disk, Bytes
  <2> QED
    BY <1>1, <2>1 DEF Whole
<1>6. /\ \A f \in File \ unit : Seen'[f] = Seen[f]
      /\ \A f, g \in unit : Seen'[f] = Seen'[g]
      /\ \A f \in unit, g \in File : Seen'[f] # Seen[g]
  BY <1>2, <1>3, <1>4, <1>5
<1>7. hurt' = hurt
  BY DEF Done
<1> QED
  BY <1>6, <1>7 DEF Book!BookNext, Book!Publish, Units

\* Every step of an operation is a step of the book, or changes nothing in it
LEMMA StepOfBook ==
  ASSUME CFInv, Next
  PROVE  Book!BookNext \/ UNCHANGED <<Seen, hurt>>
<1>1. ASSUME hurt' = TRUE
      PROVE  Book!BookNext
  BY <1>1 DEF Book!BookNext, Book!Damage
<1>2. hurt \in BOOLEAN
  BY DEF CFInv, Types
<1>3. ASSUME \A f \in File : Seen'[f] = Seen[f]
      PROVE  Seen' = Seen
  BY <1>3 DEF Seen
<1>4. ASSUME NEW kind \in Kind, NEW n \in Chapter, Begin(kind, n)
      PROVE  UNCHANGED <<Seen, hurt>>
  <2>1. tx = NoTx /\ hurt' = hurt
    BY <1>4 DEF Begin
  <2>2. tx' # NoTx /\ tx'.held = disk
    BY <1>4 DEF Begin, NoTx, Kind
  <2>3. \A f \in File : Seen'[f] = Seen[f]
    BY <2>1, <2>2 DEF Seen
  <2> QED
    BY <1>3, <2>1, <2>3
<1>5. ASSUME tx # NoTx, tx' # NoTx, tx'.held = tx.held
      PROVE  Seen' = Seen
  <2>1. \A f \in File : Seen'[f] = Seen[f]
    BY <1>5 DEF Seen
  <2> QED
    BY <1>3, <2>1
<1>6. CASE Write \/ DeleteCreated
  <2>1. tx \in Tx /\ tx # NoTx
    BY <1>6, AtWork DEF CFInv, Write, DeleteCreated, Unfinished, Writing, Restoring
  <2>2. tx'.kind = tx.kind /\ tx'.held = tx.held /\ hurt' = hurt
    BY <1>6, <2>1 DEF Write, DeleteCreated, Tx
  <2>3. tx' # NoTx
    BY <2>1, <2>2 DEF Tx, NoTx, Kind
  <2> QED
    BY <1>5, <2>1, <2>2, <2>3
<1>7. CASE Done
  <2>1. CASE hurt
    BY <1>1, <1>2, <1>7, <2>1 DEF Done
  <2>2. CASE ~hurt
    BY <1>7, <2>2, DoneOfBook
  <2> QED
    BY <2>1, <2>2
<1>8. CASE Raise
  <2>1. tx \in Tx /\ tx # NoTx
    BY <1>8, AtWork DEF CFInv, Raise, Unfinished, Writing
  <2>2. CASE Managed(tx.kind, tx.plan) = {}
    <3>1. tx' = NoTx /\ (hurt' = (hurt \/ LeftBehind(disk')))
      BY <1>8, <2>2 DEF Raise
    <3>2. CASE hurt \/ LeftBehind(disk')
      <4>1. hurt' = TRUE
        BY <3>1, <3>2, Zenon
      <4> QED
        BY <1>1, <4>1
    <3>3. CASE ~hurt /\ ~LeftBehind(disk')
      <4>1. hurt' = hurt
        BY <1>2, <3>1, <3>3
      <4>2. \A f \in File : disk'[f] = tx.held[f]
        BY <2>2, <3>3 DEF LeftBehind
      <4>3. \A f \in File : Seen'[f] = Seen[f]
        BY <2>1, <3>1, <4>2 DEF Seen
      <4> QED
        BY <1>3, <4>1, <4>3
    <3> QED
      BY <3>2, <3>3
  <2>3. CASE Managed(tx.kind, tx.plan) # {}
    <3>1. tx' = [tx EXCEPT !.phase = "restoring", !.at = 1]
      BY <1>8, <2>3 DEF Raise
    <3>2. hurt' = hurt
      <4>1. hurt' = (hurt \/ FALSE)
        BY <1>8, <2>3, Zenon DEF Raise
      <4> QED
        BY <1>2, <4>1
    <3>3. tx'.kind = tx.kind /\ tx'.held = tx.held
      BY <2>1, <3>1 DEF Tx
    <3>4. tx' # NoTx
      BY <2>1, <3>3 DEF Tx, NoTx, Kind
    <3> QED
      BY <1>5, <2>1, <3>2, <3>3, <3>4
  <2> QED
    BY <2>2, <2>3
<1>9. CASE Restored
  <2>1. tx # NoTx /\ tx' = NoTx /\ hurt' = hurt
    BY <1>9 DEF Restored, Restoring
  <2>2. \A f \in File : Seen'[f] = Seen[f]
    BY <1>9, <2>1, AsHeld DEF Seen
  <2> QED
    BY <1>3, <2>1, <2>2
<1>10. CASE RollbackFails \/ Stop
  BY <1>1, <1>10 DEF RollbackFails, Stop
<1> QED
  BY <1>4, <1>6, <1>7, <1>8, <1>9, <1>10 DEF Next

(***************************************************************************)
(* ChapterFiles implements ConfirmedBook: seen from outside the project    *)
(* lock, the files only ever change by whole operations, for every number  *)
(* of chapters and operations (project_transaction.py:1-19).  The damage   *)
(* ConfirmedBook allows is done only by a rollback that fails, by a stop,  *)
(* and by a new chapter persisted without a transaction.                   *)
(***************************************************************************)
THEOREM OperationsAreWhole == Spec => AllOrNothing
<1>1. Init => Book!BookInit
  <2>1. Init => Seen = Original
    BY DEF Init, Seen, Original
  <2> QED
    BY <2>1 DEF Init, Book!BookInit
<1>2. CFInv /\ [Next]_vars => [Book!BookNext]_<<Seen, hurt>>
  <2>1. CFInv /\ Next => Book!BookNext \/ UNCHANGED <<Seen, hurt>>
    BY StepOfBook
  <2>2. UNCHANGED vars => UNCHANGED <<Seen, hurt>>
    BY DEF vars, Seen
  <2> QED
    BY <2>1, <2>2
<1> QED
  BY <1>1, <1>2, CFInvariant, PTL DEF Spec, AllOrNothing, Book!BookSpec

===============================================================================
