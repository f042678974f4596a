--------------------------- MODULE BuildGraphProofs ---------------------------
(***************************************************************************)
(* Proofs about BuildGraph, for every graph, every set of runs and every   *)
(* bound on revisions: IInv is inductive, so each of its parts is an       *)
(* invariant of Spec; a stale task is only made usable by a new revision;  *)
(* and in a state of IInv each action publishes, offers or accepts a       *)
(* revision of the versioned plan or only withdraws usability.             *)
(***************************************************************************)
EXTENDS BuildGraphRefinement, TLAPS

Usable == {"completed", "review_required"}

\* UnwrittenTasks and NoTaskLeftBlocked, of any manifest
Unwritten(tk) ==
  \A t \in Task :
    /\ tk[t].status = "blocked" => tk[t].rev = 0 /\ tk[t].run = NoRun
    /\ tk[t].rev = 0 /\ tk[t].run # NoRun => tk[t].status = "running"

NoneLeftBlocked(tk) ==
  \A t \in Task : tk[t].status = "blocked" => ~DependenciesComplete(tk, t)

-------------------------------------------------------------------------------
(* The graph and the pure helpers *)

\* A direct dependent of t is among the descendants of t, and the
\* definition has no loop (definition.py:249-331, service.py:147-158).
LEMMA GraphFacts ==
  ASSUME NEW c \in Task, NEW t \in Deps[c]
  PROVE  /\ t \in Task
         /\ c \in Descendants[t]
         /\ c # t
<1>1. t \in Task
  BY GraphAssumption
<1>2. c \in Descendants[t]
  <2>1. ASSUME NEW S \in SUBSET Task, ClosedBelow(t, S)
        PROVE  c \in S
    BY <2>1 DEF ClosedBelow
  <2> QED
    BY <1>1, <2>1 DEF Descendants
<1>3. c # t
  BY <1>1, <1>2, GraphAssumption
<1> QED
  BY <1>1, <1>2, <1>3

\* What a completed dependency counts as is unaffected by the refresh, which
\* leaves every task with no blocked dependent of completed tasks
\* (service.py:175-198).
LEMMA RefreshFacts ==
  ASSUME NEW tk \in [Task -> TaskState], Unwritten(tk)
  PROVE  LET new == RefreshUnmaterialized(tk) IN
         /\ new \in [Task -> TaskState]
         /\ \A c \in Task : /\ new[c].rev = tk[c].rev
                            /\ new[c].run = tk[c].run
                            /\ new[c].deps = tk[c].deps
                            /\ ~Refreshable(tk[c]) => new[c] = tk[c]
                            /\ Refreshable(tk[c]) => new[c].status \in {"ready", "blocked"}
         /\ Unwritten(new)
         /\ NoneLeftBlocked(new)
<1> DEFINE new == RefreshUnmaterialized(tk)
<1>1. new \in [Task -> TaskState]
  BY DEF RefreshUnmaterialized, TaskState, Status
<1>2. ASSUME NEW c \in Task
      PROVE  /\ new[c].rev = tk[c].rev
             /\ new[c].run = tk[c].run
             /\ new[c].deps = tk[c].deps
             /\ ~Refreshable(tk[c]) => new[c] = tk[c]
             /\ Refreshable(tk[c]) =>
                  new[c].status = IF DependenciesComplete(tk, c) THEN "ready" ELSE "blocked"
  <2> tk[c] \in TaskState
    OBVIOUS
  <2>1. CASE Refreshable(tk[c])
    BY <2>1 DEF RefreshUnmaterialized, TaskState
  <2>2. CASE ~Refreshable(tk[c])
    BY <2>2 DEF RefreshUnmaterialized
  <2> QED
    BY <2>1, <2>2
<1>3. ASSUME NEW c \in Task
      PROVE  DependenciesComplete(new, c) <=> DependenciesComplete(tk, c)
  <2>1. ASSUME NEW d \in Deps[c]
        PROVE  (new[d].status = "completed" /\ new[d].rev # 0)
                 <=> (tk[d].status = "completed" /\ tk[d].rev # 0)
    <3>1. d \in Task
      BY GraphFacts
    <3>2. Refreshable(tk[d]) => new[d].status # "completed" /\ tk[d].status # "completed"
      BY <3>1, <1>2 DEF Refreshable
    <3> QED
      BY <3>1, <3>2, <1>2
  <2> QED
    BY <2>1 DEF DependenciesComplete
<1>4. Unwritten(new)
  BY <1>2 DEF Unwritten, Refreshable
<1>5. NoneLeftBlocked(new)
  <2> SUFFICES ASSUME NEW c \in Task, new[c].status = "blocked"
               PROVE  ~DependenciesComplete(new, c)
    BY DEF NoneLeftBlocked
  <2>1. CASE Refreshable(tk[c])
    BY <2>1, <1>2, <1>3
  <2>2. CASE ~Refreshable(tk[c])
    BY <2>2, <1>2 DEF Unwritten, Refreshable
  <2> QED
    BY <2>1, <2>2
<1> QED
  BY <1>1, <1>2, <1>4, <1>5

\* The walk below t leaves no descendant of t usable and touches nothing but
\* statuses, and never the status of t itself (service.py:147-173).
LEMMA MarkFacts ==
  ASSUME NEW tk \in [Task -> TaskState], Unwritten(tk), NEW t \in Task
  PROVE  LET new == MarkDescendantsStale(tk, t) IN
         /\ new \in [Task -> TaskState]
         /\ \A c \in Task : /\ new[c].rev = tk[c].rev
                            /\ new[c].run = tk[c].run
                            /\ new[c].deps = tk[c].deps
                            /\ new[c].status \in Usable =>
                                 new[c] = tk[c] /\ c \notin Descendants[t]
         /\ new[t] = tk[t]
         /\ Unwritten(new)
<1> DEFINE new == MarkDescendantsStale(tk, t)
<1>1. new \in [Task -> TaskState]
  BY DEF MarkDescendantsStale, StatusBelow, TaskState, Status
<1>2. ASSUME NEW c \in Task
      PROVE  /\ new[c].rev = tk[c].rev
             /\ new[c].run = tk[c].run
             /\ new[c].deps = tk[c].deps
             /\ new[c].status \in Usable => new[c] = tk[c] /\ c \notin Descendants[t]
             /\ new[c].status = "blocked" => new[c].rev = 0 /\ new[c].run = NoRun
             /\ new[c].rev = 0 /\ new[c].run # NoRun => new[c].status = "running"
  <2> tk[c] \in TaskState
    OBVIOUS
  <2>1. CASE c \notin Descendants[t]
    BY <2>1 DEF MarkDescendantsStale, Unwritten
  <2>2. CASE c \in Descendants[t] /\ tk[c].rev # 0
    BY <2>2 DEF MarkDescendantsStale, StatusBelow, Usable, TaskState
  <2>3. CASE c \in Descendants[t] /\ tk[c].rev = 0 /\ tk[c].status # "running"
    BY <2>3 DEF MarkDescendantsStale, StatusBelow, Usable, TaskState, Unwritten
  <2>4. CASE c \in Descendants[t] /\ tk[c].rev = 0 /\ tk[c].status = "running"
    BY <2>4 DEF MarkDescendantsStale, StatusBelow, Usable, Unwritten
  <2> QED
    BY <2>1, <2>2, <2>3, <2>4
<1>3. new[t] = tk[t]
  BY GraphAssumption DEF MarkDescendantsStale
<1>4. Unwritten(new)
  BY <1>2 DEF Unwritten
<1> QED
  BY <1>1, <1>2, <1>3, <1>4

LEMMA PropagateFacts ==
  ASSUME NEW tk \in [Task -> TaskState], Unwritten(tk), NEW t \in Task
  PROVE  LET new == Propagate(tk, t) IN
         /\ new \in [Task -> TaskState]
         /\ \A c \in Task : /\ new[c].rev = tk[c].rev
                            /\ new[c].run = tk[c].run
                            /\ new[c].deps = tk[c].deps
                            /\ new[c].status \in Usable =>
                                 new[c] = tk[c] /\ c \notin Descendants[t]
         /\ Refreshable(tk[t]) \/ new[t] = tk[t]
         /\ Unwritten(new)
         /\ NoneLeftBlocked(new)
<1> DEFINE mid == MarkDescendantsStale(tk, t)
           new == RefreshUnmaterialized(mid)
<1>1. /\ mid \in [Task -> TaskState]
      /\ Unwritten(mid)
      /\ mid[t] = tk[t]
      /\ \A c \in Task : /\ mid[c].rev = tk[c].rev
                         /\ mid[c].run = tk[c].run
                         /\ mid[c].deps = tk[c].deps
                         /\ mid[c].status \in Usable =>
                              mid[c] = tk[c] /\ c \notin Descendants[t]
  BY MarkFacts
<1> HIDE DEF mid
<1>2. /\ new \in [Task -> TaskState]
      /\ \A c \in Task : /\ new[c].rev = mid[c].rev
                         /\ new[c].run = mid[c].run
                         /\ new[c].deps = mid[c].deps
                         /\ ~Refreshable(mid[c]) => new[c] = mid[c]
                         /\ Refreshable(mid[c]) => new[c].status \in {"ready", "blocked"}
      /\ Unwritten(new)
      /\ NoneLeftBlocked(new)
  BY <1>1, RefreshFacts
<1> HIDE DEF new
<1>3. ASSUME NEW c \in Task, new[c].status \in Usable
      PROVE  new[c] = tk[c] /\ c \notin Descendants[t]
  BY <1>1, <1>2, <1>3 DEF Usable
<1>4. new = Propagate(tk, t)
  BY DEF new, mid, Propagate
<1> QED
  BY <1>1, <1>2, <1>3, <1>4

-------------------------------------------------------------------------------
(* What the actions do to the manifest *)

Fresh(tk, af) ==
  \A t \in Task : tk[t].status \in Usable =>
    /\ tk[t].rev # 0
    /\ \A d \in Deps[t] : af[t][tk[t].rev].inputs[d] = tk[d].rev

\* The manifest-only part of the inductive invariant
Sound(tk, af) ==
  /\ tk \in [Task -> TaskState]
  /\ Unwritten(tk)
  /\ NoneLeftBlocked(tk)
  /\ Fresh(tk, af)

\* Taking a run from a task (Supersede) or handing the task over without
\* making it usable (StartRun, every failure and every conflict) keeps the
\* manifest sound.
LEMMA HandOver ==
  ASSUME NEW af, Sound(task, af), NEW t \in Task, NEW s \in TaskState,
         s.rev = task[t].rev,
         s.status \notin Usable \cup {"blocked"},
         s.rev = 0 /\ s.run # NoRun => s.status = "running"
  PROVE  Sound([task EXCEPT ![t] = s], af)
<1> DEFINE new == [task EXCEPT ![t] = s]
<1> USE DEF Sound
<1>1. new \in [Task -> TaskState]
  OBVIOUS
<1>2. new[t] = s /\ \A c \in Task : c # t => new[c] = task[c]
  OBVIOUS
<1>3. \A c \in Task : new[c].rev = task[c].rev
  BY <1>2
<1> HIDE DEF new
<1>4. Unwritten(new)
  BY <1>2 DEF Unwritten
<1>5. NoneLeftBlocked(new)
  <2> SUFFICES ASSUME NEW c \in Task, new[c].status = "blocked", DependenciesComplete(new, c)
               PROVE  FALSE
    BY DEF NoneLeftBlocked
  <2>1. c # t /\ task[c].status = "blocked"
    BY <1>2
  <2>2. ASSUME NEW d \in Deps[c]
        PROVE  task[d].status = "completed" /\ task[d].rev # 0
    BY <1>2, GraphFacts DEF DependenciesComplete, Usable
  <2> QED
    BY <2>1, <2>2 DEF NoneLeftBlocked, DependenciesComplete
<1>6. Fresh(new, af)
  <2> SUFFICES ASSUME NEW c \in Task, new[c].status \in Usable
               PROVE  /\ new[c].rev # 0
                      /\ \A d \in Deps[c] : af[c][new[c].rev].inputs[d] = new[d].rev
    BY DEF Fresh
  <2>1. c # t /\ task[c].status \in Usable /\ new[c] = task[c]
    BY <1>2
  <2> QED
    BY <2>1, <1>3, GraphFacts DEF Fresh
<1> QED
  BY <1>1, <1>4, <1>5, <1>6 DEF new

\* NoLostRevision, of any manifest and files
NothingLost(tk, af) ==
  \A t \in Task :
    /\ tk[t].rev = Len(af[t])
    /\ \A n \in 1..Len(af[t]) : af[t][n].basis = n - 1

\* What a commit of t does to the manifest: t gets the next revision, usable or
\* offered; what has an artifact below t becomes stale, elsewhere it is left
\* alone; what has none is at most ready or blocked afresh
\* (service.py:147-198, 386-518).
LEMMA CommittedFacts ==
  ASSUME task \in [Task -> TaskState], Unwritten(task), NEW t \in Task
  PROVE  LET new == Committed(task, t) IN
         /\ new \in [Task -> TaskState]
         /\ Unwritten(new)
         /\ NoneLeftBlocked(new)
         /\ new[t].status = IF t \in ReviewTask THEN "review_required" ELSE "completed"
         /\ new[t].rev = task[t].rev + 1
         /\ new[t].run = NoRun
         /\ \A c \in Task \ {t} :
              /\ new[c].rev = task[c].rev
              /\ new[c].run = task[c].run
              /\ new[c].status \in Usable => new[c] = task[c] /\ c \notin Descendants[t]
              /\ c \notin Descendants[t] /\ (task[c].rev # 0 \/ task[c].status \in Usable)
                   => new[c] = task[c]
              /\ c \in Descendants[t] /\ task[c].rev # 0 => new[c].status = "stale"
              /\ task[c].rev = 0 => \/ new[c].status = task[c].status
                                    \/ new[c].status \in {"ready", "blocked"}
<1> DEFINE rec == [status |-> IF t \in ReviewTask THEN "review_required" ELSE "completed",
                   rev    |-> task[t].rev + 1,
                   run    |-> NoRun,
                   deps   |-> DependencyRevisions(task, t)]
           tk == [task EXCEPT ![t] = rec]
           mid == MarkDescendantsStale(tk, t)
           new == RefreshUnmaterialized(mid)
<1>1. \A c \in Task : task[c] \in TaskState /\ task[c].rev \in Nat
  BY DEF TaskState
<1>2. /\ rec \in TaskState /\ rec.rev = task[t].rev + 1 /\ rec.run = NoRun
      /\ rec.status \in Usable
      /\ rec.status = IF t \in ReviewTask THEN "review_required" ELSE "completed"
  BY <1>1, GraphAssumption DEF TaskState, Status, Revisions, DependencyRevisions, Usable
<1>3. Committed(task, t) = Propagate(tk, t)
  BY DEF Committed
<1> HIDE DEF rec
<1>4. tk \in [Task -> TaskState] /\ tk[t] = rec /\ \A c \in Task : c # t => tk[c] = task[c]
  BY <1>2
<1> HIDE DEF tk
<1>5. Unwritten(tk)
  BY <1>2, <1>4, <1>1 DEF Unwritten, Usable
<1>6. ASSUME NEW c \in Task
      PROVE  /\ mid[c].rev = tk[c].rev /\ mid[c].run = tk[c].run
             /\ c \notin Descendants[t] => mid[c] = tk[c]
             /\ c \in Descendants[t] /\ tk[c].rev # 0 => mid[c].status = "stale"
             /\ tk[c].rev = 0 => mid[c].status = tk[c].status \/ mid[c].status = "blocked"
  BY <1>4 DEF MarkDescendantsStale, StatusBelow, TaskState
<1>7. /\ mid \in [Task -> TaskState] /\ Unwritten(mid)
      /\ mid[t] = tk[t]
      /\ \A c \in Task : mid[c].status \in Usable => mid[c] = tk[c] /\ c \notin Descendants[t]
  BY <1>4, <1>5, MarkFacts
<1> HIDE DEF mid
<1>8. /\ new \in [Task -> TaskState]
      /\ \A c \in Task : /\ new[c].rev = mid[c].rev
                         /\ new[c].run = mid[c].run
                         /\ ~Refreshable(mid[c]) => new[c] = mid[c]
                         /\ Refreshable(mid[c]) => new[c].status \in {"ready", "blocked"}
      /\ Unwritten(new)
      /\ NoneLeftBlocked(new)
  BY <1>7, RefreshFacts
<1>9. new = Propagate(tk, t)
  BY DEF mid, Propagate
<1> HIDE DEF new
<1>10. new[t] = rec
  BY <1>2, <1>4, <1>7, <1>8 DEF Refreshable, Usable
<1>11. ASSUME NEW c \in Task \ {t}
       PROVE  /\ new[c].rev = task[c].rev
              /\ new[c].run = task[c].run
              /\ new[c].status \in Usable => new[c] = task[c] /\ c \notin Descendants[t]
              /\ c \notin Descendants[t] /\ (task[c].rev # 0 \/ task[c].status \in Usable)
                   => new[c] = task[c]
              /\ c \in Descendants[t] /\ task[c].rev # 0 => new[c].status = "stale"
              /\ task[c].rev = 0 => \/ new[c].status = task[c].status
                                    \/ new[c].status \in {"ready", "blocked"}
  <2>1. tk[c] = task[c]
    BY <1>4
  <2>2. CASE Refreshable(mid[c])
    BY <2>1, <2>2, <1>6, <1>8 DEF Refreshable, Usable
  <2>3. CASE ~Refreshable(mid[c])
    BY <2>1, <2>3, <1>6, <1>7, <1>8 DEF Usable, Refreshable
  <2> QED
    BY <2>2, <2>3
<1> QED
  BY <1>2, <1>3, <1>8, <1>9, <1>10, <1>11

\* A revision's file is written after all others, and none of them changes
\* (store.py:157-183).
LEMMA WrittenFacts ==
  ASSUME NEW t \in Task, NEW inputs \in Revisions,
         artifact \in [Task -> Seq(Artifact)],
         task[t].rev \in Nat,
         NothingLost(task, artifact),
         WriteArtifact(t, task[t].rev, inputs)
  PROVE  /\ artifact' \in [Task -> Seq(Artifact)]
         /\ \A c \in Task : Len(artifact[c]) = task[c].rev
         /\ Len(artifact'[t]) = task[t].rev + 1
         /\ artifact'[t][task[t].rev + 1] = [basis |-> task[t].rev, inputs |-> inputs]
         /\ \A n \in 1..task[t].rev : artifact'[t][n] = artifact[t][n]
         /\ \A c \in Task \ {t} : artifact'[c] = artifact[c]
<1> DEFINE file == [basis |-> task[t].rev, inputs |-> inputs]
<1>1. /\ artifact' = [artifact EXCEPT ![t] = Append(artifact[t], file)]
      /\ file \in Artifact
  BY DEF WriteArtifact, Artifact
<1>2. \A c \in Task : Len(artifact[c]) = task[c].rev
  BY DEF NothingLost
<1> HIDE DEF file
<1> QED
  BY <1>1, <1>2 DEF file

LEMMA NothingLostByWriting ==
  ASSUME NEW t \in Task, NEW inputs \in Revisions,
         artifact \in [Task -> Seq(Artifact)],
         task[t].rev \in Nat,
         NothingLost(task, artifact),
         WriteArtifact(t, task[t].rev, inputs),
         NEW new, new[t].rev = task[t].rev + 1,
         \A c \in Task \ {t} : new[c].rev = task[c].rev
  PROVE  NothingLost(new, artifact')
<1> DEFINE file == [basis |-> task[t].rev, inputs |-> inputs]
<1>1. /\ \A c \in Task : Len(artifact[c]) = task[c].rev
      /\ Len(artifact'[t]) = task[t].rev + 1
      /\ artifact'[t][task[t].rev + 1] = file
      /\ \A n \in 1..task[t].rev : artifact'[t][n] = artifact[t][n]
      /\ \A c \in Task \ {t} : artifact'[c] = artifact[c]
  BY WrittenFacts
<1>2. file.basis = task[t].rev
  OBVIOUS
<1> HIDE DEF file
<1> SUFFICES ASSUME NEW c \in Task
             PROVE  /\ new[c].rev = Len(artifact'[c])
                    /\ \A n \in 1..Len(artifact'[c]) : artifact'[c][n].basis = n - 1
  BY DEF NothingLost
<1>3. CASE c # t
  <2>1. new[c].rev = task[c].rev /\ artifact'[c] = artifact[c]
    BY <1>1, <1>3
  <2>2. /\ task[c].rev = Len(artifact[c])
        /\ \A n \in 1..Len(artifact[c]) : artifact[c][n].basis = n - 1
    BY DEF NothingLost
  <2> QED
    BY <2>1, <2>2
<1>4. CASE c = t
  <2>1. ASSUME NEW n \in 1..Len(artifact'[t])
        PROVE  artifact'[t][n].basis = n - 1
    <3>1. CASE n = task[t].rev + 1
      BY <3>1, <1>1, <1>2
    <3>2. CASE n \in 1..task[t].rev
      <4>1. artifact'[t][n] = artifact[t][n] /\ n \in 1..Len(artifact[t])
        BY <3>2, <1>1
      <4> QED
        BY <4>1 DEF NothingLost
    <3> QED
      BY <3>1, <3>2, <1>1
  <2> QED
    BY <1>1, <1>4, <2>1
<1> QED
  BY <1>3, <1>4

\* Committing a candidate made from the current dependencies keeps what may be
\* used fresh: no task keeps a run or a revision it did not have, and the tasks
\* that were made from the old revision of t are no longer usable
\* (service.py:386-518).
LEMMA CommitFresh ==
  ASSUME NEW t \in Task, NEW inputs \in Revisions,
         task \in [Task -> TaskState],
         artifact \in [Task -> Seq(Artifact)],
         Unwritten(task),
         Fresh(task, artifact),
         NothingLost(task, artifact),
         \A d \in Deps[t] : inputs[d] = task[d].rev,
         WriteArtifact(t, task[t].rev, inputs)
  PROVE  Fresh(Committed(task, t), artifact')
<1> DEFINE new == Committed(task, t)
           file == [basis |-> task[t].rev, inputs |-> inputs]
<1>1. \A c \in Task : task[c].rev \in Nat
  BY DEF TaskState
<1>2. /\ artifact'[t][task[t].rev + 1] = file
      /\ \A c \in Task \ {t} : artifact'[c] = artifact[c]
  BY <1>1, WrittenFacts
<1>3. file.inputs = inputs
  OBVIOUS
<1>4. /\ new[t].rev = task[t].rev + 1
      /\ \A c \in Task \ {t} :
           /\ new[c].rev = task[c].rev
           /\ new[c].status \in Usable => new[c] = task[c] /\ c \notin Descendants[t]
  BY CommittedFacts
<1> HIDE DEF new, file
<1> SUFFICES ASSUME NEW c \in Task, new[c].status \in Usable
             PROVE  /\ new[c].rev # 0
                    /\ \A d \in Deps[c] : artifact'[c][new[c].rev].inputs[d] = new[d].rev
  BY DEF Fresh, new
<1>5. c \notin Descendants[t]
  BY <1>4, GraphAssumption
<1>6. ASSUME NEW d \in Deps[c]
      PROVE  d \in Task /\ d # t /\ new[d].rev = task[d].rev
  <2>1. d \in Task /\ c \in Descendants[d]
    BY GraphFacts
  <2> QED
    BY <2>1, <1>4, <1>5
<1>7. CASE c # t
  BY <1>2, <1>4, <1>6, <1>7 DEF Fresh
<1>8. CASE c = t
  BY <1>1, <1>2, <1>3, <1>4, <1>6, <1>8
<1> QED
  BY <1>7, <1>8

LEMMA CommitSound ==
  ASSUME NEW t \in Task, NEW inputs \in Revisions,
         artifact \in [Task -> Seq(Artifact)],
         Sound(task, artifact),
         NothingLost(task, artifact),
         \A d \in Deps[t] : inputs[d] = task[d].rev,
         WriteArtifact(t, task[t].rev, inputs)
  PROVE  LET new == Committed(task, t) IN
         /\ Sound(new, artifact')
         /\ NothingLost(new, artifact')
         /\ artifact' \in [Task -> Seq(Artifact)]
         /\ new[t].run = NoRun
         /\ \A c \in Task : c # t => new[c].run = task[c].run /\ new[c].rev = task[c].rev
         /\ \A c \in Task : c # t /\ new[c].status \in Usable => new[c] = task[c]
         /\ new[t].rev = task[t].rev + 1
<1> DEFINE new == Committed(task, t)
<1>1. task \in [Task -> TaskState] /\ Unwritten(task) /\ task[t].rev \in Nat
  BY DEF Sound, TaskState
<1>2. /\ new \in [Task -> TaskState]
      /\ Unwritten(new)
      /\ NoneLeftBlocked(new)
      /\ new[t].rev = task[t].rev + 1
      /\ new[t].run = NoRun
      /\ \A c \in Task \ {t} :
           /\ new[c].rev = task[c].rev
           /\ new[c].run = task[c].run
           /\ new[c].status \in Usable => new[c] = task[c]
  BY <1>1, CommittedFacts
<1>3. Fresh(new, artifact')
  BY <1>1, CommitFresh DEF Sound
<1> HIDE DEF new
<1>4. NothingLost(new, artifact') /\ artifact' \in [Task -> Seq(Artifact)]
  BY <1>1, <1>2, WrittenFacts, NothingLostByWriting
<1> QED
  BY <1>2, <1>3, <1>4 DEF Sound, new

\* Propagating from a task keeps a sound manifest sound.
LEMMA PropagateSound ==
  ASSUME NEW af, NEW tk, Sound(tk, af), NEW t \in Task
  PROVE  Sound(Propagate(tk, t), af)
<1> DEFINE new == Propagate(tk, t)
<1> USE DEF Sound
<1>1. /\ new \in [Task -> TaskState]
      /\ \A c \in Task : /\ new[c].rev = tk[c].rev
                         /\ new[c].run = tk[c].run
                         /\ new[c].deps = tk[c].deps
                         /\ new[c].status \in Usable =>
                              new[c] = tk[c] /\ c \notin Descendants[t]
      /\ Unwritten(new)
      /\ NoneLeftBlocked(new)
  BY PropagateFacts
<1> HIDE DEF new
<1>2. Fresh(new, af)
  BY <1>1, GraphFacts DEF Fresh
<1> QED
  BY <1>1, <1>2 DEF new

-------------------------------------------------------------------------------
(* Runs and tasks point at each other *)

\* Closing run r and clearing its task leaves the other runs paired.
LEMMA ClosedRun ==
  ASSUME TypeOK, OneWriterPerTask, NEW r \in RunId, runs[r].status = "running",
         NEW how \in {"committed", "failed", "conflict"},
         runs' = Finish(runs, r, how),
         task' \in [Task -> TaskState],
         task'[runs[r].task].run = NoRun,
         \A c \in Task : c # runs[r].task =>
                           task'[c].run = task[c].run /\ task'[c].rev = task[c].rev
  PROVE  OneWriterPerTask' /\ runs' \in [RunId -> BuildRun \cup {NoRecord}]
<1> USE DEF TypeOK
<1>1. runs[r] \in BuildRun
  BY DEF NoRecord
<1>2. /\ runs'[r] = [runs[r] EXCEPT !.status = how]
      /\ \A q \in RunId : q # r => runs'[q] = runs[q]
      /\ runs'[r] \in BuildRun
      /\ runs'[r].status = how
  BY <1>1 DEF Finish, BuildRun
<1>3. runs' \in [RunId -> BuildRun \cup {NoRecord}]
  BY <1>2 DEF Finish
<1>4. ASSUME NEW q \in RunId, runs'[q].status = "running"
      PROVE  /\ task'[runs'[q].task].run = q
             /\ task'[runs'[q].task].rev = runs'[q].base
  <2>1. q # r /\ runs'[q] = runs[q] /\ runs[q].status = "running"
    BY <1>2, <1>4
  <2>2. runs[q].task \in Task /\ runs[q].task # runs[r].task
    BY <2>1 DEF OneWriterPerTask, NoRecord, BuildRun
  <2>3. task[runs[q].task].run = q /\ task[runs[q].task].rev = runs[q].base
    BY <2>1 DEF OneWriterPerTask
  <2>4. /\ task'[runs[q].task].run = task[runs[q].task].run
        /\ task'[runs[q].task].rev = task[runs[q].task].rev
    BY <2>2
  <2> QED
    BY <2>1, <2>3, <2>4
<1>5. ASSUME NEW t \in Task, task'[t].run # NoRun
      PROVE  runs'[task'[t].run].status = "running" /\ runs'[task'[t].run].task = t
  <2>1. t # runs[r].task /\ task[t].run = task'[t].run /\ task[t].run # NoRun
    BY <1>5
  <2>2. task[t].run \in RunId
    BY <2>1 DEF TaskState
  <2>3. runs[task[t].run].status = "running" /\ runs[task[t].run].task = t
    BY <2>1 DEF OneWriterPerTask
  <2> QED
    BY <2>1, <2>2, <2>3, <1>2
<1> QED
  BY <1>3, <1>4, <1>5 DEF OneWriterPerTask

\* Superseding whoever writes t closes that run and only that one
\* (service.py:200-223).
LEMMA SupersededRun ==
  ASSUME TypeOK, OneWriterPerTask, NEW t \in Task,
         runs' = SupersededRuns(t),
         task' \in [Task -> TaskState],
         task'[t].run = NoRun,
         \A c \in Task : c # t => task'[c].run = task[c].run /\ task'[c].rev = task[c].rev
  PROVE  OneWriterPerTask' /\ runs' \in [RunId -> BuildRun \cup {NoRecord}]
<1> USE DEF TypeOK
<1>1. CASE task[t].run = NoRun
  <2>1. runs' = runs
    BY <1>1, GraphAssumption DEF SupersededRuns
  <2>2. ASSUME NEW q \in RunId, runs[q].status = "running"
        PROVE  runs[q].task \in Task /\ runs[q].task # t
    BY <2>2, <1>1, GraphAssumption DEF OneWriterPerTask, NoRecord, BuildRun
  <2>3. \A q \in RunId : runs'[q].status = "running" =>
          task'[runs'[q].task].run = q /\ task'[runs'[q].task].rev = runs'[q].base
    BY <2>1, <2>2 DEF OneWriterPerTask
  <2>4. \A c \in Task : task'[c].run # NoRun =>
          runs'[task'[c].run].status = "running" /\ runs'[task'[c].run].task = c
    BY <2>1 DEF OneWriterPerTask
  <2> QED
    BY <2>1, <2>3, <2>4 DEF OneWriterPerTask
<1>2. CASE task[t].run # NoRun
  <2> DEFINE r == task[t].run
  <2>1. r \in RunId /\ runs[r].status = "running" /\ runs[r].task = t
    BY <1>2 DEF OneWriterPerTask, TaskState
  <2>2. runs' = Finish(runs, r, "conflict")
    BY <2>1 DEF SupersededRuns, Finish
  <2> HIDE DEF r
  <2> QED
    BY <2>1, <2>2, ClosedRun
<1> QED
  BY <1>1, <1>2

-------------------------------------------------------------------------------
(* One lemma per kind of action: it preserves the invariant and revives no *)
(* stale task                                                              *)

NoRevival ==
  \A t \in Task :
    task[t].status = "stale" /\ task'[t].status \in Usable
      => task'[t].rev = task[t].rev + 1

LEMMA InvariantParts ==
  IInv <=> /\ Sound(task, artifact)
           /\ NothingLost(task, artifact)
           /\ artifact \in [Task -> Seq(Artifact)]
           /\ runs \in [RunId -> BuildRun \cup {NoRecord}]
           /\ OneWriterPerTask
  BY DEF IInv, TypeOK, Sound, NothingLost, NoLostRevision, Unwritten, UnwrittenTasks,
         NoneLeftBlocked, NoTaskLeftBlocked, Fresh, UsableIsFresh, Usable

LEMMA InvariantPartsNext ==
  IInv' <=> /\ Sound(task', artifact')
            /\ NothingLost(task', artifact')
            /\ artifact' \in [Task -> Seq(Artifact)]
            /\ runs' \in [RunId -> BuildRun \cup {NoRecord}]
            /\ OneWriterPerTask'
  BY DEF IInv, TypeOK, Sound, NothingLost, NoLostRevision, Unwritten, UnwrittenTasks,
         NoneLeftBlocked, NoTaskLeftBlocked, Fresh, UsableIsFresh, Usable,
         DependenciesComplete

LEMMA InitialState == Init => IInv
<1> SUFFICES ASSUME Init PROVE IInv
  OBVIOUS
<1>1. /\ \A t \in Task : /\ task[t].status = IF Deps[t] = {} THEN "ready" ELSE "blocked"
                         /\ task[t].rev = 0
                         /\ task[t].run = NoRun
                         /\ task[t] \in TaskState
      /\ task \in [Task -> TaskState]
  BY DEF Init, TaskState, Status, Revisions, NoDeps
<1>2. Sound(task, artifact)
  <2>1. Unwritten(task)
    BY <1>1 DEF Unwritten
  <2>2. NoneLeftBlocked(task)
    BY <1>1, GraphFacts DEF NoneLeftBlocked, DependenciesComplete
  <2>3. Fresh(task, artifact)
    BY <1>1 DEF Fresh, Usable
  <2> QED
    BY <1>1, <2>1, <2>2, <2>3 DEF Sound
<1>3. artifact \in [Task -> Seq(Artifact)] /\ NothingLost(task, artifact)
  BY <1>1 DEF Init, NothingLost
<1>4. runs \in [RunId -> BuildRun \cup {NoRecord}] /\ OneWriterPerTask
  BY <1>1 DEF Init, OneWriterPerTask, NoRecord
<1> QED
  BY <1>2, <1>3, <1>4, InvariantParts

\* A run that is started and the task it writes point at each other
\* (service.py:275-344).
LEMMA StartedRun ==
  ASSUME TypeOK, OneWriterPerTask,
         NEW t \in Task, NEW r \in RunId, NEW again, StartRun(t, r, again)
  PROVE  /\ task' \in [Task -> TaskState]
         /\ task' = [task EXCEPT ![t] = task'[t]]
         /\ task'[t].status = "running" /\ task'[t].run = r
         /\ task'[t].rev = task[t].rev /\ task'[t].deps = task[t].deps
         /\ \A c \in Task : c # t => task'[c] = task[c]
         /\ artifact' = artifact
         /\ runs' \in [RunId -> BuildRun \cup {NoRecord}]
         /\ runs'[r] = [status |-> "running", task |-> t, base |-> task[t].rev,
                        deps |-> DependencyRevisions(task, t)]
         /\ \A q \in RunId : q # r => runs'[q] = runs[q]
         /\ OneWriterPerTask'
<1> DEFINE s == [task[t] EXCEPT !.status = "running", !.run = r]
<1> USE DEF TypeOK
<1>1. /\ task' = [task EXCEPT ![t] = s]
      /\ artifact' = artifact
      /\ task[t] \in TaskState
      /\ runs' = [runs EXCEPT ![r] = [status |-> "running", task |-> t, base |-> task[t].rev,
                                      deps |-> DependencyRevisions(task, t)]]
  BY DEF StartRun
<1>2. /\ s \in TaskState /\ s.rev = task[t].rev /\ s.status = "running" /\ s.run = r
      /\ s.deps = task[t].deps
  BY <1>1 DEF TaskState, Status
<1> HIDE DEF s
<1>3. /\ task' \in [Task -> TaskState]
      /\ task'[t] = s /\ \A c \in Task : c # t => task'[c] = task[c]
  BY <1>1, <1>2
<1>4. runs' \in [RunId -> BuildRun \cup {NoRecord}]
  <2>1. \A c \in Task : task[c].rev \in Nat
    BY DEF TaskState
  <2>2. DependencyRevisions(task, t) \in Revisions
    BY <2>1 DEF DependencyRevisions, Revisions
  <2> QED
    BY <1>1, <2>1, <2>2 DEF BuildRun
<1>5. runs[r].status # "running" /\ task[t].run = NoRun
  BY DEF StartRun, NoRecord
<1>6. ASSUME NEW q \in RunId, runs'[q].status = "running"
      PROVE  /\ task'[runs'[q].task].run = q
             /\ task'[runs'[q].task].rev = runs'[q].base
  <2>1. CASE q = r
    BY <2>1, <1>1, <1>2, <1>3
  <2>2. CASE q # r
    <3>1. runs'[q] = runs[q] /\ runs[q].status = "running"
      BY <2>2, <1>6, <1>1
    <3>2. /\ runs[q].task \in Task
          /\ task[runs[q].task].run = q
          /\ task[runs[q].task].rev = runs[q].base
      BY <3>1 DEF OneWriterPerTask, NoRecord, BuildRun
    <3>3. runs[q].task # t
      BY <3>2, <1>5, GraphAssumption
    <3>4. task'[runs[q].task] = task[runs[q].task]
      BY <3>2, <3>3, <1>3
    <3> QED
      BY <3>1, <3>2, <3>4
  <2> QED
    BY <2>1, <2>2
<1>7. ASSUME NEW c \in Task, task'[c].run # NoRun
      PROVE  runs'[task'[c].run].status = "running" /\ runs'[task'[c].run].task = c
  <2>1. CASE c = t
    BY <2>1, <1>1, <1>2, <1>3
  <2>2. CASE c # t
    <3>1. task'[c] = task[c] /\ task[c].run \in RunId
      BY <2>2, <1>7, <1>3 DEF TaskState
    <3>2. runs[task[c].run].status = "running" /\ runs[task[c].run].task = c
      BY <3>1, <1>7 DEF OneWriterPerTask
    <3>3. task[c].run # r
      BY <3>2, <1>5
    <3> QED
      BY <3>1, <3>2, <3>3, <1>1
  <2> QED
    BY <2>1, <2>2
<1>8. OneWriterPerTask'
  BY <1>6, <1>7 DEF OneWriterPerTask
<1>9. /\ runs'[r] = [status |-> "running", task |-> t, base |-> task[t].rev,
                     deps |-> DependencyRevisions(task, t)]
      /\ \A q \in RunId : q # r => runs'[q] = runs[q]
  BY <1>1
<1> QED
  BY <1>1, <1>2, <1>3, <1>4, <1>8, <1>9

LEMMA StartRunSafe ==
  ASSUME IInv, NEW t \in Task, NEW r \in RunId, NEW again \in BOOLEAN, StartRun(t, r, again)
  PROVE  IInv' /\ NoRevival
<1> DEFINE s == task'[t]
<1>1. /\ s \in TaskState
      /\ s.status = "running" /\ s.run = r /\ s.rev = task[t].rev
      /\ task' = [task EXCEPT ![t] = s]
      /\ \A c \in Task : c # t => task'[c] = task[c]
      /\ artifact' = artifact
      /\ runs' \in [RunId -> BuildRun \cup {NoRecord}]
      /\ OneWriterPerTask'
  BY StartedRun DEF IInv
<1>2. Sound(task', artifact')
  <2> HIDE DEF s
  <2> QED
    BY <1>1, HandOver, InvariantParts DEF Usable
<1>3. NothingLost(task', artifact') /\ artifact' \in [Task -> Seq(Artifact)]
  BY <1>1, InvariantParts DEF NothingLost
<1>4. NoRevival
  BY <1>1 DEF NoRevival, Usable
<1> QED
  BY <1>1, <1>2, <1>3, <1>4, InvariantPartsNext

\* A live run's task, as the invariant knows it
LEMMA LiveRun ==
  ASSUME TypeOK, OneWriterPerTask, NEW r \in RunId, runs[r].status = "running"
  PROVE  /\ runs[r] \in BuildRun
         /\ runs[r].task \in Task
         /\ task[runs[r].task] \in TaskState
         /\ task[runs[r].task].run = r
         /\ task[runs[r].task].rev = runs[r].base
  BY DEF TypeOK, OneWriterPerTask, NoRecord, BuildRun

\* Every way of giving a run up without an artifact
LEMMA ReleaseSafe ==
  ASSUME IInv, NEW r \in RunId, runs[r].status = "running",
         NEW how \in {"failed", "conflict"}, runs' = Finish(runs, r, how),
         NEW s \in TaskState,
         s.rev = task[runs[r].task].rev, s.run = NoRun,
         s.status \notin Usable \cup {"blocked"},
         task' = [task EXCEPT ![runs[r].task] = s],
         artifact' = artifact
  PROVE  IInv' /\ NoRevival
<1> DEFINE t == runs[r].task
<1>1. t \in Task
  BY LiveRun DEF IInv
<1> HIDE DEF t
<1>2. Sound(task', artifact')
  BY <1>1, HandOver, InvariantParts DEF t
<1>3. /\ task' \in [Task -> TaskState]
      /\ task'[t] = s
      /\ \A c \in Task : c # t => task'[c] = task[c]
  BY <1>1, InvariantParts DEF Sound, t
<1>4. NothingLost(task', artifact') /\ artifact' \in [Task -> Seq(Artifact)]
  BY <1>1, <1>3, InvariantParts DEF NothingLost, t
<1>5. OneWriterPerTask' /\ runs' \in [RunId -> BuildRun \cup {NoRecord}]
  BY <1>3, ClosedRun DEF t, IInv
<1>6. NoRevival
  BY <1>3 DEF NoRevival, Usable
<1> QED
  BY <1>2, <1>4, <1>5, <1>6, InvariantPartsNext

LEMMA FailRunSafe ==
  ASSUME IInv, NEW r \in RunId, FailRun(r, ReleasedAsFailed(r))
  PROVE  IInv' /\ NoRevival
<1> DEFINE t == runs[r].task
           s == [task[t] EXCEPT !.status = "validation_failed", !.run = NoRun]
<1>1. runs[r].status = "running" /\ t \in Task /\ task[t] \in TaskState
  BY LiveRun DEF FailRun, IInv
<1>2. s \in TaskState /\ s.rev = task[t].rev /\ s.run = NoRun /\ s.status = "validation_failed"
  BY <1>1 DEF TaskState, Status
<1>3. ReleasedAsFailed(r) = s
  BY <1>1, InvariantParts DEF ReleasedAsFailed, Rejected, Sound
<1> HIDE DEF s
<1>4. task' = [task EXCEPT ![t] = s] /\ runs' = Finish(runs, r, "failed") /\ artifact' = artifact
  BY <1>3 DEF FailRun
<1> QED
  BY <1>1, <1>2, <1>4, ReleaseSafe DEF Usable

LEMMA ConflictSafe ==
  ASSUME IInv, NEW r \in RunId, runs[r].status = "running", Conflict(r, ReleasedAsStale(r))
  PROVE  IInv' /\ NoRevival
<1> DEFINE t == runs[r].task
           s == [task[t] EXCEPT !.status = "stale", !.run = NoRun]
<1>1. t \in Task /\ task[t] \in TaskState /\ task[t].run = r
  BY LiveRun DEF IInv
<1>2. s \in TaskState /\ s.rev = task[t].rev /\ s.run = NoRun /\ s.status = "stale"
  BY <1>1 DEF TaskState, Status
<1>3. /\ task' = [task EXCEPT ![t] = s]
      /\ runs' = Finish(runs, r, "conflict")
      /\ artifact' = artifact
  BY <1>1 DEF Conflict, ReleasedAsStale
<1> HIDE DEF s
<1> QED
  BY <1>2, <1>3, ReleaseSafe DEF Usable

\* Committing what a live run was asked for: the run still owns the snapshot
\* it read, so its inputs are the current revisions.
LEMMA CommitRunSafe ==
  ASSUME IInv, NEW r \in RunId, CommitRun(r, runs[r].deps)
  PROVE  IInv' /\ NoRevival
<1> DEFINE t == runs[r].task
<1>1. /\ runs[r].status = "running"
      /\ runs[r] \in BuildRun /\ t \in Task
      /\ runs[r].deps = DependencyRevisions(task, t)
      /\ runs[r].deps \in Revisions
      /\ task[t].rev = runs[r].base
      /\ WriteArtifact(t, task[t].rev, runs[r].deps)
      /\ task' = Committed(task, t)
      /\ runs' = Finish(runs, r, "committed")
  BY LiveRun DEF CommitRun, RunIsCurrent, BuildRun, IInv
<1>2. \A d \in Deps[t] : runs[r].deps[d] = task[d].rev
  BY <1>1, GraphAssumption DEF DependencyRevisions
<1> HIDE DEF t
<1>3. /\ Sound(task', artifact')
      /\ NothingLost(task', artifact')
      /\ artifact' \in [Task -> Seq(Artifact)]
      /\ task'[t].run = NoRun
      /\ \A c \in Task : c # t => task'[c].run = task[c].run /\ task'[c].rev = task[c].rev
      /\ \A c \in Task : c # t /\ task'[c].status \in Usable => task'[c] = task[c]
      /\ task'[t].rev = task[t].rev + 1
  <2>1. /\ artifact \in [Task -> Seq(Artifact)]
        /\ Sound(task, artifact)
        /\ NothingLost(task, artifact)
    BY InvariantParts
  <2> QED
    BY <1>1, <1>2, <2>1, CommitSound
<1>4. OneWriterPerTask' /\ runs' \in [RunId -> BuildRun \cup {NoRecord}]
  BY <1>1, <1>3, ClosedRun DEF t, Sound, IInv
<1>5. NoRevival
  BY <1>1, <1>3 DEF NoRevival, Usable
<1> QED
  BY <1>3, <1>4, <1>5, InvariantPartsNext

\* A passing candidate committed by an author, over a manifest from which the
\* task's run, if any, has been taken (commit_candidate, edit_artifact)
LEMMA AuthoredCommitSafe ==
  ASSUME IInv, NEW t \in Task,
         DependenciesComplete(task, t),
         WriteArtifact(t, task[t].rev, DependencyRevisions(task, t)),
         task' = Committed(task, t),
         runs' = SupersededRuns(t)
  PROVE  IInv' /\ NoRevival
<1>1. /\ artifact \in [Task -> Seq(Artifact)]
      /\ Sound(task, artifact)
      /\ NothingLost(task, artifact)
      /\ task \in [Task -> TaskState]
  BY InvariantParts DEF Sound
<1>2. /\ DependencyRevisions(task, t) \in Revisions
      /\ \A d \in Deps[t] : DependencyRevisions(task, t)[d] = task[d].rev
  BY <1>1, GraphAssumption DEF DependencyRevisions, Revisions, TaskState
<1>3. /\ Sound(task', artifact')
      /\ NothingLost(task', artifact')
      /\ artifact' \in [Task -> Seq(Artifact)]
      /\ task'[t].run = NoRun
      /\ \A c \in Task : c # t => task'[c].run = task[c].run /\ task'[c].rev = task[c].rev
      /\ \A c \in Task : c # t /\ task'[c].status \in Usable => task'[c] = task[c]
      /\ task'[t].rev = task[t].rev + 1
  BY <1>1, <1>2, CommitSound
<1>4. OneWriterPerTask' /\ runs' \in [RunId -> BuildRun \cup {NoRecord}]
  BY <1>3, SupersededRun DEF Sound, IInv
<1>5. NoRevival
  BY <1>3 DEF NoRevival, Usable
<1> QED
  BY <1>3, <1>4, <1>5, InvariantPartsNext

\* A failing candidate of an author, and the manifest invalidate_task
\* propagates from
LEMMA RejectedFacts ==
  ASSUME IInv, NEW t \in Task
  PROVE  LET new == Rejected(task, t) IN
         /\ Sound(new, artifact)
         /\ new[t].rev = task[t].rev
         /\ new[t].run = NoRun
         /\ new[t].status = "validation_failed"
         /\ \A c \in Task : c # t => new[c] = task[c]
<1> DEFINE s == [task[t] EXCEPT !.status = "validation_failed", !.run = NoRun]
           new == Rejected(task, t)
<1>1. task \in [Task -> TaskState] /\ task[t] \in TaskState
  BY InvariantParts DEF Sound
<1>2. s \in TaskState /\ s.rev = task[t].rev /\ s.run = NoRun /\ s.status = "validation_failed"
  BY <1>1 DEF TaskState, Status
<1>3. new = [task EXCEPT ![t] = s]
  BY <1>1 DEF Rejected
<1> HIDE DEF s, new
<1>4. Sound(new, artifact)
  BY <1>2, <1>3, HandOver, InvariantParts DEF Usable
<1>5. new[t] = s /\ \A c \in Task : c # t => new[c] = task[c]
  BY <1>1, <1>3
<1> QED
  BY <1>2, <1>4, <1>5 DEF new

LEMMA AuthoredRejectSafe ==
  ASSUME IInv, NEW t \in Task,
         task' = Rejected(task, t),
         runs' = SupersededRuns(t),
         artifact' = artifact
  PROVE  IInv' /\ NoRevival
<1>1. /\ Sound(task', artifact')
      /\ task'[t].rev = task[t].rev
      /\ task'[t].run = NoRun
      /\ task'[t].status = "validation_failed"
      /\ \A c \in Task : c # t => task'[c] = task[c]
  BY RejectedFacts
<1>2. OneWriterPerTask' /\ runs' \in [RunId -> BuildRun \cup {NoRecord}]
  BY <1>1, SupersededRun DEF Sound, IInv
<1>3. NothingLost(task', artifact') /\ artifact' \in [Task -> Seq(Artifact)]
  BY <1>1, InvariantParts DEF NothingLost
<1>4. NoRevival
  BY <1>1 DEF NoRevival, Usable
<1> QED
  BY <1>1, <1>2, <1>3, <1>4, InvariantPartsNext

\* The task's own run field does not matter to what is committed or rejected
LEMMA SupersedeFirst ==
  ASSUME TypeOK, NEW t \in Task
  PROVE  /\ Committed(Supersede(task, t), t) = Committed(task, t)
         /\ Rejected(Supersede(task, t), t) = Rejected(task, t)
<1> DEFINE old == Supersede(task, t)
<1>1. task \in [Task -> TaskState] /\ task[t] \in TaskState
  BY DEF TypeOK
<1>2. /\ old[t].rev = task[t].rev
      /\ old[t] = [task[t] EXCEPT !.run = NoRun]
      /\ \A c \in Task : c # t => old[c] = task[c]
      /\ old = [task EXCEPT ![t] = old[t]]
  BY <1>1 DEF Supersede, TaskState
<1>3. DependencyRevisions(old, t) = DependencyRevisions(task, t)
  BY <1>2 DEF DependencyRevisions
<1> HIDE DEF old
<1>4. ASSUME NEW rec
      PROVE  [old EXCEPT ![t] = rec] = [task EXCEPT ![t] = rec]
  BY <1>1, <1>2
<1>5. Committed(old, t) = Committed(task, t)
  BY <1>2, <1>3, <1>4 DEF Committed
<1>6. [old[t] EXCEPT !.status = "validation_failed", !.run = NoRun]
        = [task[t] EXCEPT !.status = "validation_failed", !.run = NoRun]
  BY <1>1, <1>2 DEF TaskState
<1>7. Rejected(old, t) = Rejected(task, t)
  <2>1. Rejected(old, t) =
          [old EXCEPT ![t] = [old[t] EXCEPT !.status = "validation_failed", !.run = NoRun]]
    BY <1>1, <1>2 DEF Rejected
  <2>2. Rejected(task, t) =
          [task EXCEPT ![t] = [task[t] EXCEPT !.status = "validation_failed", !.run = NoRun]]
    BY <1>1 DEF Rejected
  <2> QED
    BY <2>1, <2>2, <1>4, <1>6
<1> QED
  BY <1>5, <1>7 DEF old

LEMMA EditArtifactSafe ==
  ASSUME IInv, NEW t \in Task, NEW seen, NEW passed \in BOOLEAN,
         EditArtifact(t, seen, passed)
  PROVE  IInv' /\ NoRevival
<1>1. seen = task[t].rev /\ DependenciesComplete(task, t) /\ runs' = SupersededRuns(t)
  BY DEF EditArtifact
<1>2. CASE passed
  <2>1. /\ WriteArtifact(t, task[t].rev, DependencyRevisions(task, t))
        /\ task' = Committed(task, t)
    BY <1>1, <1>2, SupersedeFirst DEF EditArtifact, IInv
  <2> QED
    BY <1>1, <2>1, AuthoredCommitSafe
<1>3. CASE ~passed
  <2>1. task' = Rejected(task, t) /\ artifact' = artifact
    BY <1>3, SupersedeFirst DEF EditArtifact, IInv
  <2> QED
    BY <1>1, <2>1, AuthoredRejectSafe
<1> QED
  BY <1>2, <1>3

LEMMA CommitCandidateSafe ==
  ASSUME IInv, NEW t \in Task, NEW seen, NEW passed \in BOOLEAN,
         CommitCandidate(t, seen, passed)
  PROVE  IInv' /\ NoRevival
<1>1. seen = task[t].rev /\ DependenciesComplete(task, t) /\ task[t].run = NoRun /\ runs' = runs
  BY DEF CommitCandidate
<1>2. runs' = SupersededRuns(t)
  BY <1>1, GraphAssumption, InvariantParts DEF SupersededRuns
<1>3. CASE passed
  BY <1>1, <1>2, <1>3, AuthoredCommitSafe DEF CommitCandidate
<1>4. CASE ~passed
  BY <1>1, <1>2, <1>4, AuthoredRejectSafe DEF CommitCandidate
<1> QED
  BY <1>3, <1>4

LEMMA InvalidateTaskSafe ==
  ASSUME IInv, NEW t \in Task, InvalidateTask(t)
  PROVE  IInv' /\ NoRevival
<1> DEFINE tk == Rejected(task, t)
<1>1. /\ task' = Propagate(tk, t)
      /\ runs' = SupersededRuns(t)
      /\ artifact' = artifact
  BY SupersedeFirst DEF InvalidateTask, IInv
<1>2. /\ Sound(tk, artifact)
      /\ tk[t].rev = task[t].rev
      /\ tk[t].run = NoRun
      /\ tk[t].status = "validation_failed"
      /\ \A c \in Task : c # t => tk[c] = task[c]
  BY RejectedFacts
<1> HIDE DEF tk
<1>3. Sound(task', artifact')
  BY <1>1, <1>2, PropagateSound
<1>4. \A c \in Task : /\ task'[c].rev = tk[c].rev
                      /\ task'[c].run = tk[c].run
                      /\ task'[c].status \in Usable => task'[c] = tk[c]
  <2> DEFINE after == Propagate(tk, t)
  <2>1. tk \in [Task -> TaskState] /\ Unwritten(tk)
    BY <1>2 DEF Sound
  <2>2. \A c \in Task : /\ after[c].rev = tk[c].rev
                        /\ after[c].run = tk[c].run
                        /\ after[c].status \in Usable =>
                             after[c] = tk[c] /\ c \notin Descendants[t]
    BY <2>1, PropagateFacts
  <2> QED
    BY <1>1, <2>2
<1>5. OneWriterPerTask' /\ runs' \in [RunId -> BuildRun \cup {NoRecord}]
  BY <1>1, <1>2, <1>3, <1>4, SupersededRun DEF Sound, IInv
<1>6. NothingLost(task', artifact') /\ artifact' \in [Task -> Seq(Artifact)]
  <2>1. \A c \in Task : task'[c].rev = task[c].rev
    BY <1>2, <1>4
  <2>2. NothingLost(task, artifact) /\ artifact \in [Task -> Seq(Artifact)]
    BY InvariantParts
  <2> QED
    BY <1>1, <2>1, <2>2 DEF NothingLost
<1>7. NoRevival
  BY <1>2, <1>4 DEF NoRevival, Usable
<1> QED
  BY <1>3, <1>5, <1>6, <1>7, InvariantPartsNext

LEMMA AcceptReviewSafe ==
  ASSUME IInv, NEW t \in Task, NEW seen, AcceptReview(t, seen)
  PROVE  IInv' /\ NoRevival
<1> DEFINE tk == [task EXCEPT ![t].status = "completed"]
<1>1. /\ task' = RefreshUnmaterialized(tk)
      /\ runs' = runs /\ artifact' = artifact
      /\ task[t].status = "review_required"
  BY DEF AcceptReview
<1>2. /\ task \in [Task -> TaskState]
      /\ Unwritten(task)
      /\ Fresh(task, artifact)
  BY InvariantParts DEF Sound
<1>3. /\ tk \in [Task -> TaskState]
      /\ tk[t] = [task[t] EXCEPT !.status = "completed"]
      /\ tk[t].status = "completed"
      /\ \A c \in Task : c # t => tk[c] = task[c]
      /\ \A c \in Task : tk[c].rev = task[c].rev /\ tk[c].run = task[c].run
  BY <1>2 DEF TaskState, Status
<1> HIDE DEF tk
<1>4. Unwritten(tk)
  <2>1. task[t].rev # 0
    BY <1>1, <1>2 DEF Fresh, Usable
  <2> DEFINE Kept(c) ==
        /\ tk[c].status = "blocked" => tk[c].rev = 0 /\ tk[c].run = NoRun
        /\ tk[c].rev = 0 /\ tk[c].run # NoRun => tk[c].status = "running"
  <2>2. Kept(t)
    BY <1>3, <2>1
  <2>3. ASSUME NEW c \in Task, c # t
        PROVE  Kept(c)
    <3>1. tk[c] = task[c]
      BY <1>3, <2>3
    <3> QED
      BY <1>2, <3>1 DEF Unwritten
  <2> QED
    BY <2>2, <2>3 DEF Unwritten
<1>5. /\ task' \in [Task -> TaskState]
      /\ \A c \in Task : /\ task'[c].rev = tk[c].rev
                         /\ task'[c].run = tk[c].run
                         /\ task'[c].status \in Usable => task'[c] = tk[c]
      /\ Unwritten(task')
      /\ NoneLeftBlocked(task')
  <2> DEFINE after == RefreshUnmaterialized(tk)
  <2>1. /\ after \in [Task -> TaskState]
        /\ \A c \in Task : /\ after[c].rev = tk[c].rev
                           /\ after[c].run = tk[c].run
                           /\ after[c].deps = tk[c].deps
                           /\ ~Refreshable(tk[c]) => after[c] = tk[c]
                           /\ Refreshable(tk[c]) => after[c].status \in {"ready", "blocked"}
        /\ Unwritten(after)
        /\ NoneLeftBlocked(after)
    BY <1>3, <1>4, RefreshFacts
  <2> QED
    BY <1>1, <2>1 DEF Usable
<1>6. \A c \in Task : task'[c].status \in Usable => task[c].status \in Usable
  BY <1>1, <1>3, <1>5 DEF Usable
<1>7. \A c \in Task : task'[c].rev = task[c].rev /\ task'[c].run = task[c].run
  BY <1>3, <1>5
<1>8. Fresh(task', artifact')
  BY <1>1, <1>2, <1>6, <1>7, GraphFacts DEF Fresh
<1>9. NothingLost(task', artifact') /\ artifact' \in [Task -> Seq(Artifact)]
  BY <1>1, <1>7, InvariantParts DEF NothingLost
<1>10. OneWriterPerTask' /\ runs' \in [RunId -> BuildRun \cup {NoRecord}]
  <2>1. ASSUME NEW r \in RunId, runs[r].status = "running"
        PROVE  task'[runs[r].task].run = r /\ task'[runs[r].task].rev = runs[r].base
    <3>1. /\ runs[r].task \in Task
          /\ task[runs[r].task].run = r
          /\ task[runs[r].task].rev = runs[r].base
      BY <2>1, LiveRun DEF IInv
    <3> QED
      BY <3>1, <1>7
  <2>2. ASSUME NEW c \in Task, task'[c].run # NoRun
        PROVE  runs[task'[c].run].status = "running" /\ runs[task'[c].run].task = c
    BY <2>2, <1>7 DEF IInv, OneWriterPerTask
  <2> QED
    BY <1>1, <2>1, <2>2, InvariantParts DEF OneWriterPerTask
<1>11. NoRevival
  BY <1>1, <1>3, <1>5 DEF NoRevival, Usable
<1> QED
  BY <1>5, <1>8, <1>9, <1>10, <1>11, InvariantPartsNext DEF Sound

-------------------------------------------------------------------------------
(* The theorems *)

\* No step of any author or runner breaks the invariant or makes a stale task
\* usable without a new revision.
THEOREM StepSafe ==
  ASSUME IInv, Next
  PROVE  IInv' /\ NoRevival
<1>1. CASE Author
  <2> PICK t \in Task :
        \/ InvalidateTask(t)
        \/ \E seen \in 0..MaxRevision : AcceptReview(t, seen)
        \/ \E passed \in BOOLEAN :
             \/ RevalidateCurrent(t, passed)
             \/ \E seen \in 0..MaxRevision :
                  EditArtifact(t, seen, passed) \/ CommitCandidate(t, seen, passed)
    BY <1>1 DEF Author
  <2>1. CASE InvalidateTask(t)
    BY <2>1, InvalidateTaskSafe
  <2>2. ASSUME NEW seen \in 0..MaxRevision, AcceptReview(t, seen)
        PROVE  IInv' /\ NoRevival
    BY <2>2, AcceptReviewSafe
  <2>3. ASSUME NEW passed \in BOOLEAN, RevalidateCurrent(t, passed)
        PROVE  IInv' /\ NoRevival
    BY <2>3, CommitCandidateSafe DEF RevalidateCurrent
  <2>4. ASSUME NEW passed \in BOOLEAN, NEW seen \in 0..MaxRevision,
               EditArtifact(t, seen, passed)
        PROVE  IInv' /\ NoRevival
    BY <2>4, EditArtifactSafe
  <2>5. ASSUME NEW passed \in BOOLEAN, NEW seen \in 0..MaxRevision,
               CommitCandidate(t, seen, passed)
        PROVE  IInv' /\ NoRevival
    BY <2>5, CommitCandidateSafe
  <2> QED
    BY <2>1, <2>2, <2>3, <2>4, <2>5
<1>2. CASE Runner
  <2> PICK r \in RunId :
        \/ \E t \in Task : StartRun(t, r, FALSE)
        \/ RunConflict(r)
        \/ CommitRun(r, runs[r].deps)
        \/ FailRun(r, ReleasedAsFailed(r))
        \/ ConflictRun(r, ReleasedAsStale(r))
    BY <1>2 DEF Runner
  <2>1. ASSUME NEW t \in Task, StartRun(t, r, FALSE)
        PROVE  IInv' /\ NoRevival
    BY <2>1, StartRunSafe
  <2>2. CASE RunConflict(r)
    BY <2>2, ConflictSafe DEF RunConflict
  <2>3. CASE CommitRun(r, runs[r].deps)
    BY <2>3, CommitRunSafe
  <2>4. CASE FailRun(r, ReleasedAsFailed(r))
    BY <2>4, FailRunSafe
  <2>5. CASE ConflictRun(r, ReleasedAsStale(r))
    BY <2>5, ConflictSafe DEF ConflictRun
  <2> QED
    BY <2>1, <2>2, <2>3, <2>4, <2>5
<1> QED
  BY <1>1, <1>2 DEF Next

LEMMA StutterSafe ==
  ASSUME IInv, UNCHANGED vars
  PROVE  IInv'
  BY DEF vars, IInv, TypeOK, OneWriterPerTask, NoLostRevision, UsableIsFresh,
         NoTaskLeftBlocked, UnwrittenTasks, DependenciesComplete

\* The inductive invariant holds in every reachable state.
THEOREM InductiveInvariant == Spec => []IInv
<1>1. IInv /\ [Next]_vars => IInv'
  BY StepSafe, StutterSafe
<1> QED
  BY InitialState, <1>1, PTL DEF Spec

\* Every record keeps the shape of its contract (contracts.py:224-400).
THEOREM TypeCorrect == Spec => []TypeOK
<1>1. IInv => TypeOK
  BY DEF IInv
<1> QED
  BY InductiveInvariant, <1>1, PTL

\* A task has at most one live run, and the run and the task agree on it
\* (service.py:200-223, 275-384).
THEOREM SingleWriter == Spec => []OneWriterPerTask
<1>1. IInv => OneWriterPerTask
  BY DEF IInv
<1> QED
  BY InductiveInvariant, <1>1, PTL

\* No revision is committed over one its author had not read
\* (service.py:113-137, store.py:157-183).
THEOREM RevisionsLinear == Spec => []NoLostRevision
<1>1. IInv => NoLostRevision
  BY DEF IInv
<1> QED
  BY InductiveInvariant, <1>1, PTL

\* What may be used was made from what is current (service.py:92-111,
\* 147-173, 364-384).
THEOREM Freshness == Spec => []UsableIsFresh
<1>1. IInv => UsableIsFresh
  BY DEF IInv
<1> QED
  BY InductiveInvariant, <1>1, PTL

\* A task shown as blocked has no artifact, nobody writes it, and one of its
\* dependencies is not completed (service.py:175-198).  The converse is not
\* claimed: a dependency whose edit fails validation leaves a ready task ready
\* (service.py:436-445, 703-740), and start_run refuses it instead.
THEOREM Unlocked == Spec => [](NoTaskLeftBlocked /\ UnwrittenTasks)
<1>1. IInv => NoTaskLeftBlocked /\ UnwrittenTasks
  BY DEF IInv
<1> QED
  BY InductiveInvariant, <1>1, PTL

\* A stale task becomes usable again only by a new revision
\* (service.py:178-181).
THEOREM NoSilentRevival == Spec => StaleNeedsNewRevision
<1>1. IInv /\ [Next]_vars =>
        [\A t \in Task :
           (task[t].status = "stale" /\ task'[t].status \in {"completed", "review_required"})
             => task'[t].rev = task[t].rev + 1]_vars
  BY StepSafe DEF NoRevival, Usable
<1> QED
  BY InductiveInvariant, <1>1, PTL DEF Spec, StaleNeedsNewRevision

-------------------------------------------------------------------------------
(* The versioned plan: what a step does to the statuses a reader sees *)

\* A commit makes t usable, or offers it to a reviewer, and takes usability
\* from exactly the tasks below t (service.py:386-518).
LEMMA CommitStatuses ==
  ASSUME IInv, NEW t \in Task, task' = Committed(task, t)
  PROVE  /\ task'[t].status = IF t \in ReviewTask THEN "review_required" ELSE "completed"
         /\ \A c \in Task \ {t} : \A s \in Usable :
              task'[c].status = s <=> task[c].status = s /\ c \notin Descendants[t]
<1> DEFINE new == Committed(task, t)
<1>1. task \in [Task -> TaskState] /\ Unwritten(task)
  BY InvariantParts DEF Sound
<1>2. /\ new[t].status = IF t \in ReviewTask THEN "review_required" ELSE "completed"
      /\ \A c \in Task \ {t} :
           /\ new[c].status \in Usable => new[c] = task[c] /\ c \notin Descendants[t]
           /\ c \notin Descendants[t] /\ task[c].status \in Usable => new[c] = task[c]
  BY <1>1, CommittedFacts
<1> HIDE DEF new
<1> QED
  BY <1>2 DEF Usable, new

-------------------------------------------------------------------------------
(* The ledger *)

\* Two sequences of the same length with the same elements are equal.
LEMMA SeqEqual ==
  ASSUME NEW E, NEW p \in Seq(E), NEW q \in Seq(E), Len(p) = Len(q),
         \A n \in 1..Len(p) : p[n] = q[n]
  PROVE  p = q
  OBVIOUS

\* What is one longer than a sequence and starts like it appends to it.
LEMMA AppendIs ==
  ASSUME NEW E, NEW p \in Seq(E), NEW e \in E,
         NEW q \in [1..Len(p) + 1 -> E],
         q[Len(p) + 1] = e,
         \A n \in 1..Len(p) : q[n] = p[n]
  PROVE  q = Append(p, e)
<1> DEFINE k == Len(p)
           r == Append(p, e)
<1>1. k \in Nat /\ r \in Seq(E) /\ Len(r) = k + 1 /\ r[k + 1] = e
      /\ \A n \in 1..k : r[n] = p[n] /\ p[n] \in E
  OBVIOUS
<1> HIDE DEF k, r
<1>2. ASSUME NEW n \in 1..k + 1
      PROVE  q[n] = r[n]
  <2>1. n = k + 1 \/ n \in 1..k
    BY <1>1
  <2> QED
    BY <2>1, <1>1 DEF k
<1>3. q \in Seq(E) /\ Len(q) = k + 1
  BY <1>1 DEF k
<1> QED
  BY <1>1, <1>2, <1>3, SeqEqual DEF r

\* The file of a new revision is a new entry of the ledger, with the inputs
\* the writer was given (store.py:157-183).
LEMMA LedgerGrows ==
  ASSUME IInv, NEW t \in Task, NEW inputs \in Revisions, NEW basis \in Nat,
         artifact' = [artifact EXCEPT
                        ![t] = Append(@, [basis |-> basis, inputs |-> inputs])]
  PROVE  Ledger' = [Ledger EXCEPT ![t] = Append(@, [d \in Deps[t] |-> inputs[d]])]
<1> DEFINE file == [basis |-> basis, inputs |-> inputs]
           entry == [d \in Deps[t] |-> inputs[d]]
           inputsOf(f) == [d \in Deps[t] |-> f.inputs[d]]
<1>1. artifact \in [Task -> Seq(Artifact)] /\ artifact[t] \in Seq(Artifact)
  BY InvariantParts
<1>2. /\ Len(artifact[t]) \in Nat
      /\ artifact'[t] = Append(artifact[t], file)
      /\ \A c \in Task \ {t} : artifact'[c] = artifact[c]
  BY <1>1
<1>3. /\ Len(artifact'[t]) = Len(artifact[t]) + 1
      /\ artifact'[t][Len(artifact[t]) + 1] = file
      /\ \A n \in 1..Len(artifact[t]) : artifact'[t][n] = artifact[t][n]
  BY <1>1, <1>2
<1>4. file.inputs = inputs
  OBVIOUS
<1> HIDE DEF file
<1>5. inputsOf(file) = entry
  BY <1>4
<1> DEFINE old == [n \in 1..Len(artifact[t]) |-> inputsOf(artifact[t][n])]
           new == [n \in 1..Len(artifact'[t]) |-> inputsOf(artifact'[t][n])]
<1> HIDE DEF inputsOf, entry
<1>6. new = Append(old, entry)
  <2> DEFINE E == {inputsOf(artifact[t][n]) : n \in 1..Len(artifact[t])} \cup {entry}
  <2>1. old \in Seq(E) /\ Len(old) = Len(artifact[t]) /\ entry \in E
    BY <1>2
  <2>2. new[Len(old) + 1] = entry /\ \A n \in 1..Len(old) : new[n] = old[n]
    BY <2>1, <1>2, <1>3, <1>5
  <2>3. new \in [1..Len(old) + 1 -> E]
    BY <2>1, <1>2, <1>3, <1>5
  <2> HIDE DEF E, old, new
  <2> QED
    BY <2>1, <2>2, <2>3, AppendIs
<1>7. Ledger[t] = old /\ Ledger'[t] = new
  BY DEF Ledger, inputsOf
<1> HIDE DEF old, new
<1>8. \A c \in Task \ {t} : Ledger'[c] = Ledger[c]
  BY <1>2 DEF Ledger
<1>9. Ledger = [c \in Task |-> Ledger[c]] /\ Ledger' = [c \in Task |-> Ledger'[c]]
  BY DEF Ledger
<1> QED
  BY <1>6, <1>7, <1>8, <1>9 DEF entry

-------------------------------------------------------------------------------
(* Every step is a step of the plan *)

\* A candidate made from the current revisions of its completed dependencies
\* is an entry of the plan, usable at once or offered (service.py:386-518).
LEMMA CommitIsEntry ==
  ASSUME IInv, NEW t \in Task, NEW inputs \in Revisions,
         DependenciesComplete(task, t),
         \A d \in Deps[t] : inputs[d] = task[d].rev,
         WriteArtifact(t, task[t].rev, inputs),
         task' = Committed(task, t)
  PROVE  Plan!Publish(t) \/ Plan!Offer(t)
<1>1. Deps[t] \subseteq WithStatus("completed")
  BY GraphAssumption DEF DependenciesComplete, WithStatus
<1>2. [d \in Deps[t] |-> inputs[d]] = Plan!CurrentInputs(t)
  <2>1. \A d \in Task : Len(Ledger[d]) = Len(artifact[d]) /\ Len(artifact[d]) = task[d].rev
    BY InvariantParts DEF Ledger, NothingLost
  <2>2. Deps[t] \subseteq Task
    BY GraphAssumption
  <2>3. \A d \in Deps[t] : inputs[d] = Len(Ledger[d])
    BY <2>1, <2>2
  <2>4. Plan!CurrentInputs(t) = [d \in Deps[t] |-> Len(Ledger[d])]
    BY DEF Plan!CurrentInputs
  <2> QED
    BY <2>3, <2>4
<1>3. task[t].rev \in Nat
  BY InvariantParts DEF Sound, TaskState
<1>4. Ledger' = [Ledger EXCEPT ![t] = Append(@, Plan!CurrentInputs(t))]
  <2> DEFINE entry == [d \in Deps[t] |-> inputs[d]]
  <2>1. artifact' = [artifact EXCEPT
          ![t] = Append(@, [basis |-> task[t].rev, inputs |-> inputs])]
    BY DEF WriteArtifact
  <2>2. Ledger' = [Ledger EXCEPT ![t] = Append(@, entry)]
    BY <1>3, <2>1, LedgerGrows
  <2>3. entry = Plan!CurrentInputs(t)
    BY <1>2
  <2> HIDE DEF entry
  <2> QED
    BY <2>2, <2>3
<1>5. Plan!Enter(t)
  BY <1>1, <1>4 DEF Plan!Enter
<1>6. /\ task'[t].status = IF t \in ReviewTask THEN "review_required" ELSE "completed"
      /\ \A c \in Task \ {t} : \A s \in Usable :
           task'[c].status = s <=> task[c].status = s /\ c \notin Descendants[t]
  BY CommitStatuses
<1>7. CASE t \notin ReviewTask
  <2>1. WithStatus("completed")' = (WithStatus("completed") \ Descendants[t]) \cup {t}
    BY <1>6, <1>7 DEF WithStatus, Usable
  <2>2. WithStatus("review_required")' =
          WithStatus("review_required") \ (Descendants[t] \cup {t})
    BY <1>6, <1>7 DEF WithStatus, Usable
  <2> QED
    BY <1>5, <2>1, <2>2 DEF Plan!Publish
<1>8. CASE t \in ReviewTask
  <2>1. WithStatus("completed")' = WithStatus("completed") \ (Descendants[t] \cup {t})
    BY <1>6, <1>8 DEF WithStatus, Usable
  <2>2. WithStatus("review_required")' =
          (WithStatus("review_required") \ Descendants[t]) \cup {t}
    BY <1>6, <1>8, GraphAssumption DEF WithStatus, Usable
  <2> QED
    BY <1>5, <2>1, <2>2 DEF Plan!Offer
<1> QED
  BY <1>7, <1>8

\* A step that writes no file and makes no task usable withdraws.
LEMMA WithdrawStep ==
  ASSUME artifact' = artifact,
         \A c \in Task : \A s \in Usable : task'[c].status = s => task[c].status = s
  PROVE  Plan!Withdraw
<1>1. Ledger' = Ledger
  BY DEF Ledger
<1> QED
  BY <1>1 DEF Plan!Withdraw, WithStatus, Usable

\* The task a run, a failure or a conflict hands over is not usable.
LEMMA HandOverWithdraws ==
  ASSUME NEW t \in Task, NEW s, s.status \notin Usable,
         task \in [Task -> TaskState],
         task' = [task EXCEPT ![t] = s],
         artifact' = artifact
  PROVE  Plan!Withdraw
<1>1. task'[t] = s /\ \A c \in Task \ {t} : task'[c] = task[c]
  OBVIOUS
<1> QED
  BY <1>1, WithdrawStep

\* What an author commits or rejects, over a manifest from which the task's
\* run, if any, has been taken (service.py:386-518)
LEMMA AuthoredPlanStep ==
  ASSUME IInv, NEW t \in Task, NEW passed \in BOOLEAN,
         DependenciesComplete(task, t),
         IF passed
         THEN /\ WriteArtifact(t, task[t].rev, DependencyRevisions(task, t))
              /\ task' = Committed(task, t)
         ELSE /\ task' = Rejected(task, t)
              /\ UNCHANGED artifact
  PROVE  Plan!Publish(t) \/ Plan!Offer(t) \/ Plan!Withdraw
<1>1. CASE passed
  <2>1. /\ DependencyRevisions(task, t) \in Revisions
        /\ \A d \in Deps[t] : DependencyRevisions(task, t)[d] = task[d].rev
    BY InvariantParts, GraphAssumption DEF Sound, DependencyRevisions, Revisions, TaskState
  <2> QED
    BY <1>1, <2>1, CommitIsEntry
<1>2. CASE ~passed
  <2>1. /\ task'[t].status = "validation_failed"
        /\ \A c \in Task \ {t} : task'[c] = task[c]
    BY <1>2, RejectedFacts
  <2> QED
    BY <1>2, <2>1, WithdrawStep DEF Usable
<1> QED
  BY <1>1, <1>2

LEMMA EditIsPlanStep ==
  ASSUME IInv, NEW t \in Task, NEW seen, NEW passed \in BOOLEAN,
         EditArtifact(t, seen, passed)
  PROVE  Plan!Publish(t) \/ Plan!Offer(t) \/ Plan!Withdraw
  BY SupersedeFirst, AuthoredPlanStep DEF EditArtifact, IInv

LEMMA CandidateIsPlanStep ==
  ASSUME IInv, NEW t \in Task, NEW seen, NEW passed \in BOOLEAN,
         CommitCandidate(t, seen, passed)
  PROVE  Plan!Publish(t) \/ Plan!Offer(t) \/ Plan!Withdraw
  BY AuthoredPlanStep DEF CommitCandidate

LEMMA InvalidateWithdraws ==
  ASSUME IInv, NEW t \in Task, InvalidateTask(t)
  PROVE  Plan!Withdraw
<1> DEFINE tk == Rejected(task, t)
           after == Propagate(tk, t)
<1>1. task' = after /\ artifact' = artifact
  BY SupersedeFirst DEF InvalidateTask, IInv
<1>2. /\ tk \in [Task -> TaskState] /\ Unwritten(tk)
      /\ tk[t].status = "validation_failed"
      /\ \A c \in Task \ {t} : tk[c] = task[c]
  BY RejectedFacts DEF Sound
<1> HIDE DEF tk
<1>3. \A c \in Task : after[c].status \in Usable => after[c] = tk[c] /\ c \notin Descendants[t]
  BY <1>2, PropagateFacts
<1> QED
  BY <1>1, <1>2, <1>3, WithdrawStep DEF Usable

\* Accepting refreshes the tasks below, none of which becomes usable by it
\* (service.py:175-198).
LEMMA AcceptIsAccept ==
  ASSUME IInv, NEW t \in Task, NEW seen, AcceptReview(t, seen)
  PROVE  Plan!Accept(t)
<1> DEFINE tk == [task EXCEPT ![t].status = "completed"]
<1>1. /\ task' = RefreshUnmaterialized(tk)
      /\ artifact' = artifact
      /\ task[t].status = "review_required"
  BY DEF AcceptReview
<1>2. /\ task \in [Task -> TaskState]
      /\ tk[t].status = "completed"
      /\ \A c \in Task \ {t} : tk[c] = task[c]
  BY InvariantParts DEF Sound, TaskState
<1> HIDE DEF tk
<1>3. ASSUME NEW c \in Task, NEW s \in Usable
      PROVE  task'[c].status = s <=> tk[c].status = s
  BY <1>1 DEF RefreshUnmaterialized, Refreshable, Usable
<1>4. Ledger' = Ledger
  BY <1>1 DEF Ledger
<1>5. /\ WithStatus("completed")' = WithStatus("completed") \cup {t}
      /\ WithStatus("review_required")' = WithStatus("review_required") \ {t}
  BY <1>1, <1>2, <1>3 DEF WithStatus, Usable
<1> QED
  BY <1>1, <1>4, <1>5 DEF Plan!Accept, WithStatus

\* Starting, failing or giving up a run withdraws at most; committing one is
\* an entry, since the run still owns the snapshot it was given
\* (service.py:200-384).
LEMMA RunIsPlanStep ==
  ASSUME IInv, NEW r \in RunId,
         \/ \E t \in Task : StartRun(t, r, FALSE)
         \/ RunConflict(r)
         \/ CommitRun(r, runs[r].deps)
         \/ FailRun(r, ReleasedAsFailed(r))
         \/ ConflictRun(r, ReleasedAsStale(r))
  PROVE  Plan!Withdraw \/ \E t \in Task : Plan!Publish(t) \/ Plan!Offer(t)
<1> DEFINE t == runs[r].task
<1>1. task \in [Task -> TaskState] /\ \A c \in Task : task[c] \in TaskState
  BY InvariantParts DEF Sound
<1>2. ASSUME NEW c \in Task, StartRun(c, r, FALSE)
      PROVE  Plan!Withdraw
  <2> DEFINE s == [task[c] EXCEPT !.status = "running", !.run = r]
  <2>1. /\ s.status \notin Usable
        /\ task' = [task EXCEPT ![c] = s] /\ artifact' = artifact
    BY <1>1, <1>2 DEF StartRun, TaskState, Usable
  <2> HIDE DEF s
  <2> QED
    BY <1>1, <2>1, HandOverWithdraws
<1>3. ASSUME runs[r].status = "running", Conflict(r, ReleasedAsStale(r))
      PROVE  Plan!Withdraw
  <2>1. t \in Task /\ task[t] \in TaskState /\ task[t].run = r
    BY <1>3, LiveRun DEF IInv
  <2>2. /\ ReleasedAsStale(r).status \notin Usable
        /\ task' = [task EXCEPT ![t] = ReleasedAsStale(r)] /\ artifact' = artifact
    BY <1>3, <2>1 DEF Conflict, ReleasedAsStale, TaskState, Usable
  <2> QED
    BY <1>1, <2>1, <2>2, HandOverWithdraws
<1>4. ASSUME FailRun(r, ReleasedAsFailed(r))
      PROVE  Plan!Withdraw
  <2>1. t \in Task
    BY <1>4, LiveRun DEF FailRun, IInv
  <2>2. /\ ReleasedAsFailed(r).status \notin Usable
        /\ task' = [task EXCEPT ![t] = ReleasedAsFailed(r)] /\ artifact' = artifact
    BY <1>4, <2>1, RejectedFacts DEF FailRun, ReleasedAsFailed, Usable
  <2> QED
    BY <1>1, <2>1, <2>2, HandOverWithdraws
<1>5. ASSUME CommitRun(r, runs[r].deps)
      PROVE  t \in Task /\ (Plan!Publish(t) \/ Plan!Offer(t))
  <2>1. /\ t \in Task
        /\ runs[r].deps \in Revisions
        /\ DependenciesComplete(task, t)
        /\ runs[r].deps = DependencyRevisions(task, t)
        /\ WriteArtifact(t, task[t].rev, runs[r].deps)
        /\ task' = Committed(task, t)
    BY <1>5, LiveRun DEF CommitRun, RunIsCurrent, BuildRun, IInv
  <2>2. \A d \in Deps[t] : runs[r].deps[d] = task[d].rev
    BY <2>1, GraphAssumption DEF DependencyRevisions
  <2> QED
    BY <2>1, <2>2, CommitIsEntry
<1> QED
  BY <1>2, <1>3, <1>4, <1>5 DEF RunConflict, ConflictRun, FailRun

\* No author and no runner does anything but a step of the plan.
LEMMA StepIsPlanStep ==
  ASSUME IInv, Next
  PROVE  Plan!Next
<1>1. CASE Author
  <2> PICK t \in Task :
        \/ InvalidateTask(t)
        \/ \E seen \in 0..MaxRevision : AcceptReview(t, seen)
        \/ \E passed \in BOOLEAN :
             \/ RevalidateCurrent(t, passed)
             \/ \E seen \in 0..MaxRevision :
                  EditArtifact(t, seen, passed) \/ CommitCandidate(t, seen, passed)
    BY <1>1 DEF Author
  <2>1. CASE InvalidateTask(t)
    BY <2>1, InvalidateWithdraws DEF Plan!Next
  <2>2. ASSUME NEW seen \in 0..MaxRevision, AcceptReview(t, seen)
        PROVE  Plan!Next
    BY <2>2, AcceptIsAccept DEF Plan!Next
  <2>3. ASSUME NEW passed \in BOOLEAN, RevalidateCurrent(t, passed)
        PROVE  Plan!Next
    BY <2>3, CandidateIsPlanStep DEF RevalidateCurrent, Plan!Next
  <2>4. ASSUME NEW passed \in BOOLEAN, NEW seen \in 0..MaxRevision,
               EditArtifact(t, seen, passed)
        PROVE  Plan!Next
    BY <2>4, EditIsPlanStep DEF Plan!Next
  <2>5. ASSUME NEW passed \in BOOLEAN, NEW seen \in 0..MaxRevision,
               CommitCandidate(t, seen, passed)
        PROVE  Plan!Next
    BY <2>5, CandidateIsPlanStep DEF Plan!Next
  <2> QED
    BY <2>1, <2>2, <2>3, <2>4, <2>5
<1>2. CASE Runner
  BY <1>2, RunIsPlanStep DEF Runner, Plan!Next
<1> QED
  BY <1>1, <1>2 DEF Next

-------------------------------------------------------------------------------
(* The refinement *)

\* The Build Graph implements the versioned plan: what a reader of the
\* manifest sees are ledgers that only grow, entries made from what was
\* current, and usability that comes only from a new entry
\* (service.py:92-173, 200-223, 364-440).
THEOREM Implementation == Spec => ImplementsPlan
<1>1. Init => Plan!Init
  <2> SUFFICES ASSUME Init PROVE Plan!Init
    OBVIOUS
  <2>1. \A t \in Task : artifact[t] = <<>> /\ task[t].status \notin Usable
    BY DEF Init, Usable
  <2>2. Ledger = [t \in Task |-> <<>>]
    <3>1. ASSUME NEW t \in Task
          PROVE  Ledger[t] = <<>>
      <4>1. /\ Ledger[t] \in [1..0 -> {}] /\ Len(Ledger[t]) = 0
        BY <2>1 DEF Ledger
      <4>2. Ledger[t] \in Seq({}) /\ <<>> \in Seq({}) /\ Len(<<>>) = 0
        BY <4>1
      <4> QED
        BY <4>1, <4>2, SeqEqual
    <3> QED
      BY <3>1 DEF Ledger
  <2> QED
    BY <2>1, <2>2 DEF Plan!Init, WithStatus, Usable
<1>2. IInv /\ [Next]_vars => [Plan!Next]_(Plan!planVars)
  <2>1. UNCHANGED vars => UNCHANGED Plan!planVars
    BY DEF vars, Plan!planVars, Ledger, WithStatus
  <2> QED
    BY <2>1, StepIsPlanStep
<1> QED
  BY <1>1, <1>2, InductiveInvariant, PTL DEF Spec, ImplementsPlan, Plan!Spec
===============================================================================
