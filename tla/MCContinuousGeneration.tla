------------------------ MODULE MCContinuousGeneration ------------------------
(***************************************************************************)
(* The model for TLC.                                                      *)
(***************************************************************************)
EXTENDS ContinuousGeneration, TLC

\* Jobs are interchangeable: nothing but the order of their starts, which is
\* part of the state, tells them apart.
JobSymmetry == Permutations(Job)

\* Bound: two jobs share the chapters up to Shared; only a job that is alone
\* may get as far as MaxChapter, more chapters than it was asked for
Shared == 2
SharedChapters ==
  (\A j \in Job : Exists(j)) =>
    /\ chapter <= Shared /\ asked <= Shared
    /\ \A j \in Job : next[j] <= Shared /\ draft[j] <= Shared /\ file[j].start <= Shared

===============================================================================
