SPECIFICATION Spec
CONSTANTS
  Job = {j1, j2}
  NoJob = NoJob
  Kinds = {"author", "directions", "review", "plain", "rewrite"}
  MaxChapter = 1
  MaxCrashes = 1
  MaxFaults = 1
CHECK_DEADLOCK FALSE
INVARIANTS
  ReviewKeepsItsSlot
  AdmittedIsSubmitted
  ReviewNotBesideContinuous
  NoJobLeftActive
