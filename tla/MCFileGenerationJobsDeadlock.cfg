SPECIFICATION Spec
CONSTANTS
  Job = {j1, j2}
  NoJob = NoJob
  Kinds = {"review", "rewrite"}
  MaxChapter = 1
  MaxCrashes = 1
  MaxFaults = 1
CHECK_DEADLOCK FALSE
INVARIANT NoLockCycle
