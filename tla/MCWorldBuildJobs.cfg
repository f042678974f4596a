SPECIFICATION Spec
CONSTANTS
  Job = {j1, j2}
  NoJob = NoJob
  MaxTasks = 2
  MaxEdits = 2
  MaxCrashes = 1
CHECK_DEADLOCK FALSE
INVARIANTS
  SlotReturned
  NoRunLeftBehind
PROPERTIES
  FirstJobKeepsEdits
  EveryJobEnds
