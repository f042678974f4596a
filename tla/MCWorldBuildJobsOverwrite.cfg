SPECIFICATION Spec
CONSTANTS
  Job = {j1, j2}
  NoJob = NoJob
  MaxTasks = 1
  MaxEdits = 1
  MaxCrashes = 0
CHECK_DEADLOCK FALSE
PROPERTY AuthorEditKept
