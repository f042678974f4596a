SPECIFICATION Spec
CONSTANTS
  Job = {j1}
  NoJob = NoJob
  Request = {r1}
  Guard = Guard
  Count = 2
  MaxChapter = 2
  MaxCrashes = 0
CHECK_DEADLOCK FALSE
PROPERTY EveryTerminalStays
