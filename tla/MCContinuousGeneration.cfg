SPECIFICATION Spec
CONSTANTS
  Job = {j1, j2}
  NoJob = NoJob
  Request = {r1}
  Guard = Guard
  Count = 2
  MaxChapter = 3
  MaxCrashes = 1
SYMMETRY JobSymmetry
CONSTRAINT SharedChapters
CHECK_DEADLOCK FALSE
INVARIANTS
  CompletedAreOfficial
  NeverMoreThanAsked
  StopIsHeeded
  OneJobAtWork
  ActiveIsWorkedOn
PROPERTY
  TerminalStays
