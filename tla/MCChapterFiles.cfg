SPECIFICATION Spec
CONSTANTS
  MaxChapter = 2
  MaxOps = 3
  MaxFaults = 1
CHECK_DEADLOCK FALSE
INVARIANT ConfirmedMeansWritten
PROPERTY AllOrNothing
