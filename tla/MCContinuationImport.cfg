SPECIFICATION Spec
CONSTANTS
  Task = {t1, t2}
  Request = {r1, r2}
  NoOne = NoOne
  MaxEdits = 1
  MaxGenerations = 2
  MaxCrashes = 1
INVARIANT TypeOK
INVARIANT AnalysisOfTheseChapters
INVARIANT OneBookPerSession
INVARIANT BookAsConfirmed
INVARIANT OneJobPerBook
PROPERTY RecordedAsPublished
CHECK_DEADLOCK FALSE
