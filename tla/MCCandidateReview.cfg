SPECIFICATION Spec
CONSTANTS
  MaxChapter = 1
  MaxDrafts = 3
  MaxSource = 1
  MaxReviews = 1
  MaxNotes = 1
CHECK_DEADLOCK FALSE
INVARIANT EditsInLine
PROPERTIES
  ReviewedAsConfirmed
  OnlyNotesRevive
