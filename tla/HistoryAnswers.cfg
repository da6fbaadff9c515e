\* Every operation: two turns and a checkpoint, four attempts, three switches.
\* A history at its bounds is left alone: it may stop.
CONSTANTS
  MaxMessages = 5
  MaxAttempts = 4
  MaxRevision = 3
  Operations <- AllOperations
SPECIFICATION HistorySpec
CHECK_DEADLOCK FALSE
INVARIANTS
  OneSelectedAttempt
PROPERTIES
  AnswerIsKept
  DerivedWritesFollowSelection
