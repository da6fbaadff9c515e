\* A turn that ended without output is edited after a compaction.
\* A history at its bounds is left alone: it may stop.
CONSTANTS
  MaxMessages = 7
  MaxAttempts = 4
  MaxRevision = 2
  Operations <- EditOperations
SPECIFICATION HistorySpec
CHECK_DEADLOCK FALSE
INVARIANTS
  ContextIsCovered
