\* Three turns or two checkpoints of two turns, without edits and switches.
\* A memory of two sections and two items, two changes kept, one background task,
\* and any three of: page, undo, tool, task, run, stop, switch, deletion, restart.
\* A history at its bounds is left alone: it may stop.
CONSTANTS
  MaxMessages = 7
  MaxAttempts = 3
  MaxRevision = 2
  Operations <- CheckpointOperations
  likes = likes
  token = token
  masked = masked
  t1 = t1
  t2 = t2
  Facts = {likes}
  Secret = token
  Placeholder = masked
  NumSections = 2
  MaxItems = 2
  MaxChangeList = 2
  Tasks = {t1}
  InitialStates <- Histories
  MaxEvents = 3
SPECIFICATION ConversationSpec
CHECK_DEADLOCK FALSE
INVARIANTS
  CheckpointsAreSound
  ChangesTellTheMemory
  MaintenanceIsAccounted
PROPERTIES
  WritesAreGuarded
