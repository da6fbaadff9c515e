SPECIFICATION Spec
CONSTANTS
  likes = likes
  token = token
  masked = masked
  t1 = t1
  t2 = t2
  Facts = {likes}
  Secret = token
  Placeholder = masked
  NumSections = 2
  MaxItems = 2
  MaxChangeList = 2
  Tasks = {t1}
  InitialStates <- Histories
  MaxEvents = 2
INVARIANTS
  CanceledRunChangesNothing
CHECK_DEADLOCK FALSE
