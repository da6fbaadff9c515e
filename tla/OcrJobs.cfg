\* One upload and any three interferences: crash, outage, overrun of a lease,
\* lost commit, retry, deletion, cleanup.
CONSTANTS
  f1 = f1
  f2 = f2
  Files = {f1}
  MaxConcurrency = 1
  MaxAttempts = 2
  MaxEvents = 3
SPECIFICATION FairSpec
CHECK_DEADLOCK FALSE
INVARIANTS
  SubmittedOncePerRequest
  FilesMatchRows
PROPERTIES
  EndedStaysEnded
  JobsEnd
