\* A chat or a compression, two turns of two chunks, one retry, one cancellation.
CONSTANTS
  RunKinds = {"chat", "compact"}
  Errors <- SomeErrors
  MaxRetries = 1
  MaxTurns = 2
  MaxChunks = 2
  MaxTries = 2
SPECIFICATION Spec
CHECK_DEADLOCK FALSE
INVARIANTS
  ShownIsStored
PROPERTIES
  OutputIsFinal
  SilentRunsEnd
