\* One client that sends a known run id again, after the log was trimmed.
CONSTANTS
  c1 = c1
  Clients = {c1}
  Capacity = 1
  LogLimit = 3
  MaxOutputs = 4
SPECIFICATION StreamSpec
INVARIANTS
  ReplayMissesNothingSilently
