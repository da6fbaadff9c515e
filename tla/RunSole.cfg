\* One run under the fairness of the scheduler, every event but a rejected write.
CONSTANTS
  r1 = r1
  r2 = r2
  s1 = s1
  s2 = s2
  u1 = u1
  Runs = {r1}
  Sessions = {s1}
  Users = {u1}
  SessionOf <- SoleRun
  UserOf <- OneOwnerOfOne
  Events = {"stop", "first_output_timeout", "panic", "account", "delete", "drain", "crash", "expiry", "lost_answer"}
SPECIFICATION FairSpec
INVARIANTS
  HubAgreesWithRow
  ShownOutcomeIsDurable
  StopIsHonoured
  NoRunIsLeftBehind
PROPERTIES
  LedgerSpec
  ReservationsEnd
