\* Two runs of one session; crashes, expiries, lost answers and rejected writes.
\* One client, a channel of one event, a log of three, six events and the end.
\* Four things read for a run, two of them policies, each of them changed once.
CONSTANTS
  r1 = r1
  r2 = r2
  s1 = s1
  s2 = s2
  u1 = u1
  Runs = {r1, r2}
  Sessions = {s1}
  Users = {u1}
  SessionOf <- SameSession
  UserOf <- OneOwnerOfOne
  Events = {"crash", "expiry", "lost_answer", "stop", "reject"}
  c1 = c1
  Clients = {c1}
  Capacity = 1
  LogLimit = 3
  MaxOutputs = 6
  ReadingOrder <- InReading
  Optional = {"memory"}
  Policies = {"enabled", "model"}
  Unreadable = Unreadable
  MaxRevision = 1
SPECIFICATION HubSpec
INVARIANTS
  OneLiveRunPerSession
  LiveRowIsInHub
  ExecutedAtMostOnce
  NothingIsMissedSilently
  RunUsesOneMoment
PROPERTIES
  OpenStreamsFinish
