SPECIFICATION ArrangedSpec
CONSTANTS
  Skills = {k1}
  Packages = {x1, x2}
  NoSkill = NoSkill
  Clerks = {r1, r2}
  MaxEvents = 3
  Tools = {t1, t2}
  Timeouts = {0, 30, 500}
  MaxToolEvents = 4
  sz = sz
  sel = sel
  sw = sw
  on = on
  off = off
  Sizes = {sz}
  Selects = {sel}
  Switches = {sw}
  Numbers = {0, 1, 3}
  Positions = {on, off}
  Options = {1, 3}
  Ceiling = 2
  Default <- Def
  Missing = Missing
  Malformed = Malformed
  Unread = Unread
  Refused = Refused
  Readers = {r1, r2}
  MaxSaves = 1
  Models = {m1}
  Channels = {x1, x2}
  NoModel = NoModel
  Editors = {r1, r2}
  MaxWrites = 2
  Services = {s1, s2, s3}
  Savers = {r1, r2}
  Orderers = {r1, r2}
  MaxChanges = 6
  PromptKeys = {x1, x2}
  PromptGroups = {r1, r2}
  Labels = {l1, l2}
  Ungrouped = Ungrouped
  Plain = Plain
  Writers = {w1, w2}
  MaxPatches = 3
  FontAssets = {x1, x2}
  FontSlots = {"chinese", "latin"}
  Legacy = "legacy"
  NoFont = NoFont
  Absent = Absent
  FontClerks = {r1, r2}
SYMMETRY Symmetric
INVARIANTS
  PackagesAreKept
  HistoriesAreExact
  PolicyWasShown
  SessionsFitTheTable
  ArrangementIsKept
CHECK_DEADLOCK FALSE
