SPECIFICATION AccessSpec
CONSTANTS
  Users = {u1, u2}
  Passwords = {p1, p2}
  NoPassword = NoPassword
  Slots = {t1, t2}
  MaxChanges = 3
  MaxRuns = 1
  Sources = {s1}
  Names = {"ada", "Ada", "bob", "  "}
  AccountKeys = {"ada", "bob", ""}
  KeyOf <- Normalized
  BlankKey = ""
  Attempts = {a1, a2}
  MaxAttempts = 2
  Groups = {g1, g2, g3}
  Members = {m1, m2}
  NoGroup = NoGroup
  Levels = {0, 1}
  Owners = {o1, o2}
  Pictures = {q1, q2, q3}
  NoPicture = NoPicture
  Uploads = {w1, w2}
  Tasks = {b1, b2}
  Triggers = {0, 1, 2}
  MaxTurns = 3
  MaxSelections = 2
  Calls = {c1, c2, c3}
  Searchers <- SearchOrder
  Crawlers <- ReadOrder
  Keyed = {"tavily", "searxng"}
  Utilities = {1}
  Preferred = 1
  Timeout = 3
  SlotCount = 2
SYMMETRY Symmetric
INVARIANTS
  SessionsAreCurrent
  RunsAreCurrent
  OwnerRemains
  AttemptsAreBounded
  BelongingsAreKept
  TitlesFitTheTalk
  ReadingIsHonest
CHECK_DEADLOCK FALSE
