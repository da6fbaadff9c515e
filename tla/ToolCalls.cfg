\* Two runs of one user, a model of 4096 tokens whose budget holds one result,
\* three calls, one call a day, and one of: stop, failure, crash, midnight, drain.
CONSTANTS
  r1 = r1
  r2 = r2
  c1 = c1
  c2 = c2
  c3 = c3
  Runs = {r1, r2}
  Calls = {c1, c2, c3}
  Tools = {"web_extract", "skill_read"}
  SkillTools = {"skill_read"}
  None = "none"
  Window = 4096
  MaxRounds = 2
  MaxCalls = 3
  Small = 100
  CallLimit = 1
  ToolLimit <- ExtractLimit
  TokenLimit = 1
  MaxEvents = 1
SPECIFICATION Spec
CHECK_DEADLOCK FALSE
SYMMETRY RunAndCallSymmetry
INVARIANTS
  BudgetIsFair
  UsageIsCounted
