SPECIFICATION RecomputeFairSpec
CONSTANTS
  HoursPerDay = 2
  DaysPerWeek = 2
  RecomputeDays = 2
  ViewDays = 2
  StaleHours = 0
  Deployments = {x1, x2}
  PRs = {p1}
  None = none
  LastHour = 7
  Repos = {r1}
  Calls = {c1, c2}
  Concurrency = 1
  MaxRuns = 2
  MaxDelay = 2
  FirstHour = 6
  Budget = 4
  FaultCost = 2
INVARIANTS RecomputeTypeOK FreshMeansCovered
  
CHECK_DEADLOCK FALSE
