\* A delivery that succeeded is redelivered after later events.
SPECIFICATION Spec
CONSTANTS
  t1 = t1
  Tenants = {t1}
  InitiallyTracking = {t1}
  p1 = p1
  PRs = {p1}
  d1 = d1
  d2 = d2
  Ids = {d1, d2}
  env = env
  Environments = {env}
  main = main
  Branches = {main}
  DefaultBranch = main
  w1 = w1
  Workers = {w1}
  LookBack = 2
  GitHubEvents = {"opened", "merged"}
  Ticks = {1}
  MaxEvents = 2
  MaxRedeliveries = 1
  MaxCrashes = 0
  MaxEdits = 0
PROPERTY
  RedeliveryChangesNothing
CHECK_DEADLOCK FALSE
