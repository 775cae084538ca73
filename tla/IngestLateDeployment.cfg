\* An older deployment is delivered after a newer one.
SPECIFICATION Spec
CONSTANTS
  t1 = t1
  Tenants = {t1}
  InitiallyTracking = {t1}
  p1 = p1
  PRs = {p1}
  d1 = d1
  d2 = d2
  Ids = {d1, d2}
  env = env
  Environments = {env}
  main = main
  Branches = {main}
  DefaultBranch = main
  w1 = w1
  Workers = {w1}
  LookBack = 4
  GitHubEvents = {"opened", "merged", "deployment"}
  Ticks = {1}
  MaxEvents = 4
  MaxRedeliveries = 0
  MaxCrashes = 0
  MaxEdits = 0
INVARIANT
  FirstShipmentOnly
CHECK_DEADLOCK FALSE
