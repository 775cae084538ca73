\* Deliveries in any order, redelivered, handled by concurrent tasks, one of them lost.
SPECIFICATION Spec
CONSTANTS
  t1 = t1
  Tenants = {t1}
  InitiallyTracking = {t1}
  p1 = p1
  PRs = {p1}
  d1 = d1
  d2 = d2
  Ids = {d1, d2}
  env = env
  Environments = {env}
  main = main
  Branches = {main}
  DefaultBranch = main
  w1 = w1
  w2 = w2
  Workers = {w1, w2}
  LookBack = 2
  GitHubEvents = {"opened", "merged", "deployment"}
  Ticks = {0, 1}
  MaxEvents = 4
  MaxRedeliveries = 1
  MaxCrashes = 1
  MaxEdits = 0
SYMMETRY Interchangeable
INVARIANTS
  TypeOK
  OneEventPerShipment
  AttributedWasMerged
PROPERTIES
  AttributionIsFinal
CHECK_DEADLOCK FALSE
