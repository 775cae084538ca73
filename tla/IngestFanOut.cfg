\* Two workspaces and two tasks on copies of one delivery: lock waits, deadlock, progress.
SPECIFICATION FairSpec
CONSTANTS
  t1 = t1
  t2 = t2
  Tenants = {t1, t2}
  InitiallyTracking = {t1}
  p1 = p1
  PRs = {p1}
  d1 = d1
  Ids = {d1}
  env = env
  Environments = {env}
  main = main
  topic = topic
  Branches = {main, topic}
  DefaultBranch = main
  w1 = w1
  w2 = w2
  Workers = {w1, w2}
  LookBack = 2
  GitHubEvents = {"opened", "edited", "deployment", "failed_deployment", "prerelease"}
  Ticks = {1}
  MaxEvents = 2
  MaxRedeliveries = 1
  MaxCrashes = 0
  MaxEdits = 1
INVARIANTS
  OneEventPerShipment
PROPERTIES
  ShipmentsAreRecorded
CHECK_DEADLOCK FALSE
