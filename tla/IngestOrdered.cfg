\* Deliveries handled one at a time in the order of the events, clock strictly advancing.
SPECIFICATION OrderedSpec
CONSTANTS
  t1 = t1
  Tenants = {t1}
  InitiallyTracking = {t1}
  p1 = p1
  p2 = p2
  PRs = {p1, p2}
  d1 = d1
  d2 = d2
  Ids = {d1, d2}
  env = env
  Environments = {env}
  main = main
  Branches = {main}
  DefaultBranch = main
  w1 = w1
  Workers = {w1}
  LookBack = 2
  GitHubEvents = {"opened", "closed", "reopened", "merged", "converted_to_draft",
    "ready_for_review", "deployment", "release"}
  Ticks = {1}
  MaxEvents = 5
  MaxRedeliveries = 0
  MaxCrashes = 0
  MaxEdits = 1
SYMMETRY Interchangeable
INVARIANTS
  RowsMirrorGitHub
  FirstShipmentOnly
PROPERTIES
  ImplementsLedger
CHECK_DEADLOCK FALSE
