\* A pull request changes its base branch before it is merged; deliveries in order.
SPECIFICATION OrderedSpec
CONSTANTS
  t1 = t1
  Tenants = {t1}
  InitiallyTracking = {t1}
  p1 = p1
  PRs = {p1}
  d1 = d1
  d2 = d2
  Ids = {d1, d2}
  env = env
  Environments = {env}
  main = main
  topic = topic
  Branches = {main, topic}
  DefaultBranch = main
  w1 = w1
  Workers = {w1}
  LookBack = 2
  GitHubEvents = {"opened", "edited", "merged", "deployment"}
  Ticks = {1}
  MaxEvents = 4
  MaxRedeliveries = 0
  MaxCrashes = 0
  MaxEdits = 0
INVARIANT
  AttributedTargetsDefault
CHECK_DEADLOCK FALSE
