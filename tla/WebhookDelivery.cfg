\* Two deliveries, each sent twice, to two tasks; one crash.
SPECIFICATION FairSpec
CONSTANTS
  d1 = d1
  d2 = d2
  Deliveries = {d1, d2}
  EVENT_HANDLERS <- TwoAndNone
  None = None
  w1 = w1
  w2 = w2
  Tasks = {w1, w2}
  MaxSends = 2
  MaxCrashes = 1
INVARIANTS
  TypeOK
  NothingLostSilently
  AuditIsHonest
  
PROPERTIES
  DeliveriesAreSettled
CHECK_DEADLOCK FALSE
