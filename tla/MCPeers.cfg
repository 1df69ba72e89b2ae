SPECIFICATION Spec
CONSTANTS
  t1 = t1
  t2 = t2
  u1 = u1
  x1 = x1
  x2 = x2
  loop = loop
  worker = worker
  Callers = {loop, worker}
  NoScala3 = {0}
  MaxRequests = 5
  MaxLate = 1
  MaxRevision = 1
  Targets = {t1, t2}
  Uris = {u1}
  Texts = {x1, x2}
  max_abandoned = 1
  Rejects = TRUE
  MaxCalls = 3
INVARIANTS
  IslandInStep
  OwnAnswer
  StaleModelReloads
PROPERTIES
  CallsReturn
  SessionEnds
CHECK_DEADLOCK FALSE
