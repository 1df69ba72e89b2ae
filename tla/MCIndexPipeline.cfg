SPECIFICATION PipelineSpec
CONSTANTS
  a = a
  b = b
  Targets = {a, b}
  Closure <- Dependents
  MaxSaves = 2
  MaxBuilds = 1
  MaxReloads = 1
  MaxReindexes = 1
INVARIANTS
  IndexAtRest
PROPERTIES
  ChangesSettle
CHECK_DEADLOCK FALSE
