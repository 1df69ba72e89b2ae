SPECIFICATION PipelineSpec
CONSTANTS
  a = a
  b = b
  Targets = {a, b}
  Closure <- Dependents
  MaxSaves = 1
  MaxBuilds = 0
  MaxReloads = 1
  MaxReindexes = 1
PROPERTIES
  SavesReachIndex
CHECK_DEADLOCK FALSE
