SPECIFICATION FreshSpec
CONSTANTS
  Files = {"f", "g"}
  MaxTexts = 2
  MaxJobs = 1
  MaxRequests = 1
  MaxCompiles = 1
  MaxIngests = 1
INVARIANTS
  HitsCoverCursor
  RenameEditsFresh
PROPERTIES
  SegmentsAdvance
  QueriesSettle
CHECK_DEADLOCK FALSE
