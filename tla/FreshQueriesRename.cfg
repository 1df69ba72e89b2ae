SPECIFICATION FreshSpec
CONSTANTS
  Files = {"f", "g"}
  MaxTexts = 2
  MaxJobs = 1
  MaxRequests = 1
  MaxCompiles = 0
  MaxIngests = 0
INVARIANTS RenameNeverStale
CHECK_DEADLOCK FALSE
