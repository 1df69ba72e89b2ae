SPECIFICATION FairSpec
CONSTANTS
  Readers = {}
  Counts = {1}
  MaxGen = 2
  MaxRuns = 2
  FaultPoints <- PublishFaults
PROPERTIES
  RefusalHeals
