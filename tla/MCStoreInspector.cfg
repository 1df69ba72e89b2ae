SPECIFICATION InspectorSpec
CONSTANTS
  r1 = r1
  r2 = r2
  Readers = {r1, r2}
  Counts = {1}
  MaxGen = 4
  MaxRuns = 4
  FaultPoints <- PreCommitFaults
INVARIANTS
  Recoverable
  RetainedIntact
  InspectorSeesOnePair
PROPERTIES
  ImplementsDurableIndex
