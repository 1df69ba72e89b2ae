SPECIFICATION InspectorSpec
CONSTANTS
  r1 = r1
  r2 = r2
  Readers = {}
  Counts = {1}
  MaxGen = 3
  MaxRuns = 3
  FaultPoints = {}
INVARIANTS
  InspectorUndisturbed
