SPECIFICATION DiagSpec
CONSTANTS
  f = f
  t1 = t1
  t2 = t2
  d1 = d1
  Uris = {f}
  Targets = {t1}
  Diags = {d1}
  Versions = 3
INVARIANTS
  LoopNeverBlocksOnPull
