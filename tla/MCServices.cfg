SPECIFICATION Spec
CONSTANTS
  f = f
  g = g
  t1 = t1
  t2 = t2
  d1 = d1
  Uris = {f}
  Targets = {t1, t2}
  Diags = {d1}
  Versions = 3
  Documents = {f, g}
  BuildTargets = {t1, t2}
  SEMANTIC_TOKENS_CACHE_CAP = 1
  Discards = FALSE
  Refuses = TRUE
  MaxTexts = 3
  MaxAsks = 1
  MaxReloads = 1
INVARIANTS
  EditorShowsUnion
  OverlayTracksBuffer
  TokensInSync
  MirrorFollows
  ModelInForce
PROPERTIES
  PullsHappen
