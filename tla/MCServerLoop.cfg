CONSTANTS
  f = f
  Uris = {f}
  Methods = {"initialize", "shutdown", "references", "completion", "hover", "resolve", "command", "doctor", "unknown"}
  MaxRequests = 2
  MaxNotes = 2
  MaxInitialized = 1
  MaxChanges = 2
  CANCEL_SET_CAP = 1
SPECIFICATION MCSpec
INVARIANTS CancelsExact NeverResurrected ServicesSeeBuffers ReadyModelFresh
PROPERTIES ServerResponds
CHECK_DEADLOCK FALSE
