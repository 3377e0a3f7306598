SPECIFICATION Spec
CONSTANTS
  Drafts = {d1, d2}
  NoDraft = NoDraft
  MaxAttempts = 3
  QueueCap = 1
  ServerSavesSent = FALSE
  MaxRequests = 3
  MaxStops = 2
SYMMETRY Symmetry
INVARIANTS
  AtMostOneCopy TruthfulStatus SendingIsOwned LadderHolds 
