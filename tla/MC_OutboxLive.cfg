SPECIFICATION FairSpec
CONSTANTS
  Drafts = {d1, d2}
  NoDraft = NoDraft
  MaxAttempts = 2
  QueueCap = 1
  ServerSavesSent = FALSE
  MaxRequests = 2
  MaxStops = 1
PROPERTIES
  KeepsContract Settles
