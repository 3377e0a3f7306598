SPECIFICATION FairSpec
CONSTANTS
  Contents = {"c1", "c2"}
  Composers = {"d1"}
  Parts = {"p1"}
  Holds <- MCHolds
  MaxBytes = 1
  OrphanBatch = 1
  MaxRows = 2
  MaxBusy = 2
  MaxCuts = 1
  Bodies = {"b1", "b2"}
  Workers = {"w1"}
  Openers = {"o1"}
  QueueRoom = 1
  maxBodyAttempts = 1
  MaxFaults = 1
  Loops = {"command", "idle"}
  Senders = {"s1"}
  MaxIssued = 4
  States = {"a1", "a2"}
  Redeemers = {"x1", "x2"}
  Pairs = {"id1"}
  Savers = {"v1", "v2"}
  HasEnv = TRUE
  NoPair = "none"
  Logins = {"s1"}
  Requests = {"r1"}
  Sockets = {"k1"}
  IdleTTL = 2
  MaxTTL = 4
  SessionCheck = 1
  RateWindow = 2
  RateLimit = 2
  SweepEvery = 2
  MaxWait = 1
  MaxTime = 6
  Clients = {"c1", "c2"}
  Publishers = {"p1", "p2"}
  SendRoom = 1
  MaxEvents = 3
INVARIANTS
  TypesOK
  ReferencesResolve
  
  NewestTokenKept
  SetupHolds
  GuessesBounded
PROPERTIES
  NothingLeaks
  ForegroundFirst 
  SessionsEnd
  StreamKept
CHECK_DEADLOCK FALSE
