SPECIFICATION Spec
CONSTANTS
  Loops = {"command", "idle"}
  Senders = {"s1"}
  MaxIssued = 4
INVARIANTS
  LoopsPresentNewest
CHECK_DEADLOCK FALSE
