SPECIFICATION FairSpec
CONSTANTS
  MaxMoods = 1
  MaxFaults = 1
INVARIANTS
  TypeOK LoopsMatchRow CommandLoginsSpaced
PROPERTIES
  ParkedOnEvidence Recovers StopEnds
CHECK_DEADLOCK FALSE
