SPECIFICATION FairSpec
CONSTANTS
  Mail = {"m1", "m2"}
  Clicks = {"k1", "k2"}
  MaxForeign = 1
  Letters = {"l1", "l2"}
  Readers = {"r1", "r2"}
  CacheEntries = 1
  MaxWrites = 2
INVARIANTS
  TypesOK  ArchiveIsWhole 
PROPERTIES
  PendingDeletesKept 
CHECK_DEADLOCK FALSE
