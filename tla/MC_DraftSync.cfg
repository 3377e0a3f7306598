SPECIFICATION Spec
CONSTANTS
  Pushes = {p1, p2}
  MaxTexts = 3
  MaxClock = 2
  MaxFailures = 1
SYMMETRY Symmetry
INVARIANTS
  TypeOK
PROPERTIES
  NoBlindOverwrite 
CHECK_DEADLOCK FALSE
