SPECIFICATION Spec
CONSTANTS
  Msgs = {m1, m2}
  NoMsg = NoMsg
  IsInbox = FALSE
  Kinds = {"move", "attachment"}
  ChunkSize = 1
  MaxIncarnation = 2
  MaxCuts = 0
SYMMETRY Symmetry
INVARIANTS
  NoUnexplainedStray
