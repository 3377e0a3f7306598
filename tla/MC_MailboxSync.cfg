SPECIFICATION Spec
CONSTANTS
  Msgs = {m1, m2}
  NoMsg = NoMsg
  IsInbox = TRUE
  Kinds = {}
  ChunkSize = 1
  MaxIncarnation = 2
  MaxCuts = 1
SYMMETRY Symmetry
INVARIANTS
  TypeOK CursorCoversRecentMail MappingsTrueAfterImport
PROPERTIES
  DropsOnlyTheGone
