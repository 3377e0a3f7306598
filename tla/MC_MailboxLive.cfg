SPECIFICATION FairSpec
CONSTANTS
  Msgs = {m1, m2}
  NoMsg = NoMsg
  IsInbox = FALSE
  Kinds = {}
  ChunkSize = 1
  MaxIncarnation = 2
  MaxCuts = 0
PROPERTIES
  MailSurfaces
