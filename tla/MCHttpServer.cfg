SPECIFICATION LiveSpec
CONSTANTS
  Clients <- TwoClients
  Kinds <- FilesAndPages
  Pipelining = FALSE
  FilesShrink = TRUE
  MayHangUp = TRUE
  MaxRequests <- Twice
  FileUnits = 2
  Chunk = 2
  SendBuffer = 2
INVARIANTS TypeOK NoDeletedInUse AnswersComplete
PROPERTIES EveryRequestEnds GoneClientsFreed
