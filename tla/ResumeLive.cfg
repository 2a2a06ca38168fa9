SPECIFICATION FairSpec
CONSTANTS
  Loads <- BothDirections
  ClientCap = 1
  ServerCap = 1
  MaxChunk = 1
PROPERTIES
  InputArrivesWhenAcked
  OutputArrives
CHECK_DEADLOCK FALSE
