SPECIFICATION Spec
CONSTANTS
  Loads <- OneByte
  ClientCap = 1
  ServerCap = 1
  MaxChunk = 1
INVARIANTS
  OutputIsExact
CHECK_DEADLOCK FALSE
