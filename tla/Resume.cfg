SPECIFICATION Spec
CONSTANTS
  Loads <- EachDirection
  ClientCap = 2
  ServerCap = 2
  MaxChunk = 2
INVARIANTS
  TypeOK
  ReplayIsLabelled
  NeverUnrecoverable
  OutputHasNoGap
  OutputExactWhenCounted
PROPERTIES
  InputIsReliable
CHECK_DEADLOCK FALSE
