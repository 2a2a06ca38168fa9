SPECIFICATION Spec
CONSTANTS
  Scripts <- SafetyScripts
  MaxInputs = 3
  MaxGen = 10
  MaxEpoch = 16
INVARIANTS
  TypeOK
  EdgesWellFormed
  ReplacedSessionsEnd
  NothingIsStranded
  ShownStateAgrees
  ConnectedIsLive
CHECK_DEADLOCK FALSE
