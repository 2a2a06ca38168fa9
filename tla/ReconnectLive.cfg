SPECIFICATION LiveSpec
CONSTANTS
  Scripts <- LiveScripts
  MaxInputs = 3
  MaxGen = 9
  MaxEpoch = 13
PROPERTIES
  TryingEnds
CHECK_DEADLOCK FALSE
