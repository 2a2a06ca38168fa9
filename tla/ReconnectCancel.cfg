SPECIFICATION Spec
CONSTANTS
  Scripts <- CancelScripts
  MaxInputs = 3
  MaxGen = 10
  MaxEpoch = 16
PROPERTIES DisconnectedIsFinal
CHECK_DEADLOCK FALSE
