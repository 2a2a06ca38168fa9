SPECIFICATION FairSpec
CONSTANTS
  Clients = {c1, c2}
  NoClient = NoClient
  RingCap = 2
  ChanCap = 1
  Attempts = 2
  Loads <- LoadsForTLC
INVARIANTS NothingIsLost ExitComesLast StaleInputIsOneFrame
PROPERTIES DaemonEnds
CHECK_DEADLOCK FALSE
