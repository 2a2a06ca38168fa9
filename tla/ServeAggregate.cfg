SPECIFICATION FairSpec
CONSTANTS
  Sessions = {1, 2, 3}
  Generations = {1, 2}
  Attempts = {"a1", "a2"}
  None = None
  MaxSessions = 2
  MaxParked = 2
  Graces = {1, 3}
  MaxLeases = 3
  MaxTime = 2
INVARIANTS
  IndexMatchesSlots
  LeasesUnique
  CapacityRespected
  UnresumableNeverParked
PROPERTIES
  NeverRegisteredOverCapacity
  FencingMovesForward
  EvictionTakesTheOldest
  ParkedSessionsLeave
