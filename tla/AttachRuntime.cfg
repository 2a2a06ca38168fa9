SPECIFICATION Spec
CONSTANTS
  Sessions = {1, 2}
  Generations = {1, 2}
  Attempts = {"x"}
  None = None
  MaxSessions = 1
  MaxParked = 1
  Attachers = {c1, c2}
  Cancellers = {k1}
  Resumers = {r1, r2}
  Workloads <- Requests
  Graces = {1}
  MaxTime = 1
SYMMETRY Peers
INVARIANTS
  HolderOwnsTheSlot
  NoOrphanedSlot
  SocketMapMatchesIndex
  OneHolderPerSession
PROPERTIES
  SupersedeWaitsForTeardown
  ImplementsAggregate
