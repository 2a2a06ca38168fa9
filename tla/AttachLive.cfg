SPECIFICATION FairSpec
CONSTANTS
  Sessions = {1}
  Generations = {1, 2}
  Attempts = {"x"}
  None = None
  MaxSessions = 1
  MaxParked = 1
  Attachers = {c1, c2}
  Cancellers = {}
  Resumers = {}
  Workloads <- Contenders
  Graces = {1}
  MaxTime = 0
PROPERTIES AttemptsSettle StartedSupersedeCompletes AbandonedIsReleased
