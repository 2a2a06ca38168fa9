SPECIFICATION Spec
CONSTANTS
  ConfirmThreshold = 3
  ElapsedFloor = 4
  SwitchDeadline = 6
  ProbeBudget = 3
  SwitchAttempts = 2
  DefaultWindow = 20
  Routes <- RoutesForTLC
  Delays = {0, 1}
  StepTimeout = 2
  IdleTimeout = 2
  MaxEpisodes = 2
  MaxSuspends = 1
INVARIANTS
  EpisodeEndsInTime
  LostContinuityWasTried
  SessionGoneIsReal
  StaleStandbyIsDropped
CHECK_DEADLOCK FALSE
