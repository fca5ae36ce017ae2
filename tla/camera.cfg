SPECIFICATION Spec
CONSTANTS
  MaxSessions = 2
  None = None
INVARIANTS
  OwnedUntilStopped
  StoppedNeverShown
  CleanupCovers
PROPERTIES
  StartNeverOvertakesStop
  DisposeEnds
CHECK_DEADLOCK FALSE
