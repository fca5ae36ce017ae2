SPECIFICATION Spec
CONSTANTS
  MaxSessions = 2
  MaxTrials = 1
  MaxOffers = 1
  None = None
PROPERTIES
  ShownNeverFalls
  NeverReleased
  RetainedUntilCleared
  ApprovedOnce
  ActsOnFreshRead
CHECK_DEADLOCK FALSE
