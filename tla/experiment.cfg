SPECIFICATION Spec
CONSTANTS
  RequestId = {r1, r2, r3, r4}
  TrialLimit = 2
  MaxExperiments = 2
  None = None
INVARIANTS
  DispatchedOnce
  DurableBeforeUsable
  ConfirmedMeansSettled
PROPERTIES
  DispatchOwned
  LateResultDiscarded
  RunningEnds
CHECK_DEADLOCK FALSE
