SPECIFICATION Spec
CONSTANTS
  RequestId = {r1, r2}
  TrialLimit = 1
  MaxExperiments = 1
  None = None
INVARIANTS
  UnresolvedStaysBlocked
CHECK_DEADLOCK FALSE
