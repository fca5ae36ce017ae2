SPECIFICATION Spec
CONSTANTS
  ObservationId = {o1, o2}
  Observation <- MCObservation
  ActionChunk <- MCActionChunk
  Instant <- MCInstant
  MaxObservationAge = 1
  MaxActionAge = 1
  MaxTracked = 2
  MaxSteps = 2
  Reentrant = TRUE
  None = None
INVARIANTS
  FreshOutput
  ArmedIsReported
PROPERTIES
  RefinesLease
  EventuallyReleased
CHECK_DEADLOCK FALSE
