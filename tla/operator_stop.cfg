SPECIFICATION Spec
CONSTANTS
  Conversation = {c1, c2}
  MaxStarts = 2
  None = None
INVARIANTS
  StopReaches
CHECK_DEADLOCK FALSE
