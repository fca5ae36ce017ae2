SPECIFICATION Spec
CONSTANTS
  Conversation = {c1, c2}
  MaxStarts = 3
  None = None
INVARIANTS
  NamedIsHeldOrBlocks
PROPERTIES
  RefinesLedger
CHECK_DEADLOCK FALSE
