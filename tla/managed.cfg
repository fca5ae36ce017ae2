SPECIFICATION Spec
CONSTANTS
  Process = {c1, c2}
  Digest = {d1, d2}
  Old = {d1}
  None = None
  MaxDirectories = 3
INVARIANTS
  OnlyVerified
  OneBuilder
PROPERTIES
  ReceiptPermanent
  StartAndStopEnd
CHECK_DEADLOCK FALSE
