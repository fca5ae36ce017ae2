SPECIFICATION Spec
CONSTANTS
  Conversation = {c1, c2}
  Request = {r1, r2}
  CacheLimit = 1
  Message = Message
  MaxPlans = 2
  ContinuationLimit = 1
  None = None
INVARIANTS
  BegunOnce
PROPERTIES
  NoneAfterStop
  CancelEnds
