SPECIFICATION WorkflowSpec
CONSTANTS
  RequestSlot = {q1, q2}
  Plan = {p1, p2}
  MaxGeneration = 4
  Nothing = Nothing
INVARIANTS
  SupersededNeverShown
  ReportIsCurrent
CHECK_DEADLOCK FALSE
