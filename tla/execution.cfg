SPECIFICATION Spec
CONSTANTS
  RunId = {r1, r2}
  HistoryLimit = 1
  MaxRevision = 2
  None = None
INVARIANTS
  ReceiptMatchesRun
PROPERTIES
  SelectedNeverFalls
  NeverReleasedUnresolved
  PendingEnds
CHECK_DEADLOCK FALSE
