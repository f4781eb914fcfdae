SPECIFICATION Spec
CONSTANTS
  r1 = r1
  Reviews = {r1}
  LimitReads = {}
  Cancels <- Once
  None = None
  MaxCrashes = 1
INVARIANTS
  Reconciled
CHECK_DEADLOCK FALSE
