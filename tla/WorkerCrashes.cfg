SPECIFICATION FairSpec
CONSTANTS
  r1 = r1
  Reviews = {r1, r2}
  LimitReads = {l1}
  Cancels <- Twice
  None = None
  MaxCrashes = 2
INVARIANTS
  InferredOnce
  CancelledStays
  JobsReconciled
PROPERTIES
  KeepsContract
  AllAnswered
CHECK_DEADLOCK FALSE
