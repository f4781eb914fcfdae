SPECIFICATION Spec
CONSTANTS
  MaxRounds = 3
  MaxAttempts = 2
  Agreed = agreed
  Results = {agreed, open}
  CommandIds = {}
  Codes = {"ok", "transient", "rate_limit", "permanent"}
  Faults = {"transport", "cancel", "timeout", "storage", "integrity"}
  MaxCrashes = 1
INVARIANTS
  SubmissionsFresh
  VetoRespected
  WithinBudget
  VerdictJustified
PROPERTIES
  FinalHolds
  UsesContract
  UsesHistory
CHECK_DEADLOCK FALSE
