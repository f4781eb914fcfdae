SPECIFICATION Spec
CONSTANTS
  MaxRounds = 1
  MaxAttempts = 1
  Agreed = agreed
  Results = {agreed, open}
  CommandIds = {c1}
  Codes = {"ok", "transient"}
  Faults = {}
  MaxCrashes = 1
INVARIANTS
  OneGrantPerResume
CHECK_DEADLOCK FALSE
