SPECIFICATION FairSpec
CONSTANTS
  MaxRounds = 2
  MaxAttempts = 1
  Agreed = agreed
  Results = {agreed, open}
  CommandIds = {c1, c2}
  Codes = {"ok", "transient"}
  Faults = {"timeout"}
  MaxCrashes = 1
INVARIANTS
  AckedStopHolds
  GroupsGranted
PROPERTIES
  FinalHolds
  StopHeeded
  Settles
CHECK_DEADLOCK FALSE
