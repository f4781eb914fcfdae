SPECIFICATION Spec
CONSTANTS
  MaxRounds = 2
  MaxAttempts = 2
  MaxCrashes = 3
INVARIANTS
  RecoversAlways
  ReturnedStays
  AttemptsFresh
  NeverRefused
PROPERTIES
  ImplementsLog
  KeepsHistory
CHECK_DEADLOCK FALSE
