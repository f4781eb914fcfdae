SPECIFICATION FairSpec
CONSTANTS
  Full = 1
  Minimum = 1
  MaxAge = 0
  ReadTimeout = 1
  Recheck = 1
  Guard = 0
  Resolution = 2
  Day = 5
  FiveHours = 2
  Week = 3
  MaxFaults = 2
INVARIANTS
  LowPauseOutlasts
PROPERTIES
  EnoughAtStart
  LowPausePrompt
  PausesEnd
