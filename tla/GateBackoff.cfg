SPECIFICATION Spec
CONSTANTS
  Full = 1
  Minimum = 1
  MaxAge = 0
  ReadTimeout = 1
  Recheck = 1
  Guard = 0
  Resolution = 2
  Day = 5
  FiveHours = 3
  Week = 4
  MaxFaults = 2
PROPERTIES
  UnknownBacksOff
