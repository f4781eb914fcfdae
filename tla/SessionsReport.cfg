SPECIFICATION Spec
CONSTANTS
  Names = {s1}
  NoName = NoName
  Starters = {p1}
  MaxRounds = 1
  MaxSaves = 6
  MaxReports = 0
  MaxDeaths = 0
INVARIANT ReportAccepted
CHECK_DEADLOCK FALSE
