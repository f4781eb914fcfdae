SPECIFICATION FairSpec
CONSTANTS
  Names = {s1, s2}
  NoName = NoName
  Starters = {p1, p2}
  MaxRounds = 1
  MaxSaves = 3
  MaxReports = 1
  MaxDeaths = 1
INVARIANTS
  ReportClaims
PROPERTIES
  TakesTurns
  MarkerKept
  MarkerReleased
CHECK_DEADLOCK FALSE
