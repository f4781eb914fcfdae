SPECIFICATION FairSpec
CONSTANTS
  Input = 2
  MaxWritten = 2
  PipeSize = 1
  Chunk = 2
  MaxOutput = 2
INVARIANTS
  WithinLimit
  TurnsGenuine
  LimitsHeard
  GroupGone
PROPERTIES
  Returns
CHECK_DEADLOCK FALSE
