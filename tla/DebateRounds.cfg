SPECIFICATION Spec
CONSTANTS
  MaxRounds = 4
  MaxIssues = 1
  MaxProposals = 1
  MaxVersions = 4
  Texts = {"t"}
INVARIANTS
  AgreementSole
  IssuesStayOpen
PROPERTIES
  DuplicatesSettled
  LateIssueBlocks
CHECK_DEADLOCK FALSE
