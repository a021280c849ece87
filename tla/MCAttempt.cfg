\* Two issues in one working copy.
SPECIFICATION Spec
CONSTANTS
  a = a
  b = b
  app = app
  new = new
  Upstream = Upstream
  Absent = Absent
  NoBranch = NoBranch
  NoIssue = NoIssue
  Issues <- MCIssues
  Paths <- MCPaths
  FirstTree <- MCFirstTree
  Verified <- MCVerified
  DryRuns <- MCAnyRun
  MaxFileReads = 2
  MaxReaderReads = 2
  MaxCalls = 2
  MaxAttempts = 3
INVARIANTS
  TypeOK
  OnlyNewFilesLeak
  GrantedReadsAreServed
PROPERTIES
  ForeignCommitSurvives
CHECK_DEADLOCK FALSE
