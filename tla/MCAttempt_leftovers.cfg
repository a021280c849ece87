\* Two attempts in one working copy, neither of them a dry run.
SPECIFICATION Spec
CONSTANTS
  a = a
  b = b
  app = app
  new = new
  Upstream = Upstream
  Absent = Absent
  NoBranch = NoBranch
  NoIssue = NoIssue
  Issues <- MCIssues
  Paths <- MCPaths
  FirstTree <- MCFirstTree
  Verified <- MCVerified
  DryRuns <- MCNoDryRun
  MaxFileReads = 2
  MaxReaderReads = 2
  MaxCalls = 2
  MaxAttempts = 2
INVARIANTS
  EveryChangeIsListed
CHECK_DEADLOCK FALSE
