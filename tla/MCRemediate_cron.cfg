\* Unforced runs, the syncer, reviewers and an operator who ignores issues.
SPECIFICATION Spec
CONSTANTS
  a = a
  b = b
  c = c
  r1 = r1
  r2 = r2
  s1 = s1
  s2 = s2
  NoKey = NoKey
  NoProc = NoProc
  Keys <- MCKeysABC
  Routed <- MCKeysAB
  Verified <- MCKeyA
  Runners <- MCRunners
  Syncers <- MCOneSyncer
  RunOptions <- MCUnforcedOptions
  SearchAnswers <- MCSomeIssues
  Disturbances <- MCIgnore
  MaxRetries = 2
  MaxLlmCalls = 1
  MaxPrs = 2
  MaxFailures = 3
INVARIANTS
  FurtherPrsFollowMerges
  EveryPrIsOnRecord
  VerdictIsTrue
  FailuresWithinLimit
PROPERTIES
  SettledRowsAreKept
  ImplementsDelivery
