\* cron only, under fairness.
SPECIFICATION FairSpec
CONSTANTS
  a = a
  b = b
  c = c
  r1 = r1
  r2 = r2
  s1 = s1
  s2 = s2
  NoKey = NoKey
  NoProc = NoProc
  Keys <- MCKeysAB
  Routed <- MCKeysAB
  Verified <- MCNone
  Runners <- MCOneRunner
  Syncers <- MCOneSyncer
  RunOptions <- MCCronOptions
  SearchAnswers <- MCAllIssues
  Disturbances <- MCNone
  MaxRetries = 2
  MaxLlmCalls = 2
  MaxPrs = 2
  MaxFailures = 3
INVARIANTS
  NothingCreatedTwice
PROPERTIES
  SettledRowsAreKept
  VerdictArrives
  EveryIssueIsAttempted
