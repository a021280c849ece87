\* Every command line and every disturbance, on one issue.
SPECIFICATION Spec
CONSTANTS
  a = a
  b = b
  c = c
  r1 = r1
  r2 = r2
  s1 = s1
  s2 = s2
  NoKey = NoKey
  NoProc = NoProc
  Keys <- MCKeyA
  Routed <- MCKeyA
  Verified <- MCNone
  Runners <- MCRunners
  Syncers <- MCSyncers
  RunOptions <- MCAllOptions
  SearchAnswers <- MCAllIssues
  Disturbances <- AllDisturbances
  MaxRetries = 1
  MaxLlmCalls = 1
  MaxPrs = 3
  MaxFailures = 2
INVARIANTS
  TypeOK
  OpenRowNamesNewestPr
  SettledRowNamesItsPr
  MergedRowHasMergedPr
PROPERTIES
  ImplementsDelivery
