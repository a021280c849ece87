\* Does a row stay ignored when a run is at work.
SPECIFICATION Spec
CONSTANTS
  a = a
  b = b
  c = c
  r1 = r1
  r2 = r2
  s1 = s1
  s2 = s2
  NoKey = NoKey
  NoProc = NoProc
  Keys <- MCKeyA
  Routed <- MCKeyA
  Verified <- MCNone
  Runners <- MCOneRunner
  Syncers <- MCOneSyncer
  RunOptions <- MCCronOptions
  SearchAnswers <- MCAllIssues
  Disturbances <- MCIgnore
  MaxRetries = 1
  MaxLlmCalls = 2
  MaxPrs = 2
  MaxFailures = 3
PROPERTIES
  IgnoredStaysIgnored
