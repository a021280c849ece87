\* cron only, under fairness.
SPECIFICATION FairSpec
CONSTANTS
  v1 = v1
  v2 = v2
  v3 = v3
  i1 = i1
  i2 = i2
  code = code
  hosts = hosts
  lost = lost
  NoTicket = NoTicket
  NoProc = NoProc
  Tickets <- MCTickets
  TableOf <- MCTableOf
  Rules <- MCRules
  SnowAnswers <- MCAllTickets
  DeadTables <- MCDeadTables
  Refused <- MCRefused
  Ingesters <- MCIngesters
  DryRuns <- MCCronRun
  Disturbances <- MCNone
  MaxIssues = 4
INVARIANTS
  NothingIngestedTwice
  EveryIssueIsLinked
PROPERTIES
  EveryTicketIsIngested
