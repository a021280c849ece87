\* Two processes with every disturbance.
SPECIFICATION Spec
CONSTANTS
  v1 = v1
  v2 = v2
  v3 = v3
  i1 = i1
  i2 = i2
  code = code
  hosts = hosts
  lost = lost
  NoTicket = NoTicket
  NoProc = NoProc
  Tickets <- MCTickets
  TableOf <- MCTableOf
  Rules <- MCRules
  SnowAnswers <- MCSnowAnswers
  DeadTables <- MCDeadTables
  Refused <- MCRefused
  Ingesters <- MCIngesters
  DryRuns <- MCAnyRun
  Disturbances <- AllDisturbances
  MaxIssues = 4
INVARIANTS
  TypeOK
  LinkJoinsTicketToItsIssue
PROPERTIES
  LinkedTicketGetsNoIssue
  ImplementsIntake
