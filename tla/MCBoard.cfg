\* Three issues, two repositories, pages of two and a cap of one.
SPECIFICATION FairSpec
CONSTANTS
  app = app
  infra = infra
  NoRepo = NoRepo
  Rules <- MCRules
  Routes <- MCRoutes
  Tickets <- MCTickets
  PageSize = 2
  MaxRetries = 2
  MaxLlmCalls = 1
  JqlStatus = "Ready for Remediation"
  MaxIssues = 3
  MaxMeddling = 2
  Moves <- MCMoves
  ComponentLists <- MCComponentLists
INVARIANTS
  TypeOK
  OpenRowNamesAPrOfItsIssue
PROPERTIES
  ForceBypassesOneIssueOnly
  EveryIssueInReachIsAttempted
