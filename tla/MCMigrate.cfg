\* Three commands on a new or an old database, under fairness.
SPECIFICATION FairSpec
CONSTANTS
  run = run
  sync = sync
  ingest = ingest
  Commands <- MCCommands
  AddedColumns <- MCAddedColumns
  OldSchemas <- MCOldSchemas
  MaxDeaths = 2
INVARIANTS
  TypeOK
  ConnectedIsMigrated
  RaceIsLostOncePerColumn
PROPERTIES
  EveryCommandConnects
