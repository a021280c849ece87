----------------------------- MODULE MCMigrate ------------------------------
(***************************************************************************)
(* Values of the constants of Migrate for TLC: three commands, on a new    *)
(* file and on what the releases so far have left behind.                  *)
(***************************************************************************)
EXTENDS Migrate

CONSTANTS run, sync, ingest

MCCommands == {run, sync, ingest}
MCAddedColumns == <<"failure_count", "stage">>
MCOldSchemas == {{}, Tables, Tables \cup {"failure_count"}, Tables \cup Columns}
=============================================================================
