------------------------------ MODULE Migrate -------------------------------
(***************************************************************************)
(* get_connection (db/connection.py): every command opens the database     *)
(* with it, before it takes a lock, so that several may be at it at once.  *)
(* The statements of schema.sql and the ALTERs commit one by one; Python's *)
(* sqlite3 opens no transaction for any of them.                           *)
(***************************************************************************)
EXTENDS Naturals, Sequences

CONSTANTS
  Commands,     \* processes that open the database
  AddedColumns, \* _REMEDIATION_RUNS_ADDED_COLUMNS, in order
  OldSchemas,   \* what the database file may hold at first
  MaxDeaths     \* bound of the model: how often a command may die

Tables == {"snow_jira_links", "remediation_runs"}
Columns == {AddedColumns[i] : i \in DOMAIN AddedColumns}

ASSUME SchemasAssumption ==
  /\ AddedColumns \in Seq(Columns)
  /\ Tables \cap Columns = {}
  /\ OldSchemas \subseteq SUBSET (Tables \cup Columns)
  /\ MaxDeaths \in Nat
  /\ \A old \in OldSchemas : Columns \cap old # {} => "remediation_runs" \in old

VARIABLES
  schema,   \* the tables there are, and the added columns of remediation_runs
  pc,       \* the statement each command is at
  existing, \* existing_columns, and what the command has added itself
  lost,     \* how often each command has failed on a column another one added
  deaths    \* counted against MaxDeaths

vars == <<schema, pc, existing, lost, deaths>>

Steps == {"closed", "create_links", "create_runs", "table_info", "alter", "connected"}

TypeOK ==
  /\ schema \subseteq Tables \cup Columns
  /\ pc \in [Commands -> Steps]
  /\ existing \in [Commands -> SUBSET Columns]
  /\ lost \in [Commands -> Nat]
  /\ deaths \in Nat

Init ==
  /\ schema \in OldSchemas
  /\ pc = [p \in Commands |-> "closed"]
  /\ existing = [p \in Commands |-> {}]
  /\ lost = [p \in Commands |-> 0]
  /\ deaths = 0

Goes(p, from, to) == pc[p] = from /\ pc' = [pc EXCEPT ![p] = to]

Connect(p) ==
  /\ Goes(p, "closed", "create_links")
  /\ UNCHANGED <<schema, existing, lost, deaths>>

CreateLinks(p) ==
  /\ Goes(p, "create_links", "create_runs")
  /\ schema' = schema \cup {"snow_jira_links"}
  /\ UNCHANGED <<existing, lost, deaths>>

\* Mutated: no IF NOT EXISTS, so that the statement fails on an old database.
CreateRunsOnce(p) ==
  /\ Goes(p, "create_runs", IF "remediation_runs" \in schema THEN "closed" ELSE "table_info")
  /\ schema' = schema \cup {"remediation_runs"} \cup Columns
  /\ UNCHANGED <<existing, lost, deaths>>

\* The table is made with every column, or left as it is.
CreateRuns(p) ==
  /\ Goes(p, "create_runs", "table_info")
  /\ schema' = IF "remediation_runs" \in schema
                 THEN schema
                 ELSE schema \cup {"remediation_runs"} \cup Columns
  /\ UNCHANGED <<existing, lost, deaths>>

\* Mutated: one added column is taken as a sign of them all.
ReadOneColumn(p) ==
  /\ Goes(p, "table_info", "alter")
  /\ existing' = [existing EXCEPT ![p] = IF schema \cap Columns = {} THEN {} ELSE Columns]
  /\ UNCHANGED <<schema, lost, deaths>>

\* Mutated: the columns are added without a look at the table.
ReadNothing(p) ==
  /\ Goes(p, "table_info", "alter")
  /\ existing' = [existing EXCEPT ![p] = {}]
  /\ UNCHANGED <<schema, lost, deaths>>

\* Mutated: the names of the tables are read as well.
ReadNames(p) ==
  /\ Goes(p, "table_info", "alter")
  /\ existing' = [existing EXCEPT ![p] = schema]
  /\ UNCHANGED <<schema, lost, deaths>>

ReadColumns(p) ==
  /\ Goes(p, "table_info", "alter")
  /\ existing' = [existing EXCEPT ![p] = schema \cap Columns]
  /\ UNCHANGED <<schema, lost, deaths>>

\* The loop is at the i-th column and has found it missing.
Lacks(p, i) ==
  /\ pc[p] = "alter"
  /\ AddedColumns[i] \notin existing[p]
  /\ \A j \in 1 .. i - 1 : AddedColumns[j] \in existing[p]

AddColumn(p, i) ==
  /\ Lacks(p, i)
  /\ AddedColumns[i] \notin schema
  /\ schema' = schema \cup {AddedColumns[i]}
  /\ existing' = [existing EXCEPT ![p] = @ \cup {AddedColumns[i]}]
  /\ UNCHANGED <<pc, lost, deaths>>

\* "duplicate column name": nothing catches it, and the command fails.
DuplicateColumn(p, i) ==
  /\ Lacks(p, i)
  /\ AddedColumns[i] \in schema
  /\ Goes(p, "alter", "closed")
  /\ existing' = [existing EXCEPT ![p] = {}]
  /\ lost' = [lost EXCEPT ![p] = @ + 1]
  /\ UNCHANGED <<schema, deaths>>

Connected(p) ==
  /\ Columns \subseteq existing[p]
  /\ Goes(p, "alter", "connected")
  /\ UNCHANGED <<schema, existing, lost, deaths>>

\* The command is over.
Close(p) ==
  /\ Goes(p, "connected", "closed")
  /\ existing' = [existing EXCEPT ![p] = {}]
  /\ UNCHANGED <<schema, lost, deaths>>

\* It dies, or SQLite answers that the database is locked, for longer than the
\* timeout of sqlite3.
Die(p) ==
  /\ pc[p] # "closed"
  /\ deaths < MaxDeaths
  /\ deaths' = deaths + 1
  /\ pc' = [pc EXCEPT ![p] = "closed"]
  /\ existing' = [existing EXCEPT ![p] = {}]
  /\ UNCHANGED <<schema, lost>>

Step(p) ==
  \/ Connect(p)
  \/ CreateLinks(p)
  \/ CreateRuns(p)
  \/ ReadColumns(p)
  \/ \E i \in DOMAIN AddedColumns : AddColumn(p, i) \/ DuplicateColumn(p, i)
  \/ Connected(p)
  \/ Close(p)

Next == \E p \in Commands : Step(p) \/ Die(p)

\* cron starts a command again and again, and a started one goes on.
Fairness == \A p \in Commands : WF_vars(Step(p))

Spec == Init /\ [][Next]_vars
FairSpec == Spec /\ Fairness

-----------------------------------------------------------------------------

\* A command that has its connection finds both tables and every column,
\* whatever the database held and whoever died between two ALTERs: the
\* queries of the repositories name columns that an old table lacks.
ConnectedIsMigrated ==
  \A p \in Commands : pc[p] = "connected" => schema = Tables \cup Columns

\* What makes it inductive: tables and columns are never dropped, and what a
\* command has read or added is there.
SchemaInv ==
  /\ \A p \in Commands :
       /\ pc[p] \notin {"closed", "create_links"} => "snow_jira_links" \in schema
       /\ pc[p] \in {"table_info", "alter", "connected"} =>
            "remediation_runs" \in schema
       /\ existing[p] \subseteq schema
       /\ pc[p] = "connected" => Columns \subseteq existing[p]
  /\ ConnectedIsMigrated

\* A command fails at most once per column on the race for it
\* (connection.py:14-19 reads, then alters): the next time it has read it.
RaceIsLostOncePerColumn == \A p \in Commands : lost[p] <= Len(AddedColumns)

\* What makes it inductive: a command that has failed n times has failed on
\* later and later columns, so that the first n are there, and it has found
\* them if it has read the table since.
RaceInv ==
  \A p \in Commands : \A i \in 1 .. lost[p] :
    /\ i \in DOMAIN AddedColumns
    /\ AddedColumns[i] \in schema
    /\ pc[p] = "alter" => AddedColumns[i] \in existing[p]

\* However the commands race, each gets its connection in the end, and again
\* and again.
EveryCommandConnects == \A p \in Commands : []<>(pc[p] = "connected")
=============================================================================
