--------------------------- MODULE MigrateProofs ----------------------------
(***************************************************************************)
(* Theorems about Migrate, for every list of added columns, every number   *)
(* of commands and every schema an old file may hold.                      *)
(***************************************************************************)
EXTENDS Migrate, TLAPS

\* A step that moves p and drops nothing from the schema.
LEMMA SchemaFrame ==
  ASSUME TypeOK, TypeOK', SchemaInv, NEW p \in Commands, schema \subseteq schema',
         \A q \in Commands \ {p} : pc'[q] = pc[q] /\ existing'[q] = existing[q],
         pc'[p] \notin {"closed", "create_links"} => "snow_jira_links" \in schema',
         pc'[p] \in {"table_info", "alter", "connected"} =>
           "remediation_runs" \in schema',
         existing'[p] \subseteq schema',
         pc'[p] = "connected" => Columns \subseteq existing'[p]
  PROVE  SchemaInv'
<1>1. ASSUME NEW q \in Commands
      PROVE  /\ pc'[q] \notin {"closed", "create_links"} => "snow_jira_links" \in schema'
             /\ pc'[q] \in {"table_info", "alter", "connected"} =>
                  "remediation_runs" \in schema'
             /\ existing'[q] \subseteq schema'
             /\ pc'[q] = "connected" => Columns \subseteq existing'[q]
  <2>1. CASE q = p
    BY <2>1
  <2>2. CASE q # p
    BY <2>2 DEF SchemaInv
  <2> QED
    BY <2>1, <2>2
<1>2. ConnectedIsMigrated'
  BY <1>1 DEF ConnectedIsMigrated, TypeOK, Tables
<1> QED
  BY <1>1, <1>2 DEF SchemaInv

LEMMA StepTypes ==
  ASSUME TypeOK, [Next]_vars
  PROVE  TypeOK'
<1>1. ASSUME NEW p \in Commands, Step(p) PROVE TypeOK'
  <2> USE DEF TypeOK, Steps, Goes
  <2>1. CASE Connect(p) \/ CreateLinks(p) \/ CreateRuns(p)
    BY <2>1 DEF Connect, CreateLinks, CreateRuns, Tables
  <2>2. CASE ReadColumns(p)
    BY <2>2 DEF ReadColumns
  <2>3. CASE \E i \in DOMAIN AddedColumns : AddColumn(p, i)
    BY <2>3 DEF AddColumn, Columns
  <2>4. CASE \E i \in DOMAIN AddedColumns : DuplicateColumn(p, i)
    BY <2>4 DEF DuplicateColumn
  <2>5. CASE Connected(p) \/ Close(p)
    BY <2>5 DEF Connected, Close
  <2> QED
    BY <1>1, <2>1, <2>2, <2>3, <2>4, <2>5 DEF Step
<1>2. ASSUME NEW p \in Commands, Die(p) PROVE TypeOK'
  BY <1>2 DEF Die, TypeOK, Steps
<1> QED
  BY <1>1, <1>2 DEF Next, vars, TypeOK

LEMMA SchemaStep ==
  ASSUME TypeOK, SchemaInv, [Next]_vars
  PROVE  SchemaInv'
<1>0. TypeOK'
  BY StepTypes
<1>1. ASSUME NEW p \in Commands, Step(p) PROVE SchemaInv'
  <2>0. /\ pc[p] \notin {"closed", "create_links"} => "snow_jira_links" \in schema
        /\ pc[p] \in {"table_info", "alter", "connected"} =>
             "remediation_runs" \in schema
        /\ existing[p] \subseteq schema
    BY DEF SchemaInv
  <2>1. CASE Connect(p) \/ CreateLinks(p) \/ CreateRuns(p)
    BY <1>0, <2>0, <2>1, SchemaFrame
    DEF Connect, CreateLinks, CreateRuns, Goes, TypeOK
  <2>2. CASE ReadColumns(p)
    BY <1>0, <2>0, <2>2, SchemaFrame DEF ReadColumns, Goes, TypeOK
  <2>3. ASSUME NEW i \in DOMAIN AddedColumns, AddColumn(p, i) PROVE SchemaInv'
    BY <1>0, <2>0, <2>3, SchemaFrame DEF AddColumn, Lacks, TypeOK
  <2>4. ASSUME NEW i \in DOMAIN AddedColumns, DuplicateColumn(p, i) PROVE SchemaInv'
    BY <1>0, <2>0, <2>4, SchemaFrame DEF DuplicateColumn, Goes, TypeOK
  <2>5. CASE Connected(p) \/ Close(p)
    BY <1>0, <2>0, <2>5, SchemaFrame DEF Connected, Close, Goes, TypeOK
  <2> QED
    BY <1>1, <2>1, <2>2, <2>3, <2>4, <2>5 DEF Step
<1>2. ASSUME NEW p \in Commands, Die(p) PROVE SchemaInv'
  BY <1>0, <1>2, SchemaFrame DEF Die, TypeOK
<1>3. CASE UNCHANGED vars
  BY <1>3 DEF vars, SchemaInv, ConnectedIsMigrated
<1> QED
  BY <1>1, <1>2, <1>3 DEF Next

LEMMA SchemaInit == Init => TypeOK /\ SchemaInv
BY SchemasAssumption DEF Init, TypeOK, SchemaInv, ConnectedIsMigrated, Steps

\* Whoever races or dies, a command that has its connection works on tables
\* that have every column.
THEOREM ConnectionsAreMigrated == Spec => []ConnectedIsMigrated
<1>1. SchemaInv => ConnectedIsMigrated
  BY DEF SchemaInv
<1> QED
  BY <1>1, SchemaInit, StepTypes, SchemaStep, PTL DEF Spec

\* Type correctness: existing_columns never holds but added columns.
THEOREM TypeCorrect == Spec => []TypeOK
BY SchemaInit, StepTypes, PTL DEF Spec

\* A step of p that loses no race: what there was to find is still there.
LEMMA RaceFrame ==
  ASSUME TypeOK, RaceInv, NEW p \in Commands, schema \subseteq schema', lost' = lost,
         \A q \in Commands \ {p} : pc'[q] = pc[q] /\ existing'[q] = existing[q],
         \A i \in 1 .. lost[p] :
           pc'[p] = "alter" => AddedColumns[i] \in existing'[p]
  PROVE  RaceInv'
<1> SUFFICES ASSUME NEW q \in Commands, NEW i \in 1 .. lost[q]
             PROVE  /\ i \in DOMAIN AddedColumns
                    /\ AddedColumns[i] \in schema'
                    /\ pc'[q] = "alter" => AddedColumns[i] \in existing'[q]
  BY DEF RaceInv
<1>1. CASE q = p
  BY <1>1 DEF RaceInv
<1>2. CASE q # p
  BY <1>2 DEF RaceInv
<1> QED
  BY <1>1, <1>2

\* The column p fails on is one it has not failed on before.
LEMMA RaceLost ==
  ASSUME TypeOK, SchemaInv, RaceInv, NEW p \in Commands,
         NEW i \in DOMAIN AddedColumns, DuplicateColumn(p, i)
  PROVE  RaceInv'
<1>1. lost[p] \in Nat /\ i \in Nat /\ lost[p] < i
  <2>1. lost[p] \in Nat /\ i \in 1 .. Len(AddedColumns) /\ Len(AddedColumns) \in Nat
    BY SchemasAssumption DEF TypeOK
  <2>2. i \notin 1 .. lost[p]
    BY DEF DuplicateColumn, Lacks, RaceInv
  <2> QED
    BY <2>1, <2>2
<1>2. \A j \in 1 .. i : j \in DOMAIN AddedColumns /\ AddedColumns[j] \in schema
  <2> SUFFICES ASSUME NEW j \in 1 .. i
               PROVE  j \in DOMAIN AddedColumns /\ AddedColumns[j] \in schema
    OBVIOUS
  <2>1. j \in DOMAIN AddedColumns
    BY <1>1, SchemasAssumption
  <2>2. CASE j = i
    BY <2>1, <2>2 DEF DuplicateColumn
  <2>3. CASE j # i
    <3>1. j \in 1 .. i - 1
      BY <1>1, <2>3
    <3> QED
      BY <2>1, <3>1 DEF DuplicateColumn, Lacks, SchemaInv
  <2> QED
    BY <2>2, <2>3
<1>3. /\ lost' = [lost EXCEPT ![p] = lost[p] + 1]
      /\ pc' = [pc EXCEPT ![p] = "closed"]
      /\ schema' = schema
      /\ \A q \in Commands \ {p} : existing'[q] = existing[q]
  BY DEF DuplicateColumn, Goes, TypeOK
<1> SUFFICES ASSUME NEW q \in Commands, NEW j \in 1 .. lost'[q]
             PROVE  /\ j \in DOMAIN AddedColumns
                    /\ AddedColumns[j] \in schema'
                    /\ pc'[q] = "alter" => AddedColumns[j] \in existing'[q]
  BY DEF RaceInv
<1>4. CASE q = p
  <2>1. j \in 1 .. i
    BY <1>1, <1>3, <1>4 DEF TypeOK
  <2> QED
    BY <1>2, <1>3, <1>4, <2>1 DEF TypeOK
<1>5. CASE q # p
  BY <1>3, <1>5 DEF RaceInv, TypeOK
<1> QED
  BY <1>4, <1>5

LEMMA RaceStep ==
  ASSUME TypeOK, SchemaInv, RaceInv, [Next]_vars
  PROVE  RaceInv'
<1>1. ASSUME NEW p \in Commands, Step(p) PROVE RaceInv'
  <2>1. CASE Connect(p) \/ CreateLinks(p) \/ CreateRuns(p)
    BY <2>1, RaceFrame DEF Connect, CreateLinks, CreateRuns, Goes, TypeOK
  <2>2. CASE ReadColumns(p)
    BY <2>2, RaceFrame DEF ReadColumns, Goes, TypeOK, RaceInv, Columns
  <2>3. ASSUME NEW i \in DOMAIN AddedColumns, AddColumn(p, i) PROVE RaceInv'
    BY <2>3, RaceFrame DEF AddColumn, Lacks, TypeOK, RaceInv
  <2>4. ASSUME NEW i \in DOMAIN AddedColumns, DuplicateColumn(p, i) PROVE RaceInv'
    BY <2>4, RaceLost
  <2>5. CASE Connected(p) \/ Close(p)
    BY <2>5, RaceFrame DEF Connected, Close, Goes, TypeOK
  <2> QED
    BY <1>1, <2>1, <2>2, <2>3, <2>4, <2>5 DEF Step
<1>2. ASSUME NEW p \in Commands, Die(p) PROVE RaceInv'
  BY <1>2, RaceFrame DEF Die, TypeOK
<1>3. CASE UNCHANGED vars
  BY <1>3 DEF vars, RaceInv
<1> QED
  BY <1>1, <1>2, <1>3 DEF Next

\* No command fails more often on columns that others have added than there
\* are columns, however many commands race, however often they die, and
\* whatever the database held.
THEOREM RacesAreLostOncePerColumn == Spec => []RaceIsLostOncePerColumn
<1>1. Init => RaceInv
  BY DEF Init, RaceInv
<1>2. TypeOK /\ RaceInv => RaceIsLostOncePerColumn
  <2> SUFFICES ASSUME TypeOK, RaceInv, NEW p \in Commands
               PROVE  lost[p] <= Len(AddedColumns)
    BY DEF RaceIsLostOncePerColumn
  <2>1. lost[p] \in Nat /\ Len(AddedColumns) \in Nat
    BY SchemasAssumption DEF TypeOK
  <2>2. lost[p] # 0 => lost[p] \in 1 .. Len(AddedColumns)
    BY <2>1, SchemasAssumption DEF RaceInv
  <2> QED
    BY <2>1, <2>2
<1> QED
  BY <1>1, <1>2, SchemaInit, StepTypes, SchemaStep, RaceStep, PTL DEF Spec
=============================================================================
