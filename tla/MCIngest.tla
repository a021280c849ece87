------------------------------ MODULE MCIngest ------------------------------
(***************************************************************************)
(* Values of the constants of Ingest for TLC: three tickets in two tables, *)
(* with a rule for a third table before theirs.                            *)
(***************************************************************************)
EXTENDS IngestRefinement, TLC

CONSTANTS v1, v2, v3, i1, i2, code, hosts, lost

MCTickets == {v1, v2, v3}
MCTableOf == (v1 :> code) @@ (v2 :> code) @@ (v3 :> hosts)
MCRules == <<lost, code, hosts>>
MCDeadTables == {lost}
MCRefused == {v2}
MCIngesters == {i1, i2}
MCOneIngester == {i1}

\* ServiceNow holds every ticket, or the last one is not there yet.
MCSnowAnswers == {Tickets, Tickets \ {v3}}
MCAllTickets == {Tickets}

\* With and without --dry-run, and the command line of crontab.example.
MCAnyRun == {TRUE, FALSE}
MCCronRun == {FALSE}
MCNone == {}
=============================================================================
