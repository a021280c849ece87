---------------------------- MODULE MCRemediate -----------------------------
(***************************************************************************)
(* Values of the constants of Remediate for TLC.                           *)
(***************************************************************************)
EXTENDS RemediateRefinement, TLC

CONSTANTS a, b, c, r1, r2, s1, s2

MCKeyA == {a}
MCKeysAB == {a, b}
MCKeysABC == {a, b, c}
MCOneRunner == {r1}
MCRunners == {r1, r2}
MCOneSyncer == {s1}
MCSyncers == {s1, s2}
MCNone == {}

\* The command line of deploy/crontab.example, and --ticket and --dry-run.
Batch(dry) == [ticket |-> NoKey, force |-> FALSE, dry |-> dry]
Ticket(k, force, dry) == [ticket |-> k, force |-> force, dry |-> dry]

MCCronOptions == {Batch(FALSE)}
MCUnforcedOptions == {Batch(FALSE), Batch(TRUE), Ticket(a, FALSE, FALSE)}
MCAllOptions == Options

\* Jira answers with every issue of the instance, or with what is in the status
\* at the moment, people moving issues in and out.
MCAllIssues == {Keys}
MCSomeIssues == {Keys \ {a}, Keys \ {c}}

MCIgnore == {"ignore"}
MCCrash == {"crash"}
=============================================================================
