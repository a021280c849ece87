----------------------------- MODULE MCAttempt ------------------------------
(***************************************************************************)
(* Values of the constants of Attempt for TLC: a repository with one file, *)
(* a path where there is none, and two issues.                             *)
(***************************************************************************)
EXTENDS Attempt, TLC

CONSTANTS a, b, app, new

MCIssues == {a, b}
MCPaths == {app, new}
MCFirstTree == (app :> Upstream) @@ (new :> Absent)
MCVerified == {a}
MCAnyRun == {TRUE, FALSE}
MCNoDryRun == {FALSE}
=============================================================================
