------------------------------ MODULE MCBoard -------------------------------
(***************************************************************************)
(* Values of the constants of Board for TLC: the two issues the mock       *)
(* server starts with, one more from ServiceNow, and two repositories.     *)
(***************************************************************************)
EXTENDS Board

CONSTANTS app, infra

MCRules ==
  <<[snow_table |-> "x_avit_findings", project |-> PROJECT_KEY,
     component_field |-> "affected_component"]>>
MCRoutes ==
  <<[project |-> PROJECT_KEY, components |-> {"frontend", "backend-api"}, repo |-> app],
    [project |-> PROJECT_KEY, components |-> {"infra-config"}, repo |-> infra]>>
MCTickets == {[table |-> "x_avit_findings", affected_component |-> "frontend"]}
MCMoves == {"Ready for Remediation", "Done"}
MCComponentLists == {<<"auth">>, <<"auth", "infra-config">>}
=============================================================================
