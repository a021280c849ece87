------------------------------ MODULE Routing -------------------------------
(***************************************************************************)
(* From a ServiceNow ticket to the payload of a Jira issue, and from a     *)
(* Jira issue to a repository: config/mapping.py, ingest/mapper.py and     *)
(* remediate/repo_selector.py, on the lists of ingest_mapping.yaml and     *)
(* repo_routing.yaml.                                                      *)
(***************************************************************************)
EXTENDS Naturals, Sequences

CONSTANTS
  Rules,   \* ingest_mapping.yaml: snow_table, project and component_field
  Routes,  \* repo_routing.yaml: project, components and repo
  NoRepo   \* no route

\* The lists are numbered, and None is the name of no repository.
ASSUME RoutingAssumption ==
  /\ DOMAIN Rules \subseteq Nat
  /\ DOMAIN Routes \subseteq Nat
  /\ \A i \in DOMAIN Routes : Routes[i].repo # NoRepo

\* The first of the numbers.
First(numbers) == CHOOSE i \in numbers : \A j \in numbers : i <= j

\* The numbers of the rules for a table: ingest goes through all of them.
RulesFor(table) == {i \in DOMAIN Rules : Rules[i].snow_table = table}

to_jira_payload(ticket, rule) ==
  [project    |-> rule.project,
   components |-> <<ticket[rule.component_field]>>]

RoutesFor(project, component) ==
  {i \in DOMAIN Routes : /\ Routes[i].project = project
                         /\ component \in Routes[i].components}

route_for(project, component) == Routes[First(RoutesFor(project, component))]

\* The order of the components of the issue goes before that of the routes.
select_repo(issue) ==
  LET routed == {i \in DOMAIN issue.components :
                   RoutesFor(issue.project, issue.components[i]) # {}}
  IN IF routed = {}
       THEN NoRepo
       ELSE route_for(issue.project, issue.components[First(routed)]).repo
=============================================================================
