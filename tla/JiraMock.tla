------------------------------ MODULE JiraMock ------------------------------
(***************************************************************************)
(* The mock Jira server (mock_servers/jira_mock/app.py, jql.py and the     *)
(* RecordStore of common/state.py): the requests as operators on the value *)
(* of the store, each of them taken whole.  Issues have the numbers of     *)
(* their keys.  No request inserts a key but create_issue, so the order of *)
(* the store, which is that of insertion, is the order of the numbers.     *)
(* Summaries, descriptions, labels and comments, which nothing here        *)
(* searches for, are left out.                                             *)
(***************************************************************************)
EXTENDS Naturals, FiniteSets, SequencesExt

PROJECT_KEY == "AVREM"

WORKFLOW ==
  <<"Backlog", "Triage", "Ready for Remediation", "In Progress", "In Review",
    "Done", "Won't Fix">>

Issue(projects, components) ==
  [project    : projects,
   status     : ToSet(WORKFLOW),
   components : components]

\* The type of a RecordStore: no record has a key that was not handed out.
IsStore(jira, projects, components) ==
  /\ jira = [issues |-> jira.issues, counter |-> jira.counter]
  /\ jira.counter \in Nat \ {0}
  /\ DOMAIN jira.issues \subseteq 1 .. jira.counter - 1
  /\ jira.issues \in [DOMAIN jira.issues -> Issue(projects, components)]

\* RecordStore.put.
put(jira, key, record) ==
  [jira EXCEPT !.issues = [k \in DOMAIN @ \cup {key} |->
                             IF k = key THEN record ELSE @[k]]]

\* The record of a new issue, under the next key.
PutNext(jira, payload, status) ==
  [put(jira, jira.counter, [project    |-> payload.project,
                            status     |-> status,
                            components |-> payload.components])
     EXCEPT !.counter = @ + 1]

\* Mutated: an issue starts in a status of its own.
CreateOpenIssue(jira, payload) == PutNext(jira, payload, "Open")

create_issue(jira, payload) == PutNext(jira, payload, "Backlog")

\* The other requests answer 404 unless the key is in the store.
Holds(jira, key) == key \in DOMAIN jira.issues

update_issue(jira, key, components) ==
  put(jira, key, [jira.issues[key] EXCEPT !.components = components])

delete_issue(jira, key) ==
  [jira EXCEPT !.issues = [k \in DOMAIN @ \ {key} |-> @[k]]]

list_transitions(jira, key) ==
  {i \in DOMAIN WORKFLOW : WORKFLOW[i] # jira.issues[key].status}

do_transition(jira, key, i) ==
  put(jira, key, [jira.issues[key] EXCEPT !.status = WORKFLOW[i]])

\* The two issues the server starts with.
_seed ==
  LET ready(component) == [project    |-> PROJECT_KEY,
                           status     |-> "Ready for Remediation",
                           components |-> <<component>>]
  IN [issues |-> <<ready("frontend"), ready("infra-config")>>, counter |-> 3]

\* parse_jql makes clauses of field = value; of these only the ones below are
\* looked at, and a clause on the key is not one of them.
Matches(issue, clauses) ==
  /\ "project" \in DOMAIN clauses => issue.project = clauses.project
  /\ "status" \in DOMAIN clauses => issue.status = clauses.status
  /\ "component" \in DOMAIN clauses => clauses.component \in ToSet(issue.components)

Found(jira, clauses) ==
  {key \in DOMAIN jira.issues : Matches(jira.issues[key], clauses)}

\* RecordStore.all: the numbers in the order of insertion.
InOrder(numbers) ==
  CHOOSE s \in [1 .. Cardinality(numbers) -> numbers] :
    \A i, j \in DOMAIN s : i < j => s[i] < s[j]

\* Mutated: the page is cut from all issues, and then filtered.
SearchCutsFirst(jira, clauses, maxResults) ==
  LET page == {key \in DOMAIN jira.issues :
                 Cardinality({j \in DOMAIN jira.issues : j < key}) < maxResults}
  IN InOrder(page \cap Found(jira, clauses))

\* The keys of the first maxResults issues found, in order.
search_issues(jira, clauses, maxResults) ==
  LET found == Found(jira, clauses)
  IN InOrder({key \in found : Cardinality({j \in found : j < key}) < maxResults})
=============================================================================
