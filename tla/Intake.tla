------------------------------- MODULE Intake -------------------------------
(***************************************************************************)
(* What the ingest side promises, ticket by ticket: the links and the      *)
(* issues, with no process, lock, rule or table.  One issue at a time is   *)
(* created for a ticket that has no link, and linked before the next one   *)
(* is; a link stays; and an issue is left without one only where an answer *)
(* of Jira can be lost or a process can die.  Ingest implements it         *)
(* (IngestRefinement).                                                     *)
(***************************************************************************)
EXTENDS Naturals

CONSTANTS
  Tickets,   \* the tickets of ServiceNow
  Issue,     \* the numbers Jira can give
  NoTicket,  \* no issue has the number yet
  NoIssue,   \* no issue
  MayLose,   \* answers of Jira are lost
  MayDie     \* processes die

VARIABLES
  links,    \* the issue each ticket is linked to
  issues,   \* the ticket each issue was created for
  unlinked  \* the issue that is about to be linked

vars == <<links, issues, unlinked>>

Init ==
  /\ links = [t \in Tickets |-> NoIssue]
  /\ issues = [n \in Issue |-> NoTicket]
  /\ unlinked = NoIssue

\* Jira makes its next issue, for a ticket without a link.
Make(t, n) ==
  /\ unlinked = NoIssue
  /\ links[t] = NoIssue
  /\ \A m \in Issue : issues[m] = NoTicket <=> m >= n
  /\ issues' = [issues EXCEPT ![n] = t]
  /\ UNCHANGED links

Create(t, n) == Make(t, n) /\ unlinked' = n

Lose(t, n) == MayLose /\ Make(t, n) /\ UNCHANGED unlinked

\* The ticket of the issue had no link, and has this one for ever.
Link ==
  /\ unlinked # NoIssue
  /\ links[issues[unlinked]] = NoIssue
  /\ links' = [links EXCEPT ![issues[unlinked]] = unlinked]
  /\ unlinked' = NoIssue
  /\ UNCHANGED issues

Forget ==
  /\ MayDie
  /\ unlinked # NoIssue
  /\ unlinked' = NoIssue
  /\ UNCHANGED <<links, issues>>

Next ==
  \/ \E t \in Tickets, n \in Issue : Create(t, n) \/ Lose(t, n)
  \/ Link
  \/ Forget

Spec == Init /\ [][Next]_vars
=============================================================================
