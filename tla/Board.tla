------------------------------- MODULE Board --------------------------------
(***************************************************************************)
(* The board, the routing and the run loop together: ServiceNow tickets    *)
(* become Jira issues (ingest/pipeline.py), people move them through the   *)
(* workflow, `remediate run` (remediate/pipeline.py) searches them a page  *)
(* at a time, in order, and takes them up to its cap, each to the          *)
(* repository its components are routed to, where GitHub numbers the pull  *)
(* requests.  Remediate has many processes and every step of an attempt,   *)
(* and neither order, pages, components nor repositories; here one process *)
(* runs at a time (Remediate proves that the lock sees to that) and an     *)
(* attempt is its four writes.                                             *)
(***************************************************************************)
EXTENDS RunStore, JiraMock, Routing

CONSTANTS
  Tickets,      \* ServiceNow tickets: a table, and a component by each field
  PageSize,     \* maxResults of JiraRestClient.search_issues
  MaxRetries,   \* REMEDIATE_MAX_RETRIES
  MaxLlmCalls,  \* REMEDIATE_MAX_LLM_CALLS_PER_RUN
  JqlStatus     \* JIRA_REMEDIATION_JQL_STATUS

\* Bounds of the model, not of the code.
CONSTANTS
  MaxIssues,      \* Jira hands out at most this many keys
  MaxMeddling,    \* what people, the syncer and failures may do in all
  Moves,          \* the statuses people move issues to
  ComponentLists  \* what they set the components of an issue to

\* The seeded issues are among those of the model.
ASSUME BoardAssumption ==
  /\ {PageSize, MaxRetries, MaxLlmCalls, MaxMeddling, MaxIssues} \subseteq Nat
  /\ MaxIssues >= 2
  /\ \A list \in ComponentLists : DOMAIN list \subseteq Nat

VARIABLES
  jira,      \* the store of the Jira server
  rows,      \* remediation_runs, by number of the issue
  repo_of,   \* the column repo_full_name
  prs,       \* GitHub's pull requests, by repository and number
  loop,      \* the one `remediate run` process
  listed,    \* what is left of the list of `remediate sync-pr-status`
  meddling   \* counted against MaxMeddling

vars == <<jira, rows, repo_of, prs, loop, listed, meddling>>

Keys == 1 .. MaxIssues
NoKey == 0
Repos == {Routes[i].repo : i \in DOMAIN Routes}
Projects == {PROJECT_KEY} \cup {Rules[i].project : i \in DOMAIN Rules}
Components ==
  ComponentLists \cup {_seed.issues[k].components : k \in DOMAIN _seed.issues}
    \cup UNION {{to_jira_payload(t, Rules[i]).components : i \in RulesFor(t.table)} :
                  t \in Tickets}

\* An issue as the search has found it: the loop never looks again.
Snapshot == [key : Keys, project : Projects, components : Components]

Idle ==
  [pc |-> "idle", ticket |-> NoKey, force |-> FALSE, todo |-> <<>>, calls |-> 0,
   key |-> NoKey, repo |-> NoRepo, pr |-> NoPr]

\* The loop has an issue at hand.
Busy == {"cloning", "fixing", "recording", "failing"}

PullRequest == [key : Keys, state : {"open", "merged", "closed"}]

Loop ==
  [pc     : {"idle", "searching", "routing", "done"} \cup Gate \cup Busy,
   ticket : Keys \cup {NoKey},
   force  : BOOLEAN,
   todo   : Seq(Snapshot),
   calls  : 0 .. MaxLlmCalls,
   key    : Keys \cup {NoKey},
   repo   : Repos \cup {NoRepo},
   pr     : Nat]

\* A row as the syncer has read it.
Listed == [key : Keys, repo : Repos, pr : Nat]

\* Type invariant.  The statuses on the board are those of its workflow.
TypeOK ==
  /\ IsStore(jira, Projects, Components)
  /\ jira.counter <= MaxIssues + 1
  /\ rows \in [Keys -> Row(Nat)]
  /\ repo_of \in [Keys -> Repos \cup {NoRepo}]
  /\ prs \in [Repos -> Seq(PullRequest)]
  /\ loop \in Loop
  /\ loop.pc \in Gate \cup {"routing"} => loop.todo # <<>>
  /\ loop.pc \in Busy => loop.key \in Keys /\ loop.repo \in Repos
  /\ listed \subseteq Listed
  /\ meddling \in 0 .. MaxMeddling

Init ==
  /\ jira = _seed
  /\ rows = [k \in Keys |-> NoRow]
  /\ repo_of = [k \in Keys |-> NoRepo]
  /\ prs = [repo \in Repos |-> <<>>]
  /\ loop = Idle
  /\ listed = {}
  /\ meddling = 0

Meddle == meddling < MaxMeddling /\ meddling' = meddling + 1

-----------------------------------------------------------------------------
(* remediate run                                                            *)

StartRun(ticket, force) ==
  /\ loop.pc = "idle"
  /\ loop' = [Idle EXCEPT !.pc = "searching", !.ticket = ticket, !.force = force]
  /\ UNCHANGED <<jira, rows, repo_of, prs, listed>>

StartBatch == StartRun(NoKey, FALSE) /\ UNCHANGED meddling

\* An operator names a ticket.
StartTicket(k) == \E force \in BOOLEAN : StartRun(k, force) /\ Meddle

\* The JQL of RemediatePipeline.run.
Jql(ticket) ==
  IF ticket # NoKey
    THEN [key |-> ticket]
    ELSE [project |-> PROJECT_KEY, status |-> JqlStatus]

\* Mutated: --force holds for whatever the search has found.
BypassesAll(k) == loop.force

\* bypass_skip_for names this issue.
Bypassed(k) == loop.force /\ k = loop.ticket

\* Where the loop stands with these issues left: at the gate of the first of
\* them, past it, or at its end.
Onward(todo) ==
  IF todo = <<>> THEN "done"
  ELSE IF Bypassed(Head(todo).key) THEN "routing" ELSE "idempotency"

Search ==
  /\ loop.pc = "searching"
  /\ LET page == search_issues(jira, Jql(loop.ticket), PageSize)
         todo == [i \in DOMAIN page |->
                    [key        |-> page[i],
                     project    |-> jira.issues[page[i]].project,
                     components |-> jira.issues[page[i]].components]]
     IN loop' = [loop EXCEPT !.pc = Onward(todo), !.todo = todo]
  /\ UNCHANGED <<jira, rows, repo_of, prs, listed, meddling>>

\* The issue the loop is at, until it is dropped or taken up.
AtHand == Head(loop.todo)

\* `continue`: on to the next issue.
DropIssue ==
  /\ loop' = [loop EXCEPT !.pc = Onward(Tail(loop.todo)), !.todo = Tail(@)]
  /\ UNCHANGED <<jira, rows, repo_of, prs, listed, meddling>>

\* One of the four reads of the gate.
SkipIssue ==
  /\ loop.pc \in Gate
  /\ TurnsAway(loop.pc, rows[AtHand.key], MaxRetries)
  /\ DropIssue

PassRead ==
  /\ loop.pc \in Gate
  /\ ~ TurnsAway(loop.pc, rows[AtHand.key], MaxRetries)
  /\ loop' = [loop EXCEPT !.pc = NextRead[@]]
  /\ UNCHANGED <<jira, rows, repo_of, prs, listed, meddling>>

\* It has no route, or comes after the cap is reached.
PassOver ==
  /\ loop.pc = "routing"
  /\ select_repo(AtHand) = NoRepo \/ loop.calls >= MaxLlmCalls
  /\ DropIssue

TakeIssue ==
  /\ loop.pc = "routing"
  /\ select_repo(AtHand) # NoRepo
  /\ loop.calls < MaxLlmCalls
  /\ loop' = [loop EXCEPT !.pc = "cloning", !.todo = Tail(@), !.calls = @ + 1,
                          !.key = AtHand.key, !.repo = select_repo(AtHand)]
  /\ UNCHANGED <<jira, rows, repo_of, prs, listed, meddling>>

EndRun ==
  /\ loop.pc = "done"
  /\ loop' = Idle
  /\ UNCHANGED <<jira, rows, repo_of, prs, listed, meddling>>

\* Mutated: the repository on record is kept.
CloneKeepsRepo ==
  /\ loop.pc = "cloning"
  /\ rows' = [rows EXCEPT ![loop.key] = upsert_run(@, "branch_created", NoPr)]
  /\ repo_of' = [repo_of EXCEPT ![loop.key] = IF @ = NoRepo THEN loop.repo ELSE @]
  /\ loop' = [loop EXCEPT !.pc = "fixing"]
  /\ UNCHANGED <<jira, prs, listed, meddling>>

\* branch_created is recorded, with the repository of this attempt.
Clone ==
  /\ loop.pc = "cloning"
  /\ rows' = [rows EXCEPT ![loop.key] = upsert_run(@, "branch_created", NoPr)]
  /\ repo_of' = [repo_of EXCEPT ![loop.key] = loop.repo]
  /\ loop' = [loop EXCEPT !.pc = "fixing"]
  /\ UNCHANGED <<jira, prs, listed, meddling>>

\* The fix is made, pushed and proposed; GitHub refuses a second pull request
\* from the same branch.
OpensPr ==
  /\ loop.pc = "fixing"
  /\ [key |-> loop.key, state |-> "open"] \notin ToSet(prs[loop.repo])
  /\ prs' = [prs EXCEPT ![loop.repo] = Append(@, [key |-> loop.key, state |-> "open"])]
  /\ UNCHANGED <<jira, rows, repo_of, listed>>

OpenPr ==
  /\ OpensPr
  /\ loop' = [loop EXCEPT !.pc = "recording", !.pr = Len(prs[loop.repo]) + 1]
  /\ UNCHANGED meddling

OpenPrReplyLost ==
  /\ OpensPr
  /\ loop' = [loop EXCEPT !.pc = "failing"]
  /\ Meddle

\* Back to the loop.
IssueDone ==
  /\ loop' = [loop EXCEPT !.pc = Onward(loop.todo), !.key = NoKey, !.repo = NoRepo,
                          !.pr = NoPr]
  /\ UNCHANGED <<jira, repo_of, prs, listed, meddling>>

\* pr_open is recorded, with the number and without the repository.
RecordPr ==
  /\ loop.pc = "recording"
  /\ rows' = [rows EXCEPT ![loop.key] = upsert_run(@, "pr_open", loop.pr)]
  /\ IssueDone

\* A stage fails, as often as it likes.
StageFails ==
  /\ loop.pc \in {"cloning", "fixing"}
  /\ loop' = [loop EXCEPT !.pc = "failing"]
  /\ UNCHANGED <<jira, rows, repo_of, prs, listed, meddling>>

RecordFailure ==
  /\ loop.pc = "failing"
  /\ rows' = [rows EXCEPT ![loop.key] = upsert_run(@, "failed", NoPr)]
  /\ IssueDone

\* The search raises, or the process dies.
Crash ==
  /\ loop.pc # "idle"
  /\ loop' = Idle
  /\ Meddle
  /\ UNCHANGED <<jira, rows, repo_of, prs, listed>>

-----------------------------------------------------------------------------
(* ingest, reviewers, the syncer, and people at the board                   *)

\* `ingest run` makes an issue of a ticket, by one of the rules for its table.
IngestTicket(ticket, i) ==
  /\ jira.counter <= MaxIssues
  /\ jira' = create_issue(jira, to_jira_payload(ticket, Rules[i]))
  /\ UNCHANGED <<rows, repo_of, prs, loop, listed, meddling>>

\* A reviewer resolves a pull request.
Resolve(repo, n) ==
  \E state \in {"merged", "closed"} :
    /\ prs[repo][n].state = "open"
    /\ prs' = [prs EXCEPT ![repo][n].state = state]
    /\ UNCHANGED <<jira, rows, repo_of, loop, listed, meddling>>

\* `remediate sync-pr-status` reads the rows in pr_open once.  The list may wait
\* for its answers as long as it likes, so it counts.
SyncList ==
  /\ listed = {}
  /\ listed' = {[key |-> k, repo |-> repo_of[k], pr |-> rows[k].pr] :
                  k \in {j \in Keys : /\ rows[j].status = "pr_open"
                                      /\ repo_of[j] # NoRepo
                                      /\ rows[j].pr # NoPr}}
  /\ Meddle
  /\ UNCHANGED <<jira, rows, repo_of, prs, loop>>

\* Then it asks for one pull request after the other, and writes the answer
\* whatever the row says by then.  Nothing is written if the pull request is
\* open, or if the call fails or the process dies.
SyncRow(run) ==
  /\ listed' = listed \ {run}
  /\ LET state == prs[run.repo][run.pr].state IN
       \/ UNCHANGED rows
       \/ /\ state # "open"
          /\ rows' = [rows EXCEPT ![run.key] = upsert_run(@,
                        IF state = "merged" THEN "pr_merged" ELSE "pr_closed", NoPr)]
  /\ UNCHANGED <<jira, repo_of, prs, loop, meddling>>

\* `remediate ignore`, which takes no lock.
Ignore(k) ==
  /\ rows' = [rows EXCEPT ![k] = mark_ignored(@)]
  /\ Meddle
  /\ UNCHANGED <<jira, repo_of, prs, loop, listed>>

MoveIssue(k) ==
  /\ Holds(jira, k)
  /\ \E i \in list_transitions(jira, k) :
       WORKFLOW[i] \in Moves /\ jira' = do_transition(jira, k, i)
  /\ Meddle
  /\ UNCHANGED <<rows, repo_of, prs, loop, listed>>

EditComponents(k) ==
  /\ Holds(jira, k)
  /\ \E list \in ComponentLists : jira' = update_issue(jira, k, list)
  /\ Meddle
  /\ UNCHANGED <<rows, repo_of, prs, loop, listed>>

DeleteIssue(k) ==
  /\ Holds(jira, k)
  /\ jira' = delete_issue(jira, k)
  /\ Meddle
  /\ UNCHANGED <<rows, repo_of, prs, loop, listed>>

-----------------------------------------------------------------------------

LoopStep ==
  \/ StartBatch
  \/ Search
  \/ SkipIssue
  \/ PassRead
  \/ PassOver
  \/ TakeIssue
  \/ EndRun
  \/ Clone
  \/ OpenPr
  \/ RecordPr
  \/ StageFails
  \/ RecordFailure

Next ==
  \/ LoopStep
  \/ OpenPrReplyLost
  \/ Crash
  \/ \E ticket \in Tickets : \E i \in RulesFor(ticket.table) : IngestTicket(ticket, i)
  \/ \E repo \in Repos : \E n \in DOMAIN prs[repo] : Resolve(repo, n)
  \/ SyncList
  \/ \E run \in listed : SyncRow(run)
  \/ \E k \in Keys :
       StartTicket(k) \/ Ignore(k) \/ MoveIssue(k) \/ EditComponents(k) \/ DeleteIssue(k)

\* cron starts batches again and again, and a started one goes on.
Spec == Init /\ [][Next]_vars
FairSpec == Spec /\ WF_vars(LoopStep)

-----------------------------------------------------------------------------

\* The repository and the number of a row in pr_open, which two statements
\* write (pipeline.py:181 and 241), are those of one pull request, and of one
\* that was opened for the issue, even if the components of the issue, and
\* with them its repository, have changed between two attempts.
OpenRowNamesAPrOfItsIssue ==
  \A k \in Keys : rows[k].status = "pr_open" =>
    /\ repo_of[k] \in Repos
    /\ rows[k].pr \in DOMAIN prs[repo_of[k]]
    /\ prs[repo_of[k]][rows[k].pr].key = k

\* From Clone, which writes the repository, to RecordPr, which writes the
\* number, both are those of the attempt: what makes it inductive.
AttemptInv ==
  /\ loop.pc \in {"fixing", "recording"} => repo_of[loop.key] = loop.repo
  /\ loop.pc = "recording" =>
       /\ loop.pr \in DOMAIN prs[loop.repo]
       /\ prs[loop.repo][loop.pr].key = loop.key

\* --force is for the ticket it names only, whatever the search has answered
\* (this server answers with the whole board): no run takes up another issue
\* whose pull request awaits a verdict, or that has failed as often as the
\* limit says.  An issue that `remediate ignore` or the syncer settles after
\* the gate has read its row is taken up all the same, and so are the row's
\* ignored, pr_closed and pr_merged left out here: nothing reads the row again
\* before pipeline.py:181.
ForceBypassesOneIssueOnly ==
  [][\A k \in Keys :
       /\ rows[k].status = "pr_open" \/ is_permanently_failed(rows[k], MaxRetries)
       /\ rows'[k].status = "branch_created"
       => loop.force /\ k = loop.ticket]_vars

\* The issues a batch asks for, and those of them it would attempt.
Wanted == Found(jira, Jql(NoKey))
Contends(k) ==
  /\ ~ should_skip(rows[k], MaxRetries)
  /\ select_repo(jira.issues[k]) # NoRepo

\* k is on the first page, and fewer issues than the cap contend before it.
InReach(k) ==
  /\ k \in Wanted
  /\ Contends(k)
  /\ Cardinality({j \in Wanted : j < k}) < PageSize
  /\ Cardinality({j \in Wanted : j < k /\ Contends(j)}) < MaxLlmCalls

\* An issue within reach is attempted again and again until it no longer is.
\* Issues beyond the page or behind as many that fail for ever have no such
\* promise: delivered issues stay in the status, and so on the page.
EveryIssueInReachIsAttempted ==
  \A k \in Keys : []<>(InReach(k) => loop.pc = "cloning" /\ loop.key = k)
=============================================================================
