------------------------------- MODULE Ingest -------------------------------
(***************************************************************************)
(* The ingest side of the program: `ingest run` (ingest/pipeline.py) as    *)
(* operating-system processes that share the table snow_jira_links, the    *)
(* lock file ingest.lock and the issues of Jira.                           *)
(*                                                                         *)
(* One action is one stretch of a process between two points where another *)
(* process or a crash can intervene: a call to a remote service, or a      *)
(* committed statement on the database.                                    *)
(***************************************************************************)
EXTENDS Naturals, Sequences

CONSTANTS
  Tickets,        \* the tickets of ServiceNow
  TableOf,        \* the table each of them is in
  Rules,          \* the snow_table of each rule of ingest_mapping.yaml, in order
  SnowAnswers,    \* what ServiceNow may hold at the moment it is asked
  DeadTables,     \* tables that can never be fetched
  Refused,        \* tickets with no payload, or whose payload Jira rejects
  Ingesters,      \* processes started as `ingest run`
  DryRuns,        \* the values of --dry-run they are started with
  Disturbances,   \* which of AllDisturbances may happen
  NoTicket,       \* no ticket at hand
  NoProc          \* nobody holds the lock

\* Bound of the model, not of the code.
CONSTANT MaxIssues  \* Jira hands out at most this many keys

\* "crash"      : a process dies between two actions (kill, reboot, a database
\*                error in record_link, which no try block covers)
\* "lost_reply" : Jira creates the issue but the client sees an error
AllDisturbances == {"crash", "lost_reply"}

ASSUME TicketsAssumption ==
  /\ NoTicket \notin Tickets
  /\ SnowAnswers \subseteq SUBSET Tickets
  /\ Rules \in Seq({TableOf[t] : t \in Tickets} \cup DeadTables)

ASSUME RunsAssumption ==
  /\ NoProc \notin Ingesters
  /\ DryRuns \subseteq BOOLEAN
  /\ Disturbances \subseteq AllDisturbances
  /\ MaxIssues \in Nat

VARIABLES
  links,      \* snow_jira_links: the jira_key of each ticket
  issues,     \* the issues of Jira: the ticket each was created for
  run,        \* the state of each `ingest run` process
  ingest_lock \* who holds the flock on ingest.lock

vars == <<links, issues, run, ingest_lock>>

Issue == 1 .. MaxIssues
NoIssue == 0

\* What IngestPipeline.run holds in local variables.  ref is not reset from
\* one ticket to the next.
IngesterState ==
  [pc     : {"idle", "fetching", "next", "creating", "recording"},
   dry    : BOOLEAN,
   rule   : 1 .. Len(Rules) + 1,      \* the rule the outer loop is at
   todo   : SUBSET Tickets,           \* tickets the inner loop has not reached
   ticket : Tickets \cup {NoTicket},
   ref    : Issue \cup {NoIssue}]     \* the answer of create_issue

IdleIngester ==
  [pc |-> "idle", dry |-> FALSE, rule |-> 1, todo |-> {},
   ticket |-> NoTicket, ref |-> NoIssue]

\* The locals a process reads at its next step have been assigned.
Assigned(state) ==
  /\ state.pc \in {"creating", "recording"} => state.ticket # NoTicket
  /\ state.pc = "recording" => state.ref # NoIssue
  /\ state.pc \notin {"idle", "fetching"} => state.rule <= Len(Rules)

\* Type invariant.
TypeOK ==
  /\ links \in [Tickets -> Issue \cup {NoIssue}]
  /\ issues \in [Issue -> Tickets \cup {NoTicket}]
  /\ run \in [Ingesters -> IngesterState]
  /\ ingest_lock \in Ingesters \cup {NoProc}
  /\ \A i \in Ingesters : Assigned(run[i])

Init ==
  /\ links = [t \in Tickets |-> NoIssue]
  /\ issues = [n \in Issue |-> NoTicket]
  /\ run = [i \in Ingesters |-> IdleIngester]
  /\ ingest_lock = NoProc

-----------------------------------------------------------------------------

\* Mutated: the flock is taken whether or not somebody holds it.
StartRunWithoutLock(i, dry) ==
  /\ run[i].pc = "idle"
  /\ ingest_lock' = i
  /\ run' = [run EXCEPT ![i].pc = "fetching", ![i].dry = dry]
  /\ UNCHANGED <<links, issues>>

\* The process starts and takes the flock.  A process that finds it held
\* exits having changed nothing, which is a stutter of this specification.
StartRun(i, dry) ==
  /\ run[i].pc = "idle"
  /\ ingest_lock = NoProc
  /\ ingest_lock' = i
  /\ run' = [run EXCEPT ![i].pc = "fetching", ![i].dry = dry]
  /\ UNCHANGED <<links, issues>>

\* The process is gone: its locals with it, and the kernel drops its flock.
IngesterExits(i) ==
  /\ run' = [run EXCEPT ![i] = IdleIngester]
  /\ ingest_lock' = NoProc
  /\ UNCHANGED <<links, issues>>

FetchingRule(i) == run[i].pc = "fetching" /\ run[i].rule <= Len(Rules)

\* fetch_tickets answers with the tickets of the rule's table, in any order.
FetchTickets(i) ==
  /\ FetchingRule(i)
  /\ LET table == Rules[run[i].rule] IN
       /\ table \notin DeadTables
       /\ \E answer \in SnowAnswers :
            run' = [run EXCEPT
              ![i].pc = "next",
              ![i].todo = {t \in answer : TableOf[t] = table}]
  /\ UNCHANGED <<links, issues, ingest_lock>>

\* Mutated: the exception leaves the loop over the rules.
FetchFailsAndStops(i) ==
  /\ FetchingRule(i)
  /\ IngesterExits(i)

\* fetch_tickets raises: the table is noted in failed_tables, and passed over.
FetchFails(i) ==
  /\ FetchingRule(i)
  /\ run' = [run EXCEPT ![i].rule = @ + 1]
  /\ UNCHANGED <<links, issues, ingest_lock>>

\* The tickets of the rule are done.
NextRule(i) ==
  /\ run[i].pc = "next"
  /\ run[i].todo = {}
  /\ run' = [run EXCEPT ![i].pc = "fetching", ![i].rule = @ + 1]
  /\ UNCHANGED <<links, issues, ingest_lock>>

EndRun(i) ==
  /\ run[i].pc = "fetching"
  /\ run[i].rule > Len(Rules)
  /\ IngesterExits(i)

LoopReaches(i, t) == run[i].pc = "next" /\ t \in run[i].todo

\* A ticket that has a link is skipped; one that has none is only logged in a
\* dry run.
PassOver(i, t) ==
  /\ LoopReaches(i, t)
  /\ links[t] # NoIssue \/ run[i].dry
  /\ run' = [run EXCEPT ![i].todo = @ \ {t}]
  /\ UNCHANGED <<links, issues, ingest_lock>>

\* Mutated: the link is not asked for.
TakeTicketUnasked(i, t) ==
  /\ LoopReaches(i, t)
  /\ ~ run[i].dry
  /\ run' = [run EXCEPT ![i].pc = "creating", ![i].todo = @ \ {t},
                        ![i].ticket = t]
  /\ UNCHANGED <<links, issues, ingest_lock>>

\* get_jira_key finds no link: an issue is to be created.
TakeTicket(i, t) ==
  /\ LoopReaches(i, t)
  /\ links[t] = NoIssue
  /\ ~ run[i].dry
  /\ run' = [run EXCEPT ![i].pc = "creating", ![i].todo = @ \ {t},
                        ![i].ticket = t]
  /\ UNCHANGED <<links, issues, ingest_lock>>

\* The next key Jira hands out.
NextIssue(n) == \A m \in Issue : issues[m] = NoTicket <=> m >= n

\* create_issue makes issue n.
CreateIssue(i, n) ==
  /\ run[i].pc = "creating"
  /\ run[i].ticket \notin Refused
  /\ NextIssue(n)
  /\ issues' = [issues EXCEPT ![n] = run[i].ticket]
  /\ run' = [run EXCEPT ![i].pc = "recording", ![i].ref = n]
  /\ UNCHANGED <<links, ingest_lock>>

\* Mutated: the client swallows the error and returns no ref.
CreateIssueSwallowsError(i, n) ==
  /\ "lost_reply" \in Disturbances
  /\ run[i].pc = "creating"
  /\ run[i].ticket \notin Refused
  /\ NextIssue(n)
  /\ issues' = [issues EXCEPT ![n] = run[i].ticket]
  /\ run' = [run EXCEPT ![i].pc = "recording"]
  /\ UNCHANGED <<links, ingest_lock>>

\* create_issue makes issue n and raises, for instance by a timeout.
CreateIssueReplyLost(i, n) ==
  /\ "lost_reply" \in Disturbances
  /\ run[i].pc = "creating"
  /\ run[i].ticket \notin Refused
  /\ NextIssue(n)
  /\ issues' = [issues EXCEPT ![n] = run[i].ticket]
  /\ run' = [run EXCEPT ![i].pc = "next"]
  /\ UNCHANGED <<links, ingest_lock>>

\* Mutated: without its `continue` the handler falls through to record_link,
\* which gets the ref of the ticket before, if there was one.
CreateFailsAndRecords(i) ==
  /\ run[i].pc = "creating"
  /\ run[i].ref # NoIssue
  /\ run' = [run EXCEPT ![i].pc = "recording"]
  /\ UNCHANGED <<links, issues, ingest_lock>>

\* to_jira_payload or create_issue raises: the ticket is left to the next run.
CreateFails(i) ==
  /\ run[i].pc = "creating"
  /\ run' = [run EXCEPT ![i].pc = "next"]
  /\ UNCHANGED <<links, issues, ingest_lock>>

\* INSERT ... ON CONFLICT DO NOTHING.
record_link(t, n) ==
  links' = [links EXCEPT ![t] = IF @ = NoIssue THEN n ELSE @]

RecordLink(i) ==
  /\ run[i].pc = "recording"
  /\ record_link(run[i].ticket, run[i].ref)
  /\ run' = [run EXCEPT ![i].pc = "next"]
  /\ UNCHANGED <<issues, ingest_lock>>

IngesterCrash(i) ==
  /\ "crash" \in Disturbances
  /\ run[i].pc # "idle"
  /\ IngesterExits(i)

-----------------------------------------------------------------------------

IngesterStep(i) ==
  \/ FetchTickets(i)
  \/ FetchFails(i)
  \/ NextRule(i)
  \/ EndRun(i)
  \/ \E t \in Tickets : PassOver(i, t) \/ TakeTicket(i, t)
  \/ \E n \in Issue : CreateIssue(i, n) \/ CreateIssueReplyLost(i, n)
  \/ CreateFails(i)
  \/ RecordLink(i)

Next ==
  \E i \in Ingesters :
    \/ \E dry \in DryRuns : StartRun(i, dry)
    \/ IngesterStep(i)
    \/ IngesterCrash(i)

Spec == Init /\ [][Next]_vars

FetchRule(i, rule) == run[i].rule = rule /\ FetchTickets(i)
CreateFor(i, t) == run[i].ticket = t /\ \E n \in Issue : CreateIssue(i, n)

\* cron starts the command again and again; a started process keeps going; and
\* a table that is fetched, or a ticket that is sent to Jira, again and again
\* succeeds in the end unless it is one of those that never do.
Fairness ==
  /\ WF_vars(\E i \in Ingesters : StartRun(i, FALSE))
  /\ \A i \in Ingesters :
       /\ WF_vars(IngesterStep(i))
       /\ \A rule \in 1 .. Len(Rules) : SF_vars(FetchRule(i, rule))
       /\ \A t \in Tickets : SF_vars(CreateFor(i, t))

FairSpec == Spec /\ Fairness

-----------------------------------------------------------------------------
(* Properties that crashes and lost replies do not touch.                   *)

\* A link joins a ticket to an issue that was created for that very ticket:
\* no path through the handlers records the ref of another iteration.
LinkJoinsTicketToItsIssue ==
  \A t \in Tickets : links[t] # NoIssue => issues[links[t]] = t

\* No issue is created for a ticket that is linked already, whatever another
\* process did between the look at the link and the call to Jira.
LinkedTicketGetsNoIssue ==
  [][\A n \in Issue :
       issues'[n] # issues[n] => links[issues'[n]] = NoIssue]_vars

\* What makes both inductive: a process past the flock holds it, the ticket at
\* hand has no link, and the ref about to be recorded is of that ticket.
AtWork(i) ==
  /\ run[i].pc # "idle" => ingest_lock = i
  /\ run[i].pc \in {"creating", "recording"} => links[run[i].ticket] = NoIssue
  /\ run[i].pc = "recording" => issues[run[i].ref] = run[i].ticket

IngestInv == (\A i \in Ingesters : AtWork(i)) /\ LinkJoinsTicketToItsIssue

-----------------------------------------------------------------------------
(* Properties of runs with no crash and no lost reply.                      *)

\* Re-running ingest never creates a second issue for a ticket.
NothingIngestedTwice ==
  \A m, n \in Issue :
    issues[m] # NoTicket /\ issues[m] = issues[n] => m = n

\* Every issue is linked to its ticket from the moment the run that created it
\* has gone on, so that the next run skips that ticket.
EveryIssueIsLinked ==
  \A n \in Issue : issues[n] # NoTicket =>
    \/ links[issues[n]] = n
    \/ \E i \in Ingesters : run[i].pc = "recording" /\ run[i].ref = n

\* The two are inductive together, given IngestInv.
CleanInv == NothingIngestedTwice /\ EveryIssueIsLinked

\* Every ticket of a table some rule names gets an issue in the end, whichever
\* tables cannot be fetched and whichever tickets Jira rejects, as long as its
\* own table can and its own payload is accepted.
Ingestible ==
  {t \in Tickets \ Refused :
     /\ TableOf[t] \notin DeadTables
     /\ \E rule \in 1 .. Len(Rules) : Rules[rule] = TableOf[t]}

EveryTicketIsIngested == \A t \in Ingestible : <>(links[t] # NoIssue)
=============================================================================
