---------------------------- MODULE IngestProofs ----------------------------
(***************************************************************************)
(* Theorems about Ingest, for every set of tickets, of processes and of    *)
(* rules.                                                                  *)
(***************************************************************************)
EXTENDS IngestRefinement, TLAPS

LEMMA RulesAreCounted == Len(Rules) \in Nat
BY TicketsAssumption

LEMMA IdleIngesterType == IdleIngester \in IngesterState
BY RulesAreCounted DEF IdleIngester, IngesterState

LEMMA InitType == Init => TypeOK
BY IdleIngesterType DEF Init, TypeOK, IdleIngester, Assigned

\* A step that leaves process i in a good state keeps TypeOK, if it does so with
\* the shared variables.
LEMMA LocalsType ==
  ASSUME TypeOK, NEW i \in Ingesters,
         NEW state \in IngesterState, Assigned(state),
         run' = [run EXCEPT ![i] = state],
         links' \in [Tickets -> Issue \cup {NoIssue}],
         issues' \in [Issue -> Tickets \cup {NoTicket}],
         ingest_lock' \in Ingesters \cup {NoProc}
  PROVE  TypeOK'
BY DEF TypeOK

LEMMA StartType ==
  ASSUME TypeOK, NEW i \in Ingesters, NEW dry \in DryRuns, StartRun(i, dry)
  PROVE  TypeOK'
<1> DEFINE state == [run[i] EXCEPT !.pc = "fetching", !.dry = dry]
<1>1. state \in IngesterState /\ Assigned(state)
  <2>1. run[i] \in IngesterState /\ dry \in BOOLEAN
    BY RunsAssumption DEF TypeOK
  <2>2. state \in IngesterState
    BY <2>1 DEF IngesterState
  <2>3. state.pc = "fetching"
    BY <2>1 DEF IngesterState
  <2> QED
    BY <2>2, <2>3 DEF Assigned
<1>2. run' = [run EXCEPT ![i] = state]
  BY DEF StartRun
<1> HIDE DEF state
<1> QED
  BY <1>1, <1>2, LocalsType DEF StartRun, TypeOK

LEMMA ExitType ==
  ASSUME TypeOK, NEW i \in Ingesters, IngesterExits(i)
  PROVE  TypeOK'
BY IdleIngesterType DEF IngesterExits, TypeOK, IdleIngester, Assigned

\* The steps of the two loops and of the handlers.
LEMMA StepType ==
  ASSUME TypeOK, NEW i \in Ingesters, IngesterStep(i)
  PROVE  TypeOK'
<1> USE RulesAreCounted
<1>0. run[i] \in IngesterState /\ Assigned(run[i])
  BY DEF TypeOK
<1>1. CASE FetchTickets(i)
  <2>1. PICK answer \in SnowAnswers :
          run' = [run EXCEPT ![i].pc = "next",
                    ![i].todo = {t \in answer : TableOf[t] = Rules[run[i].rule]}]
    BY <1>1 DEF FetchTickets
  <2> DEFINE todo == {t \in answer : TableOf[t] = Rules[run[i].rule]}
             state == [run[i] EXCEPT !.pc = "next", !.todo = todo]
  <2>2. todo \in SUBSET Tickets
    BY TicketsAssumption
  <2>3. run' = [run EXCEPT ![i] = state]
    BY <2>1
  <2> HIDE DEF todo
  <2>4. state \in IngesterState /\ Assigned(state)
    BY <1>0, <1>1, <2>2
    DEF FetchTickets, FetchingRule, IngesterState, Assigned
  <2> HIDE DEF state
  <2> QED
    BY <1>1, <2>3, <2>4, LocalsType DEF FetchTickets, TypeOK
<1>2. CASE FetchFails(i)
  <2> DEFINE state == [run[i] EXCEPT !.rule = @ + 1]
  <2>1. state \in IngesterState /\ Assigned(state)
    BY <1>0, <1>2 DEF FetchFails, FetchingRule, IngesterState, Assigned
  <2>2. run' = [run EXCEPT ![i] = state]
    BY <1>2 DEF FetchFails, FetchingRule
  <2> HIDE DEF state
  <2> QED
    BY <1>2, <2>1, <2>2, LocalsType DEF FetchFails, FetchingRule, TypeOK
<1>3. CASE NextRule(i)
  <2> DEFINE state == [run[i] EXCEPT !.pc = "fetching", !.rule = @ + 1]
  <2>1. state \in IngesterState /\ Assigned(state)
    <3>1. run[i].rule + 1 \in 1 .. Len(Rules) + 1
      BY <1>0, <1>3 DEF NextRule, IngesterState, Assigned
    <3> QED
      BY <1>0, <3>1 DEF IngesterState, Assigned
  <2>2. run' = [run EXCEPT ![i] = state]
    BY <1>3 DEF NextRule
  <2> HIDE DEF state
  <2> QED
    BY <1>3, <2>1, <2>2, LocalsType DEF NextRule, TypeOK
<1>4. CASE EndRun(i)
  BY <1>4, ExitType DEF EndRun
<1>5. ASSUME NEW t \in Tickets, PassOver(i, t) PROVE TypeOK'
  <2> DEFINE state == [run[i] EXCEPT !.todo = @ \ {t}]
  <2>1. state \in IngesterState /\ Assigned(state)
    BY <1>0, <1>5 DEF PassOver, LoopReaches, IngesterState, Assigned
  <2>2. run' = [run EXCEPT ![i] = state]
    BY <1>5 DEF PassOver, LoopReaches
  <2> HIDE DEF state
  <2> QED
    BY <1>5, <2>1, <2>2, LocalsType DEF PassOver, LoopReaches, TypeOK
<1>6. ASSUME NEW t \in Tickets, TakeTicket(i, t) PROVE TypeOK'
  <2> DEFINE state == [run[i] EXCEPT !.pc = "creating", !.todo = @ \ {t},
                                   !.ticket = t]
  <2>1. state \in IngesterState /\ Assigned(state)
    BY <1>0, <1>6, TicketsAssumption DEF TakeTicket, LoopReaches, IngesterState, Assigned
  <2>2. run' = [run EXCEPT ![i] = state]
    BY <1>6 DEF TakeTicket, LoopReaches
  <2> HIDE DEF state
  <2> QED
    BY <1>6, <2>1, <2>2, LocalsType DEF TakeTicket, LoopReaches, TypeOK
<1>7. ASSUME NEW n \in Issue, CreateIssue(i, n) PROVE TypeOK'
  <2> DEFINE state == [run[i] EXCEPT !.pc = "recording", !.ref = n]
  <2>1. state \in IngesterState /\ Assigned(state)
    <3>1. n # NoIssue
      BY DEF Issue, NoIssue
    <3> QED
      BY <1>0, <1>7, <3>1 DEF CreateIssue, IngesterState, Assigned
  <2>2. run' = [run EXCEPT ![i] = state]
    BY <1>7 DEF CreateIssue
  <2>3. issues' \in [Issue -> Tickets \cup {NoTicket}]
    BY <1>0, <1>7 DEF CreateIssue, TypeOK, IngesterState
  <2> HIDE DEF state
  <2> QED
    BY <1>7, <2>1, <2>2, <2>3, LocalsType DEF CreateIssue, TypeOK
<1>8. ASSUME NEW n \in Issue, CreateIssueReplyLost(i, n) PROVE TypeOK'
  <2> DEFINE state == [run[i] EXCEPT !.pc = "next"]
  <2>1. state \in IngesterState /\ Assigned(state)
    BY <1>0, <1>8 DEF CreateIssueReplyLost, IngesterState, Assigned
  <2>2. run' = [run EXCEPT ![i] = state]
    BY <1>8 DEF CreateIssueReplyLost
  <2>3. issues' \in [Issue -> Tickets \cup {NoTicket}]
    BY <1>0, <1>8 DEF CreateIssueReplyLost, TypeOK, IngesterState
  <2> HIDE DEF state
  <2> QED
    BY <1>8, <2>1, <2>2, <2>3, LocalsType DEF CreateIssueReplyLost, TypeOK
<1>9. CASE CreateFails(i)
  <2> DEFINE state == [run[i] EXCEPT !.pc = "next"]
  <2>1. state \in IngesterState /\ Assigned(state)
    BY <1>0, <1>9 DEF CreateFails, IngesterState, Assigned
  <2>2. run' = [run EXCEPT ![i] = state]
    BY <1>9 DEF CreateFails
  <2> HIDE DEF state
  <2> QED
    BY <1>9, <2>1, <2>2, LocalsType DEF CreateFails, TypeOK
<1>10. CASE RecordLink(i)
  <2> DEFINE state == [run[i] EXCEPT !.pc = "next"]
  <2>1. state \in IngesterState /\ Assigned(state)
    BY <1>0, <1>10 DEF RecordLink, IngesterState, Assigned
  <2>2. run' = [run EXCEPT ![i] = state]
    BY <1>10 DEF RecordLink
  <2>3. links' \in [Tickets -> Issue \cup {NoIssue}]
    BY <1>0, <1>10 DEF RecordLink, record_link, TypeOK, IngesterState
  <2> HIDE DEF state
  <2> QED
    BY <1>10, <2>1, <2>2, <2>3, LocalsType DEF RecordLink, TypeOK
<1> QED
  BY <1>1, <1>2, <1>3, <1>4, <1>5, <1>6, <1>7, <1>8, <1>9, <1>10
  DEF IngesterStep

LEMMA NextType == TypeOK /\ [Next]_vars => TypeOK'
<1> SUFFICES ASSUME TypeOK, [Next]_vars PROVE TypeOK'
  OBVIOUS
<1>1. CASE UNCHANGED vars
  BY <1>1 DEF vars, TypeOK
<1>2. CASE Next
  BY <1>2, StartType, StepType, ExitType DEF Next, IngesterCrash
<1> QED
  BY <1>1, <1>2

\* TypeOK: every process has assigned the locals it is about to read, so that
\* record_link is never given a missing key, whatever create_issue does.
THEOREM TypeCorrect == Spec => []TypeOK
BY InitType, NextType, PTL DEF Spec

-----------------------------------------------------------------------------

LEMMA InitInv == Init => IngestInv
BY DEF Init, IngestInv, AtWork, LinkJoinsTicketToItsIssue, IdleIngester

\* Two processes are never past the flock at the same time.
LEMMA OthersIdle ==
  ASSUME IngestInv, NEW i \in Ingesters, NEW j \in Ingesters,
         run[i].pc # "idle", run[j].pc # "idle"
  PROVE  i = j
BY DEF IngestInv, AtWork

\* It is enough to look at the process that moves.
LEMMA MoverInv ==
  ASSUME TypeOK, IngestInv, NEW i \in Ingesters, run[i].pc # "idle",
         \A j \in Ingesters \ {i} : run'[j] = run[j],
         AtWork(i)', LinkJoinsTicketToItsIssue'
  PROVE  IngestInv'
<1>1. ASSUME NEW j \in Ingesters, j # i PROVE AtWork(j)'
  <2>1. run[j].pc = "idle"
    BY <1>1, OthersIdle
  <2> QED
    BY <1>1, <2>1 DEF AtWork
<1> QED
  BY <1>1 DEF IngestInv

LEMMA StartInv ==
  ASSUME TypeOK, IngestInv, NEW i \in Ingesters, NEW dry \in DryRuns,
         StartRun(i, dry)
  PROVE  IngestInv'
<1>1. ASSUME NEW j \in Ingesters PROVE AtWork(j)'
  <2>1. run[j].pc = "idle"
    BY RunsAssumption DEF StartRun, IngestInv, AtWork
  <2>2. CASE j = i
    BY <2>2 DEF StartRun, TypeOK, IngesterState, AtWork
  <2>3. CASE j # i
    BY <2>1, <2>3 DEF StartRun, TypeOK, AtWork
  <2> QED
    BY <2>2, <2>3
<1>2. LinkJoinsTicketToItsIssue'
  BY DEF StartRun, IngestInv, LinkJoinsTicketToItsIssue
<1> QED
  BY <1>1, <1>2 DEF IngestInv

LEMMA ExitInv ==
  ASSUME TypeOK, IngestInv, NEW i \in Ingesters, run[i].pc # "idle",
         IngesterExits(i)
  PROVE  IngestInv'
<1>1. AtWork(i)'
  BY DEF IngesterExits, IdleIngester, TypeOK, AtWork
<1>2. LinkJoinsTicketToItsIssue'
  BY DEF IngesterExits, IngestInv, LinkJoinsTicketToItsIssue
<1> QED
  BY <1>1, <1>2, MoverInv DEF IngesterExits, TypeOK

\* Steps that leave the links and the issues alone.
LEMMA LocalInv ==
  ASSUME TypeOK, IngestInv, NEW i \in Ingesters, run[i].pc # "idle",
         \A j \in Ingesters \ {i} : run'[j] = run[j],
         \/ run'[i].pc \in {"fetching", "next"}
         \/ run'[i].pc = "creating" /\ links[run'[i].ticket] = NoIssue,
         UNCHANGED <<links, issues, ingest_lock>>
  PROVE  IngestInv'
<1>1. AtWork(i)'
  BY DEF AtWork, IngestInv, TypeOK
<1>2. LinkJoinsTicketToItsIssue'
  BY DEF IngestInv, LinkJoinsTicketToItsIssue
<1> QED
  BY <1>1, <1>2, MoverInv

LEMMA CreateInv ==
  ASSUME TypeOK, IngestInv, NEW i \in Ingesters, NEW n \in Issue,
         CreateIssue(i, n) \/ CreateIssueReplyLost(i, n)
  PROVE  IngestInv'
<1>1. issues[n] = NoTicket /\ issues' = [issues EXCEPT ![n] = run[i].ticket]
  BY DEF CreateIssue, CreateIssueReplyLost, NextIssue, Issue
<1>2. run[i].pc = "creating" /\ UNCHANGED <<links, ingest_lock>>
  BY DEF CreateIssue, CreateIssueReplyLost
<1>3. LinkJoinsTicketToItsIssue'
  <2> SUFFICES ASSUME NEW t \in Tickets, links[t] # NoIssue
               PROVE  issues'[links[t]] = t
    BY <1>2 DEF LinkJoinsTicketToItsIssue
  <2>1. issues[links[t]] = t /\ links[t] \in Issue
    BY DEF IngestInv, LinkJoinsTicketToItsIssue, TypeOK
  <2>2. links[t] # n
    BY <2>1, <1>1, TicketsAssumption
  <2> QED
    BY <2>1, <2>2, <1>1 DEF TypeOK
<1>4. AtWork(i)'
  BY <1>1, <1>2
  DEF CreateIssue, CreateIssueReplyLost, AtWork, IngestInv, TypeOK, IngesterState
<1>5. \A j \in Ingesters \ {i} : run'[j] = run[j]
  BY DEF CreateIssue, CreateIssueReplyLost, TypeOK
<1> QED
  BY <1>2, <1>3, <1>4, <1>5, MoverInv

LEMMA RecordInv ==
  ASSUME TypeOK, IngestInv, NEW i \in Ingesters, RecordLink(i)
  PROVE  IngestInv'
<1>1. /\ run[i].ticket \in Tickets
      /\ links[run[i].ticket] = NoIssue
      /\ issues[run[i].ref] = run[i].ticket
  BY DEF RecordLink, IngestInv, AtWork, TypeOK, IngesterState, Assigned
<1>2. links' = [links EXCEPT ![run[i].ticket] = run[i].ref]
  BY <1>1 DEF RecordLink, record_link
<1>3. LinkJoinsTicketToItsIssue'
  BY <1>1, <1>2 DEF RecordLink, IngestInv, LinkJoinsTicketToItsIssue, TypeOK
<1>4. AtWork(i)'
  BY DEF RecordLink, IngestInv, AtWork, TypeOK, IngesterState
<1>5. \A j \in Ingesters \ {i} : run'[j] = run[j]
  BY DEF RecordLink, TypeOK
<1> QED
  BY <1>3, <1>4, <1>5, MoverInv DEF RecordLink

LEMMA NextInv == TypeOK /\ IngestInv /\ [Next]_vars => IngestInv'
<1> SUFFICES ASSUME TypeOK, IngestInv, [Next]_vars PROVE IngestInv'
  OBVIOUS
<1>1. CASE UNCHANGED vars
  BY <1>1 DEF vars, IngestInv, AtWork, LinkJoinsTicketToItsIssue
<1>2. ASSUME NEW i \in Ingesters, IngesterStep(i) PROVE IngestInv'
  <2>1. CASE FetchTickets(i)
    <3>1. /\ \A j \in Ingesters \ {i} : run'[j] = run[j]
          /\ run'[i].pc = "next"
      BY <2>1 DEF FetchTickets, TypeOK, IngesterState
    <3> QED
      BY <2>1, <3>1, LocalInv DEF FetchTickets, FetchingRule
  <2>2. CASE FetchFails(i)
    <3>1. /\ \A j \in Ingesters \ {i} : run'[j] = run[j]
          /\ run'[i].pc = "fetching"
      BY <2>2 DEF FetchFails, FetchingRule, TypeOK, IngesterState
    <3> QED
      BY <2>2, <3>1, LocalInv DEF FetchFails, FetchingRule
  <2>3. CASE NextRule(i)
    <3>1. /\ \A j \in Ingesters \ {i} : run'[j] = run[j]
          /\ run'[i].pc = "fetching"
      BY <2>3 DEF NextRule, TypeOK, IngesterState
    <3> QED
      BY <2>3, <3>1, LocalInv DEF NextRule
  <2>4. CASE EndRun(i)
    BY <2>4, ExitInv DEF EndRun
  <2>5. ASSUME NEW t \in Tickets, PassOver(i, t) PROVE IngestInv'
    <3>1. /\ \A j \in Ingesters \ {i} : run'[j] = run[j]
          /\ run'[i].pc = "next"
      BY <2>5 DEF PassOver, LoopReaches, TypeOK, IngesterState
    <3> QED
      BY <2>5, <3>1, LocalInv DEF PassOver, LoopReaches
  <2>6. ASSUME NEW t \in Tickets, TakeTicket(i, t) PROVE IngestInv'
    <3>1. /\ \A j \in Ingesters \ {i} : run'[j] = run[j]
          /\ run'[i].pc = "creating" /\ run'[i].ticket = t
      BY <2>6 DEF TakeTicket, LoopReaches, TypeOK, IngesterState
    <3> QED
      BY <2>6, <3>1, LocalInv DEF TakeTicket, LoopReaches
  <2>7. CASE CreateFails(i)
    <3>1. /\ \A j \in Ingesters \ {i} : run'[j] = run[j]
          /\ run'[i].pc = "next"
      BY <2>7 DEF CreateFails, TypeOK, IngesterState
    <3> QED
      BY <2>7, <3>1, LocalInv DEF CreateFails
  <2> QED
    BY <1>2, <2>1, <2>2, <2>3, <2>4, <2>5, <2>6, <2>7, CreateInv, RecordInv
    DEF IngesterStep
<1>3. CASE Next
  BY <1>2, <1>3, StartInv, ExitInv DEF Next, IngesterCrash
<1> QED
  BY <1>1, <1>3

LEMMA IngestInvariant == Spec => [](TypeOK /\ IngestInv)
BY InitType, NextType, InitInv, NextInv, PTL DEF Spec

\* LinkJoinsTicketToItsIssue: record_link is only ever given the ref of the
\* ticket at hand, through every handler, crash and lost reply.
THEOREM LinksAreTrue == Spec => []LinkJoinsTicketToItsIssue
<1>1. IngestInv => LinkJoinsTicketToItsIssue
  BY DEF IngestInv
<1> QED
  BY <1>1, IngestInvariant, PTL

\* LinkedTicketGetsNoIssue: what get_jira_key answered still holds when
\* create_issue is called, because ingest.lock is held from one to the other.
THEOREM LinkedTicketsAreLeftAlone == Spec => LinkedTicketGetsNoIssue
<1> DEFINE Kept == \A n \in Issue :
             issues'[n] # issues[n] => links[issues'[n]] = NoIssue
<1>1. ASSUME TypeOK, IngestInv, NEW i \in Ingesters, NEW n \in Issue,
             CreateIssue(i, n) \/ CreateIssueReplyLost(i, n)
      PROVE  Kept
  <2>1. /\ links[run[i].ticket] = NoIssue
        /\ issues' = [issues EXCEPT ![n] = run[i].ticket]
    BY <1>1 DEF CreateIssue, CreateIssueReplyLost, IngestInv, AtWork
  <2> QED
    BY <2>1 DEF TypeOK
<1>2. ASSUME TypeOK, IngestInv, [Next]_vars PROVE [Kept]_vars
  <2>1. CASE UNCHANGED issues
    BY <2>1
  <2>2. CASE \E i \in Ingesters, n \in Issue :
               CreateIssue(i, n) \/ CreateIssueReplyLost(i, n)
    BY <1>1, <1>2, <2>2
  <2> QED
    BY <1>2, <2>1, <2>2
    DEF Next, vars, StartRun, IngesterStep, IngesterCrash, IngesterExits,
        FetchTickets, FetchFails, NextRule, EndRun, PassOver, TakeTicket,
        CreateFails, RecordLink
<1> QED
  BY <1>2, IngestInvariant, PTL DEF Spec, LinkedTicketGetsNoIssue

-----------------------------------------------------------------------------
(* Runs with no crash and no lost reply.                                    *)

LEMMA InitClean == Init => CleanInv
BY DEF Init, CleanInv, NothingIngestedTwice, EveryIssueIsLinked

\* Steps that leave the links and the issues alone, and no ref unrecorded.
LEMMA LocalClean ==
  ASSUME CleanInv, UNCHANGED <<links, issues>>,
         \A j \in Ingesters : run[j].pc = "recording" => run'[j] = run[j]
  PROVE  CleanInv'
BY DEF CleanInv, NothingIngestedTwice, EveryIssueIsLinked

LEMMA CreateClean ==
  ASSUME TypeOK, IngestInv, CleanInv, NEW i \in Ingesters, NEW n \in Issue,
         CreateIssue(i, n)
  PROVE  CleanInv'
<1> DEFINE t == run[i].ticket
<1>1. /\ t \in Tickets /\ links[t] = NoIssue
      /\ issues' = [issues EXCEPT ![n] = t]
      /\ run[i].pc = "creating" /\ links' = links
      /\ run'[i].pc = "recording" /\ run'[i].ref = n
      /\ \A j \in Ingesters \ {i} : run'[j] = run[j]
  BY DEF CreateIssue, IngestInv, AtWork, TypeOK, IngesterState, Assigned
<1>2. \A j \in Ingesters : run[j].pc # "recording"
  BY <1>1, OthersIdle
<1>3. \A m \in Issue : issues[m] # t
  BY <1>1, <1>2, TicketsAssumption
  DEF CleanInv, EveryIssueIsLinked, Issue, NoIssue
<1> HIDE DEF t
<1>4. NothingIngestedTwice'
  BY <1>1, <1>3 DEF CleanInv, NothingIngestedTwice, TypeOK
<1>5. EveryIssueIsLinked'
  BY <1>1, <1>2 DEF CleanInv, EveryIssueIsLinked, TypeOK
<1> QED
  BY <1>4, <1>5 DEF CleanInv

LEMMA RecordClean ==
  ASSUME TypeOK, IngestInv, CleanInv, NEW i \in Ingesters, RecordLink(i)
  PROVE  CleanInv'
<1> DEFINE t == run[i].ticket
           n == run[i].ref
<1>1. /\ t \in Tickets /\ n \in Issue
      /\ issues[n] = t /\ issues' = issues
      /\ links' = [links EXCEPT ![t] = n]
      /\ run[i].pc = "recording"
  BY DEF RecordLink, record_link, IngestInv, AtWork, TypeOK, IngesterState,
         Assigned
<1>2. NothingIngestedTwice'
  BY <1>1 DEF CleanInv, NothingIngestedTwice
<1>3. EveryIssueIsLinked'
  <2> SUFFICES ASSUME NEW m \in Issue, issues[m] # NoTicket
               PROVE  links'[issues[m]] = m
    BY <1>1 DEF EveryIssueIsLinked
  <2>1. CASE m = n
    BY <2>1, <1>1 DEF TypeOK
  <2>2. CASE m # n
    <3>1. issues[m] # t
      BY <2>2, <1>1 DEF CleanInv, NothingIngestedTwice
    <3>2. links[issues[m]] = m
      BY <2>2, <1>1, OthersIdle DEF CleanInv, EveryIssueIsLinked
    <3> QED
      BY <3>1, <3>2, <1>1 DEF TypeOK
  <2> QED
    BY <2>1, <2>2
<1> QED
  BY <1>2, <1>3 DEF CleanInv

LEMMA NextClean ==
  ASSUME Disturbances = {}, TypeOK, IngestInv, CleanInv, [Next]_vars
  PROVE  CleanInv'
<1>1. CASE UNCHANGED vars
  BY <1>1, LocalClean DEF vars
<1>2. ASSUME NEW i \in Ingesters, NEW dry \in DryRuns, StartRun(i, dry)
      PROVE  CleanInv'
  BY <1>2, LocalClean DEF StartRun, TypeOK
<1>3. ASSUME NEW i \in Ingesters, IngesterStep(i) PROVE CleanInv'
  <2>1. ASSUME NEW n \in Issue, CreateIssue(i, n) PROVE CleanInv'
    BY <2>1, CreateClean
  <2>2. CASE RecordLink(i)
    BY <2>2, RecordClean
  <2>3. CASE EndRun(i)
    BY <2>3, LocalClean DEF EndRun, IngesterExits, TypeOK
  <2>4. CASE \/ FetchTickets(i) \/ FetchFails(i)
             \/ NextRule(i) \/ CreateFails(i)
    BY <2>4, LocalClean
    DEF FetchTickets, FetchFails, FetchingRule, NextRule, CreateFails, TypeOK
  <2>5. ASSUME NEW t \in Tickets, PassOver(i, t) \/ TakeTicket(i, t)
        PROVE  CleanInv'
    BY <2>5, LocalClean DEF PassOver, TakeTicket, LoopReaches, TypeOK
  <2> QED
    BY <1>3, <2>1, <2>2, <2>3, <2>4, <2>5
    DEF IngesterStep, CreateIssueReplyLost
<1> QED
  BY <1>1, <1>2, <1>3 DEF Next, IngesterCrash

LEMMA CleanInvariant ==
  ASSUME Disturbances = {}
  PROVE  Spec => []CleanInv
<1>1. TypeOK /\ IngestInv /\ CleanInv /\ [Next]_vars => CleanInv'
  BY NextClean
<1> QED
  BY <1>1, InitClean, IngestInvariant, PTL DEF Spec

\* NothingIngestedTwice: as long as no run dies and no answer is lost between
\* Jira and the table, overlapping and repeated runs create one issue a ticket.
THEOREM NoTicketIsIngestedTwice ==
  ASSUME Disturbances = {}
  PROVE  Spec => []NothingIngestedTwice
<1>1. CleanInv => NothingIngestedTwice
  BY DEF CleanInv
<1> QED
  BY <1>1, CleanInvariant, PTL

\* EveryIssueIsLinked: under the same assumption every issue is in the table,
\* or about to be, so that get_jira_key finds it.
THEOREM IssuesAreLinked ==
  ASSUME Disturbances = {}
  PROVE  Spec => []EveryIssueIsLinked
<1>1. CleanInv => EveryIssueIsLinked
  BY DEF CleanInv
<1> QED
  BY <1>1, CleanInvariant, PTL

-----------------------------------------------------------------------------
(* Ingest implements Intake.                                                *)

\* Only the process past the flock can have an issue to record.
LEMMA UnlinkedIs ==
  ASSUME IngestInv, NEW i \in Ingesters, run[i].pc # "idle"
  PROVE  Unlinked = IF run[i].pc = "recording" THEN run[i].ref ELSE NoIssue
BY RunsAssumption DEF IngestInv, AtWork, Unlinked

LEMMA UnlinkedBecomes ==
  ASSUME IngestInv', NEW i \in Ingesters, run'[i].pc # "idle"
  PROVE  Unlinked' = IF run'[i].pc = "recording" THEN run'[i].ref ELSE NoIssue
BY RunsAssumption DEF IngestInv, AtWork, Unlinked

\* Steps of the loops, which Intake does not see.
LEMMA LoopsAreHidden ==
  ASSUME TypeOK, IngestInv, IngestInv', NEW i \in Ingesters,
         \/ FetchTickets(i) \/ FetchFails(i) \/ NextRule(i) \/ CreateFails(i)
         \/ \E t \in Tickets : PassOver(i, t) \/ TakeTicket(i, t)
  PROVE  UNCHANGED Abstract!vars
<1>1. run[i].pc \in {"fetching", "next", "creating"} /\ UNCHANGED <<links, issues>>
  BY DEF FetchTickets, FetchFails, FetchingRule, NextRule, CreateFails, PassOver,
         TakeTicket, LoopReaches
<1>2. run'[i].pc \in {"fetching", "next", "creating"}
  <2>0. run[i] \in IngesterState /\ i \in DOMAIN run
    BY DEF TypeOK
  <2>1. CASE FetchTickets(i)
    BY <2>0, <2>1 DEF FetchTickets, IngesterState
  <2>2. CASE FetchFails(i)
    BY <1>1, <2>0, <2>2 DEF FetchFails, IngesterState
  <2>3. CASE NextRule(i) \/ CreateFails(i)
    BY <2>0, <2>3 DEF NextRule, CreateFails, IngesterState
  <2>4. ASSUME NEW t, PassOver(i, t)
        PROVE  run'[i].pc = "next"
    BY <2>0, <2>4 DEF PassOver, LoopReaches, IngesterState
  <2>5. ASSUME NEW t, TakeTicket(i, t)
        PROVE  run'[i].pc = "creating"
    BY <2>0, <2>5 DEF TakeTicket, IngesterState
  <2> QED
    BY <2>1, <2>2, <2>3, <2>4, <2>5
<1>3. Unlinked = NoIssue /\ Unlinked' = NoIssue
  BY <1>1, <1>2, UnlinkedIs, UnlinkedBecomes
<1> QED
  BY <1>1, <1>3 DEF Abstract!vars

LEMMA CreateRefined ==
  ASSUME TypeOK, IngestInv, IngestInv', NEW i \in Ingesters, NEW n \in Issue,
         CreateIssue(i, n) \/ CreateIssueReplyLost(i, n)
  PROVE  \E t \in Tickets : Abstract!Create(t, n) \/ Abstract!Lose(t, n)
<1> DEFINE t == run[i].ticket
<1>1. /\ t \in Tickets /\ links[t] = NoIssue /\ run[i].pc = "creating"
      /\ NextIssue(n) /\ issues' = [issues EXCEPT ![n] = t] /\ UNCHANGED links
  BY DEF CreateIssue, CreateIssueReplyLost, IngestInv, AtWork, TypeOK, IngesterState,
         Assigned
<1>2. Unlinked = NoIssue
  BY <1>1, UnlinkedIs
<1> HIDE DEF t
<1>3. Abstract!Make(t, n)
  BY <1>1, <1>2 DEF NextIssue, Abstract!Make
<1>4. CASE CreateIssue(i, n)
  <2>1. run'[i].pc = "recording" /\ run'[i].ref = n
    BY <1>4 DEF CreateIssue, TypeOK, IngesterState
  <2>2. Unlinked' = n
    BY <2>1, UnlinkedBecomes
  <2> QED
    BY <1>1, <1>3, <2>2 DEF Abstract!Create
<1>5. CASE CreateIssueReplyLost(i, n)
  <2>1. run'[i].pc = "next" /\ "lost_reply" \in Disturbances
    BY <1>5 DEF CreateIssueReplyLost, TypeOK, IngesterState
  <2>2. Unlinked' = NoIssue
    BY <2>1, UnlinkedBecomes
  <2> QED
    BY <1>1, <1>2, <1>3, <2>1, <2>2 DEF Abstract!Lose
<1> QED
  BY <1>4, <1>5

\* ON CONFLICT DO NOTHING never has a conflict.
LEMMA RecordRefined ==
  ASSUME TypeOK, IngestInv, IngestInv', NEW i \in Ingesters, RecordLink(i)
  PROVE  Abstract!Link
<1>1. /\ run[i].pc = "recording" /\ UNCHANGED issues
      /\ run[i].ref # NoIssue
      /\ issues[run[i].ref] = run[i].ticket
      /\ links[run[i].ticket] = NoIssue
  BY DEF RecordLink, IngestInv, AtWork, TypeOK, Assigned
<1>2. links' = [links EXCEPT ![run[i].ticket] = run[i].ref]
  BY <1>1 DEF RecordLink, record_link
<1>3. run'[i].pc = "next"
  BY DEF RecordLink, TypeOK, IngesterState
<1>4. Unlinked = run[i].ref /\ Unlinked' = NoIssue
  BY <1>1, <1>3, UnlinkedIs, UnlinkedBecomes
<1> QED
  BY <1>1, <1>2, <1>4 DEF Abstract!Link

LEMMA StepRefined ==
  ASSUME TypeOK, IngestInv, IngestInv', [Next]_vars
  PROVE  [Abstract!Next]_(Abstract!vars)
<1>1. CASE UNCHANGED vars
  BY <1>1 DEF vars, Unlinked, Abstract!vars
<1>2. ASSUME NEW i \in Ingesters, NEW dry \in DryRuns, StartRun(i, dry)
      PROVE  UNCHANGED Abstract!vars
  <2>1. run'[i].pc = "fetching" /\ Unlinked = NoIssue /\ UNCHANGED <<links, issues>>
    BY <1>2 DEF StartRun, TypeOK, IngesterState, Unlinked
  <2>2. Unlinked' = NoIssue
    BY <2>1, UnlinkedBecomes
  <2> QED
    BY <2>1, <2>2 DEF Abstract!vars
<1>3. ASSUME NEW i \in Ingesters, EndRun(i) \/ IngesterCrash(i)
      PROVE  [Abstract!Next]_(Abstract!vars)
  <2>1. Unlinked' = NoIssue /\ UNCHANGED <<links, issues>>
    BY <1>3 DEF EndRun, IngesterCrash, IngesterExits, Unlinked
  <2>2. CASE Unlinked = NoIssue
    BY <2>1, <2>2 DEF Abstract!vars
  <2>3. CASE Unlinked # NoIssue
    <3>1. IngesterCrash(i)
      BY <1>3, <2>3, UnlinkedIs DEF EndRun
    <3> QED
      BY <2>1, <2>3, <3>1 DEF IngesterCrash, Abstract!Forget, Abstract!Next
  <2> QED
    BY <2>2, <2>3
<1> QED
  BY <1>1, <1>2, <1>3, LoopsAreHidden, CreateRefined, RecordRefined
  DEF Next, IngesterStep, Abstract!Next

\* Every step of the processes, and every crash and lost reply, is one that
\* Intake allows or changes nothing it speaks of: issues are created one at a
\* time for tickets without a link, each is linked before the next one is made,
\* and no link is written over.
THEOREM IngestImplementsIntake == Spec => ImplementsIntake
<1>1. Init => Abstract!Init
  BY DEF Init, Unlinked, Abstract!Init
<1>2. TypeOK /\ IngestInv /\ (TypeOK /\ IngestInv)' /\ [Next]_vars
        => [Abstract!Next]_(Abstract!vars)
  BY StepRefined
<1> QED
  BY <1>1, <1>2, IngestInvariant, PTL DEF Spec, ImplementsIntake, Abstract!Spec
=============================================================================
