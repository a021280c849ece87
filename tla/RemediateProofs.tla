-------------------------- MODULE RemediateProofs ---------------------------
(***************************************************************************)
(* Theorems about Remediate, for every set of issues, of processes and of  *)
(* command lines, and whatever may disturb them.                           *)
(***************************************************************************)
EXTENDS Remediate, TLAPS

\* What an upsert makes of a row is a row.
LEMMA UpsertType ==
  ASSUME NEW row \in Row(PrNumber), NEW status \in Status,
         NEW pr \in PrNumber \cup {NoPr}
  PROVE  upsert_run(row, status, pr) \in Row(PrNumber)
BY DEF upsert_run, Row

\* What an upsert does to each column.
LEMMA UpsertFields ==
  ASSUME NEW row \in Row(PrNumber), NEW status \in Status,
         NEW pr \in PrNumber \cup {NoPr}
  PROVE  LET new == upsert_run(row, status, pr) IN
           /\ new.status = status
           /\ new.pr = IF pr = NoPr THEN row.pr ELSE pr
BY DEF upsert_run

LEMMA IdleRunnerType ==
  /\ IdleRunner \in RunnerState
  /\ IdleRunner.pc \notin HasIssue
  /\ IdleRunner.pc \notin Attempting
BY KeysAssumption
DEF IdleRunner, RunnerState, BatchRun, Options, HasIssue, Gate, Attempting

LEMMA IdleSyncerType ==
  IdleSyncer \in SyncerState /\ IdleSyncer.pc # "recording"
BY DEF IdleSyncer, SyncerState

LEMMA InitType == Init => TypeOK
<1> SUFFICES ASSUME Init PROVE TypeOK
  OBVIOUS
<1>1. NoRow \in Row(PrNumber)
  BY DEF NoRow, Row
<1>2. Unused \in PullRequest
  BY DEF Unused, PullRequest
<1> QED
  BY <1>1, <1>2, IdleRunnerType, IdleSyncerType
  DEF Init, TypeOK, HasIssue, Attempting

\* The steps of the run loop.
LEMMA LoopType ==
  ASSUME TypeOK, NEW r \in Runners, LoopStep(r)
  PROVE  TypeOK'
<1> USE IdleRunnerType DEF TypeOK, syncerVars, HasIssue, Gate, Attempting
<1>1. CASE Search(r)
  <2> DEFINE answers == IF run[r].opts.ticket = NoKey
                          THEN SearchAnswers ELSE {{run[r].opts.ticket}}
  <2>1. PICK answer \in answers :
          run' = [run EXCEPT ![r].pc = "next", ![r].todo = answer]
    BY <1>1 DEF Search
  <2>2. run[r].opts.ticket \in Keys \cup {NoKey}
    BY DEF RunnerState, Options
  <2>3. answer \in SUBSET Keys
    BY <2>2, KeysAssumption
  <2> HIDE DEF answers
  <2>4. run' \in [Runners -> RunnerState]
    <3>1. "next" \in {"idle", "searching", "next"} \cup HasIssue
      OBVIOUS
    <3> HIDE DEF HasIssue, Gate, Attempting
    <3> QED
      BY <2>1, <2>3, <3>1 DEF RunnerState
  <2>5. run'[r].pc = "next" /\ \A q \in Runners \ {r} : run'[q] = run[q]
    BY <2>1 DEF RunnerState
  <2> QED
    BY <1>1, <2>4, <2>5 DEF Search
<1>2. CASE SearchFails(r) \/ EndRun(r)
  BY <1>2 DEF SearchFails, EndRun, RunnerExits
<1>3. ASSUME NEW k \in Keys, ReachIssue(r, k) PROVE TypeOK'
  BY <1>3, KeysAssumption DEF ReachIssue, RunnerState
<1>4. CASE SkipIssue(r) \/ UnroutedIssue(r) \/ DeferIssue(r)
  BY <1>4 DEF SkipIssue, UnroutedIssue, DeferIssue, IssueDone, RunnerState
<1>5. CASE PassRead(r)
  <2>1. NextRead[run[r].pc] \in {"delivered", "rejected", "exhausted", "routing"}
    BY <1>5 DEF PassRead, NextRead
  <2> QED
    BY <1>5, <2>1 DEF PassRead, Proceed, RunnerState
<1>6. CASE TakeIssue(r)
  BY <1>6 DEF TakeIssue, RunnerState
<1> QED
  BY <1>1, <1>2, <1>3, <1>4, <1>5, <1>6 DEF LoopStep

\* The loop writes nothing that others see, and it begins an attempt with an
\* issue that it had at hand already.
LEMMA LoopMoves ==
  ASSUME TypeOK, NEW r \in Runners, LoopStep(r)
  PROVE  /\ UNCHANGED <<rows, prs, syncerVars>>
         /\ \A q \in Runners \ {r} : run'[q] = run[q]
         /\ run[r].pc \in {"searching", "next", "routing"} \cup Gate
         /\ \/ run'[r].pc \in {"idle", "next", "routing"} \cup Gate
            \/ /\ TakeIssue(r)
               /\ run'[r].pc = "cloning"
               /\ run'[r].key = run[r].key
<1>0. run \in [Runners -> RunnerState]
  BY DEF TypeOK
<1>1. CASE Search(r)
  BY <1>0, <1>1 DEF Search, RunnerState
<1>2. CASE SearchFails(r) \/ EndRun(r)
  BY <1>0, <1>2 DEF SearchFails, EndRun, RunnerExits, IdleRunner
<1>3. ASSUME NEW k \in Keys, ReachIssue(r, k)
      PROVE  /\ UNCHANGED <<rows, prs, syncerVars>>
             /\ \A q \in Runners \ {r} : run'[q] = run[q]
             /\ run[r].pc = "next"
             /\ run'[r].pc \in {"idempotency", "routing"}
  BY <1>0, <1>3 DEF ReachIssue, RunnerState
<1>4. CASE SkipIssue(r) \/ UnroutedIssue(r) \/ DeferIssue(r)
  BY <1>0, <1>4 DEF SkipIssue, UnroutedIssue, DeferIssue, IssueDone, RunnerState
<1>5. CASE PassRead(r)
  BY <1>0, <1>5 DEF PassRead, Proceed, NextRead, Gate, RunnerState
<1>6. CASE TakeIssue(r)
  BY <1>0, <1>6 DEF TakeIssue, RunnerState
<1> QED
  BY <1>1, <1>2, <1>3, <1>4, <1>5, <1>6 DEF LoopStep, Gate

\* A row written by one of the processes keeps the type of the table.
LEMMA RowWritten ==
  ASSUME NEW table \in [Keys -> Row(PrNumber)], NEW k \in Keys,
         NEW status \in Status, NEW pr \in PrNumber \cup {NoPr}
  PROVE  [table EXCEPT ![k] = upsert_run(@, status, pr)]
           \in [Keys -> Row(PrNumber)]
<1>1. upsert_run(table[k], status, pr) \in Row(PrNumber)
  BY UpsertType
<1> QED
  BY <1>1

\* The steps of an attempt on one issue.
LEMMA AttemptType ==
  ASSUME TypeOK, NEW r \in Runners, AttemptStep(r)
  PROVE  TypeOK'
<1> USE DEF TypeOK, syncerVars, HasIssue, Gate, Attempting
<1>1. CASE CloneBranch(r)
  <2>0. run[r].key \in Keys
    BY <1>1 DEF CloneBranch, RunnerState
  <2>1. rows' \in [Keys -> Row(PrNumber)]
    BY <1>1, <2>0, RowWritten DEF CloneBranch, Status, NoPr
  <2> QED
    BY <1>1, <2>1 DEF CloneBranch, RunnerState
<1>2. CASE Generate(r) \/ ApplyEdits(r) \/ Verify(r) \/ CommitPush(r) \/ StageFails(r)
  BY <1>2 DEF Generate, ApplyEdits, Verify, CommitPush, StageFails, Proceed,
              RunnerState
<1>3. CASE DryReturn(r)
  BY <1>3 DEF DryReturn, IssueDone, RunnerState
<1>4. ASSUME NEW n \in PrNumber, CreatePr(r, n) \/ CreatePrReplyLost(r, n)
      PROVE  TypeOK'
  <2>1. run[r].key \in Keys \cup {NoKey}
    BY DEF RunnerState
  <2>2. prs' \in [PrNumber -> PullRequest]
    BY <1>4, <2>1 DEF CreatePr, CreatePrReplyLost, OpensPr, PullRequest
  <2>3. run' \in [Runners -> RunnerState]
    BY <1>4 DEF CreatePr, CreatePrReplyLost, RunnerState
  <2>4. n # NoPr
    BY LimitsAssumption DEF PrNumber, NoPr
  <2>5. \A q \in Runners :
          /\ run'[q].pc \in HasIssue => run'[q].key # NoKey
          /\ run'[q].pc = "recording" => run'[q].pr # NoPr
    BY <1>4, <2>4 DEF CreatePr, CreatePrReplyLost, RunnerState
  <2> QED
    BY <1>4, <2>2, <2>3, <2>5 DEF CreatePr, CreatePrReplyLost
<1>5. CASE RecordPr(r)
  <2>1. run[r].key \in Keys /\ run[r].pr \in PrNumber \cup {NoPr}
    BY <1>5 DEF RecordPr, RunnerState
  <2>2. rows' \in [Keys -> Row(PrNumber)]
    BY <1>5, <2>1, RowWritten DEF RecordPr, Status
  <2> QED
    BY <1>5, <2>2 DEF RecordPr, IssueDone, RunnerState
<1>6. CASE RecordFailure(r)
  <2>0. run[r].key \in Keys
    BY <1>6 DEF RecordFailure, RunnerState
  <2>1. rows' \in [Keys -> Row(PrNumber)]
    BY <1>6, <2>0, RowWritten DEF RecordFailure, Status, NoPr
  <2> QED
    BY <1>6, <2>1 DEF RecordFailure, IssueDone, RunnerState
<1> QED
  BY <1>1, <1>2, <1>3, <1>4, <1>5, <1>6 DEF AttemptStep

\* The steps of a sync.
LEMMA SyncerType ==
  ASSUME TypeOK, NEW s \in Syncers, StartSync(s) \/ SyncerStep(s)
  PROVE  TypeOK'
<1> USE DEF TypeOK, runnerVars
<1>1. CASE StartSync(s)
  BY <1>1 DEF StartSync, SyncerState, IdleSyncer
<1>2. CASE EndSync(s)
  BY <1>2, IdleSyncerType DEF EndSync, SyncerExits
<1>3. ASSUME NEW e \in OpenRow, CheckPr(s, e) PROVE TypeOK'
  <2> DEFINE verdict == Verdict(prs[e.pr].state)
  <2>1. verdict \in {"none", "pr_merged", "pr_closed"}
    BY DEF Verdict
  <2>2. sync' = [sync EXCEPT
          ![s] = [pc      |-> IF verdict = "none" THEN "checking" ELSE "recording",
                  todo    |-> @.todo \ {e},
                  current |-> IF verdict = "none" THEN NoOpenRow ELSE e,
                  verdict |-> verdict]]
    BY <1>3 DEF CheckPr
  <2> HIDE DEF verdict
  <2>3. sync' \in [Syncers -> SyncerState]
    BY <2>1, <2>2 DEF SyncerState
  <2>4. e # NoOpenRow
    BY KeysAssumption DEF OpenRow, NoOpenRow
  <2> QED
    BY <1>3, <2>2, <2>3, <2>4 DEF CheckPr
<1>4. ASSUME NEW e \in OpenRow, CheckPrFails(s, e) PROVE TypeOK'
  BY <1>4 DEF CheckPrFails, SyncerState
<1>5. CASE RecordVerdict(s)
  <2>1. sync[s].current.key \in Keys /\ sync[s].verdict \in Status
    BY <1>5 DEF RecordVerdict, SyncerState, OpenRow, Status
  <2>2. rows' \in [Keys -> Row(PrNumber)]
    BY <1>5, <2>1, RowWritten DEF RecordVerdict, NoPr
  <2> QED
    BY <1>5, <2>2 DEF RecordVerdict, SyncerState
<1> QED
  BY <1>1, <1>2, <1>3, <1>4, <1>5 DEF SyncerStep

LEMMA NextType ==
  ASSUME TypeOK, [Next]_vars
  PROVE  TypeOK'
<1>1. ASSUME NEW r \in Runners, NEW o \in RunOptions, StartRun(r, o) PROVE TypeOK'
  <2>1. [IdleRunner EXCEPT !.pc = "searching", !.opts = o] \in RunnerState
    BY IdleRunnerType, OptionsAssumption DEF RunnerState
  <2>2. [IdleRunner EXCEPT !.pc = "searching", !.opts = o].pc = "searching"
    BY IdleRunnerType DEF RunnerState
  <2> QED
    BY <1>1, <2>1, <2>2 DEF StartRun, TypeOK, syncerVars, HasIssue, Gate, Attempting
<1>2. ASSUME NEW r \in Runners, RunnerCrash(r) PROVE TypeOK'
  BY <1>2, IdleRunnerType
  DEF RunnerCrash, RunnerExits, TypeOK, syncerVars, HasIssue, Attempting
<1>3. ASSUME NEW s \in Syncers, SyncerCrash(s) PROVE TypeOK'
  BY <1>3, IdleSyncerType DEF SyncerCrash, SyncerExits, TypeOK, runnerVars
<1>4. ASSUME NEW n \in PrNumber, NEW state \in {"merged", "closed"},
             ResolvePr(n, state)
      PROVE  TypeOK'
  BY <1>4 DEF ResolvePr, TypeOK, PullRequest, runnerVars, syncerVars
<1>7. ASSUME NEW n \in PrNumber, ReopenPr(n) PROVE TypeOK'
  BY <1>7 DEF ReopenPr, TypeOK, PullRequest, runnerVars, syncerVars
<1>5. ASSUME NEW k \in Keys, ignore(k) PROVE TypeOK'
  <2>1. rows' \in [Keys -> Row(PrNumber)]
    BY <1>5, RowWritten DEF ignore, mark_ignored, TypeOK, Status, NoPr
  <2> QED
    BY <1>5, <2>1 DEF ignore, TypeOK, runnerVars, syncerVars
<1>6. CASE UNCHANGED vars
  BY <1>6 DEF vars, TypeOK
<1> QED
  BY <1>1, <1>2, <1>3, <1>4, <1>5, <1>6, <1>7, LoopType, AttemptType, SyncerType
  DEF Next, RunnerStep

\* Type correctness: every process always has, at the step it is at, the
\* locals that step reads, and the table and GitHub hold what they can hold.
THEOREM TypeCorrect == Spec => []TypeOK
<1> QED
  BY InitType, NextType, PTL DEF Spec

-----------------------------------------------------------------------------
(* The newest pull request.                                                 *)

\* A step of process r that keeps table and pull requests keeps the invariant
\* if r holds the flock wherever it goes, and does not reach a step of the
\* attempt that the row has not been marked for.
LEMMA QuietRunnerStep ==
  ASSUME TypeOK, NewestPrInv, NEW r \in Runners, UNCHANGED <<rows, prs>>,
         \A q \in Runners \ {r} : run'[q] = run[q],
         run'[r].pc # "idle" => remediate_lock' = r,
         remediate_lock' = remediate_lock \/ remediate_lock \in {r, NoProc},
         \/ run'[r].pc \notin Attempting \ {"cloning", "failing"}
         \/ /\ run[r].pc \in Attempting \ {"cloning", "failing"}
            /\ run'[r].pc # "recording"
            /\ run'[r].key = run[r].key
  PROVE  NewestPrInv'
<1>1. LockIsHeld'
  BY ProcsAssumption DEF NewestPrInv, LockIsHeld
<1>2. UnusedNamesNobody' /\ OpenRowNamesNewestPr'
  BY DEF NewestPrInv, UnusedNamesNobody, Used, OpenRowNamesNewestPr, IsNewestPr
<1>3. ASSUME NEW q \in Runners PROVE
        /\ run'[q].pc \in Attempting \ {"cloning", "failing"} =>
             rows'[run'[q].key].status # "pr_open"
        /\ run'[q].pc = "recording" => IsNewestPr(run[q].key, run[q].pr)'
  <2>1. CASE q = r
    BY <2>1 DEF NewestPrInv, Attempting
  <2>2. CASE q # r
    BY <2>2 DEF NewestPrInv, IsNewestPr
  <2> QED
    BY <2>1, <2>2
<1> QED
  BY <1>1, <1>2, <1>3 DEF NewestPrInv

LEMMA LoopKeepsNewest ==
  ASSUME TypeOK, NewestPrInv, NEW r \in Runners, LoopStep(r)
  PROVE  NewestPrInv'
<1> USE IdleRunnerType DEF TypeOK, syncerVars, Attempting, Gate
<1>0. LockIsHeld
  BY DEF NewestPrInv
<1>1. CASE Search(r)
  BY <1>1, <1>0, QuietRunnerStep DEF Search, LockIsHeld, RunnerState
<1>2. CASE SearchFails(r) \/ EndRun(r)
  BY <1>2, <1>0, QuietRunnerStep
  DEF SearchFails, EndRun, RunnerExits, LockIsHeld, RunnerState, IdleRunner
<1>3. ASSUME NEW k \in Keys, ReachIssue(r, k) PROVE NewestPrInv'
  BY <1>3, <1>0, QuietRunnerStep DEF ReachIssue, LockIsHeld, RunnerState
<1>4. CASE SkipIssue(r) \/ UnroutedIssue(r) \/ DeferIssue(r)
  BY <1>4, <1>0, QuietRunnerStep
  DEF SkipIssue, UnroutedIssue, DeferIssue, IssueDone, LockIsHeld, RunnerState
<1>5. CASE PassRead(r)
  <2>1. NextRead[run[r].pc] \in {"delivered", "rejected", "exhausted", "routing"}
    BY <1>5 DEF PassRead, NextRead
  <2> QED
    BY <1>5, <2>1, <1>0, QuietRunnerStep DEF PassRead, Proceed, LockIsHeld, RunnerState
<1>6. CASE TakeIssue(r)
  BY <1>6, <1>0, QuietRunnerStep DEF TakeIssue, LockIsHeld, RunnerState
<1> QED
  BY <1>1, <1>2, <1>3, <1>4, <1>5, <1>6 DEF LoopStep

\* Changing the row of one issue to a status other than pr_open keeps what is
\* said about rows in pr_open.
LEMMA ClosedRowKeepsOpenRows ==
  ASSUME TypeOK, OpenRowNamesNewestPr, NEW k \in Keys, NEW status \in Status,
         status # "pr_open", UNCHANGED prs,
         rows' = [rows EXCEPT ![k] = upsert_run(@, status, NoPr)]
  PROVE  /\ OpenRowNamesNewestPr'
         /\ \A j \in Keys : rows[j].status # "pr_open" => rows'[j].status # "pr_open"
<1>1. \A j \in Keys : rows'[j].status = "pr_open" => j # k /\ rows'[j] = rows[j]
  BY DEF TypeOK, upsert_run
<1> QED
  BY <1>1 DEF OpenRowNamesNewestPr, IsNewestPr

\* The same for the whole invariant, when no process of `remediate run` moves.
LEMMA WriterKeepsNewest ==
  ASSUME TypeOK, NewestPrInv, NEW k \in Keys, NEW status \in Status,
         status # "pr_open", UNCHANGED <<prs, runnerVars>>,
         rows' = [rows EXCEPT ![k] = upsert_run(@, status, NoPr)]
  PROVE  NewestPrInv'
<1>1. /\ OpenRowNamesNewestPr'
      /\ \A j \in Keys : rows[j].status # "pr_open" => rows'[j].status # "pr_open"
  BY ClosedRowKeepsOpenRows DEF NewestPrInv
<1>2. LockIsHeld' /\ UnusedNamesNobody'
  BY DEF NewestPrInv, LockIsHeld, UnusedNamesNobody, Used, runnerVars
<1>3. \A r \in Runners : run[r].pc \in Attempting => run[r].key \in Keys
  BY DEF TypeOK, RunnerState, HasIssue
<1> QED
  BY <1>1, <1>2, <1>3 DEF NewestPrInv, IsNewestPr, runnerVars

\* Once GitHub has opened pull request n for the issue of process r, n is the
\* newest of that issue, and what is said about the others still holds.
LEMMA OpenedIsNewest ==
  ASSUME TypeOK, NewestPrInv, NEW r \in Runners, NEW n \in PrNumber,
         NEW k \in Keys, run[r].key = k, run[r].pc = "creating",
         OpensPr(k, n), UNCHANGED rows
  PROVE  /\ IsNewestPr(k, n)'
         /\ UnusedNamesNobody'
         /\ OpenRowNamesNewestPr'
<1>1. rows[k].status # "pr_open"
  BY DEF TypeOK, RunnerState, Attempting, NewestPrInv
<1>2. n # NoPr
  BY LimitsAssumption DEF PrNumber, NoPr
<1>3. /\ prs'[n] = [key |-> k, state |-> "open"]
      /\ \A m \in PrNumber \ {n} : prs'[m] = prs[m]
  BY DEF OpensPr, TypeOK
<1>4. \A m \in PrNumber : m > n => prs[m].key = NoKey
  BY LimitsAssumption DEF OpensPr, NextPr, NewestPrInv, UnusedNamesNobody, Used, PrNumber
<1>5. prs[n].key = NoKey
  BY LimitsAssumption DEF OpensPr, NextPr, NewestPrInv, UnusedNamesNobody, Used, PrNumber
<1>6. IsNewestPr(k, n)'
  <2>1. ASSUME NEW m \in PrNumber, prs'[m].key = k PROVE m <= n
    BY <2>1, <1>1, <1>3, <1>4, KeysAssumption, LimitsAssumption DEF PrNumber
  <2> QED
    BY <2>1, <1>2, <1>3 DEF IsNewestPr
<1>7. UnusedNamesNobody'
  BY <1>3 DEF UnusedNamesNobody, Used, NewestPrInv
<1>8. ASSUME NEW j \in Keys, rows'[j].status = "pr_open"
      PROVE  IsNewestPr(j, rows[j].pr)'
  <2>1. j # k /\ IsNewestPr(j, rows[j].pr)
    BY <1>1, <1>8 DEF NewestPrInv, OpenRowNamesNewestPr
  <2>2. rows[j].pr \in PrNumber /\ rows[j].pr # n
    BY <2>1, <1>5, KeysAssumption DEF TypeOK, Row, IsNewestPr
  <2>3. ASSUME NEW m \in PrNumber, prs'[m].key = j PROVE m <= rows[j].pr
    BY <2>1, <2>3, <1>3 DEF IsNewestPr
  <2>4. prs'[rows[j].pr].key = j
    BY <2>1, <2>2, <1>3 DEF IsNewestPr
  <2>5. rows'[j].pr = rows[j].pr /\ rows[j].pr # NoPr
    BY <2>1 DEF IsNewestPr
  <2> QED
    BY <2>3, <2>4, <2>5 DEF IsNewestPr
<1> QED
  BY <1>6, <1>7, <1>8 DEF OpenRowNamesNewestPr

LEMMA AttemptKeepsNewest ==
  ASSUME TypeOK, NewestPrInv, NEW r \in Runners, AttemptStep(r)
  PROVE  NewestPrInv'
<1>0. LockIsHeld /\ run \in [Runners -> RunnerState]
  BY DEF NewestPrInv, TypeOK
<1>a. \A q \in Runners \ {r} : run[r].pc # "idle" => run[q].pc = "idle"
  BY <1>0, ProcsAssumption DEF LockIsHeld
<1>1. CASE CloneBranch(r)
  <2>1. run[r].key \in Keys
    BY <1>1, <1>0 DEF CloneBranch, RunnerState, TypeOK, Attempting
  <2>2. /\ OpenRowNamesNewestPr'
        /\ rows'[run[r].key].status # "pr_open"
    <3>1. rows'[run[r].key].status = "branch_created"
      BY <1>1, <2>1 DEF CloneBranch, TypeOK, upsert_run
    <3> QED
      BY <1>1, <2>1, <3>1, ClosedRowKeepsOpenRows
      DEF CloneBranch, Status, NewestPrInv
  <2>3. LockIsHeld' /\ UnusedNamesNobody'
    BY <1>1, <1>0 DEF CloneBranch, LockIsHeld, NewestPrInv, UnusedNamesNobody,
                      Used, RunnerState
  <2>4. \A q \in Runners : q # r => run'[q].pc = "idle"
    BY <1>1, <1>0, <1>a DEF CloneBranch, RunnerState
  <2>5. run'[r].pc = "generating" /\ run'[r].key = run[r].key
    BY <1>1, <1>0 DEF CloneBranch, RunnerState
  <2> QED
    BY <2>2, <2>3, <2>4, <2>5 DEF NewestPrInv, Attempting
<1>2. CASE Generate(r) \/ ApplyEdits(r) \/ Verify(r) \/ CommitPush(r) \/ StageFails(r)
  BY <1>2, <1>0, QuietRunnerStep
  DEF Generate, ApplyEdits, Verify, CommitPush, StageFails, Proceed,
      LockIsHeld, Attempting, RunnerState
<1>3. CASE DryReturn(r)
  BY <1>3, <1>0, QuietRunnerStep
  DEF DryReturn, IssueDone, LockIsHeld, Attempting, RunnerState
<1>4. ASSUME NEW n \in PrNumber, CreatePr(r, n) \/ CreatePrReplyLost(r, n)
      PROVE  NewestPrInv'
  <2>0. PICK k \in Keys : k = run[r].key
    BY <1>4, <1>0 DEF CreatePr, CreatePrReplyLost, RunnerState, TypeOK, Attempting
  <2>1. /\ IsNewestPr(k, n)'
        /\ UnusedNamesNobody'
        /\ OpenRowNamesNewestPr'
    BY <1>4, <2>0, OpenedIsNewest DEF CreatePr, CreatePrReplyLost
  <2>2. LockIsHeld'
    BY <1>4, <1>0 DEF CreatePr, CreatePrReplyLost, LockIsHeld, RunnerState
  <2>3. \A q \in Runners : q # r => run'[q].pc = "idle"
    BY <1>4, <1>0, <1>a DEF CreatePr, CreatePrReplyLost, RunnerState
  <2>4. /\ run'[r].key = k
        /\ run'[r].pc = "recording" => run'[r].pr = n
        /\ rows'[k].status # "pr_open"
    BY <1>4, <1>0, <2>0 DEF CreatePr, CreatePrReplyLost, RunnerState, NewestPrInv,
                            Attempting
  <2> QED
    BY <2>1, <2>2, <2>3, <2>4 DEF NewestPrInv, IsNewestPr, Attempting
<1>5. CASE RecordPr(r)
  <2>1. run[r].key \in Keys /\ IsNewestPr(run[r].key, run[r].pr)
    BY <1>5 DEF RecordPr, TypeOK, RunnerState, Attempting, NewestPrInv
  <2>2. OpenRowNamesNewestPr'
    <3>1. rows'[run[r].key].pr = run[r].pr
      BY <1>5, <2>1 DEF RecordPr, TypeOK, upsert_run, IsNewestPr
    <3>2. \A k \in Keys : k # run[r].key => rows'[k] = rows[k]
      BY <1>5 DEF RecordPr, TypeOK
    <3> QED
      BY <1>5, <2>1, <3>1, <3>2
      DEF RecordPr, IssueDone, OpenRowNamesNewestPr, IsNewestPr, NewestPrInv
  <2>3. LockIsHeld' /\ UnusedNamesNobody'
    BY <1>5, <1>0 DEF RecordPr, IssueDone, LockIsHeld, NewestPrInv,
                      UnusedNamesNobody, Used, RunnerState
  <2>4. \A q \in Runners : run'[q].pc \in {"idle", "next"}
    BY <1>5, <1>0, <1>a DEF RecordPr, IssueDone, RunnerState
  <2> QED
    BY <2>2, <2>3, <2>4 DEF NewestPrInv, Attempting
<1>6. CASE RecordFailure(r)
  <2>1. run[r].key \in Keys
    BY <1>6, <1>0 DEF RecordFailure, RunnerState, TypeOK, Attempting
  <2>2. OpenRowNamesNewestPr'
    BY <1>6, <2>1, ClosedRowKeepsOpenRows
    DEF RecordFailure, IssueDone, Status, NewestPrInv
  <2>3. LockIsHeld' /\ UnusedNamesNobody'
    BY <1>6, <1>0 DEF RecordFailure, IssueDone, LockIsHeld, NewestPrInv,
                      UnusedNamesNobody, Used, RunnerState
  <2>4. \A q \in Runners : run'[q].pc \in {"idle", "next"}
    BY <1>6, <1>0, <1>a DEF RecordFailure, IssueDone, RunnerState
  <2> QED
    BY <2>2, <2>3, <2>4 DEF NewestPrInv, Attempting
<1> QED
  BY <1>1, <1>2, <1>3, <1>4, <1>5, <1>6 DEF AttemptStep

\* Steps that leave the processes of `remediate run`, the table and the keys
\* of the pull requests alone.
LEMMA OthersKeepNewest ==
  ASSUME TypeOK, NewestPrInv, UNCHANGED <<rows, runnerVars>>,
         \A n \in PrNumber : /\ prs'[n].key = prs[n].key
                             /\ prs'[n].state = "unused" => prs[n].state = "unused"
  PROVE  NewestPrInv'
<1>1. \A k \in Keys : rows[k].pr # NoPr => rows[k].pr \in PrNumber
  BY DEF TypeOK, Row
<1>2. \A r \in Runners : run[r].pr # NoPr => run[r].pr \in PrNumber
  BY DEF TypeOK, RunnerState
<1>3. LockIsHeld' /\ UnusedNamesNobody'
  BY DEF NewestPrInv, LockIsHeld, UnusedNamesNobody, Used, runnerVars
<1>4. OpenRowNamesNewestPr'
  BY <1>1 DEF NewestPrInv, OpenRowNamesNewestPr, IsNewestPr
<1> QED
  BY <1>2, <1>3, <1>4 DEF NewestPrInv, IsNewestPr, runnerVars

LEMMA NextKeepsNewest ==
  ASSUME TypeOK, NewestPrInv, [Next]_vars
  PROVE  NewestPrInv'
<1>1. ASSUME NEW r \in Runners, NEW o \in RunOptions, StartRun(r, o)
      PROVE  NewestPrInv'
  <2>1. run'[r].pc = "searching"
    BY <1>1 DEF StartRun, TypeOK, IdleRunner
  <2>2. \A q \in Runners \ {r} : run'[q] = run[q]
    BY <1>1 DEF StartRun, TypeOK
  <2> QED
    BY <1>1, <2>1, <2>2, QuietRunnerStep DEF StartRun, Attempting
<1>2. ASSUME NEW r \in Runners, RunnerCrash(r) PROVE NewestPrInv'
  <2>1. remediate_lock = r /\ run'[r].pc = "idle"
    BY <1>2 DEF RunnerCrash, RunnerExits, NewestPrInv, LockIsHeld, TypeOK, IdleRunner
  <2>2. \A q \in Runners \ {r} : run'[q] = run[q]
    BY <1>2 DEF RunnerCrash, RunnerExits, TypeOK
  <2> QED
    BY <1>2, <2>1, <2>2, QuietRunnerStep DEF RunnerCrash, RunnerExits, Attempting
<1>3. ASSUME NEW s \in Syncers, StartSync(s) \/ SyncerCrash(s) PROVE NewestPrInv'
  BY <1>3, OthersKeepNewest DEF StartSync, SyncerCrash, SyncerExits
<1>4. ASSUME NEW s \in Syncers, SyncerStep(s) PROVE NewestPrInv'
  <2>1. CASE RecordVerdict(s)
    <3>1. /\ sync[s].current.key \in Keys
          /\ sync[s].verdict \in {"pr_merged", "pr_closed"}
      BY <2>1 DEF RecordVerdict, TypeOK, SyncerState, OpenRow
    <3> QED
      BY <2>1, <3>1, WriterKeepsNewest DEF RecordVerdict, Status
  <2>2. CASE EndSync(s)
    BY <2>2, OthersKeepNewest DEF EndSync, SyncerExits
  <2>3. ASSUME NEW e \in OpenRow, CheckPr(s, e) \/ CheckPrFails(s, e)
        PROVE  NewestPrInv'
    BY <2>3, OthersKeepNewest DEF CheckPr, CheckPrFails
  <2> QED
    BY <1>4, <2>1, <2>2, <2>3 DEF SyncerStep
<1>5. ASSUME NEW n \in PrNumber, NEW state \in {"merged", "closed"},
             ResolvePr(n, state)
      PROVE  NewestPrInv'
  <2>1. \A m \in PrNumber : /\ prs'[m].key = prs[m].key
                            /\ prs'[m].state = "unused" => prs[m].state = "unused"
    BY <1>5 DEF ResolvePr, TypeOK, PullRequest
  <2> QED
    BY <1>5, <2>1, OthersKeepNewest DEF ResolvePr
<1>8. ASSUME NEW n \in PrNumber, ReopenPr(n) PROVE NewestPrInv'
  <2>1. \A m \in PrNumber : /\ prs'[m].key = prs[m].key
                            /\ prs'[m].state = "unused" => prs[m].state = "unused"
    BY <1>8 DEF ReopenPr, TypeOK, PullRequest
  <2> QED
    BY <1>8, <2>1, OthersKeepNewest DEF ReopenPr
<1>6. ASSUME NEW k \in Keys, ignore(k) PROVE NewestPrInv'
  BY <1>6, WriterKeepsNewest DEF ignore, mark_ignored, Status
<1>7. CASE UNCHANGED vars
  BY <1>7, OthersKeepNewest DEF vars, runnerVars
<1> QED
  BY <1>1, <1>2, <1>3, <1>4, <1>5, <1>6, <1>7, <1>8, LoopKeepsNewest, AttemptKeepsNewest
  DEF Next, RunnerStep

LEMMA InitNewest == Init => NewestPrInv
BY IdleRunnerType
DEF Init, NewestPrInv, LockIsHeld, UnusedNamesNobody, Used, Unused,
    OpenRowNamesNewestPr, NoRow, IdleRunner

LEMMA NewestInvariant == Spec => [](TypeOK /\ NewestPrInv)
BY InitType, NextType, InitNewest, NextKeepsNewest, PTL DEF Spec

\* A row in pr_open names the newest pull request of its issue, whatever is
\* forced, ignored, killed or lost: the syncer follows the right one.
THEOREM OpenRowNamesNewest == Spec => []OpenRowNamesNewestPr
<1>1. NewestPrInv => OpenRowNamesNewestPr
  BY DEF NewestPrInv
<1> QED
  BY <1>1, NewestInvariant, PTL

-----------------------------------------------------------------------------
(* What the syncer records.                                                 *)

\* Each syncer's part of the invariant.
SyncerKnows(s) ==
  /\ \A e \in Pending(s) : rows[e.key].pr # NoPr /\ prs[e.pr].key = e.key
  /\ sync[s].verdict = "pr_merged" =>
       sync[s].pc = "recording" /\ prs[sync[s].current.pr].state = "merged"

\* A step keeps the invariant if it keeps numbers once they are recorded, and
\* pull requests with their issue and merged once they are, provided that rows
\* that become settled have a number and, if merged, a merged pull request.
LEMMA VerdictFrame ==
  ASSUME TypeOK, TypeOK', VerdictInv, UNCHANGED sync,
         \A n \in PrNumber :
           /\ prs[n].key \in Keys => prs'[n].key = prs[n].key
           /\ prs[n].state = "merged" => prs'[n].state = "merged",
         \A k \in Keys :
           \/ /\ rows'[k].pr = rows[k].pr
              /\ rows'[k].status \in Settled => rows'[k].status = rows[k].status
           \/ /\ rows'[k].status = "pr_open"
              /\ rows'[k].pr \in PrNumber
              /\ rows'[k].pr # NoPr
              /\ prs'[rows'[k].pr].key = k
  PROVE  VerdictInv'
<1>1. \A k \in Keys : rows[k].pr # NoPr => rows[k].pr \in PrNumber
  BY DEF TypeOK, Row
<1>2. \A k \in Keys : rows'[k].pr # NoPr => prs'[rows'[k].pr].key = k
  BY <1>1 DEF VerdictInv
<1>3. ASSUME NEW s \in Syncers PROVE SyncerKnows(s)'
  <2>1. SyncerKnows(s)
    BY DEF VerdictInv, SyncerKnows, Pending
  <2>2. \A e \in Pending(s) :
          e.key \in Keys /\ e.pr \in PrNumber
    BY DEF TypeOK, SyncerState, OpenRow, Pending
  <2>3. sync[s].pc = "recording" => sync[s].current.pr \in PrNumber
    BY DEF TypeOK, SyncerState, OpenRow
  <2> QED
    BY <2>1, <2>2, <2>3 DEF SyncerKnows, Pending
<1>4. SettledRowNamesItsPr'
  BY <1>2 DEF VerdictInv, SettledRowNamesItsPr, Settled
<1>5. ASSUME NEW k \in Keys, rows'[k].status = "pr_merged"
      PROVE  \E n \in PrNumber : prs'[n] = [key |-> k, state |-> "merged"]
  <2>1. rows[k].status = "pr_merged"
    BY <1>5 DEF Settled
  <2>2. PICK n \in PrNumber : prs[n] = [key |-> k, state |-> "merged"]
    BY <2>1 DEF VerdictInv, MergedRowHasMergedPr
  <2>3. prs'[n].key = k /\ prs'[n].state = "merged"
    BY <2>2
  <2>4. prs'[n] \in PullRequest
    BY DEF TypeOK
  <2> QED
    BY <2>3, <2>4 DEF PullRequest
<1> QED
  BY <1>2, <1>3, <1>4, <1>5 DEF VerdictInv, SyncerKnows, Pending, MergedRowHasMergedPr

LEMMA RunnerKeepsVerdict ==
  ASSUME TypeOK, TypeOK', NewestPrInv, VerdictInv, NEW r \in Runners,
         RunnerStep(r)
  PROVE  VerdictInv'
<1>1. CASE LoopStep(r)
  <2>1. UNCHANGED <<rows, prs, sync>>
    BY <1>1, LoopMoves DEF syncerVars
  <2> QED
    BY <2>1, VerdictFrame
<1>2. ASSUME NEW status \in {"branch_created", "failed"}, run[r].key \in Keys,
             rows' = [rows EXCEPT ![run[r].key] = upsert_run(@, status, NoPr)],
             UNCHANGED <<prs, sync>>
      PROVE  VerdictInv'
  <2>1. \A k \in Keys : /\ rows'[k].pr = rows[k].pr
                        /\ rows'[k].status \in Settled => rows'[k].status = rows[k].status
    BY <1>2 DEF TypeOK, upsert_run, Settled
  <2> QED
    BY <1>2, <2>1, VerdictFrame
<1>3. CASE CloneBranch(r) \/ RecordFailure(r)
  <2>1. run[r].key \in Keys
    BY <1>3 DEF CloneBranch, RecordFailure, TypeOK, RunnerState, Attempting
  <2> QED
    BY <1>2, <1>3, <2>1 DEF CloneBranch, RecordFailure, IssueDone, syncerVars
<1>4. CASE Generate(r) \/ ApplyEdits(r) \/ Verify(r) \/ CommitPush(r)
             \/ StageFails(r) \/ DryReturn(r)
  <2>1. UNCHANGED <<rows, prs, sync>>
    BY <1>4 DEF Generate, ApplyEdits, Verify, CommitPush, StageFails, Proceed,
                DryReturn, IssueDone, syncerVars
  <2> QED
    BY <2>1, VerdictFrame
<1>5. ASSUME NEW n \in PrNumber, CreatePr(r, n) \/ CreatePrReplyLost(r, n)
      PROVE  VerdictInv'
  <2>1. OpensPr(run[r].key, n) /\ UNCHANGED <<rows, sync>>
    BY <1>5 DEF CreatePr, CreatePrReplyLost, syncerVars
  <2>2. prs[n].state = "unused" /\ prs[n].key = NoKey
    BY <2>1, LimitsAssumption
    DEF OpensPr, NextPr, PrNumber, NewestPrInv, UnusedNamesNobody, Used
  <2>3. \A m \in PrNumber :
          /\ prs[m].key \in Keys => prs'[m].key = prs[m].key
          /\ prs[m].state = "merged" => prs'[m].state = "merged"
    BY <2>1, <2>2, KeysAssumption DEF OpensPr, TypeOK
  <2> QED
    BY <2>1, <2>3, VerdictFrame
<1>6. CASE RecordPr(r)
  <2>1. /\ run[r].key \in Keys
        /\ run[r].pr \in PrNumber
        /\ run[r].pr # NoPr
        /\ prs[run[r].pr].key = run[r].key
    BY <1>6 DEF RecordPr, TypeOK, RunnerState, Attempting, NewestPrInv, IsNewestPr
  <2>2. /\ rows'[run[r].key].status = "pr_open"
        /\ rows'[run[r].key].pr = run[r].pr
        /\ \A k \in Keys : k # run[r].key => rows'[k] = rows[k]
    BY <1>6, <2>1 DEF RecordPr, TypeOK, upsert_run
  <2> QED
    BY <1>6, <2>1, <2>2, VerdictFrame DEF RecordPr, IssueDone, syncerVars
<1> QED
  BY <1>1, <1>3, <1>4, <1>5, <1>6 DEF RunnerStep, AttemptStep

\* A step of a syncer keeps the invariant if what it knows afterwards is true.
LEMMA SyncerFrame ==
  ASSUME VerdictInv, UNCHANGED <<rows, prs>>, NEW s \in Syncers,
         \A q \in Syncers \ {s} : sync'[q] = sync[q], SyncerKnows(s)'
  PROVE  VerdictInv'
<1>1. ASSUME NEW q \in Syncers PROVE SyncerKnows(q)'
  BY DEF VerdictInv, SyncerKnows, Pending
<1>2. SettledRowNamesItsPr' /\ MergedRowHasMergedPr'
  BY DEF VerdictInv, SettledRowNamesItsPr, MergedRowHasMergedPr
<1> QED
  BY <1>1, <1>2 DEF VerdictInv, SyncerKnows, Pending

LEMMA SyncerKeepsVerdict ==
  ASSUME TypeOK, TypeOK', VerdictInv, NEW s \in Syncers,
         StartSync(s) \/ SyncerStep(s) \/ SyncerCrash(s)
  PROVE  VerdictInv'
<1>0. SyncerKnows(s) /\ sync[s] \in SyncerState
  BY DEF VerdictInv, SyncerKnows, Pending, TypeOK
<1>1. CASE StartSync(s)
  <2>1. /\ sync'[s].current = NoOpenRow
        /\ sync'[s].verdict = "none"
        /\ sync'[s].todo = {e \in OpenRow : /\ rows[e.key].status = "pr_open"
                                            /\ rows[e.key].pr = e.pr}
        /\ \A q \in Syncers \ {s} : sync'[q] = sync[q]
    BY <1>1 DEF StartSync, TypeOK, IdleSyncer
  <2>2. \A e \in sync'[s].todo : rows[e.key].pr # NoPr /\ prs[e.pr].key = e.key
    BY <2>1 DEF VerdictInv, SettledRowNamesItsPr, Settled, OpenRow
  <2>3. SyncerKnows(s)'
    BY <1>1, <2>1, <2>2 DEF SyncerKnows, Pending, StartSync
  <2> QED
    BY <1>1, <2>1, <2>3, SyncerFrame DEF StartSync
<1>2. CASE EndSync(s) \/ SyncerCrash(s)
  <2>1. /\ sync'[s] = IdleSyncer
        /\ \A q \in Syncers \ {s} : sync'[q] = sync[q]
    BY <1>2 DEF EndSync, SyncerCrash, SyncerExits, TypeOK
  <2>2. SyncerKnows(s)'
    BY <2>1 DEF SyncerKnows, Pending, IdleSyncer
  <2> QED
    BY <1>2, <2>1, <2>2, SyncerFrame DEF EndSync, SyncerCrash, SyncerExits
<1>3. ASSUME NEW e \in OpenRow, CheckPr(s, e) PROVE VerdictInv'
  <2> DEFINE verdict == Verdict(prs[e.pr].state)
  <2>1. /\ sync'[s] = [pc      |-> IF verdict = "none" THEN "checking" ELSE "recording",
                       todo    |-> sync[s].todo \ {e},
                       current |-> IF verdict = "none" THEN NoOpenRow ELSE e,
                       verdict |-> verdict]
        /\ \A q \in Syncers \ {s} : sync'[q] = sync[q]
        /\ e \in sync[s].todo
        /\ UNCHANGED <<rows, prs>>
    BY <1>3 DEF CheckPr, TypeOK
  <2>2. verdict = "pr_merged" => prs[e.pr].state = "merged"
    BY DEF Verdict
  <2> HIDE DEF verdict
  <2>3. SyncerKnows(s)'
    BY <1>0, <2>1, <2>2 DEF SyncerKnows, Pending
  <2> QED
    BY <2>1, <2>3, SyncerFrame
<1>4. ASSUME NEW e \in OpenRow, CheckPrFails(s, e) PROVE VerdictInv'
  <2>1. /\ sync'[s] = [sync[s] EXCEPT !.todo = @ \ {e}]
        /\ \A q \in Syncers \ {s} : sync'[q] = sync[q]
        /\ UNCHANGED <<rows, prs>>
    BY <1>4 DEF CheckPrFails, TypeOK
  <2>2. SyncerKnows(s)'
    BY <1>0, <2>1 DEF SyncerKnows, Pending, SyncerState
  <2> QED
    BY <2>1, <2>2, SyncerFrame
<1>5. CASE RecordVerdict(s)
  <2> DEFINE e == sync[s].current
  <2>1. /\ e \in OpenRow
        /\ e # NoOpenRow
        /\ sync[s].verdict \in {"pr_merged", "pr_closed"}
    BY <1>5 DEF RecordVerdict, TypeOK, SyncerState
  <2>2. /\ rows[e.key].pr # NoPr
        /\ prs[e.pr].key = e.key
        /\ sync[s].verdict = "pr_merged" => prs[e.pr].state = "merged"
    BY <2>1, <1>0 DEF SyncerKnows, Pending
  <2>3. /\ e.key \in Keys
        /\ e.pr \in PrNumber
        /\ rows'[e.key].status = sync[s].verdict
        /\ \A k \in Keys : /\ rows'[k].pr = rows[k].pr
                           /\ k # e.key => rows'[k] = rows[k]
    BY <1>5, <2>1 DEF RecordVerdict, TypeOK, OpenRow, upsert_run
  <2>4. ASSUME NEW q \in Syncers PROVE SyncerKnows(q)'
    <3>1. SyncerKnows(q) /\ \A d \in Pending(q) : d.key \in Keys
      BY DEF VerdictInv, SyncerKnows, Pending, TypeOK, SyncerState, OpenRow
    <3>2. /\ q # s => sync'[q] = sync[q]
          /\ q = s => /\ sync'[q].current = NoOpenRow
                      /\ sync'[q].verdict = "none"
                      /\ sync'[q].todo = sync[q].todo
      BY <1>0, <1>5 DEF RecordVerdict, TypeOK, SyncerState
    <3> QED
      BY <1>5, <2>3, <3>1, <3>2 DEF SyncerKnows, Pending, RecordVerdict
  <2>5. \A k \in Keys : rows'[k].pr # NoPr => prs'[rows'[k].pr].key = k
    BY <1>5, <2>3 DEF VerdictInv, RecordVerdict
  <2>6. SettledRowNamesItsPr'
    BY <2>2, <2>3, <2>5 DEF VerdictInv, SettledRowNamesItsPr
  <2>7. ASSUME NEW k \in Keys, rows'[k].status = "pr_merged"
        PROVE  \E n \in PrNumber : prs'[n] = [key |-> k, state |-> "merged"]
    <3>1. CASE k = e.key
      <4>1. prs[e.pr] = [key |-> k, state |-> "merged"]
        BY <2>2, <2>3, <2>7, <3>1 DEF TypeOK, PullRequest
      <4> QED
        BY <1>5, <2>3, <4>1 DEF RecordVerdict
    <3>2. CASE k # e.key
      BY <1>5, <2>3, <2>7, <3>2 DEF RecordVerdict, VerdictInv, MergedRowHasMergedPr
    <3> QED
      BY <3>1, <3>2
  <2> QED
    BY <2>4, <2>5, <2>6, <2>7 DEF VerdictInv, SyncerKnows, Pending, MergedRowHasMergedPr
<1> QED
  BY <1>1, <1>2, <1>3, <1>4, <1>5 DEF SyncerStep

LEMMA NextKeepsVerdict ==
  ASSUME TypeOK, TypeOK', NewestPrInv, VerdictInv, [Next]_vars
  PROVE  VerdictInv'
<1>1. ASSUME NEW r \in Runners, NEW o \in RunOptions, StartRun(r, o)
      PROVE  VerdictInv'
  BY <1>1, VerdictFrame DEF StartRun, syncerVars
<1>2. ASSUME NEW r \in Runners, RunnerCrash(r) PROVE VerdictInv'
  BY <1>2, VerdictFrame DEF RunnerCrash, RunnerExits, syncerVars
<1>3. ASSUME NEW n \in PrNumber, NEW state \in {"merged", "closed"},
             ResolvePr(n, state)
      PROVE  VerdictInv'
  <2>1. \A m \in PrNumber :
          /\ prs'[m].key = prs[m].key
          /\ prs[m].state = "merged" => prs'[m].state = "merged"
    BY <1>3 DEF ResolvePr, TypeOK, PullRequest
  <2> QED
    BY <1>3, <2>1, VerdictFrame DEF ResolvePr, syncerVars
<1>6. ASSUME NEW n \in PrNumber, ReopenPr(n) PROVE VerdictInv'
  <2>1. \A m \in PrNumber :
          /\ prs'[m].key = prs[m].key
          /\ prs[m].state = "merged" => prs'[m].state = "merged"
    BY <1>6 DEF ReopenPr, TypeOK, PullRequest
  <2> QED
    BY <1>6, <2>1, VerdictFrame DEF ReopenPr, syncerVars
<1>4. ASSUME NEW k \in Keys, ignore(k) PROVE VerdictInv'
  <2>1. \A j \in Keys : /\ rows'[j].pr = rows[j].pr
                        /\ rows'[j].status \in Settled => rows'[j].status = rows[j].status
    BY <1>4 DEF ignore, mark_ignored, TypeOK, upsert_run, Settled
  <2> QED
    BY <1>4, <2>1, VerdictFrame DEF ignore, syncerVars
<1>5. CASE UNCHANGED vars
  BY <1>5, VerdictFrame DEF vars
<1> QED
  BY <1>1, <1>2, <1>3, <1>4, <1>5, <1>6, RunnerKeepsVerdict, SyncerKeepsVerdict DEF Next

LEMMA InitVerdict == Init => VerdictInv
BY DEF Init, VerdictInv, Pending, NoRow, IdleSyncer, SettledRowNamesItsPr, Settled,
       MergedRowHasMergedPr

LEMMA VerdictInvariant == Spec => []VerdictInv
BY InitType, NextType, InitNewest, NextKeepsNewest, InitVerdict,
   NextKeepsVerdict, PTL DEF Spec

\* A row that says opened, merged or closed has the number of a pull request
\* of its own issue, whatever is forced, ignored, killed or lost.
THEOREM SettledRowsAreNumbered == Spec => []SettledRowNamesItsPr
<1>1. VerdictInv => SettledRowNamesItsPr
  BY DEF VerdictInv
<1> QED
  BY <1>1, VerdictInvariant, PTL

\* An issue recorded as merged, which no run takes up again, has a pull
\* request that was merged, whatever is forced, ignored, killed or lost.
THEOREM MergedRowsAreMerged == Spec => []MergedRowHasMergedPr
<1>1. VerdictInv => MergedRowHasMergedPr
  BY DEF VerdictInv
<1> QED
  BY <1>1, VerdictInvariant, PTL
=============================================================================
