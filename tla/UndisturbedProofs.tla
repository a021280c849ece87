------------------------- MODULE UndisturbedProofs --------------------------
(***************************************************************************)
(* Theorems about Remediate for command lines without --force where no     *)
(* process dies and no reply is lost; reviewers may reopen pull requests,  *)
(* and but for the last theorem operators may ignore issues at any time.   *)
(***************************************************************************)
EXTENDS UnforcedProofs

\* The places where EveryPrIsOnRecord looks for a pull request.
OnRow(n) ==
  /\ rows[prs[n].key].pr = n
  /\ rows[prs[n].key].status \in Settled \cup {"ignored"}

AtHandOf(r, n) == run[r].pc = "recording" /\ run[r].pr = n

\* ... and where it does not: the gate may overlook a merged one.
Overlooked(n) == MayIgnore /\ prs[n].state = "merged"

\* Runner r is not past the flock, or has it alone.
Alone(r) == \A q \in Runners \ {r} : run[q].pc = "idle" /\ run'[q] = run[q]

\* A step of r that leaves the pull requests alone, takes none from its hands,
\* and writes no row but that of an issue whose pull requests are overlooked.
LEMMA RunnerFrame ==
  ASSUME OnRecordInv, NEW r \in Runners, Alone(r), UNCHANGED prs,
         run[r].pc # "recording", run'[r].pc # "recording",
         \A n \in PrNumber : Used(n) =>
           rows'[prs[n].key] = rows[prs[n].key] \/ Overlooked(n),
         run'[r].pc \in BeyondThirdRead =>
           \A n \in PrNumber : Used(n) /\ prs[n].key = run'[r].key => Overlooked(n)
  PROVE  OnRecordInv'
<1>1. \A n \in PrNumber : (Used(n)' <=> Used(n)) /\ (Overlooked(n)' <=> Overlooked(n))
  BY DEF Used, Overlooked
<1>2. ASSUME NEW n \in PrNumber, Used(n) PROVE OnRow(n)' \/ Overlooked(n)'
  <2>1. \A q \in Runners : ~ AtHandOf(q, n)
    BY DEF Alone, AtHandOf
  <2>2. OnRow(n) \/ Overlooked(n)
    BY <1>2, <2>1 DEF OnRecordInv, EveryPrIsOnRecord, OnRow, AtHandOf, Overlooked
  <2> QED
    BY <1>1, <1>2, <2>2 DEF OnRow
<1>3. ASSUME NEW q \in Runners, NEW n \in PrNumber,
             run'[q].pc \in BeyondThirdRead, Used(n), prs[n].key = run'[q].key
      PROVE  Overlooked(n)
  <2>1. q # r => run'[q].pc = "idle"
    BY DEF Alone
  <2> QED
    BY <1>3, <2>1, Stages
<1>4. FurtherPrsFollowMerges'
  BY <1>1 DEF OnRecordInv, FurtherPrsFollowMerges
<1>5. EveryPrIsOnRecord'
  BY <1>1, <1>2 DEF EveryPrIsOnRecord, OnRow, Overlooked
<1> QED
  BY <1>1, <1>3, <1>4, <1>5 DEF OnRecordInv, Overlooked

LEMMA LoopOnRecord ==
  ASSUME TypeOK, UnforcedInv, OnRecordInv, NEW r \in Runners, LoopStep(r), Alone(r)
  PROVE  OnRecordInv'
<1>0. /\ run \in [Runners -> RunnerState]
      /\ UNCHANGED <<rows, prs>>
      /\ run[r].pc # "recording"
      /\ run'[r].pc # "recording"
  BY LoopMoves DEF TypeOK, Gate
<1>1. CASE run'[r].pc \notin BeyondThirdRead
  BY <1>0, <1>1, RunnerFrame
<1>2. CASE run[r].pc \in BeyondThirdRead /\ run'[r].key = run[r].key
  BY <1>0, <1>2, RunnerFrame DEF OnRecordInv, Overlooked
\* The third read passes: the pull request on record was merged.
<1>3. CASE PassRead(r) /\ run[r].pc = "rejected"
  <2> DEFINE k == run[r].key
  <2>1. /\ k \in Keys
        /\ run'[r].key = k
        /\ run[r].pc \in BeyondFirstRead
    BY <1>0, <1>3, AtHand
    DEF PassRead, Proceed, RunnerState, BeyondFirstRead, HasIssue, Gate
  <2>2. /\ rows[k].status \notin {"pr_open", "pr_closed", "ignored"}
        /\ rows[k].status = "pr_merged" => MayIgnore
    BY <1>3, <2>1 DEF PassRead, TurnsAway, UnforcedInv
  <2>3. ASSUME NEW n \in PrNumber, Used(n), prs[n].key = k PROVE Overlooked(n)
    <3>1. \A q \in Runners : ~ AtHandOf(q, n)
      BY <1>0 DEF Alone, AtHandOf
    <3>2. CASE OnRow(n)
      <4>1. rows[k].status = "pr_merged" /\ rows[k].pr = n
        BY <2>2, <2>3, <3>2 DEF OnRow, Settled
      <4>2. prs[n].state = "merged"
        BY <2>1, <4>1 DEF UnforcedInv, VerdictIsTrue, StandsFor
      <4> QED
        BY <2>2, <4>1, <4>2 DEF Overlooked
    <3> QED
      BY <2>3, <3>1, <3>2
      DEF OnRecordInv, EveryPrIsOnRecord, OnRow, AtHandOf, Overlooked
  <2> QED
    BY <1>0, <2>1, <2>3, RunnerFrame
<1>4. \/ run'[r].pc \notin BeyondThirdRead
      \/ run[r].pc \in BeyondThirdRead /\ run'[r].key = run[r].key
      \/ PassRead(r) /\ run[r].pc = "rejected"
  <2>1. CASE Search(r) \/ SearchFails(r) \/ EndRun(r)
    BY <1>0, <2>1, Stages
    DEF Search, SearchFails, EndRun, RunnerExits, IdleRunner, RunnerState
  <2>2. ASSUME NEW k \in Keys, ReachIssue(r, k) PROVE run'[r].pc = "idempotency"
    <3>1. ~ Bypassed(r, k)
      BY DEF UnforcedInv, Bypassed
    <3> QED
      BY <1>0, <2>2, <3>1 DEF ReachIssue, RunnerState
  <2>3. CASE SkipIssue(r) \/ UnroutedIssue(r) \/ DeferIssue(r)
    BY <1>0, <2>3, Stages
    DEF SkipIssue, UnroutedIssue, DeferIssue, IssueDone, RunnerState
  <2>4. CASE PassRead(r) /\ run[r].pc # "rejected"
    BY <1>0, <2>4
    DEF PassRead, Proceed, NextRead, RunnerState, BeyondThirdRead, HasIssue, Gate
  <2>5. CASE TakeIssue(r)
    BY <1>0, <2>5, Stages DEF TakeIssue, RunnerState
  <2> QED
    BY <2>1, <2>2, <2>3, <2>4, <2>5, Stages DEF LoopStep
<1> QED
  BY <1>1, <1>2, <1>3, <1>4

LEMMA AttemptOnRecord ==
  ASSUME "lost_reply" \notin Disturbances, TypeOK, NewestPrInv, OnRecordInv,
         NEW r \in Runners, AttemptStep(r), Alone(r)
  PROVE  OnRecordInv'
<1> DEFINE k == run[r].key
<1>0. /\ run \in [Runners -> RunnerState]
      /\ run[r].pc \in Attempting
      /\ k \in Keys
  <2>1. run[r].pc \in Attempting
    BY DEF AttemptStep, CloneBranch, Generate, ApplyEdits, Verify, DryReturn,
           CommitPush, CreatePr, CreatePrReplyLost, RecordPr, StageFails,
           RecordFailure, Attempting
  <2> QED
    BY <2>1, AtHand, Stages DEF TypeOK
<1>1. run[r].pc # "recording" =>
        \A n \in PrNumber : Used(n) /\ prs[n].key = k => Overlooked(n)
  BY <1>0, Stages DEF OnRecordInv, Overlooked
<1>2. CASE Generate(r) \/ ApplyEdits(r) \/ Verify(r) \/ CommitPush(r) \/ StageFails(r)
  <2>1. /\ run[r].pc # "recording"
        /\ run'[r].pc # "recording"
        /\ run'[r].key = k
        /\ UNCHANGED <<rows, prs>>
    BY <1>0, <1>2
    DEF Generate, ApplyEdits, Verify, CommitPush, StageFails, Proceed, RunnerState
  <2> QED
    BY <1>1, <2>1, RunnerFrame
<1>3. CASE DryReturn(r)
  <2>1. run[r].pc = "pushing" /\ run'[r].pc = "next" /\ UNCHANGED <<rows, prs>>
    BY <1>0, <1>3 DEF DryReturn, IssueDone, RunnerState
  <2> QED
    BY <2>1, Stages, RunnerFrame
<1>4. CASE CloneBranch(r) \/ RecordFailure(r)
  <2>1. /\ run[r].pc # "recording"
        /\ run'[r].pc \in {"generating", "next"}
        /\ run'[r].pc = "generating" => run'[r].key = k
        /\ UNCHANGED prs
    BY <1>0, <1>4 DEF CloneBranch, RecordFailure, IssueDone, RunnerState
  <2>2. \A j \in Keys \ {k} : rows'[j] = rows[j]
    BY <1>4 DEF CloneBranch, RecordFailure, TypeOK
  <2>3. \A n \in PrNumber : Used(n) => prs[n].key \in Keys \ {k} \/ Overlooked(n)
    BY <1>1, <2>1 DEF OnRecordInv
  <2> QED
    BY <1>1, <2>1, <2>2, <2>3, Stages, RunnerFrame
<1>5. ASSUME NEW n \in PrNumber, CreatePr(r, n) PROVE OnRecordInv'
  <2>1. /\ run'[r].pc = "recording"
        /\ run'[r].key = k
        /\ run'[r].pr = n
        /\ run[r].pc = "creating"
        /\ UNCHANGED rows
    BY <1>0, <1>5 DEF CreatePr, RunnerState
  <2>2. /\ prs'[n] = [key |-> k, state |-> "open"]
        /\ \A m \in PrNumber \ {n} : prs'[m] = prs[m]
    BY <1>5 DEF CreatePr, OpensPr, TypeOK
  <2>3. AtHandOf(r, n)'
    BY <2>1 DEF AtHandOf
  <2>4. ASSUME NEW m \in PrNumber \ {n}, Used(m)'
        PROVE  /\ OnRow(m)' \/ Overlooked(m)'
               /\ prs'[m].key = k => Overlooked(m)'
               /\ Used(m)
    <3>1. Used(m) /\ \A q \in Runners : ~ AtHandOf(q, m)
      BY <2>1, <2>2, <2>4 DEF Used, AtHandOf, Alone
    <3>2. OnRow(m) \/ Overlooked(m)
      BY <3>1 DEF OnRecordInv, EveryPrIsOnRecord, OnRow, AtHandOf, Overlooked
    <3> QED
      BY <1>1, <2>1, <2>2, <3>1, <3>2 DEF OnRow, Overlooked
  <2>5. EveryPrIsOnRecord'
    BY <2>3, <2>4 DEF EveryPrIsOnRecord, OnRow, AtHandOf, Overlooked
  <2>6. \A m \in PrNumber : Used(m)' => prs'[m].key \in Keys
    BY <1>0, <2>2 DEF OnRecordInv, Used
  <2>7. \A q \in Runners \ {r} : run'[q].pc \notin BeyondThirdRead
    BY Stages DEF Alone
  <2>8. ASSUME NEW i \in PrNumber, NEW m \in PrNumber, Used(i)', Used(m)',
               prs'[i].key = prs'[m].key, i < m
        PROVE  prs'[i].state = "merged"
    <3>1. CASE m = n
      BY <2>2, <2>4, <2>8, <3>1, LimitsAssumption DEF Overlooked, PrNumber
    <3>2. CASE i = n
      <4>1. ~ Used(m)
        BY <1>5, <2>8, <3>2, LimitsAssumption
        DEF CreatePr, OpensPr, NextPr, Used, PrNumber
      <4> QED
        BY <2>4, <2>8, <3>2, <4>1, LimitsAssumption DEF PrNumber
    <3>3. CASE i # n /\ m # n
      BY <2>2, <2>4, <2>8, <3>3 DEF OnRecordInv, FurtherPrsFollowMerges
    <3> QED
      BY <3>1, <3>2, <3>3
  <2>9. FurtherPrsFollowMerges'
    BY <2>8 DEF FurtherPrsFollowMerges, Used
  <2> QED
    BY <2>1, <2>4, <2>5, <2>6, <2>7, <2>9 DEF OnRecordInv, Overlooked
<1>6. CASE RecordPr(r)
  <2>1. /\ run[r].pc = "recording"
        /\ run[r].pr # NoPr
        /\ run'[r].pc = "next"
        /\ UNCHANGED prs
    BY <1>0, <1>6 DEF RecordPr, IssueDone, RunnerState, TypeOK
  <2>2. /\ rows'[k].status = "pr_open"
        /\ rows'[k].pr = run[r].pr
        /\ \A j \in Keys \ {k} : rows'[j] = rows[j]
    BY <1>0, <1>6, <2>1 DEF RecordPr, TypeOK, upsert_run
  <2>3. ASSUME NEW m \in PrNumber, Used(m) PROVE OnRow(m)' \/ Overlooked(m)'
    <3>1. CASE prs[m].key = k
      <4>1. m = run[r].pr \/ Overlooked(m)
        BY <1>0, <2>3, <3>1, Stages DEF OnRecordInv, Overlooked
      <4> QED
        BY <2>1, <2>2, <3>1, <4>1 DEF OnRow, Settled, Overlooked
    <3>2. CASE prs[m].key # k
      <4>1. prs[m].key \in Keys
        BY <2>3 DEF OnRecordInv
      <4>2. CASE OnRow(m)
        BY <2>1, <2>2, <3>2, <4>1, <4>2 DEF OnRow
      <4>3. CASE \E q \in Runners : AtHandOf(q, m)
        <5>1. run[r].pr = m
          BY <4>3 DEF Alone, AtHandOf
        <5>2. prs[m].key = k
          BY <2>1, <5>1 DEF NewestPrInv, IsNewestPr
        <5> QED
          BY <3>2, <5>2
      <4>4. CASE Overlooked(m)
        BY <2>1, <4>4 DEF Overlooked
      <4> QED
        BY <2>3, <4>2, <4>3, <4>4
        DEF OnRecordInv, EveryPrIsOnRecord, OnRow, AtHandOf, Overlooked
    <3> QED
      BY <3>1, <3>2
  <2>4. \A q \in Runners : run'[q].pc \notin BeyondThirdRead
    BY <2>1, Stages DEF Alone
  <2>5. EveryPrIsOnRecord'
    BY <2>1, <2>3 DEF EveryPrIsOnRecord, OnRow, Used, Overlooked
  <2> QED
    BY <2>1, <2>4, <2>5 DEF OnRecordInv, FurtherPrsFollowMerges, Used
<1> QED
  BY <1>2, <1>3, <1>4, <1>5, <1>6 DEF AttemptStep, CreatePrReplyLost

LEMMA NextOnRecord ==
  ASSUME {"crash", "lost_reply"} \cap Disturbances = {}, TypeOK, NewestPrInv,
         UnforcedInv, OnRecordInv, [Next]_vars
  PROVE  OnRecordInv'
<1>1. ASSUME NEW r \in Runners, RunnerStep(r) PROVE OnRecordInv'
  <2>1. run[r].pc # "idle"
    BY <1>1, LoopMoves
    DEF RunnerStep, AttemptStep, CloneBranch, Generate, ApplyEdits, Verify, DryReturn,
        CommitPush, CreatePr, CreatePrReplyLost, RecordPr, StageFails, RecordFailure,
        Attempting, Gate
  <2>2. \A q \in Runners \ {r} : run'[q] = run[q]
    BY <1>1, LoopMoves
    DEF RunnerStep, AttemptStep, CloneBranch, Generate, ApplyEdits, Verify, DryReturn,
        CommitPush, CreatePr, CreatePrReplyLost, RecordPr, StageFails, RecordFailure,
        Proceed, IssueDone, TypeOK
  <2>3. Alone(r)
    BY <2>1, <2>2 DEF Alone, NewestPrInv, LockIsHeld
  <2> QED
    BY <1>1, <2>3, LoopOnRecord, AttemptOnRecord DEF RunnerStep
\* The rows change by a status the syncer or the operator writes.
<1>2. ASSUME NEW k \in Keys, NEW status \in {"pr_merged", "pr_closed", "ignored"},
             rows' = [rows EXCEPT ![k] = upsert_run(@, status, NoPr)],
             UNCHANGED <<prs, run>>
      PROVE  OnRecordInv'
  <2>1. \A j \in Keys : /\ rows'[j].pr = rows[j].pr
                        /\ rows'[j].status \in {rows[j].status, status}
    BY <1>2 DEF TypeOK, upsert_run
  <2>2. \A n \in PrNumber : Used(n) /\ OnRow(n) => OnRow(n)'
    BY <1>2, <2>1 DEF OnRecordInv, OnRow, Settled
  <2> QED
    BY <1>2, <2>2 DEF OnRecordInv, EveryPrIsOnRecord, FurtherPrsFollowMerges, OnRow, Used
<1>3. ASSUME NEW s \in Syncers, RecordVerdict(s) PROVE OnRecordInv'
  <2>1. sync[s].current.key \in Keys /\ sync[s].verdict \in {"pr_merged", "pr_closed"}
    BY <1>3, AtHand DEF RecordVerdict
  <2> QED
    BY <1>2, <1>3, <2>1 DEF RecordVerdict, runnerVars
<1>4. ASSUME NEW k \in Keys, ignore(k) PROVE OnRecordInv'
  BY <1>2, <1>4 DEF ignore, mark_ignored, runnerVars
<1>5. ASSUME NEW r \in Runners, NEW o \in RunOptions, StartRun(r, o) PROVE OnRecordInv'
  <2>1. /\ run[r].pc = "idle"
        /\ run'[r].pc = "searching"
        /\ \A q \in Runners \ {r} : run'[q] = run[q]
        /\ UNCHANGED <<rows, prs>>
    BY <1>5 DEF StartRun, TypeOK, IdleRunner
  <2>2. \A q \in Runners, n \in PrNumber : AtHandOf(q, n)' <=> AtHandOf(q, n)
    BY <2>1 DEF AtHandOf
  <2>3. EveryPrIsOnRecord'
    BY <2>1, <2>2 DEF OnRecordInv, EveryPrIsOnRecord, AtHandOf, Used
  <2>4. \A q \in Runners : run'[q].pc \in BeyondThirdRead => run'[q] = run[q]
    BY <2>1, Stages
  <2> QED
    BY <2>1, <2>3, <2>4 DEF OnRecordInv, FurtherPrsFollowMerges, Used
<1>6. ASSUME NEW n \in PrNumber,
             \/ \E state \in {"merged", "closed"} : ResolvePr(n, state)
             \/ ReopenPr(n)
      PROVE  OnRecordInv'
  <2>1. \A m \in PrNumber : /\ prs'[m].key = prs[m].key
                            /\ Used(m)' <=> Used(m)
                            /\ prs[m].state = "merged" => prs'[m].state = "merged"
    <3>1. prs[n].state \in {"open", "closed"} /\ prs[n] \in PullRequest
      BY <1>6 DEF ResolvePr, ReopenPr, TypeOK
    <3>2. PICK state \in {"open", "merged", "closed"} :
            prs' = [prs EXCEPT ![n].state = state]
      BY <1>6 DEF ResolvePr, ReopenPr
    <3> QED
      BY <3>1, <3>2 DEF TypeOK, PullRequest, Used
  <2>2. UNCHANGED <<rows, run>>
    BY <1>6 DEF ResolvePr, ReopenPr, runnerVars
  <2> QED
    BY <2>1, <2>2 DEF OnRecordInv, EveryPrIsOnRecord, FurtherPrsFollowMerges
<1>7. CASE UNCHANGED <<rows, prs, run>>
  BY <1>7 DEF OnRecordInv, EveryPrIsOnRecord, FurtherPrsFollowMerges, Used
<1> QED
  BY <1>1, <1>3, <1>4, <1>5, <1>6, <1>7
  DEF Next, RunnerCrash, StartSync, SyncerStep, EndSync, CheckPr, CheckPrFails,
      SyncerCrash, SyncerExits, vars, runnerVars

LEMMA OnRecordInvariant ==
  ASSUME \A o \in RunOptions : ~ o.force, {"crash", "lost_reply"} \cap Disturbances = {}
  PROVE  Spec => [](TypeOK /\ NewestPrInv /\ OnRecordInv)
<1>1. Init => OnRecordInv
  BY DEF Init, OnRecordInv, EveryPrIsOnRecord, FurtherPrsFollowMerges, Used, Unused
<1>2. TypeOK /\ NewestPrInv /\ UnforcedInv /\ OnRecordInv /\ [Next]_vars => OnRecordInv'
  BY NextOnRecord
<1> QED
  BY <1>1, <1>2, UnforcedInvariant, PTL DEF Spec

\* No pull request is lost from the table, as long as no process dies between
\* opening and recording it; where issues are ignored while runs are at work,
\* none that was not merged.
THEOREM PrsStayOnRecord ==
  ASSUME \A o \in RunOptions : ~ o.force, {"crash", "lost_reply"} \cap Disturbances = {}
  PROVE  Spec => []EveryPrIsOnRecord
<1>1. OnRecordInv => EveryPrIsOnRecord
  BY DEF OnRecordInv
<1> QED
  BY <1>1, OnRecordInvariant, PTL

\* Under the same conditions no issue gets a pull request beside one that is
\* open or instead of one that was rejected, whatever operators ignore and
\* whenever: a further one only comes after merges.
THEOREM NoRivalPrs ==
  ASSUME \A o \in RunOptions : ~ o.force, {"crash", "lost_reply"} \cap Disturbances = {}
  PROVE  Spec => []FurtherPrsFollowMerges
<1>1. OnRecordInv => FurtherPrsFollowMerges
  BY DEF OnRecordInv
<1> QED
  BY <1>1, OnRecordInvariant, PTL

\* Where nobody ignores issues, no issue gets a second pull request at all:
\* neither cron's overlapping ticks, nor retries, nor an edit of its summary,
\* nor a reviewer who merges, closes or reopens the first one bring one about.
THEOREM NothingIsCreatedTwice ==
  ASSUME \A o \in RunOptions : ~ o.force,
         {"crash", "lost_reply", "ignore"} \cap Disturbances = {}
  PROVE  Spec => []NothingCreatedTwice
<1>1. TypeOK /\ NewestPrInv /\ OnRecordInv => NothingCreatedTwice
  <2> SUFFICES ASSUME TypeOK, NewestPrInv, OnRecordInv,
                      NEW m \in PrNumber, NEW n \in PrNumber, Used(m), Used(n),
                      prs[m].key = prs[n].key
               PROVE  m = n
    BY DEF NothingCreatedTwice
  <2>0. ~ MayIgnore
    BY DEF MayIgnore
  <2>1. CASE OnRow(m) /\ OnRow(n)
    BY <2>1 DEF OnRow
  <2>2. ASSUME NEW r \in Runners, AtHandOf(r, m) \/ AtHandOf(r, n) PROVE m = n
    <3>1. run[r].pc \in BeyondThirdRead
      BY <2>2, Stages DEF AtHandOf, Attempting
    <3> QED
      BY <2>0, <2>2, <3>1 DEF OnRecordInv, NewestPrInv, IsNewestPr, AtHandOf
  <2> QED
    BY <2>0, <2>1, <2>2 DEF OnRecordInv, EveryPrIsOnRecord, OnRow, AtHandOf
<1>2. {"crash", "lost_reply"} \cap Disturbances = {}
  OBVIOUS
<1> QED
  BY <1>1, <1>2, OnRecordInvariant, PTL
=============================================================================
