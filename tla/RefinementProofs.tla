-------------------------- MODULE RefinementProofs --------------------------
(***************************************************************************)
(* Remediate implements Delivery, for every set of issues, of processes    *)
(* and of command lines, and whatever may disturb them.                    *)
(***************************************************************************)
EXTENDS UnforcedProofs, RemediateRefinement

\* Between the writes of branch_created and of pr_open the row has been written
\* and does not say failed: with NewestPrInv, what Delivery asks of an attempt
\* that opens a pull request.
BranchInv ==
  \A r \in Runners : run[r].pc \in Branched =>
    rows[run[r].key].status \notin {"absent", "failed"}

\* A step of r: every other runner is idle and stays so.
LEMMA BranchFrame ==
  ASSUME LockIsHeld, NEW r \in Runners, run[r].pc # "idle",
         \A q \in Runners \ {r} : run'[q] = run[q],
         run'[r].pc \in Branched => rows'[run'[r].key].status \notin {"absent", "failed"}
  PROVE  BranchInv'
<1>1. \A q \in Runners \ {r} : run'[q].pc = "idle"
  BY DEF LockIsHeld
<1> QED
  BY <1>1 DEF BranchInv, Branched, Attempting

LEMMA RunnerKeepsBranch ==
  ASSUME TypeOK, LockIsHeld, BranchInv, NEW r \in Runners, RunnerStep(r)
  PROVE  BranchInv'
<1>0. /\ run \in [Runners -> RunnerState]
      /\ run[r].pc \in Attempting => run[r].key \in Keys
      /\ run[r].pc \in Branched => rows[run[r].key].status \notin {"absent", "failed"}
  BY AtHand, Stages DEF TypeOK, BranchInv
<1>1. CASE LoopStep(r)
  <2>1. /\ run[r].pc # "idle"
        /\ run'[r].pc \notin Branched
        /\ \A q \in Runners \ {r} : run'[q] = run[q]
    BY <1>1, LoopMoves DEF Branched, Attempting, Gate
  <2> QED
    BY <2>1, BranchFrame
<1>2. CASE CloneBranch(r)
  <2>1. run[r].key \in Keys
    BY <1>0, <1>2 DEF CloneBranch, Attempting
  <2>2. rows'[run[r].key].status = "branch_created"
    BY <1>2, <2>1 DEF CloneBranch, TypeOK, upsert_run
  <2>3. /\ run[r].pc # "idle"
        /\ run'[r].key = run[r].key
        /\ \A q \in Runners \ {r} : run'[q] = run[q]
    BY <1>0, <1>2 DEF CloneBranch, RunnerState
  <2> QED
    BY <2>2, <2>3, BranchFrame
<1>3. CASE Generate(r) \/ ApplyEdits(r) \/ Verify(r) \/ CommitPush(r)
           \/ \E n \in PrNumber : CreatePr(r, n)
  <2>1. /\ run[r].pc \in Branched
        /\ run'[r].key = run[r].key
        /\ \A q \in Runners \ {r} : run'[q] = run[q]
        /\ UNCHANGED rows
    BY <1>0, <1>3
    DEF Generate, ApplyEdits, Verify, CommitPush, CreatePr, Proceed, RunnerState,
        Branched, Attempting
  <2>2. run[r].pc # "idle"
    BY <2>1 DEF Branched, Attempting
  <2> QED
    BY <1>0, <2>1, <2>2, BranchFrame
<1>4. CASE DryReturn(r) \/ RecordPr(r) \/ StageFails(r) \/ RecordFailure(r)
           \/ \E n \in PrNumber : CreatePrReplyLost(r, n)
  <2>1. /\ run[r].pc # "idle"
        /\ run'[r].pc \notin Branched
        /\ \A q \in Runners \ {r} : run'[q] = run[q]
    BY <1>0, <1>4
    DEF DryReturn, RecordPr, StageFails, RecordFailure, CreatePrReplyLost, IssueDone,
        Proceed, RunnerState, Branched, Attempting
  <2> QED
    BY <2>1, BranchFrame
<1> QED
  BY <1>1, <1>2, <1>3, <1>4 DEF RunnerStep, AttemptStep

LEMMA NextKeepsBranch ==
  ASSUME TypeOK, LockIsHeld, BranchInv, [Next]_vars
  PROVE  BranchInv'
<1>1. ASSUME NEW r \in Runners, RunnerStep(r) PROVE BranchInv'
  BY <1>1, RunnerKeepsBranch
<1>2. ASSUME NEW r \in Runners,
             RunnerCrash(r) \/ \E o \in RunOptions : StartRun(r, o)
      PROVE  BranchInv'
  <2>1. /\ run'[r].pc \notin Branched
        /\ \A q \in Runners \ {r} : run'[q] = run[q]
        /\ UNCHANGED rows
    <3>1. CASE RunnerCrash(r)
      BY <3>1, IdleRunnerType DEF RunnerCrash, RunnerExits, TypeOK, Branched
    <3>2. ASSUME NEW o \in RunOptions, StartRun(r, o)
          PROVE  /\ run'[r].pc = "searching"
                 /\ \A q \in Runners \ {r} : run'[q] = run[q]
                 /\ UNCHANGED rows
      BY <3>2 DEF StartRun, TypeOK, IdleRunner
    <3> QED
      BY <1>2, <3>1, <3>2 DEF Branched, Attempting
  <2> QED
    BY <2>1 DEF BranchInv
<1>3. ASSUME NEW k \in Keys, NEW status \in Status \ {"failed"},
             rows' = [rows EXCEPT ![k] = upsert_run(@, status, NoPr)],
             UNCHANGED run
      PROVE  BranchInv'
  <2>1. \A j \in Keys : rows'[j].status \in {rows[j].status, status}
    BY <1>3 DEF TypeOK, upsert_run
  <2>2. \A r \in Runners : run[r].pc \in Branched => run[r].key \in Keys
    BY AtHand, Stages
  <2> QED
    BY <1>3, <2>1, <2>2 DEF BranchInv, Status
<1>4. ASSUME NEW s \in Syncers, RecordVerdict(s) PROVE BranchInv'
  <2>1. sync[s].current.key \in Keys /\ sync[s].verdict \in Status \ {"failed"}
    BY <1>4, AtHand DEF RecordVerdict, Status
  <2> QED
    BY <1>3, <1>4, <2>1 DEF RecordVerdict, runnerVars
<1>5. ASSUME NEW k \in Keys, ignore(k) PROVE BranchInv'
  BY <1>3, <1>5 DEF ignore, mark_ignored, runnerVars, Status
<1>6. CASE UNCHANGED <<rows, run>>
  BY <1>6 DEF BranchInv
<1> QED
  BY <1>1, <1>2, <1>4, <1>5, <1>6
  DEF Next, StartSync, SyncerStep, EndSync, CheckPr, CheckPrFails, SyncerCrash,
      SyncerExits, ResolvePr, ReopenPr, vars, runnerVars

LEMMA BranchInvariant == Spec => []BranchInv
<1>1. Init => BranchInv
  BY DEF Init, BranchInv, Branched, Attempting, IdleRunner
<1>2. TypeOK /\ NewestPrInv /\ BranchInv /\ [Next]_vars => BranchInv'
  BY NextKeepsBranch DEF NewestPrInv
<1> QED
  BY <1>1, <1>2, TypeCorrect, NewestInvariant, PTL DEF Spec

-----------------------------------------------------------------------------
(* The refinement mapping.                                                  *)

\* What an upsert of the table is to Delivery.
LEMMA RecordWritten ==
  ASSUME TypeOK, NEW k \in Keys, NEW status \in Status,
         NEW pr \in PrNumber \cup {NoPr},
         rows' = [rows EXCEPT ![k] = upsert_run(@, status, pr)]
  PROVE  /\ pr = NoPr => Record' = [Record EXCEPT ![k].status = status]
         /\ pr # NoPr => Record' = [Record EXCEPT ![k] = [status |-> status, pr |-> pr]]
<1>1. \A j \in Keys : /\ j # k => rows'[j] = rows[j]
                      /\ rows'[k].status = status
                      /\ rows'[k].pr = IF pr = NoPr THEN rows[k].pr ELSE pr
  BY DEF TypeOK, upsert_run
<1> QED
  BY <1>1 DEF Record

\* The attempt of the process that is past the flock.
LEMMA AttemptAtHand ==
  ASSUME LockIsHeld, NEW r \in Runners, run[r].pc # "idle"
  PROVE  /\ remediate_lock = r
         /\ Attempted = IF run[r].pc \in Attempting THEN run[r].key ELSE NoKey
BY ProcsAssumption DEF LockIsHeld, Attempted

LEMMA AttemptNext ==
  ASSUME NEW r \in Runners, remediate_lock' = r
  PROVE  Attempted' = IF run'[r].pc \in Attempting THEN run'[r].key ELSE NoKey
BY ProcsAssumption DEF Attempted

LEMMA LoopRefined ==
  ASSUME TypeOK, NewestPrInv, ForcedRuns \/ UnforcedInv, NEW r \in Runners, LoopStep(r)
  PROVE  [Abstract!Next]_(Abstract!vars)
<1>0. /\ run \in [Runners -> RunnerState]
      /\ run[r].pc # "idle" => remediate_lock = r
      /\ run[r].pc \notin Attempting
      /\ run[r].pc # "idle"
      /\ UNCHANGED <<rows, prs>>
  BY LoopMoves DEF TypeOK, NewestPrInv, LockIsHeld, Attempting, Gate
<1>1. Attempted = NoKey /\ Record' = Record
  BY <1>0, AttemptAtHand DEF NewestPrInv, Record
<1>2. CASE SearchFails(r) \/ EndRun(r)
  <2>1. Attempted' = NoKey
    BY <1>2 DEF SearchFails, EndRun, RunnerExits, Attempted
  <2> QED
    BY <1>0, <1>1, <2>1 DEF Abstract!vars
<1>3. remediate_lock' = r \/ SearchFails(r) \/ EndRun(r)
  BY <1>0 DEF LoopStep, Search, ReachIssue, SkipIssue, PassRead, UnroutedIssue,
              DeferIssue, TakeIssue, Proceed, IssueDone
<1>4. CASE remediate_lock' = r /\ ~ TakeIssue(r)
  <2>1. run'[r].pc \notin Attempting
    BY <1>4, LoopMoves DEF Attempting, Gate
  <2>2. Attempted' = NoKey
    BY <1>4, <2>1, AttemptNext
  <2> QED
    BY <1>0, <1>1, <2>2 DEF Abstract!vars
<1>5. CASE TakeIssue(r)
  <2> DEFINE k == run[r].key
  <2>1. run[r].pc = "routing" /\ run'[r].pc = "cloning" /\ run'[r].key = k
    BY <1>0, <1>5 DEF TakeIssue, RunnerState
  <2>2. k \in Keys /\ remediate_lock' = r
    BY <1>0, <1>5, <2>1, AtHand DEF TakeIssue, HasIssue
  <2>3. Attempted' = k
    BY <2>1, <2>2, AttemptNext DEF Attempting
  <2>4. \/ ForcedRuns
        \/ rows[k].status \in {"absent", "branch_created", "failed"}
        \/ MayIgnore /\ rows[k].status \in {"ignored", "pr_merged"}
    BY <2>1, <2>2, Stages DEF UnforcedInv, TypeOK, Row, Status
  <2>5. Abstract!Begin(k)
    BY <1>0, <1>1, <2>2, <2>3, <2>4
    DEF Abstract!Begin, Abstract!Usually, Abstract!Overlooked, Record
  <2> QED
    BY <2>2, <2>5 DEF Abstract!Next
<1> QED
  BY <1>2, <1>3, <1>4, <1>5

\* The status of an issue whose attempt has not failed and is past its branch.
LEMMA OnItsBranch ==
  ASSUME TypeOK, NewestPrInv, BranchInv, ForcedRuns \/ UnforcedInv,
         NEW r \in Runners, run[r].pc \in Branched
  PROVE  Abstract!OnBranch(run[r].key)
<1>1. run[r].key \in Keys /\ run[r].pc \in Attempting
  BY AtHand, Stages
<1>2. rows[run[r].key].status \in Status \ {"pr_open", "failed"}
  BY <1>1 DEF TypeOK, Row, NewestPrInv, BranchInv, Branched
<1>3. ForcedRuns \/ rows[run[r].key].status \notin Settled
  BY <1>1, Stages DEF UnforcedInv, Settled
<1> QED
  BY <1>1, <1>2, <1>3 DEF Abstract!OnBranch, Abstract!Usually, Record, Status, Settled

LEMMA AttemptRefined ==
  ASSUME TypeOK, NewestPrInv, BranchInv, ForcedRuns \/ UnforcedInv,
         NEW r \in Runners, AttemptStep(r)
  PROVE  [Abstract!Next]_(Abstract!vars)
<1> DEFINE k == run[r].key
<1>0. /\ run \in [Runners -> RunnerState]
      /\ run[r].pc \in Attempting
      /\ remediate_lock' = remediate_lock
  BY DEF TypeOK, AttemptStep, CloneBranch, Generate, ApplyEdits, Verify, DryReturn,
         CommitPush, CreatePr, CreatePrReplyLost, RecordPr, StageFails,
         RecordFailure, Proceed, IssueDone, Attempting
<1>1. /\ k \in Keys
      /\ remediate_lock' = r
      /\ Attempted = k
  BY <1>0, AtHand, Stages, AttemptAtHand DEF NewestPrInv, Attempting
<1>n. k # NoKey
  BY <1>1, KeysAssumption
<1>2. CASE CloneBranch(r)
  <2>1. run'[r].pc = "generating" /\ run'[r].key = k
    BY <1>0, <1>2 DEF CloneBranch, RunnerState
  <2>2. Attempted' = k
    BY <1>1, <2>1, AttemptNext DEF Attempting
  <2>3. Record' = [Record EXCEPT ![k].status = "branch_created"]
    BY <1>1, <1>2, RecordWritten DEF CloneBranch, Status
  <2>4. Abstract!Branch(k)
    BY <1>1, <1>2, <2>2, <2>3 DEF Abstract!Branch, Abstract!SetStatus, CloneBranch
  <2> QED
    BY <1>1, <2>4 DEF Abstract!Next
<1>3. CASE Generate(r) \/ ApplyEdits(r) \/ Verify(r) \/ CommitPush(r) \/ StageFails(r)
  <2>1. run'[r].pc \in Attempting /\ run'[r].key = k /\ UNCHANGED <<rows, prs>>
    BY <1>0, <1>3
    DEF Generate, ApplyEdits, Verify, CommitPush, StageFails, Proceed, RunnerState,
        Attempting
  <2>2. Attempted' = k
    BY <1>1, <2>1, AttemptNext
  <2> QED
    BY <1>1, <2>1, <2>2 DEF Abstract!vars, Record
<1>4. CASE DryReturn(r)
  <2>1. run'[r].pc = "next" /\ UNCHANGED <<rows, prs>>
    BY <1>0, <1>4 DEF DryReturn, IssueDone, RunnerState
  <2>2. Attempted' = NoKey
    BY <1>1, <2>1, AttemptNext DEF Attempting
  <2>3. Abstract!Abandon
    BY <1>1, <1>n, <2>1, <2>2 DEF Abstract!Abandon, Record
  <2> QED
    BY <2>3 DEF Abstract!Next
<1>5. ASSUME NEW n \in PrNumber, CreatePr(r, n) \/ CreatePrReplyLost(r, n)
      PROVE  Abstract!Open(k, n)
  <2>1. /\ run'[r].pc \in Attempting
        /\ run'[r].key = k
        /\ run[r].pc \in Branched
        /\ OpensPr(k, n)
        /\ UNCHANGED rows
    BY <1>0, <1>5 DEF CreatePr, CreatePrReplyLost, RunnerState, Branched, Attempting
  <2>2. Attempted' = k
    BY <1>1, <2>1, AttemptNext
  <2>3. Abstract!OnBranch(k)
    BY <2>1, OnItsBranch
  <2>4. /\ prs[n].state = "unused"
        /\ \A m \in PrNumber : m > n => prs[m].state = "unused"
        /\ prs' = [prs EXCEPT ![n] = [key |-> k, state |-> "open"]]
    BY <2>1, LimitsAssumption DEF OpensPr, NextPr, PrNumber
  <2> QED
    BY <1>1, <2>1, <2>2, <2>3, <2>4 DEF Abstract!Open, Record
<1>6. CASE RecordPr(r)
  <2>1. run[r].pc \in Branched /\ run'[r].pc = "next" /\ UNCHANGED prs
    BY <1>0, <1>6 DEF RecordPr, IssueDone, RunnerState, Branched, Attempting
  <2>2. Attempted' = NoKey
    BY <1>1, <2>1, AttemptNext DEF Attempting
  <2>3. /\ run[r].pr \in PrNumber
        /\ run[r].pr # NoPr
        /\ Abstract!IsNewest(k, run[r].pr)
    BY <1>0, <1>6 DEF RecordPr, NewestPrInv, IsNewestPr, Abstract!IsNewest, RunnerState
  <2>4. Record' = [Record EXCEPT ![k] = [status |-> "pr_open", pr |-> run[r].pr]]
    BY <1>1, <1>6, <2>3, RecordWritten DEF RecordPr, Status
  <2>5. Abstract!OnBranch(k)
    BY <2>1, OnItsBranch
  <2>6. Abstract!Deliver(k, run[r].pr)
    BY <1>1, <2>1, <2>2, <2>3, <2>4, <2>5 DEF Abstract!Deliver
  <2> QED
    BY <1>1, <2>3, <2>6 DEF Abstract!Next
<1>7. CASE RecordFailure(r)
  <2>1. run'[r].pc = "next" /\ UNCHANGED prs
    BY <1>0, <1>7 DEF RecordFailure, IssueDone, RunnerState
  <2>2. Attempted' = NoKey
    BY <1>1, <2>1, AttemptNext DEF Attempting
  <2>3. Record' = [Record EXCEPT ![k].status = "failed"]
    BY <1>1, <1>7, RecordWritten DEF RecordFailure, Status
  <2>4. \/ ForcedRuns
        \/ rows[k].status \in {"absent", "branch_created", "failed"}
        \/ MayIgnore /\ rows[k].status \in {"ignored", "pr_merged"}
    BY <1>0, <1>1, Stages DEF UnforcedInv, TypeOK, Row, Status
  <2>5. Abstract!Fail(k)
    BY <1>1, <2>1, <2>2, <2>3, <2>4
    DEF Abstract!Fail, Abstract!SetStatus, Abstract!Usually, Abstract!Overlooked,
        Record
  <2> QED
    BY <1>1, <2>5 DEF Abstract!Next
<1> QED
  BY <1>1, <1>2, <1>3, <1>4, <1>5, <1>6, <1>7 DEF AttemptStep, Abstract!Next

\* The syncer writes what became of a pull request of its issue.
LEMMA VerdictRefined ==
  ASSUME TypeOK, VerdictInv, ForcedRuns \/ UnforcedInv, NEW s \in Syncers,
         RecordVerdict(s)
  PROVE  Abstract!Next
<1> DEFINE e == sync[s].current
<1>1. /\ e \in Pending(s) /\ e.key \in Keys /\ e.pr \in PrNumber
      /\ sync[s].verdict \in {"pr_merged", "pr_closed"}
      /\ sync[s].pc = "recording"
  BY AtHand DEF RecordVerdict
<1>2. /\ rows[e.key].pr # NoPr
      /\ prs[e.pr].key = e.key
      /\ sync[s].verdict = "pr_merged" => prs[e.pr].state = "merged"
  BY <1>1 DEF VerdictInv
<1>3. /\ Record' = [Record EXCEPT ![e.key].status = sync[s].verdict]
      /\ UNCHANGED <<prs, run, remediate_lock>>
  BY <1>1, RecordWritten DEF RecordVerdict, Status, runnerVars
<1>4. Attempted' = Attempted
  BY <1>3 DEF Attempted
<1>5. \/ ForcedRuns
      \/ /\ rows[e.key].status \in {"pr_open", "ignored"}
         /\ rows[e.key].pr = e.pr
         /\ StandsFor(sync[s].verdict, prs[e.pr].state)
         /\ \A r \in Runners : run[r].pc \in Attempting => run[r].key # e.key
  BY <1>1, Stages DEF UnforcedInv
<1>6. ForcedRuns \/ Attempted # e.key
  <2>1. Attempted = NoKey \/ \E r \in Runners :
          run[r].pc \in Attempting /\ Attempted = run[r].key
    BY DEF Attempted, TypeOK
  <2> QED
    BY <1>1, <1>5, <2>1, KeysAssumption
<1>7. CASE sync[s].verdict = "pr_merged"
  <2>1. prs[e.pr] = [key |-> e.key, state |-> "merged"]
    BY <1>1, <1>2, <1>7 DEF TypeOK, PullRequest
  <2>2. Abstract!SettleMerged(e.key)
    BY <1>1, <1>2, <1>3, <1>4, <1>5, <1>6, <1>7, <2>1
    DEF Abstract!SettleMerged, Abstract!SetStatus, Record
  <2> QED
    BY <1>1, <2>2 DEF Abstract!Next
<1>8. CASE sync[s].verdict = "pr_closed"
  <2>1. Abstract!SettleClosed(e.key)
    BY <1>1, <1>2, <1>3, <1>4, <1>5, <1>6, <1>8
    DEF Abstract!SettleClosed, Abstract!SetStatus, Record, StandsFor
  <2> QED
    BY <1>1, <2>1 DEF Abstract!Next
<1> QED
  BY <1>1, <1>7, <1>8

LEMMA NextRefined ==
  ASSUME TypeOK, NewestPrInv, VerdictInv, BranchInv, ForcedRuns \/ UnforcedInv,
         [Next]_vars
  PROVE  [Abstract!Next]_(Abstract!vars)
<1>1. ASSUME NEW r \in Runners, NEW o \in RunOptions, StartRun(r, o)
      PROVE  UNCHANGED Abstract!vars
  <2>1. run'[r].pc = "searching" /\ remediate_lock' = r /\ UNCHANGED <<rows, prs>>
    BY <1>1 DEF StartRun, TypeOK, IdleRunner
  <2>2. Attempted' = NoKey
    BY <2>1, AttemptNext DEF Attempting
  <2>3. Attempted = NoKey
    BY <1>1 DEF StartRun, Attempted
  <2> QED
    BY <2>1, <2>2, <2>3 DEF Abstract!vars, Record
<1>2. ASSUME NEW r \in Runners, RunnerCrash(r) PROVE [Abstract!Next]_(Abstract!vars)
  <2>1. Attempted' = NoKey /\ UNCHANGED <<rows, prs>>
    BY <1>2 DEF RunnerCrash, RunnerExits, Attempted
  <2>2. CASE Attempted = NoKey
    BY <2>1, <2>2 DEF Abstract!vars, Record
  <2>3. CASE Attempted # NoKey
    BY <2>1, <2>3 DEF Abstract!Next, Abstract!Abandon, Record
  <2> QED
    BY <2>2, <2>3
<1>3. ASSUME NEW s \in Syncers, RecordVerdict(s) PROVE Abstract!Next
  BY <1>3, VerdictRefined
<1>4. ASSUME NEW n \in PrNumber,
             \/ \E state \in {"merged", "closed"} : ResolvePr(n, state)
             \/ ReopenPr(n)
      PROVE  Abstract!Review(n)
  <2>1. UNCHANGED <<rows, run, remediate_lock>>
    BY <1>4 DEF ResolvePr, ReopenPr, runnerVars
  <2>2. UNCHANGED <<Record, Attempted>>
    BY <2>1 DEF Record, Attempted
  <2> QED
    BY <1>4, <2>2 DEF ResolvePr, ReopenPr, Abstract!Review
<1>5. ASSUME NEW k \in Keys, ignore(k) PROVE Abstract!Ignore(k)
  <2>1. Record' = [Record EXCEPT ![k].status = "ignored"]
    BY <1>5, RecordWritten DEF ignore, mark_ignored, Status
  <2>2. UNCHANGED <<prs, Attempted>>
    BY <1>5 DEF ignore, runnerVars, Attempted
  <2> QED
    BY <1>5, <2>1, <2>2 DEF Abstract!Ignore, Abstract!SetStatus, MayIgnore, ignore
<1>6. CASE UNCHANGED <<rows, prs, run, remediate_lock>>
  BY <1>6 DEF Abstract!vars, Record, Attempted
<1> QED
  BY <1>1, <1>2, <1>3, <1>4, <1>5, <1>6, LoopRefined, AttemptRefined
  DEF Next, RunnerStep, StartSync, SyncerStep, EndSync, CheckPr, CheckPrFails,
      SyncerCrash, SyncerExits, vars, runnerVars, Abstract!Next

LEMMA InitRefined == Init => Abstract!Init
BY DEF Init, Abstract!Init, Record, Attempted, NoRow, Unused

\* Every step of the processes, the operators, the reviewers and the crashes is
\* one that Delivery allows, or changes nothing it speaks of.  Where no run is
\* forced, Delivery asks more, and UnforcedInv answers.
THEOREM RemediateImplementsDelivery == Spec => ImplementsDelivery
<1>1. CASE ForcedRuns
  <2>1. TypeOK /\ NewestPrInv /\ VerdictInv /\ BranchInv /\ [Next]_vars
          => [Abstract!Next]_(Abstract!vars)
    BY <1>1, NextRefined
  <2> QED
    BY <2>1, InitRefined, NewestInvariant, VerdictInvariant, BranchInvariant, PTL
    DEF Spec, ImplementsDelivery, Abstract!Spec
<1>2. CASE ~ ForcedRuns
  <2>1. \A o \in RunOptions : ~ o.force
    BY <1>2 DEF ForcedRuns
  <2>2. Spec => [](TypeOK /\ NewestPrInv /\ VerdictInv /\ UnforcedInv)
    BY <2>1, UnforcedInvariant
  <2>3. TypeOK /\ NewestPrInv /\ VerdictInv /\ UnforcedInv /\ BranchInv /\ [Next]_vars
          => [Abstract!Next]_(Abstract!vars)
    BY NextRefined
  <2> QED
    BY <2>2, <2>3, InitRefined, BranchInvariant, PTL
    DEF Spec, ImplementsDelivery, Abstract!Spec
<1> QED
  BY <1>1, <1>2
=============================================================================
