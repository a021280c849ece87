--------------------------- MODULE UnforcedProofs ---------------------------
(***************************************************************************)
(* Theorems about Remediate for every set of command lines without         *)
(* --force, whatever may crash, get lost or be ignored.                    *)
(***************************************************************************)
EXTENDS RemediateProofs

\* The steps of a run, from the loop to the end of an attempt.
LEMMA Stages ==
  /\ Branched \subseteq Attempting
  /\ {"routing"} \cup Attempting \subseteq BeyondThirdRead
  /\ BeyondThirdRead \subseteq BeyondFirstRead
  /\ BeyondFirstRead \subseteq HasIssue
  /\ {"idle", "searching", "next", "idempotency"} \cap BeyondFirstRead = {}
BY DEF Branched, BeyondThirdRead, BeyondFirstRead, HasIssue, Gate, Attempting

\* The parts of UnforcedInv about one process.
RunnerFree(r) ==
  /\ ~ run[r].opts.force
  /\ run[r].pc \in BeyondFirstRead =>
       /\ rows[run[r].key].status # "pr_open"
       /\ rows[run[r].key].status = "pr_merged" => MayIgnore
  /\ run[r].pc \in BeyondThirdRead =>
       /\ rows[run[r].key].status # "pr_closed"
       /\ \A s \in Syncers : \A e \in Pending(s) : e.key # run[r].key
  /\ run[r].pc \in Branched => rows[run[r].key].status # "pr_merged"

\* Rows are ignored by operators alone.
IgnoresAreMeant == \A k \in Keys : rows[k].status = "ignored" => MayIgnore

SyncerSound(s) ==
  /\ \A e \in Pending(s) :
       /\ rows[e.key].status \in {"pr_open", "ignored"}
       /\ rows[e.key].pr = e.pr
  /\ sync[s].current \notin sync[s].todo
  /\ sync[s].pc = "recording" =>
       StandsFor(sync[s].verdict, prs[sync[s].current.pr].state)
  /\ sync[s].pc = "idle" => Pending(s) = {}
  /\ sync[s].pc # "idle" => sync_lock = s

LEMMA UnforcedParts ==
  UnforcedInv <=> /\ \A r \in Runners : RunnerFree(r)
                  /\ IgnoresAreMeant
                  /\ \A s \in Syncers : SyncerSound(s)
                  /\ VerdictIsTrue
BY DEF UnforcedInv, RunnerFree, IgnoresAreMeant, SyncerSound

\* A run at the loop or at the first read promises nothing of its issue.
LEMMA FreeAtTheGate ==
  ASSUME NEW r \in Runners, ~ run[r].opts.force,
         run[r].pc \in {"idle", "searching", "next", "idempotency"}
  PROVE  RunnerFree(r)
BY Stages DEF RunnerFree

\* What is on a syncer's list, and what an attempt is about, has a row.
LEMMA AtHand ==
  ASSUME TypeOK
  PROVE  /\ \A s \in Syncers : \A e \in Pending(s) : e.key \in Keys /\ e.pr \in PrNumber
         /\ \A s \in Syncers : sync[s].pc = "recording" =>
              /\ sync[s].current \in Pending(s)
              /\ sync[s].verdict \in {"pr_merged", "pr_closed"}
         /\ \A r \in Runners : run[r].pc \in HasIssue => run[r].key \in Keys
BY DEF TypeOK, Pending, SyncerState, OpenRow, RunnerState

\* A verdict that was true of a pull request stays true of it.
VerdictsKept ==
  \A n \in PrNumber, status \in {"pr_merged", "pr_closed"} :
    StandsFor(status, prs[n].state) => StandsFor(status, prs'[n].state)

\* A step that leaves the syncers alone, and the rows on their lists but for
\* `ignore`, and the pull requests that are merged or closed.
LEMMA SyncersUntouched ==
  ASSUME TypeOK, TypeOK', UnforcedInv, UNCHANGED syncerVars,
         \A s \in Syncers : \A e \in Pending(s) :
           /\ rows'[e.key].pr = rows[e.key].pr
           /\ rows'[e.key].status \in {rows[e.key].status, "ignored"},
         VerdictsKept
  PROVE  \A s \in Syncers : SyncerSound(s)'
<1> SUFFICES ASSUME NEW s \in Syncers PROVE SyncerSound(s)'
  OBVIOUS
<1>1. SyncerSound(s)
  BY UnforcedParts
<1>2. sync[s].pc = "recording" =>
        /\ sync[s].current.pr \in PrNumber
        /\ sync[s].verdict \in {"pr_merged", "pr_closed"}
  BY AtHand
<1>3. Pending(s)' = Pending(s)
  BY DEF Pending, syncerVars
<1>4. \A e \in Pending(s) : /\ rows'[e.key].status \in {"pr_open", "ignored"}
                            /\ rows'[e.key].pr = e.pr
  BY <1>1 DEF SyncerSound
<1>5. sync[s].pc = "recording" =>
        StandsFor(sync[s].verdict, prs'[sync[s].current.pr].state)
  BY <1>1, <1>2 DEF SyncerSound, VerdictsKept
<1> QED
  BY <1>1, <1>3, <1>4, <1>5 DEF SyncerSound, syncerVars

\* A row that says merged or closed stays true when nothing but `ignore` and
\* new numbers on rows in pr_open touch the rows.
LEMMA VerdictsStayTrue ==
  ASSUME TypeOK, VerdictInv, VerdictIsTrue,
         VerdictsKept,
         \A k \in Keys : rows'[k].status \in {"pr_merged", "pr_closed"} =>
           rows'[k] = rows[k]
  PROVE  VerdictIsTrue'
<1>1. \A k \in Keys : rows[k].status \in Settled => rows[k].pr \in PrNumber
  BY DEF VerdictInv, SettledRowNamesItsPr, TypeOK, Row
<1> QED
  BY <1>1 DEF VerdictIsTrue, VerdictsKept, Settled

\* A step of r that leaves the table, the pull requests and the syncers alone.
LEMMA QuietUnforced ==
  ASSUME TypeOK, TypeOK', VerdictInv, UnforcedInv, NEW r \in Runners,
         UNCHANGED <<rows, prs, syncerVars>>,
         \A q \in Runners \ {r} : run'[q] = run[q],
         RunnerFree(r)'
  PROVE  UnforcedInv'
<1>1. \A s \in Syncers : SyncerSound(s)'
  <2>1. VerdictsKept
    BY DEF VerdictsKept
  <2>2. \A s \in Syncers : \A e \in Pending(s) :
          /\ rows'[e.key].pr = rows[e.key].pr
          /\ rows'[e.key].status \in {rows[e.key].status, "ignored"}
    OBVIOUS
  <2> QED
    BY <2>1, <2>2, SyncersUntouched
<1>2. VerdictIsTrue'
  BY UnforcedParts DEF VerdictIsTrue
<1>3. ASSUME NEW q \in Runners PROVE RunnerFree(q)'
  <2>1. RunnerFree(q)
    BY UnforcedParts
  <2> QED
    BY <2>1 DEF RunnerFree, Pending, syncerVars
<1>4. IgnoresAreMeant'
  BY UnforcedParts DEF IgnoresAreMeant
<1> QED
  BY <1>1, <1>2, <1>3, <1>4
  DEF UnforcedInv, RunnerFree, IgnoresAreMeant, SyncerSound

LEMMA LoopUnforced ==
  ASSUME TypeOK, TypeOK', VerdictInv, UnforcedInv, NEW r \in Runners, LoopStep(r)
  PROVE  UnforcedInv'
<1>0. RunnerFree(r) /\ run \in [Runners -> RunnerState]
  BY UnforcedParts DEF TypeOK
<1>1. ASSUME run'[r].pc \in {"idle", "searching", "next", "idempotency"},
             ~ run'[r].opts.force,
             \A q \in Runners \ {r} : run'[q] = run[q],
             UNCHANGED <<rows, prs, syncerVars>>
      PROVE  UnforcedInv'
  BY <1>1, FreeAtTheGate, Stages, QuietUnforced DEF RunnerFree
<1>2. CASE Search(r)
  BY <1>2, <1>0, <1>1 DEF Search, RunnerState, RunnerFree
<1>3. CASE SearchFails(r) \/ EndRun(r)
  BY <1>3, <1>0, <1>1 DEF SearchFails, EndRun, RunnerExits, IdleRunner, BatchRun
<1>4. ASSUME NEW k \in Keys, ReachIssue(r, k) PROVE UnforcedInv'
  BY <1>4, <1>0, <1>1 DEF ReachIssue, Bypassed, RunnerState, RunnerFree
<1>5. CASE SkipIssue(r) \/ UnroutedIssue(r) \/ DeferIssue(r)
  BY <1>5, <1>0, <1>1
  DEF SkipIssue, UnroutedIssue, DeferIssue, IssueDone, RunnerState, RunnerFree
<1>6. CASE PassRead(r)
  <2> DEFINE k == run[r].key
  <2>1. /\ run'[r] = [run[r] EXCEPT !.pc = NextRead[run[r].pc]]
        /\ \A q \in Runners \ {r} : run'[q] = run[q]
        /\ run[r].pc \in Gate
        /\ ~ TurnsAway(run[r].pc, rows[k], MaxRetries)
        /\ UNCHANGED <<rows, prs, syncerVars>>
    BY <1>6, <1>0 DEF PassRead, Proceed
  <2>2. k \in Keys /\ run'[r].key = k /\ ~ run'[r].opts.force
    BY <1>0, <2>1, AtHand DEF RunnerState, RunnerFree, HasIssue
  <2>3. CASE run[r].pc = "idempotency"
    <3>1. run'[r].pc = "delivered" /\ rows[k].status \notin {"pr_open", "pr_merged"}
      BY <1>0, <2>1, <2>3 DEF NextRead, TurnsAway, is_already_delivered, RunnerState
    <3>2. RunnerFree(r)'
      BY <2>1, <2>2, <3>1
      DEF RunnerFree, BeyondThirdRead, Branched, Attempting
    <3> QED
      BY <2>1, <3>2, QuietUnforced
  <2>4. CASE run[r].pc = "delivered"
    <3>1. run'[r].pc = "rejected" /\ run[r].pc \in BeyondFirstRead
      BY <1>0, <2>1, <2>4 DEF NextRead, RunnerState, BeyondFirstRead, HasIssue
    <3>2. RunnerFree(r)'
      BY <1>0, <2>1, <2>2, <3>1
      DEF RunnerFree, BeyondThirdRead, Branched, Attempting
    <3> QED
      BY <2>1, <3>2, QuietUnforced
  <2>5. CASE run[r].pc = "rejected"
    <3>1. /\ run'[r].pc = "exhausted"
          /\ run[r].pc \in BeyondFirstRead
          /\ rows[k].status \notin {"pr_closed", "ignored"}
      BY <1>0, <2>1, <2>5
      DEF NextRead, TurnsAway, RunnerState, BeyondFirstRead, HasIssue, Gate
    <3>2. \A s \in Syncers : \A e \in Pending(s) : e.key # k
      BY <1>0, <3>1, UnforcedParts DEF RunnerFree, SyncerSound
    <3>3. RunnerFree(r)'
      BY <1>0, <2>1, <2>2, <3>1, <3>2
      DEF RunnerFree, Branched, Attempting, Pending, syncerVars
    <3> QED
      BY <2>1, <3>3, QuietUnforced
  <2>6. CASE run[r].pc = "exhausted"
    <3>1. run'[r].pc = "routing" /\ run[r].pc \in BeyondThirdRead
      BY <1>0, <2>1, <2>6 DEF NextRead, RunnerState, BeyondThirdRead, HasIssue, Gate
    <3>2. RunnerFree(r)'
      BY <1>0, <2>1, <2>2, <3>1, Stages
      DEF RunnerFree, Branched, Attempting, Pending, syncerVars
    <3> QED
      BY <2>1, <3>2, QuietUnforced
  <2> QED
    BY <2>1, <2>3, <2>4, <2>5, <2>6 DEF Gate
<1>7. CASE TakeIssue(r)
  <2>1. /\ run[r].pc = "routing"
        /\ run'[r].pc = "cloning"
        /\ run'[r].key = run[r].key
        /\ run'[r].opts = run[r].opts
        /\ \A q \in Runners \ {r} : run'[q] = run[q]
        /\ UNCHANGED <<rows, prs, syncerVars>>
    BY <1>7, <1>0 DEF TakeIssue, RunnerState
  <2>2. RunnerFree(r)'
    BY <1>0, <2>1, Stages DEF RunnerFree, Branched, Pending, syncerVars
  <2> QED
    BY <2>1, <2>2, QuietUnforced
<1> QED
  BY <1>2, <1>3, <1>4, <1>5, <1>6, <1>7 DEF LoopStep

\* A step of r that writes the row of the issue it is at, which no syncer has
\* on its list, and that leaves the pull requests as they are.
LEMMA WriterUnforced ==
  ASSUME TypeOK, TypeOK', VerdictInv, LockIsHeld, UnforcedInv, NEW r \in Runners,
         run[r].pc \in Attempting, UNCHANGED <<prs, syncerVars>>,
         \A q \in Runners \ {r} : run'[q] = run[q],
         \A k \in Keys \ {run[r].key} : rows'[k] = rows[k],
         rows'[run[r].key].status \notin {"pr_merged", "pr_closed", "ignored"},
         ~ run'[r].opts.force,
         \/ run'[r].pc = "next"
         \/ /\ run'[r].pc \in Attempting
            /\ run'[r].key = run[r].key
            /\ rows'[run[r].key].status \notin Settled
  PROVE  UnforcedInv'
<1>1. RunnerFree(r) /\ run[r].key \in Keys /\ run[r].pc \in BeyondThirdRead
  BY UnforcedParts, AtHand, Stages
<1>k. VerdictsKept
  BY DEF VerdictsKept
<1>2. \A s \in Syncers : SyncerSound(s)'
  <2>1. \A s \in Syncers : \A e \in Pending(s) : e.key \in Keys \ {run[r].key}
    BY <1>1, AtHand DEF RunnerFree
  <2> QED
    BY <1>k, <2>1, SyncersUntouched
<1>3. VerdictIsTrue'
  BY <1>1, <1>k, UnforcedParts, VerdictsStayTrue
<1>4. ASSUME NEW q \in Runners PROVE RunnerFree(q)'
  <2>1. CASE q = r
    BY <1>1, <2>1, Stages DEF RunnerFree, Settled, Pending, syncerVars
  <2>2. CASE q # r
    <3>1. run'[q].pc = "idle" /\ RunnerFree(q) /\ run'[q] = run[q]
      BY <2>2, UnforcedParts, ProcsAssumption DEF LockIsHeld, Attempting
    <3> QED
      BY <3>1, Stages DEF RunnerFree
  <2> QED
    BY <2>1, <2>2
<1>5. IgnoresAreMeant'
  BY <1>1, UnforcedParts DEF IgnoresAreMeant
<1> QED
  BY <1>2, <1>3, <1>4, <1>5
  DEF UnforcedInv, RunnerFree, IgnoresAreMeant, SyncerSound

LEMMA AttemptUnforced ==
  ASSUME TypeOK, TypeOK', NewestPrInv, VerdictInv, UnforcedInv, NEW r \in Runners,
         AttemptStep(r)
  PROVE  UnforcedInv'
<1>0. /\ RunnerFree(r)
      /\ run \in [Runners -> RunnerState]
      /\ run[r].pc \in Attempting => run[r].key \in Keys
      /\ LockIsHeld
  BY UnforcedParts, AtHand, Stages DEF TypeOK, NewestPrInv
<1>1. CASE CloneBranch(r)
  <2>1. run[r].key \in Keys
    BY <1>1, <1>0 DEF CloneBranch, Attempting
  <2>2. /\ rows'[run[r].key].status = "branch_created"
        /\ \A k \in Keys \ {run[r].key} : rows'[k] = rows[k]
    BY <1>1, <2>1 DEF CloneBranch, TypeOK, upsert_run
  <2>3. /\ run'[r] = [run[r] EXCEPT !.pc = "generating"]
        /\ \A q \in Runners \ {r} : run'[q] = run[q]
    BY <1>1, <1>0 DEF CloneBranch
  <2>4. run'[r].key = run[r].key /\ run'[r].opts = run[r].opts
    BY <2>3, <1>0 DEF RunnerState
  <2> QED
    BY <1>1, <1>0, <2>2, <2>3, <2>4, WriterUnforced
    DEF CloneBranch, Settled, RunnerFree, Attempting
<1>2. CASE Generate(r) \/ ApplyEdits(r) \/ Verify(r) \/ CommitPush(r) \/ StageFails(r)
  <2>1. /\ run[r].pc \in Attempting
        /\ run'[r].key = run[r].key
        /\ run'[r].opts = run[r].opts
        /\ \A q \in Runners \ {r} : run'[q] = run[q]
        /\ run'[r].pc \in Attempting
        /\ run'[r].pc \in Branched => run[r].pc \in Branched
        /\ UNCHANGED <<rows, prs, syncerVars>>
    BY <1>2, <1>0
    DEF Generate, ApplyEdits, Verify, CommitPush, StageFails, Proceed, RunnerState,
        Attempting, Branched
  <2>2. RunnerFree(r)'
    BY <1>0, <2>1, Stages DEF RunnerFree, Pending, syncerVars
  <2> QED
    BY <2>1, <2>2, QuietUnforced
<1>3. CASE DryReturn(r)
  <2>1. /\ run'[r].pc = "next"
        /\ run'[r].opts = run[r].opts
        /\ \A q \in Runners \ {r} : run'[q] = run[q]
        /\ UNCHANGED <<rows, prs, syncerVars>>
    BY <1>3, <1>0 DEF DryReturn, IssueDone, RunnerState
  <2> QED
    BY <1>0, <2>1, FreeAtTheGate, Stages, QuietUnforced DEF RunnerFree
<1>4. ASSUME NEW n \in PrNumber, CreatePr(r, n) \/ CreatePrReplyLost(r, n)
      PROVE  UnforcedInv'
  <2>1. OpensPr(run[r].key, n) /\ UNCHANGED <<rows, syncerVars>>
    BY <1>4 DEF CreatePr, CreatePrReplyLost
  <2>2. VerdictsKept
    <3>1. \A m \in PrNumber : prs[m].state \in {"merged", "closed"} =>
            prs'[m].state = prs[m].state
      BY <2>1, LimitsAssumption DEF OpensPr, NextPr, TypeOK, PrNumber
    <3>2. prs'[n].state = "open" => prs[n].state = "unused"
      BY <2>1, LimitsAssumption DEF OpensPr, NextPr, TypeOK, PrNumber
    <3>3. \A m \in PrNumber : m # n => prs'[m] = prs[m]
      BY <2>1 DEF OpensPr, TypeOK
    <3> QED
      BY <3>1, <3>2, <3>3 DEF VerdictsKept, StandsFor
  <2>3. \A s \in Syncers : SyncerSound(s)'
    BY <2>1, <2>2, SyncersUntouched
  <2>4. VerdictIsTrue'
    BY <2>1, <2>2, UnforcedParts, VerdictsStayTrue
  <2>5. /\ run[r].pc \in Attempting
        /\ run'[r].key = run[r].key
        /\ run'[r].opts = run[r].opts
        /\ \A q \in Runners \ {r} : run'[q] = run[q]
        /\ run[r].pc \in Branched
    BY <1>4, <1>0 DEF CreatePr, CreatePrReplyLost, RunnerState, Attempting, Branched
  <2>6. ASSUME NEW q \in Runners PROVE RunnerFree(q)'
    <3>1. RunnerFree(q)
      BY UnforcedParts
    <3>2. CASE q = r
      BY <1>0, <2>1, <2>5, <3>2, Stages DEF RunnerFree, Pending, syncerVars
    <3>3. CASE q # r
      BY <2>1, <2>5, <3>1, <3>3 DEF RunnerFree, Pending, syncerVars
    <3> QED
      BY <3>2, <3>3
  <2>7. IgnoresAreMeant'
    BY <2>1, UnforcedParts DEF IgnoresAreMeant
  <2> QED
    BY <2>3, <2>4, <2>6, <2>7
    DEF UnforcedInv, RunnerFree, IgnoresAreMeant, SyncerSound
<1>5. CASE RecordPr(r) \/ RecordFailure(r)
  <2>1. run[r].key \in Keys
    BY <1>5, <1>0 DEF RecordPr, RecordFailure, Attempting
  <2>2. /\ rows'[run[r].key].status \in {"pr_open", "failed"}
        /\ \A k \in Keys \ {run[r].key} : rows'[k] = rows[k]
    BY <1>5, <2>1 DEF RecordPr, RecordFailure, TypeOK, upsert_run
  <2>3. /\ run'[r].pc = "next"
        /\ run'[r].opts = run[r].opts
        /\ \A q \in Runners \ {r} : run'[q] = run[q]
        /\ UNCHANGED <<prs, syncerVars>>
    BY <1>5, <1>0 DEF RecordPr, RecordFailure, IssueDone, RunnerState
  <2> QED
    BY <1>5, <1>0, <2>2, <2>3, WriterUnforced
    DEF RecordPr, RecordFailure, RunnerFree, Attempting
<1> QED
  BY <1>1, <1>2, <1>3, <1>4, <1>5 DEF AttemptStep

\* A step of syncer s that leaves table and pull requests alone.
LEMMA SyncerUnforced ==
  ASSUME TypeOK, UnforcedInv, NEW s \in Syncers, UNCHANGED <<rows, prs, run>>,
         \A q \in Syncers \ {s} : sync'[q] = sync[q],
         \A q \in Syncers \ {s} : sync[q].pc # "idle" => sync_lock' = sync_lock,
         SyncerSound(s)',
         \A e \in Pending(s)' : e \in Pending(s) \/ rows[e.key].status = "pr_open"
  PROVE  UnforcedInv'
<1>1. ASSUME NEW q \in Syncers PROVE SyncerSound(q)'
  <2>1. SyncerSound(q)
    BY UnforcedParts
  <2> QED
    BY <2>1 DEF SyncerSound, Pending
<1>2. ASSUME NEW r \in Runners PROVE RunnerFree(r)'
  <2>1. RunnerFree(r)
    BY UnforcedParts
  <2>2. ASSUME NEW q \in Syncers, NEW e \in Pending(q)',
               run[r].pc \in BeyondThirdRead
        PROVE  e.key # run[r].key
    <3>1. CASE q = s
      BY <2>1, <2>2, <3>1, Stages DEF RunnerFree
    <3>2. CASE q # s
      BY <2>1, <2>2, <3>2 DEF RunnerFree, Pending
    <3> QED
      BY <3>1, <3>2
  <2> QED
    BY <2>1, <2>2 DEF RunnerFree
<1>3. VerdictIsTrue' /\ IgnoresAreMeant'
  BY UnforcedParts DEF VerdictIsTrue, IgnoresAreMeant
<1> QED
  BY <1>1, <1>2, <1>3 DEF UnforcedInv, RunnerFree, IgnoresAreMeant, SyncerSound

LEMMA SyncUnforced ==
  ASSUME TypeOK, TypeOK', VerdictInv, UnforcedInv, NEW s \in Syncers,
         StartSync(s) \/ SyncerStep(s) \/ SyncerCrash(s)
  PROVE  UnforcedInv'
<1>0. SyncerSound(s) /\ sync \in [Syncers -> SyncerState]
  BY UnforcedParts DEF TypeOK
<1>a. \A q \in Syncers \ {s} : sync[s].pc # "idle" => sync[q].pc = "idle"
  BY UnforcedParts DEF SyncerSound
<1>b. NoOpenRow \notin OpenRow
  BY KeysAssumption DEF NoOpenRow, OpenRow
<1>1. CASE StartSync(s)
  <2>1. /\ sync'[s].pc = "checking"
        /\ sync'[s].current = NoOpenRow
        /\ sync'[s].todo = {e \in OpenRow : /\ rows[e.key].status = "pr_open"
                                            /\ rows[e.key].pr = e.pr}
        /\ \A q \in Syncers \ {s} : sync'[q] = sync[q]
        /\ sync_lock' = s
    BY <1>1, <1>0 DEF StartSync, IdleSyncer
  <2>2. \A q \in Syncers : sync[q].pc = "idle"
    BY <1>1, UnforcedParts, ProcsAssumption DEF StartSync, SyncerSound
  <2>3. Pending(s)' = sync'[s].todo
    BY <2>1 DEF Pending
  <2>4. SyncerSound(s)'
    BY <1>1, <1>b, <2>1, <2>3 DEF SyncerSound, StartSync
  <2> QED
    BY <1>1, <2>1, <2>2, <2>3, <2>4, SyncerUnforced DEF StartSync, runnerVars
<1>2. CASE EndSync(s) \/ SyncerCrash(s)
  <2>1. /\ sync[s].pc # "idle"
        /\ sync'[s] = IdleSyncer
        /\ \A q \in Syncers \ {s} : sync'[q] = sync[q]
    BY <1>2, <1>0 DEF EndSync, SyncerCrash, SyncerExits
  <2>2. Pending(s)' = {}
    BY <2>1 DEF Pending, IdleSyncer
  <2>3. SyncerSound(s)'
    BY <2>1, <2>2 DEF SyncerSound, IdleSyncer
  <2> QED
    BY <1>2, <1>a, <2>1, <2>2, <2>3, SyncerUnforced
    DEF EndSync, SyncerCrash, SyncerExits, runnerVars
<1>3. ASSUME NEW e \in OpenRow, CheckPr(s, e) PROVE UnforcedInv'
  <2> DEFINE verdict == Verdict(prs[e.pr].state)
  <2>1. /\ sync'[s] = [pc      |-> IF verdict = "none" THEN "checking" ELSE "recording",
                       todo    |-> sync[s].todo \ {e},
                       current |-> IF verdict = "none" THEN NoOpenRow ELSE e,
                       verdict |-> verdict]
        /\ \A q \in Syncers \ {s} : sync'[q] = sync[q]
        /\ e \in sync[s].todo
        /\ sync[s].pc # "idle"
        /\ UNCHANGED <<rows, prs, run, sync_lock>>
    BY <1>3, <1>0 DEF CheckPr, runnerVars
  <2>2. sync'[s].pc = "recording" =>
          /\ sync'[s].current = e
          /\ StandsFor(sync'[s].verdict, prs'[e.pr].state)
    BY <2>1 DEF Verdict, StandsFor
  <2> HIDE DEF verdict
  <2>3. sync[s].todo \subseteq OpenRow
    BY <1>0 DEF SyncerState
  <2>4. \A d \in Pending(s)' : d \in Pending(s)
    BY <1>b, <2>1, <2>3 DEF Pending
  <2>5. sync'[s].current \notin sync'[s].todo
    BY <1>b, <2>1, <2>3
  <2>6. SyncerSound(s)'
    BY <1>0, <2>1, <2>2, <2>4, <2>5 DEF SyncerSound
  <2> QED
    BY <2>1, <2>4, <2>6, SyncerUnforced
<1>4. ASSUME NEW e \in OpenRow, CheckPrFails(s, e) PROVE UnforcedInv'
  <2>1. /\ sync'[s] = [sync[s] EXCEPT !.todo = @ \ {e}]
        /\ \A q \in Syncers \ {s} : sync'[q] = sync[q]
        /\ sync[s].pc # "idle"
        /\ UNCHANGED <<rows, prs, run, sync_lock>>
    BY <1>4, <1>0 DEF CheckPrFails, runnerVars
  <2>2. \A d \in Pending(s)' : d \in Pending(s)
    BY <1>0, <2>1 DEF Pending, SyncerState
  <2>3. SyncerSound(s)'
    BY <1>0, <2>1, <2>2 DEF SyncerSound, SyncerState
  <2> QED
    BY <2>1, <2>2, <2>3, SyncerUnforced
<1>5. CASE RecordVerdict(s)
  <2> DEFINE e == sync[s].current
  <2>1. /\ e \in Pending(s)
        /\ e.key \in Keys
        /\ e.pr \in PrNumber
        /\ e.pr = rows[e.key].pr
        /\ sync[s].verdict \in {"pr_merged", "pr_closed"}
        /\ StandsFor(sync[s].verdict, prs[e.pr].state)
    BY <1>5, <1>0, AtHand DEF RecordVerdict, SyncerSound
  <2>2. /\ rows'[e.key].status = sync[s].verdict
        /\ \A k \in Keys : /\ rows'[k].pr = rows[k].pr
                           /\ k # e.key => rows'[k] = rows[k]
        /\ UNCHANGED <<prs, sync_lock, run>>
    BY <1>5, <2>1 DEF RecordVerdict, TypeOK, upsert_run, runnerVars
  <2>3. /\ sync'[s].pc = "checking"
        /\ sync'[s].current = NoOpenRow
        /\ sync'[s].todo = sync[s].todo
        /\ \A q \in Syncers \ {s} : sync'[q] = sync[q]
    BY <1>5, <1>0 DEF RecordVerdict, SyncerState
  <2>4. \A d \in sync[s].todo : d \in Pending(s) /\ d.key \in Keys /\ d.key # e.key
    <3>1. SUFFICES ASSUME NEW d \in sync[s].todo, d.key = e.key PROVE FALSE
      BY <1>0, <1>b, AtHand DEF Pending, SyncerState
    <3>2. d \in OpenRow /\ e \in OpenRow /\ d.pr = e.pr
      BY <1>0, <1>b, <2>1, <3>1 DEF SyncerState, SyncerSound, Pending
    <3>3. d = e
      BY <3>1, <3>2 DEF OpenRow
    <3> QED
      BY <3>3, <1>0 DEF SyncerSound
  <2>5. SyncerSound(s)'
    <3>1. Pending(s)' = sync[s].todo
      BY <2>3 DEF Pending
    <3>2. \A d \in sync[s].todo : rows'[d.key].status \in {"pr_open", "ignored"}
                                  /\ rows'[d.key].pr = d.pr
      BY <1>0, <2>2, <2>4 DEF SyncerSound
    <3>3. sync_lock' = s
      BY <1>0, <1>5, <2>2 DEF SyncerSound, RecordVerdict
    <3>4. NoOpenRow \notin sync[s].todo
      BY <1>0, <1>b DEF SyncerState
    <3> QED
      BY <2>3, <3>1, <3>2, <3>3, <3>4 DEF SyncerSound
  <2>6. \A q \in Syncers \ {s} : SyncerSound(q)'
    <3>1. \A q \in Syncers \ {s} : sync[q].pc = "idle" /\ SyncerSound(q)
      BY <1>5, <1>a, UnforcedParts DEF RecordVerdict
    <3> QED
      BY <2>3, <3>1 DEF SyncerSound, Pending
  <2>7. ASSUME NEW r \in Runners PROVE RunnerFree(r)'
    <3>1. RunnerFree(r) /\ (run[r].pc \in HasIssue => run[r].key \in Keys)
      BY UnforcedParts, AtHand
    <3>2. run[r].pc \in BeyondThirdRead => run[r].key # e.key
      BY <2>1, <3>1 DEF RunnerFree
    <3>3. \A q \in Syncers : \A d \in Pending(q)' : d \in Pending(q)
      BY <2>3 DEF Pending
    <3>4. run[r].pc \in BeyondFirstRead /\ run[r].key = e.key => MayIgnore
      BY <1>0, <2>1, <3>1, UnforcedParts DEF RunnerFree, SyncerSound, IgnoresAreMeant
    <3> QED
      BY <2>1, <2>2, <3>1, <3>2, <3>3, <3>4, Stages DEF RunnerFree
  <2>8. VerdictIsTrue'
    BY <2>1, <2>2, UnforcedParts DEF VerdictIsTrue
  <2>9. IgnoresAreMeant'
    BY <2>1, <2>2, UnforcedParts DEF IgnoresAreMeant
  <2> QED
    BY <2>5, <2>6, <2>7, <2>8, <2>9
    DEF UnforcedInv, RunnerFree, IgnoresAreMeant, SyncerSound
<1> QED
  BY <1>1, <1>2, <1>3, <1>4, <1>5 DEF SyncerStep

LEMMA NextUnforced ==
  ASSUME \A o \in RunOptions : ~ o.force,
         TypeOK, TypeOK', NewestPrInv, VerdictInv, UnforcedInv, [Next]_vars
  PROVE  UnforcedInv'
<1>1. ASSUME NEW r \in Runners, NEW o \in RunOptions, StartRun(r, o)
      PROVE  UnforcedInv'
  <2>1. /\ run'[r].pc = "searching"
        /\ run'[r].opts = o
        /\ \A q \in Runners \ {r} : run'[q] = run[q]
    BY <1>1 DEF StartRun, TypeOK, IdleRunner
  <2> QED
    BY <1>1, <2>1, FreeAtTheGate, Stages, QuietUnforced DEF StartRun, RunnerFree
<1>2. ASSUME NEW r \in Runners, RunnerCrash(r) PROVE UnforcedInv'
  <2>1. /\ run'[r] = IdleRunner
        /\ \A q \in Runners \ {r} : run'[q] = run[q]
    BY <1>2 DEF RunnerCrash, RunnerExits, TypeOK
  <2>2. RunnerFree(r)'
    BY <2>1, Stages DEF RunnerFree, IdleRunner, BatchRun
  <2> QED
    BY <1>2, <2>1, <2>2, QuietUnforced DEF RunnerCrash, RunnerExits
<1>3. ASSUME NEW n \in PrNumber, NEW state \in {"merged", "closed"},
             ResolvePr(n, state)
      PROVE  UnforcedInv'
  <2>1. VerdictsKept
    BY <1>3 DEF ResolvePr, TypeOK, VerdictsKept, StandsFor
  <2>2. \A s \in Syncers : SyncerSound(s)'
    BY <1>3, <2>1, SyncersUntouched DEF ResolvePr
  <2>3. VerdictIsTrue'
    BY <1>3, <2>1, UnforcedParts, VerdictsStayTrue DEF ResolvePr
  <2> QED
    BY <1>3, <2>2, <2>3 DEF ResolvePr, UnforcedInv, SyncerSound, Pending,
                            runnerVars, syncerVars
<1>6. ASSUME NEW n \in PrNumber, ReopenPr(n) PROVE UnforcedInv'
  <2>1. VerdictsKept
    BY <1>6 DEF ReopenPr, TypeOK, VerdictsKept, StandsFor
  <2>2. \A s \in Syncers : SyncerSound(s)'
    BY <1>6, <2>1, SyncersUntouched DEF ReopenPr
  <2>3. VerdictIsTrue'
    BY <1>6, <2>1, UnforcedParts, VerdictsStayTrue DEF ReopenPr
  <2> QED
    BY <1>6, <2>2, <2>3 DEF ReopenPr, UnforcedInv, SyncerSound, Pending,
                            runnerVars, syncerVars
<1>4. ASSUME NEW k \in Keys, ignore(k) PROVE UnforcedInv'
  <2>1. /\ rows'[k].status = "ignored"
        /\ \A j \in Keys : rows'[j].pr = rows[j].pr
        /\ \A j \in Keys \ {k} : rows'[j] = rows[j]
        /\ UNCHANGED <<prs, run, sync, sync_lock>>
    BY <1>4 DEF ignore, mark_ignored, upsert_run, TypeOK, runnerVars, syncerVars
  <2>k. VerdictsKept
    BY <2>1 DEF VerdictsKept
  <2>2. \A s \in Syncers : SyncerSound(s)'
    BY <2>1, <2>k, AtHand, SyncersUntouched DEF syncerVars
  <2>3. VerdictIsTrue'
    BY <2>1, <2>k, UnforcedParts, VerdictsStayTrue
  <2>4. ASSUME NEW r \in Runners PROVE RunnerFree(r)'
    <3>1. RunnerFree(r) /\ (run[r].pc \in HasIssue => run[r].key \in Keys)
      BY UnforcedParts, AtHand
    <3> QED
      BY <2>1, <3>1, Stages DEF RunnerFree, Pending
  <2>5. IgnoresAreMeant'
    BY <1>4 DEF IgnoresAreMeant, MayIgnore, ignore
  <2> QED
    BY <2>2, <2>3, <2>4, <2>5
    DEF UnforcedInv, RunnerFree, IgnoresAreMeant, SyncerSound
<1>5. CASE UNCHANGED vars
  BY <1>5 DEF vars, UnforcedInv, Pending, VerdictIsTrue
<1> QED
  BY <1>1, <1>2, <1>3, <1>4, <1>5, <1>6, LoopUnforced, AttemptUnforced, SyncUnforced
  DEF Next, RunnerStep

LEMMA InitUnforced == Init => UnforcedInv
BY DEF Init, UnforcedInv, VerdictIsTrue, Pending, IdleRunner, BatchRun, IdleSyncer,
       NoRow, BeyondFirstRead, BeyondThirdRead, Branched, HasIssue, Gate, Attempting

LEMMA UnforcedInvariant ==
  ASSUME \A o \in RunOptions : ~ o.force
  PROVE  Spec => [](TypeOK /\ NewestPrInv /\ VerdictInv /\ UnforcedInv)
<1>1. TypeOK /\ TypeOK' /\ NewestPrInv /\ VerdictInv /\ UnforcedInv /\ [Next]_vars
        => UnforcedInv'
  BY NextUnforced
<1> QED
  BY <1>1, InitType, NextType, InitNewest, NextKeepsNewest, InitVerdict,
     NextKeepsVerdict, InitUnforced, PTL DEF Spec

\* Without --force the recorded verdict is what became of the recorded pull
\* request, whoever crashes, ignores or loses an answer.
THEOREM VerdictsAreTrue ==
  ASSUME \A o \in RunOptions : ~ o.force
  PROVE  Spec => []VerdictIsTrue
<1>1. UnforcedInv => VerdictIsTrue
  BY DEF UnforcedInv
<1> QED
  BY <1>1, UnforcedInvariant, PTL

\* Without --force only the syncer's answer and `ignore` take an issue out of
\* pr_open or pr_closed, and nothing else out of pr_merged unless issues are
\* ignored while runs are at work.
THEOREM SettledRowsStay ==
  ASSUME \A o \in RunOptions : ~ o.force
  PROVE  Spec => SettledRowsAreKept
<1> DEFINE Kept(k) ==
      (rows[k].status \in Settled /\ rows'[k].status # rows[k].status) =>
        \/ rows'[k].status = "ignored"
        \/ rows[k].status = "pr_open" /\ rows'[k].status \in Settled
        \/ /\ MayIgnore
           /\ rows[k].status = "pr_merged"
           /\ rows'[k].status \in {"branch_created", "failed"}
<1>1. ASSUME TypeOK, UnforcedInv, [Next]_vars, NEW k \in Keys
      PROVE  Kept(k)
  <2>1. ASSUME NEW r \in Runners, RunnerStep(r) PROVE Kept(k)
    <3>1. CASE LoopStep(r)
      BY <1>1, <3>1, LoopMoves
    <3>2. CASE AttemptStep(r)
      <4>1. ASSUME CloneBranch(r) \/ RecordPr(r) \/ RecordFailure(r) PROVE Kept(k)
        <5>1. run[r].pc \in Attempting /\ (k # run[r].key => rows'[k] = rows[k])
          BY <1>1, <4>1 DEF CloneBranch, RecordPr, RecordFailure, TypeOK, Attempting
        <5>2. run[r].pc \in BeyondThirdRead \cap BeyondFirstRead
          BY <5>1, Stages
        <5>3. k = run[r].key =>
                /\ rows[k].status \notin {"pr_open", "pr_closed"}
                /\ rows[k].status = "pr_merged" => MayIgnore
          BY <1>1, <5>2 DEF UnforcedInv
        <5>4. k = run[r].key /\ ~ RecordPr(r) =>
                rows'[k].status \in {"branch_created", "failed"}
          BY <1>1, <4>1 DEF CloneBranch, RecordFailure, TypeOK, upsert_run
        <5>5. k = run[r].key /\ RecordPr(r) => rows[k].status # "pr_merged"
          BY <1>1 DEF RecordPr, UnforcedInv, Branched, Attempting
        <5> QED
          BY <5>1, <5>3, <5>4, <5>5 DEF Settled
      <4>2. CASE ~ (CloneBranch(r) \/ RecordPr(r) \/ RecordFailure(r))
        <5>1. UNCHANGED rows
          BY <3>2, <4>2
          DEF AttemptStep, Generate, ApplyEdits, Verify, DryReturn, CommitPush,
              CreatePr, CreatePrReplyLost, StageFails, Proceed
        <5> QED
          BY <5>1
      <4> QED
        BY <4>1, <4>2
    <3> QED
      BY <2>1, <3>1, <3>2 DEF RunnerStep
  <2>2. ASSUME NEW s \in Syncers, RecordVerdict(s) PROVE Kept(k)
    <3>1. /\ sync[s].current.key \in Keys
          /\ rows[sync[s].current.key].status \in {"pr_open", "ignored"}
          /\ sync[s].verdict \in {"pr_merged", "pr_closed"}
      BY <1>1, <2>2, AtHand DEF RecordVerdict, UnforcedInv
    <3>2. CASE k = sync[s].current.key
      <4>1. rows'[k].status \in Settled
        BY <1>1, <2>2, <3>1, <3>2 DEF RecordVerdict, TypeOK, upsert_run, Settled
      <4> QED
        BY <3>1, <3>2, <4>1 DEF Settled
    <3>3. CASE k # sync[s].current.key
      BY <1>1, <2>2, <3>3 DEF RecordVerdict, TypeOK
    <3> QED
      BY <3>2, <3>3
  <2>3. ASSUME NEW j \in Keys, ignore(j) PROVE Kept(k)
    BY <1>1, <2>3 DEF ignore, mark_ignored, upsert_run, TypeOK
  <2>4. CASE UNCHANGED rows
    BY <2>4
  <2> QED
    BY <1>1, <2>1, <2>2, <2>3, <2>4
    DEF Next, StartRun, RunnerCrash, RunnerExits, StartSync, SyncerStep, EndSync,
        CheckPr, CheckPrFails, SyncerCrash, SyncerExits, ResolvePr, ReopenPr, vars
<1>2. TypeOK /\ UnforcedInv /\ [Next]_vars => [\A k \in Keys : Kept(k)]_vars
  BY <1>1
<1> QED
  BY <1>2, UnforcedInvariant, PTL DEF Spec, SettledRowsAreKept

-----------------------------------------------------------------------------
(* The failure counter.                                                     *)

\* A step in which the rows change as allowed, and every attempt under way is
\* one of before or begins below the limit.
LEMMA FailureFrame ==
  ASSUME TypeOK, FailureInv, MaxRetries \in Nat \ {0},
         \A k \in Keys :
           \/ rows'[k] = rows[k]
           \/ rows'[k].status # "failed" /\ rows'[k].failures = 0,
         \A r \in Runners : run'[r].pc \in {"routing"} \cup Attempting =>
           /\ run'[r].key \in Keys
           /\ rows[run'[r].key].failures < MaxRetries
  PROVE  FailureInv'
<1>1. \A k \in Keys : rows'[k].failures = rows[k].failures \/ rows'[k].failures = 0
  OBVIOUS
<1> QED
  BY <1>1 DEF FailureInv, FailuresWithinLimit

LEMMA RunnerFailures ==
  ASSUME MaxRetries \in Nat \ {0}, TypeOK, NewestPrInv, UnforcedInv, FailureInv,
         NEW r \in Runners, RunnerStep(r)
  PROVE  FailureInv'
<1> DEFINE past == {"routing"} \cup Attempting
<1>0. /\ run \in [Runners -> RunnerState]
      /\ \A q \in Runners : run[q].pc \in past =>
           run[q].key \in Keys /\ rows[run[q].key].failures < MaxRetries
      /\ \A q \in Runners \ {r} : run'[q] = run[q]
  <2>1. \A q \in Runners \ {r} : run'[q] = run[q]
    BY DEF RunnerStep, LoopStep, AttemptStep, Search, SearchFails, EndRun, ReachIssue,
           SkipIssue, PassRead, UnroutedIssue, DeferIssue, TakeIssue, RunnerExits,
           CloneBranch, Generate, ApplyEdits, Verify, DryReturn, CommitPush, CreatePr,
           CreatePrReplyLost, RecordPr, StageFails, RecordFailure, Proceed, IssueDone,
           TypeOK
  <2> QED
    BY <2>1, AtHand, Stages DEF TypeOK, FailureInv
\* The loop; only a pass of the last read brings an issue to the routing.
<1>1. CASE LoopStep(r)
  <2>1. UNCHANGED rows
    BY <1>1, LoopMoves
  <2>2. CASE PassRead(r)
    <3>1. /\ run'[r].key = run[r].key
          /\ run[r].pc \in Gate
          /\ run'[r].pc = NextRead[run[r].pc]
          /\ ~ TurnsAway(run[r].pc, rows[run[r].key], MaxRetries)
      BY <1>0, <2>2 DEF PassRead, Proceed, RunnerState
    <3>2. run'[r].pc \in past => run[r].pc = "exhausted"
      BY <3>1 DEF NextRead, Gate, Attempting
    <3>3. run[r].key \in Keys
      BY <3>1, AtHand DEF HasIssue
    <3>4. run[r].pc = "exhausted" => rows[run[r].key].failures < MaxRetries
      <4>1. rows[run[r].key].failures \in Nat
        BY <3>3 DEF TypeOK, Row
      <4> QED
        BY <3>1, <3>3, <4>1 DEF TurnsAway, is_permanently_failed, FailureInv
    <3> QED
      BY <1>0, <2>1, <3>1, <3>2, <3>3, <3>4, FailureFrame
  <2>3. CASE TakeIssue(r)
    <3>1. run[r].pc = "routing" /\ run'[r].key = run[r].key
      BY <1>0, <2>3 DEF TakeIssue, RunnerState
    <3> QED
      BY <1>0, <2>1, <3>1, FailureFrame
  <2>4. CASE ~ PassRead(r) /\ ~ TakeIssue(r)
    <3>1. ASSUME NEW k \in Keys, ReachIssue(r, k) PROVE run'[r].pc = "idempotency"
      <4>1. ~ Bypassed(r, k)
        BY DEF UnforcedInv, Bypassed
      <4> QED
        BY <1>0, <3>1, <4>1 DEF ReachIssue, RunnerState
    <3>2. CASE Search(r) \/ SearchFails(r) \/ EndRun(r)
      BY <1>0, <2>1, <3>2, FailureFrame
      DEF Search, SearchFails, EndRun, RunnerExits, IdleRunner, RunnerState, Attempting
    <3>3. CASE SkipIssue(r) \/ UnroutedIssue(r) \/ DeferIssue(r)
      BY <1>0, <2>1, <3>3, FailureFrame
      DEF SkipIssue, UnroutedIssue, DeferIssue, IssueDone, RunnerState, Attempting
    <3> QED
      BY <1>0, <1>1, <2>1, <2>4, <3>1, <3>2, <3>3, FailureFrame DEF LoopStep, Attempting
  <2> QED
    BY <2>2, <2>3, <2>4
<1>2. CASE AttemptStep(r) /\ UNCHANGED rows
  <2>1. run'[r].pc \in past => run[r].pc \in past /\ run'[r].key = run[r].key
    BY <1>0, <1>2
    DEF AttemptStep, CloneBranch, Generate, ApplyEdits, Verify, DryReturn,
        CommitPush, CreatePr, CreatePrReplyLost, RecordPr, StageFails,
        RecordFailure, Proceed, IssueDone, RunnerState, Attempting
  <2> QED
    BY <1>0, <1>2, <2>1, FailureFrame
<1>3. CASE CloneBranch(r) \/ RecordPr(r)
  <2>1. run[r].key \in Keys
    BY <1>0, <1>3 DEF CloneBranch, RecordPr, Attempting
  <2>2. /\ rows'[run[r].key].status # "failed"
        /\ rows'[run[r].key].failures = 0
        /\ \A k \in Keys : k # run[r].key => rows'[k] = rows[k]
    BY <1>3, <2>1 DEF CloneBranch, RecordPr, TypeOK, upsert_run
  <2>3. run'[r].pc \in past => run'[r].key = run[r].key /\ run[r].pc \in past
    BY <1>0, <1>3 DEF CloneBranch, RecordPr, IssueDone, RunnerState, Attempting
  <2> QED
    BY <1>0, <2>2, <2>3, FailureFrame
<1>4. CASE RecordFailure(r)
  <2>1. run[r].key \in Keys /\ rows[run[r].key].failures < MaxRetries
    BY <1>0, <1>4 DEF RecordFailure, Attempting
  <2>2. /\ rows'[run[r].key].status = "failed"
        /\ rows'[run[r].key].failures = rows[run[r].key].failures + 1
        /\ \A k \in Keys : k # run[r].key => rows'[k] = rows[k]
    BY <1>4, <2>1 DEF RecordFailure, TypeOK, upsert_run
  <2>3. \A q \in Runners : run'[q].pc \notin past
    BY <1>0, <1>4, ProcsAssumption
    DEF RecordFailure, IssueDone, NewestPrInv, LockIsHeld, RunnerState, Attempting
  <2>4. \A k \in Keys : rows[k].failures \in Nat
    BY DEF TypeOK, Row
  <2> QED
    BY <2>1, <2>2, <2>3, <2>4 DEF FailureInv, FailuresWithinLimit
<1>5. AttemptStep(r) =>
        UNCHANGED rows \/ CloneBranch(r) \/ RecordPr(r) \/ RecordFailure(r)
  BY DEF AttemptStep, Generate, ApplyEdits, Verify, DryReturn, CommitPush, CreatePr,
         CreatePrReplyLost, StageFails, Proceed
<1> QED
  BY <1>1, <1>2, <1>3, <1>4, <1>5 DEF RunnerStep

LEMMA NextFailures ==
  ASSUME MaxRetries \in Nat \ {0}, TypeOK, NewestPrInv, UnforcedInv, FailureInv,
         [Next]_vars
  PROVE  FailureInv'
<1>0. \A q \in Runners : run[q].pc \in {"routing"} \cup Attempting =>
        run[q].key \in Keys /\ rows[run[q].key].failures < MaxRetries
  BY AtHand, Stages DEF FailureInv
<1>1. ASSUME NEW r \in Runners,
             \/ \E o \in RunOptions : StartRun(r, o)
             \/ RunnerCrash(r)
      PROVE  FailureInv'
  <2>1. /\ run'[r].pc \in {"idle", "searching"}
        /\ \A q \in Runners \ {r} : run'[q] = run[q]
        /\ UNCHANGED rows
    <3>1. CASE RunnerCrash(r)
      BY <3>1 DEF RunnerCrash, RunnerExits, TypeOK, IdleRunner
    <3>2. ASSUME NEW o \in RunOptions, StartRun(r, o)
          PROVE  /\ run'[r].pc = "searching"
                 /\ \A q \in Runners \ {r} : run'[q] = run[q]
                 /\ UNCHANGED rows
      BY <3>2 DEF StartRun, TypeOK, IdleRunner
    <3> QED
      BY <1>1, <3>1, <3>2
  <2> QED
    BY <1>0, <2>1, FailureFrame DEF Attempting
<1>2. ASSUME NEW s \in Syncers, RecordVerdict(s) PROVE FailureInv'
  <2>1. sync[s].current.key \in Keys /\ sync[s].verdict \in {"pr_merged", "pr_closed"}
    BY <1>2, AtHand DEF RecordVerdict
  <2>2. \A k \in Keys : \/ rows'[k] = rows[k]
                        \/ rows'[k].status # "failed" /\ rows'[k].failures = 0
    BY <1>2, <2>1 DEF RecordVerdict, TypeOK, upsert_run
  <2> QED
    BY <1>0, <1>2, <2>2, FailureFrame DEF RecordVerdict, runnerVars
<1>3. ASSUME NEW k \in Keys, ignore(k) PROVE FailureInv'
  <2>1. \A j \in Keys : \/ rows'[j] = rows[j]
                        \/ rows'[j].status # "failed" /\ rows'[j].failures = 0
    BY <1>3 DEF ignore, mark_ignored, TypeOK, upsert_run
  <2> QED
    BY <1>0, <1>3, <2>1, FailureFrame DEF ignore, runnerVars
<1>4. CASE UNCHANGED <<rows, run>>
  BY <1>0, <1>4, FailureFrame
<1> QED
  BY <1>1, <1>2, <1>3, <1>4, RunnerFailures
  DEF Next, StartSync, SyncerStep, EndSync, CheckPr, CheckPrFails, SyncerCrash,
      SyncerExits, ResolvePr, ReopenPr, vars, runnerVars

LEMMA InitFailures == MaxRetries \in Nat \ {0} /\ Init => FailureInv
BY DEF Init, FailureInv, FailuresWithinLimit, IdleRunner, NoRow, Attempting

\* Without --force the counter of an issue never runs past the retry limit.
THEOREM FailuresStayWithinLimit ==
  ASSUME \A o \in RunOptions : ~ o.force, MaxRetries \in Nat \ {0}
  PROVE  Spec => []FailuresWithinLimit
<1>1. TypeOK /\ NewestPrInv /\ UnforcedInv /\ FailureInv /\ [Next]_vars => FailureInv'
  BY NextFailures
<1>2. Init => FailureInv
  BY InitFailures
<1>3. FailureInv => FailuresWithinLimit
  BY DEF FailureInv
<1> QED
  BY <1>1, <1>2, <1>3, UnforcedInvariant, PTL DEF Spec
=============================================================================
