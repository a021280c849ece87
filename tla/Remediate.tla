----------------------------- MODULE Remediate ------------------------------
(***************************************************************************)
(* The remediation side of the program: `remediate run`                    *)
(* (remediate/pipeline.py), `remediate sync-pr-status`                     *)
(* (remediate/pr_sync.py) and `remediate ignore` (remediate/__main__.py),  *)
(* as operating-system processes that share the table remediation_runs,    *)
(* two lock files and the pull requests on GitHub.                         *)
(*                                                                         *)
(* One action is one stretch of a process between two points where another *)
(* process, a person on GitHub or a crash can intervene: a call to a       *)
(* remote service, or a committed statement on the database.               *)
(***************************************************************************)
EXTENDS RunStore, FiniteSets

CONSTANTS
  Keys,           \* the Jira issues
  Routed,         \* those select_repo finds a repository for
  Verified,       \* those whose route has a verify_command
  Runners,        \* processes started as `remediate run`
  Syncers,        \* processes started as `remediate sync-pr-status`
  RunOptions,     \* the command lines `remediate run` is started with
  SearchAnswers,  \* what Jira may answer to the batch JQL
  MaxRetries,     \* REMEDIATE_MAX_RETRIES
  MaxLlmCalls,    \* REMEDIATE_MAX_LLM_CALLS_PER_RUN; unset is Cardinality(Keys)
  Disturbances,   \* which of AllDisturbances may happen
  NoKey,          \* no issue at hand
  NoProc          \* nobody holds the lock

\* Bounds of the model, not of the code.
CONSTANTS
  MaxPrs,         \* GitHub hands out at most this many PR numbers
  MaxFailures     \* --force is not used on a row that counts this many failures

\* "crash"      : a process dies between two actions (kill, reboot, a database
\*                error outside the try blocks), which releases its flock
\* "lost_reply" : GitHub creates the PR but the client sees an error, or the
\*                statement that records it does
\* "ignore"     : an operator calls `remediate ignore`
\* "retitle"    : the summary of an issue is edited between two attempts, and
\*                with it the name of the branch
\* "reopen"     : a reviewer reopens a pull request that was closed
AllDisturbances == {"crash", "lost_reply", "ignore", "retitle", "reopen"}

\* The options of one `remediate run`; --force is refused without --ticket.
Options ==
  {o \in [ticket : Keys \cup {NoKey}, force : BOOLEAN, dry : BOOLEAN] :
     o.force => o.ticket # NoKey}

ASSUME KeysAssumption ==
  /\ NoKey \notin Keys
  /\ Routed \subseteq Keys
  /\ Verified \subseteq Keys
  /\ SearchAnswers \subseteq SUBSET Keys

ASSUME ProcsAssumption ==
  /\ NoProc \notin Runners
  /\ NoProc \notin Syncers

ASSUME OptionsAssumption ==
  /\ RunOptions \subseteq Options
  /\ Disturbances \subseteq AllDisturbances

ASSUME LimitsAssumption ==
  /\ MaxRetries \in Nat
  /\ MaxLlmCalls \in Nat
  /\ MaxPrs \in Nat
  /\ MaxFailures \in Nat

VARIABLES
  rows,           \* remediation_runs, by jira_key
  prs,            \* GitHub's pull requests, by number
  run,            \* the state of each `remediate run` process
  remediate_lock, \* who holds the flock on remediate.lock
  sync,           \* the state of each `remediate sync-pr-status` process
  sync_lock       \* who holds the flock on sync-pr-status.lock

vars == <<rows, prs, run, remediate_lock, sync, sync_lock>>
runnerVars == <<run, remediate_lock>>
syncerVars == <<sync, sync_lock>>

PrNumber == 1 .. MaxPrs

\* A pull request: the issue whose branch it was opened from, and its state.
Unused == [key |-> NoKey, state |-> "unused"]
PullRequest ==
  [key : Keys \cup {NoKey}, state : {"unused", "open", "merged", "closed"}]

\* The steps of _remediate_one, and of the handler of its failures.
Attempting == {"cloning", "generating", "applying", "verifying", "pushing",
               "creating", "recording", "failing"}

\* The steps that have an issue at hand: the gate and what follows it.
HasIssue == Gate \cup {"routing"} \cup Attempting

\* What RemediatePipeline.run and _remediate_one hold in local variables.
RunnerState ==
  [pc   : {"idle", "searching", "next"} \cup HasIssue,
   opts : Options,
   todo : SUBSET Keys,          \* issues the loop has not reached
   calls: Nat,                  \* llm_calls_made
   key  : Keys \cup {NoKey},    \* issue
   pr   : PrNumber \cup {NoPr}] \* pr, the answer of create_pull_request

BatchRun == [ticket |-> NoKey, force |-> FALSE, dry |-> FALSE]
IdleRunner ==
  [pc |-> "idle", opts |-> BatchRun, todo |-> {}, calls |-> 0,
   key |-> NoKey, pr |-> NoPr]

\* What PrStatusSyncer.sync holds: the rows its one SELECT returned that it
\* has not reached, and the row it has an answer for.
OpenRow == [key : Keys, pr : PrNumber]
NoOpenRow == [key |-> NoKey, pr |-> NoPr]
SyncerState ==
  [pc      : {"idle", "checking", "recording"},
   todo    : SUBSET OpenRow,
   current : OpenRow \cup {NoOpenRow},
   verdict : {"none", "pr_merged", "pr_closed"}]
IdleSyncer ==
  [pc |-> "idle", todo |-> {}, current |-> NoOpenRow, verdict |-> "none"]

\* Type invariant.  The locals a step reads have been assigned.
TypeOK ==
  /\ rows \in [Keys -> Row(PrNumber)]
  /\ prs \in [PrNumber -> PullRequest]
  /\ run \in [Runners -> RunnerState]
  /\ remediate_lock \in Runners \cup {NoProc}
  /\ sync \in [Syncers -> SyncerState]
  /\ sync_lock \in Syncers \cup {NoProc}
  /\ \A r \in Runners :
       /\ run[r].pc \in HasIssue => run[r].key # NoKey
       /\ run[r].pc = "recording" => run[r].pr # NoPr
  /\ \A s \in Syncers : sync[s].pc = "recording" =>
       sync[s].current # NoOpenRow /\ sync[s].verdict # "none"

Init ==
  /\ rows = [k \in Keys |-> NoRow]
  /\ prs = [n \in PrNumber |-> Unused]
  /\ run = [r \in Runners |-> IdleRunner]
  /\ remediate_lock = NoProc
  /\ sync = [s \in Syncers |-> IdleSyncer]
  /\ sync_lock = NoProc

-----------------------------------------------------------------------------
(* remediate run: RemediatePipeline.run                                     *)

\* Mutated: the flock is taken whether or not somebody holds it.
StartRunWithoutLock(r, o) ==
  /\ run[r].pc = "idle"
  /\ o.force => rows[o.ticket].failures < MaxFailures
  /\ remediate_lock' = r
  /\ run' = [run EXCEPT ![r] = [IdleRunner EXCEPT !.pc = "searching", !.opts = o]]
  /\ UNCHANGED <<rows, prs, syncerVars>>

\* The process starts and takes the flock.  A process that finds it held
\* exits having changed nothing, which is a stutter of this specification.
StartRun(r, o) ==
  /\ run[r].pc = "idle"
  /\ remediate_lock = NoProc
  /\ o.force => rows[o.ticket].failures < MaxFailures
  /\ remediate_lock' = r
  /\ run' = [run EXCEPT ![r] = [IdleRunner EXCEPT !.pc = "searching", !.opts = o]]
  /\ UNCHANGED <<rows, prs, syncerVars>>

\* The process is gone: its locals with it, and the kernel drops its flock.
RunnerExits(r) ==
  /\ run' = [run EXCEPT ![r] = IdleRunner]
  /\ remediate_lock' = NoProc
  /\ UNCHANGED <<rows, prs, syncerVars>>

\* search_issues answers.  With --ticket the JQL names one issue; otherwise it
\* asks for the issues in the remediation status, which people move issues in
\* and out of and this program never does.  The loop visits them in the order
\* of the answer, which is any order.
Search(r) ==
  /\ run[r].pc = "searching"
  /\ \E answer \in IF run[r].opts.ticket = NoKey
                     THEN SearchAnswers ELSE {{run[r].opts.ticket}} :
       run' = [run EXCEPT ![r].pc = "next", ![r].todo = answer]
  /\ UNCHANGED <<rows, prs, remediate_lock, syncerVars>>

\* search_issues raises: a batch error, and the run is over.
SearchFails(r) ==
  /\ run[r].pc = "searching"
  /\ RunnerExits(r)

\* The loop is done.
EndRun(r) ==
  /\ run[r].pc = "next"
  /\ run[r].todo = {}
  /\ RunnerExits(r)

\* bypass_skip_for names this issue: the gate is not asked.
Bypassed(r, k) == run[r].opts.force /\ k = run[r].opts.ticket

\* Process r goes to pc and nothing else changes.
Proceed(r, pc) ==
  /\ run' = [run EXCEPT ![r].pc = pc]
  /\ UNCHANGED <<rows, prs, remediate_lock, syncerVars>>

\* Back to the loop, with or without a failure; the locals of the issue die.
IssueDone(r) ==
  /\ run' = [run EXCEPT ![r].pc = "next", ![r].key = NoKey, ![r].pr = NoPr]
  /\ UNCHANGED <<prs, remediate_lock, syncerVars>>

ReachIssue(r, k) ==
  /\ run[r].pc = "next"
  /\ k \in run[r].todo
  /\ run' = [run EXCEPT ![r].pc = IF Bypassed(r, k) THEN "routing" ELSE "idempotency",
                        ![r].key = k, ![r].todo = @ \ {k}]
  /\ UNCHANGED <<rows, prs, remediate_lock, syncerVars>>

\* One read of the gate: already delivered (result.skipped) or not to be
\* retried (result.blocked) ...
SkipIssue(r) ==
  /\ run[r].pc \in Gate
  /\ TurnsAway(run[r].pc, rows[run[r].key], MaxRetries)
  /\ IssueDone(r)
  /\ UNCHANGED rows

\* ... or on to the next one.
PassRead(r) ==
  /\ run[r].pc \in Gate
  /\ ~ TurnsAway(run[r].pc, rows[run[r].key], MaxRetries)
  /\ Proceed(r, NextRead[run[r].pc])

\* No route: counted as failed, but no row is written.
UnroutedIssue(r) ==
  /\ run[r].pc = "routing"
  /\ run[r].key \notin Routed
  /\ IssueDone(r)
  /\ UNCHANGED rows

\* The cap on LLM calls is reached: left to the next run.
DeferIssue(r) ==
  /\ run[r].pc = "routing"
  /\ run[r].key \in Routed
  /\ run[r].calls >= MaxLlmCalls
  /\ IssueDone(r)
  /\ UNCHANGED rows

\* The issue is taken up; the call is counted before anything is attempted.
TakeIssue(r) ==
  /\ run[r].pc = "routing"
  /\ run[r].key \in Routed
  /\ run[r].calls < MaxLlmCalls
  /\ run' = [run EXCEPT ![r].pc = "cloning", ![r].calls = @ + 1]
  /\ UNCHANGED <<rows, prs, remediate_lock, syncerVars>>

-----------------------------------------------------------------------------
(* remediate run: RemediatePipeline._remediate_one                          *)

\* Mutated: the row is only written once there is a PR to record.
CloneBranchSilently(r) ==
  /\ run[r].pc = "cloning"
  /\ Proceed(r, "generating")

\* clone_or_update and create_branch succeed and branch_created is recorded,
\* whatever the row said, and in a dry run too.
CloneBranch(r) ==
  /\ run[r].pc = "cloning"
  /\ rows' = [rows EXCEPT ![run[r].key] = upsert_run(@, "branch_created", NoPr)]
  /\ run' = [run EXCEPT ![r].pc = "generating"]
  /\ UNCHANGED <<prs, remediate_lock, syncerVars>>

Generate(r) ==
  /\ run[r].pc = "generating"
  /\ Proceed(r, "applying")

\* _apply_edits succeeds; without a verify_command there is nothing to verify.
ApplyEdits(r) ==
  /\ run[r].pc = "applying"
  /\ Proceed(r, IF run[r].key \in Verified THEN "verifying" ELSE "pushing")

Verify(r) ==
  /\ run[r].pc = "verifying"
  /\ Proceed(r, "pushing")

\* _remediate_one returns before commit and push in a dry run.
DryReturn(r) ==
  /\ run[r].pc = "pushing"
  /\ run[r].opts.dry
  /\ IssueDone(r)
  /\ UNCHANGED rows

CommitPush(r) ==
  /\ run[r].pc = "pushing"
  /\ ~ run[r].opts.dry
  /\ Proceed(r, "creating")

\* The least unused number; GitHub numbers in order.
NextPr(n) == \A m \in PrNumber : prs[m].state = "unused" <=> m >= n

\* An open pull request from the branch of issue k, which _branch_name makes
\* from the key and the summary: after an edit of the summary it is another
\* branch.
BranchTaken(k) ==
  /\ "retitle" \notin Disturbances
  /\ \E m \in PrNumber : prs[m].key = k /\ prs[m].state = "open"

\* GitHub opens a pull request unless one is open from the same branch.
OpensPr(k, n) ==
  /\ ~ BranchTaken(k)
  /\ NextPr(n)
  /\ prs' = [prs EXCEPT ![n] = [key |-> k, state |-> "open"]]

\* create_pull_request returns the new pull request.
CreatePr(r, n) ==
  /\ run[r].pc = "creating"
  /\ OpensPr(run[r].key, n)
  /\ run' = [run EXCEPT ![r].pc = "recording", ![r].pr = n]
  /\ UNCHANGED <<rows, remediate_lock, syncerVars>>

\* The pull request is opened and the call raises all the same; or it returns,
\* and the upsert of pr_open raises, which ends in the same handler.
CreatePrReplyLost(r, n) ==
  /\ "lost_reply" \in Disturbances
  /\ run[r].pc = "creating"
  /\ OpensPr(run[r].key, n)
  /\ run' = [run EXCEPT ![r].pc = "failing"]
  /\ UNCHANGED <<rows, remediate_lock, syncerVars>>

\* pr_open is recorded.  The comment on the issue and the notification that
\* follow swallow every exception and touch nothing that is modelled.
RecordPr(r) ==
  /\ run[r].pc = "recording"
  /\ rows' = [rows EXCEPT ![run[r].key] = upsert_run(@, "pr_open", run[r].pr)]
  /\ IssueDone(r)

\* The step at hand raises: a RemediationStageError or, from build_file_tree,
\* another exception.  A 422 from GitHub is one of these.
StageFails(r) ==
  /\ run[r].pc \in Attempting \ {"recording", "failing"}
  /\ run[r].pc = "pushing" => ~ run[r].opts.dry
  /\ Proceed(r, "failing")

\* Mutated: the exception is recorded and leaves the loop.
RecordFailureAndStop(r) ==
  /\ run[r].pc = "failing"
  /\ rows' = [rows EXCEPT ![run[r].key] = upsert_run(@, "failed", NoPr)]
  /\ run' = [run EXCEPT ![r] = IdleRunner]
  /\ remediate_lock' = NoProc
  /\ UNCHANGED <<prs, syncerVars>>

\* The handler in run records the failure and the loop goes on.
RecordFailure(r) ==
  /\ run[r].pc = "failing"
  /\ rows' = [rows EXCEPT ![run[r].key] = upsert_run(@, "failed", NoPr)]
  /\ IssueDone(r)

RunnerCrash(r) ==
  /\ "crash" \in Disturbances
  /\ run[r].pc # "idle"
  /\ RunnerExits(r)

-----------------------------------------------------------------------------
(* remediate sync-pr-status: PrStatusSyncer.sync                            *)

\* The process starts, takes its own flock and lists the rows in pr_open, all
\* of them at once.  A process that finds the flock held exits: a stutter.
StartSync(s) ==
  /\ sync[s].pc = "idle"
  /\ sync_lock = NoProc
  /\ sync_lock' = s
  /\ sync' = [sync EXCEPT ![s] =
       [IdleSyncer EXCEPT
          !.pc = "checking",
          !.todo = {e \in OpenRow : /\ rows[e.key].status = "pr_open"
                                    /\ rows[e.key].pr = e.pr}]]
  /\ UNCHANGED <<rows, prs, runnerVars>>

SyncerExits(s) ==
  /\ sync' = [sync EXCEPT ![s] = IdleSyncer]
  /\ sync_lock' = NoProc
  /\ UNCHANGED <<rows, prs, runnerVars>>

EndSync(s) ==
  /\ sync[s].pc = "checking"
  /\ sync[s].todo = {}
  /\ SyncerExits(s)

\* Mutated: a merged pull request is closed too, and closed is asked first.
VerdictForgetsMerged(state) == IF state = "open" THEN "none" ELSE "pr_closed"

\* Mutated: every closed pull request is taken for a merged one.
VerdictIgnoresRejection(state) == IF state = "open" THEN "none" ELSE "pr_merged"

\* Mutated: GitHub's word for the state is stored as it is.
VerdictStoresState(state) == IF state = "open" THEN "none" ELSE state

\* What sync makes of the pull request it gets: merged first, then closed.
Verdict(state) ==
  CASE state = "merged" -> "pr_merged"
    [] state = "closed" -> "pr_closed"
    [] OTHER            -> "none"

\* get_pull_request answers for one row of the list.  An open pull request is
\* left for the next sync.
CheckPr(s, e) ==
  /\ sync[s].pc = "checking"
  /\ e \in sync[s].todo
  /\ LET verdict == Verdict(prs[e.pr].state) IN
       sync' = [sync EXCEPT
         ![s] = [pc      |-> IF verdict = "none" THEN "checking" ELSE "recording",
                 todo    |-> @.todo \ {e},
                 current |-> IF verdict = "none" THEN NoOpenRow ELSE e,
                 verdict |-> verdict]]
  /\ UNCHANGED <<rows, prs, sync_lock, runnerVars>>

\* get_pull_request raises: the row is passed over.
CheckPrFails(s, e) ==
  /\ sync[s].pc = "checking"
  /\ e \in sync[s].todo
  /\ sync' = [sync EXCEPT ![s].todo = @ \ {e}]
  /\ UNCHANGED <<rows, prs, sync_lock, runnerVars>>

\* The answer is recorded on whatever the row says by now.
RecordVerdict(s) ==
  /\ sync[s].pc = "recording"
  /\ rows' = [rows EXCEPT ![sync[s].current.key] =
                            upsert_run(@, sync[s].verdict, NoPr)]
  /\ sync' = [sync EXCEPT ![s].pc = "checking", ![s].current = NoOpenRow,
                          ![s].verdict = "none"]
  /\ UNCHANGED <<prs, sync_lock, runnerVars>>

SyncerCrash(s) ==
  /\ "crash" \in Disturbances
  /\ sync[s].pc # "idle"
  /\ SyncerExits(s)

-----------------------------------------------------------------------------
(* People: reviewers on GitHub, the operator at the command line            *)

\* Somebody merges the pull request, or closes it without merging.
ResolvePr(n, state) ==
  /\ prs[n].state = "open"
  /\ prs' = [prs EXCEPT ![n].state = state]
  /\ UNCHANGED <<rows, runnerVars, syncerVars>>

\* Somebody reopens a closed pull request; a merged one stays merged.
ReopenPr(n) ==
  /\ "reopen" \in Disturbances
  /\ prs[n].state = "closed"
  /\ ~ BranchTaken(prs[n].key)
  /\ prs' = [prs EXCEPT ![n].state = "open"]
  /\ UNCHANGED <<rows, runnerVars, syncerVars>>

\* remediate ignore: takes no lock.
ignore(k) ==
  /\ "ignore" \in Disturbances
  /\ rows' = [rows EXCEPT ![k] = mark_ignored(@)]
  /\ UNCHANGED <<prs, runnerVars, syncerVars>>

-----------------------------------------------------------------------------

LoopStep(r) ==
  \/ Search(r)
  \/ SearchFails(r)
  \/ EndRun(r)
  \/ \E k \in Keys : ReachIssue(r, k)
  \/ SkipIssue(r)
  \/ PassRead(r)
  \/ UnroutedIssue(r)
  \/ DeferIssue(r)
  \/ TakeIssue(r)

AttemptStep(r) ==
  \/ CloneBranch(r)
  \/ Generate(r)
  \/ ApplyEdits(r)
  \/ Verify(r)
  \/ DryReturn(r)
  \/ CommitPush(r)
  \/ \E n \in PrNumber : CreatePr(r, n) \/ CreatePrReplyLost(r, n)
  \/ RecordPr(r)
  \/ StageFails(r)
  \/ RecordFailure(r)

RunnerStep(r) == LoopStep(r) \/ AttemptStep(r)

SyncerStep(s) ==
  \/ EndSync(s)
  \/ \E e \in OpenRow : CheckPr(s, e) \/ CheckPrFails(s, e)
  \/ RecordVerdict(s)

Next ==
  \/ \E r \in Runners, o \in RunOptions : StartRun(r, o)
  \/ \E r \in Runners : RunnerStep(r) \/ RunnerCrash(r)
  \/ \E s \in Syncers : StartSync(s) \/ SyncerStep(s) \/ SyncerCrash(s)
  \/ \E n \in PrNumber, state \in {"merged", "closed"} : ResolvePr(n, state)
  \/ \E n \in PrNumber : ReopenPr(n)
  \/ \E k \in Keys : ignore(k)

Spec == Init /\ [][Next]_vars

\* cron starts both commands again and again, a started process keeps going,
\* and a remote service that is asked again and again answers in the end.
Fairness ==
  /\ \A r \in Runners :
       /\ WF_vars(\E o \in RunOptions : StartRun(r, o))
       /\ WF_vars(RunnerStep(r))
       /\ SF_vars(Search(r))
  /\ \A s \in Syncers :
       /\ WF_vars(StartSync(s))
       /\ WF_vars(SyncerStep(s))
       /\ \A e \in OpenRow : SF_vars(CheckPr(s, e))

FairSpec == Spec /\ Fairness

-----------------------------------------------------------------------------
(* Properties.  Those up to the next rule hold whatever operators, people on *)
(* GitHub and crashes do.                                                   *)

Used(n) == prs[n].state # "unused"

Settled == {"pr_open", "pr_merged", "pr_closed"}

\* The status that stands for what became of a pull request.
Recorded == [merged |-> "pr_merged", closed |-> "pr_closed"]

\* n is the newest pull request of issue k.
IsNewestPr(k, n) ==
  /\ n # NoPr
  /\ prs[n].key = k
  /\ \A m \in PrNumber : prs[m].key = k => m <= n

\* A row in pr_open names the newest pull request of its issue, which so is the
\* one the syncer follows.  It takes remediate.lock and the branch_created
\* written before each attempt (pipeline.py:181) to keep a --force run, a
\* crash or a lost reply from leaving an old number under pr_open.
OpenRowNamesNewestPr ==
  \A k \in Keys : rows[k].status = "pr_open" => IsNewestPr(k, rows[k].pr)

\* A row that says a pull request was opened, merged or closed has the number
\* of one opened for that issue: the statements of the syncer pass no number
\* and rely on COALESCE to keep it.
SettledRowNamesItsPr ==
  \A k \in Keys : rows[k].status \in Settled =>
    rows[k].pr # NoPr /\ prs[rows[k].pr].key = k

\* An issue recorded as merged, which no run touches again, has a fix that was
\* merged, even if the syncer wrote its answer over a newer pull request.
MergedRowHasMergedPr ==
  \A k \in Keys : rows[k].status = "pr_merged" =>
    \E n \in PrNumber : prs[n] = [key |-> k, state |-> "merged"]

\* What makes the first of them inductive: a process past the flock holds it,
\* an attempt has taken its issue out of pr_open before it can open a pull
\* request, and the pull request it is about to record is still the newest.
LockIsHeld ==
  \A r \in Runners : run[r].pc # "idle" => remediate_lock = r

UnusedNamesNobody ==
  \A n \in PrNumber : ~ Used(n) => prs[n].key = NoKey

NewestPrInv ==
  /\ LockIsHeld
  /\ UnusedNamesNobody
  /\ \A r \in Runners :
       /\ run[r].pc \in Attempting \ {"cloning", "failing"} =>
            rows[run[r].key].status # "pr_open"
       /\ run[r].pc = "recording" => IsNewestPr(run[r].key, run[r].pr)
  /\ OpenRowNamesNewestPr

\* The rows of its list that a syncer may still write to.
Pending(s) == sync[s].todo \cup ({sync[s].current} \ {NoOpenRow})

\* What makes the other two inductive: numbers are kept with their issue in
\* the table and in the syncer's list, rows on that list have a number, and
\* the answer at hand is still GitHub's when it is recorded.
VerdictInv ==
  /\ \A k \in Keys : rows[k].pr # NoPr => prs[rows[k].pr].key = k
  /\ \A s \in Syncers :
       /\ \A e \in Pending(s) : rows[e.key].pr # NoPr /\ prs[e.pr].key = e.key
       /\ sync[s].verdict = "pr_merged" =>
            sync[s].pc = "recording" /\ prs[sync[s].current.pr].state = "merged"
  /\ SettledRowNamesItsPr
  /\ MergedRowHasMergedPr

-----------------------------------------------------------------------------
(* Properties of unforced runs, crashes and lost replies included.          *)

\* Operators call `remediate ignore`, which takes no lock.  Only then may the
\* reads of the gate find an issue delivered at none of them although it was
\* all along: ignored at the first two, and merged, by the answer a syncer had
\* at hand, from the third on.
MayIgnore == "ignore" \in Disturbances

\* Only the syncer's answer and `remediate ignore` take an issue out of
\* pr_open or pr_closed: no run undoes an open delivery or retries a fix a
\* reviewer has rejected, whenever between the reads of the gate and the
\* attempt the syncer and the operator write.  An issue recorded as merged is
\* only taken up again where the operator's `ignore` has been overwritten
\* between two reads.
SettledRowsAreKept ==
  [][\A k \in Keys :
       (rows[k].status \in Settled /\ rows'[k].status # rows[k].status) =>
         \/ rows'[k].status = "ignored"
         \/ rows[k].status = "pr_open" /\ rows'[k].status \in Settled
         \/ /\ MayIgnore
            /\ rows[k].status = "pr_merged"
            /\ rows'[k].status \in {"branch_created", "failed"}]_vars

\* A pull request in this state has the verdict that the status stands for.  A
\* rejection is no longer true of a pull request that has been reopened.
StandsFor(status, state) ==
  /\ status = "pr_merged" => state = "merged"
  /\ status = "pr_closed" => state = "closed" \/ "reopen" \in Disturbances

\* What the syncer recorded is what became of the pull request on record: the
\* answer is written on a row that was read before the call to GitHub.
VerdictIsTrue ==
  \A k \in Keys :
    rows[k].status \in {"pr_merged", "pr_closed"} =>
      StandsFor(rows[k].status, prs[rows[k].pr].state)

\* The failure counter never runs past the retry limit, if that is not 0.
FailuresWithinLimit == \A k \in Keys : rows[k].failures <= MaxRetries

\* Past the first read of the gate, and past the third.
BeyondFirstRead == HasIssue \ {"idempotency"}
BeyondThirdRead == HasIssue \ {"idempotency", "delivered", "rejected"}

\* From the write of branch_created to that of pr_open.
Branched == Attempting \ {"cloning", "failing"}

\* What makes the first two inductive.  Without --force a run gets beyond the
\* first read of the gate only with an issue that is not open and that the
\* syncer can still turn into a merged one only if it was ignored; and beyond
\* the third only with one that is not rejected and that no syncer has on its
\* list.  An issue on a list leaves pr_open by `ignore` alone until the answer
\* for it is written; with sync-pr-status.lock there is one list, on which no
\* issue is twice.
UnforcedInv ==
  /\ \A r \in Runners :
       /\ ~ run[r].opts.force
       /\ run[r].pc \in BeyondFirstRead =>
            /\ rows[run[r].key].status # "pr_open"
            /\ rows[run[r].key].status = "pr_merged" => MayIgnore
       /\ run[r].pc \in BeyondThirdRead =>
            /\ rows[run[r].key].status # "pr_closed"
            /\ \A s \in Syncers : \A e \in Pending(s) : e.key # run[r].key
       /\ run[r].pc \in Branched => rows[run[r].key].status # "pr_merged"
  /\ \A k \in Keys : rows[k].status = "ignored" => MayIgnore
  /\ \A s \in Syncers :
       /\ \A e \in Pending(s) :
            /\ rows[e.key].status \in {"pr_open", "ignored"}
            /\ rows[e.key].pr = e.pr
       /\ sync[s].current \notin sync[s].todo
       /\ sync[s].pc = "recording" =>
            StandsFor(sync[s].verdict, prs[sync[s].current.pr].state)
       /\ sync[s].pc = "idle" => Pending(s) = {}
       /\ sync[s].pc # "idle" => sync_lock = s
  /\ VerdictIsTrue

\* What makes the third inductive: the last read of the gate has seen a counter
\* below the limit, or a row that is not failed and counts none, and only the
\* run that holds the flock adds to it.  A limit of 0 still lets an issue
\* without a row be attempted once.
FailureInv ==
  /\ \A r \in Runners :
       run[r].pc \in {"routing"} \cup Attempting =>
         rows[run[r].key].failures < MaxRetries
  /\ \A k \in Keys : rows[k].status # "failed" => rows[k].failures = 0
  /\ FailuresWithinLimit

-----------------------------------------------------------------------------
(* Properties of unforced runs with no crash and no lost reply.             *)

\* Re-running the pipeline never opens a second pull request for an issue, as
\* long as nobody ignores issues while it runs.
NothingCreatedTwice ==
  \A m, n \in PrNumber : Used(m) /\ Used(n) /\ prs[m].key = prs[n].key => m = n

\* Whatever operators ignore, and whenever: an issue gets a further pull
\* request only after the ones before were merged.  No run puts a rival beside
\* an open one, or repeats one that a reviewer has closed.
FurtherPrsFollowMerges ==
  \A m, n \in PrNumber :
    (Used(m) /\ Used(n) /\ prs[m].key = prs[n].key /\ m < n) =>
      prs[m].state = "merged"

\* Every pull request is on record under its issue, so that the gates see it
\* and the syncer follows it, from the moment the run that opened it has gone
\* on; an operator's `ignore` may hide it, and after that only one that was
\* merged may drop off the record.
EveryPrIsOnRecord ==
  \A n \in PrNumber : Used(n) =>
    \/ /\ rows[prs[n].key].pr = n
       /\ rows[prs[n].key].status \in Settled \cup {"ignored"}
    \/ \E r \in Runners : run[r].pc = "recording" /\ run[r].pr = n
    \/ MayIgnore /\ prs[n].state = "merged"

\* What makes them inductive: an issue beyond the third read of the gate has no
\* pull request but the one its attempt is about to record and, where issues
\* are ignored, merged ones.
OnRecordInv ==
  /\ \A n \in PrNumber : Used(n) => prs[n].key \in Keys
  /\ \A r \in Runners, n \in PrNumber :
       (run[r].pc \in BeyondThirdRead /\ Used(n) /\ prs[n].key = run[r].key) =>
         \/ run[r].pc = "recording" /\ n = run[r].pr
         \/ MayIgnore /\ prs[n].state = "merged"
  /\ EveryPrIsOnRecord
  /\ FurtherPrsFollowMerges

\* A row the operator has marked as ignored is not changed again, except by a
\* run told to --force that issue.
IgnoredStaysIgnored ==
  [][\A k \in Keys :
       (rows[k].status = "ignored" /\ rows'[k].status # "ignored") =>
         \E r \in Runners : run[r].key = k /\ Bypassed(r, k)]_vars

-----------------------------------------------------------------------------
(* Liveness, under FairSpec.                                                *)

\* Once a recorded pull request is merged or closed, the row says so in the
\* end: the syncer does not lose a row it has passed over.
VerdictArrives ==
  \A k \in Keys, state \in {"merged", "closed"} :
    (rows[k].status = "pr_open" /\ prs[rows[k].pr].state = state)
      ~> rows[k].status = Recorded[state]

\* Every issue with a route is attempted in the end, however often the issues
\* before it fail or Jira does not answer: no failure in the batch keeps the
\* loop from reaching the others.
EveryIssueIsAttempted ==
  \A k \in Routed : <>(rows[k].status # "absent")
=============================================================================
