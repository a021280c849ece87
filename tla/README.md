# A TLA+ verification project for ticket-remediation

`ticket-remediation` is two command-line programs that cron starts again and
again. `ingest` copies vulnerability findings from ServiceNow into Jira issues;
`remediate` takes Jira issues that are ready, lets an LLM write a fix in a clone
of the right repository, and opens a pull request on GitHub. Neither has a
server or a queue: everything they remember between two ticks is in one SQLite
file, and everything they must not do twice (an issue, a pull request) lives
outside it. This project models what follows from that: overlapping processes,
crashes and lost answers between an outside effect and its record, and the
state machine of a ticket over many runs.

Paths below are relative to `src/ticket_remediation/` of the repository unless
they start with another directory of it.

## 1. Inventory

### 1.1 Components

| component | state it keeps | operations | talks to |
|---|---|---|---|
| `ingest run` (`ingest/pipeline.py`, `ingest/__main__.py`) | locals of one process; flock on `ingest.lock` | for each rule fetch the table; for each ticket look up the link, create an issue, record the link | ServiceNow, Jira, `snow_jira_links`, notifiers |
| `remediate run` (`remediate/pipeline.py`, `remediate/__main__.py`) | locals of one process; flock on `remediate.lock` | search; for each issue the gates, the route, the LLM cap, then `_remediate_one`: clone and branch, generate, apply, verify, commit and push, open the PR, record it, comment, notify | Jira, git, LLM, GitHub, `remediation_runs`, notifiers |
| `remediate sync-pr-status` (`remediate/pr_sync.py`) | the list it read; flock on `sync-pr-status.lock` | list the rows in `pr_open`, ask GitHub about each, record `pr_merged` or `pr_closed` | GitHub, `remediation_runs` |
| `remediate ignore` | none, and takes no lock | mark one row `ignored` | `remediation_runs` |
| `remediate status`, `remediate show`, `ingest status` | none | read | the two tables |
| state database (`db/repository.py`, `db/schema.sql`) | `snow_jira_links`, `remediation_runs` | `get_jira_key`, `record_link`; `get_run`, `list_runs`, `upsert_run`, `mark_ignored`, the three gates | shared by all processes; every statement is committed by itself |
| migrations (`db/connection.py`) | the schema | create the tables, add missing columns | runs in every command before its lock |
| git working copies (`connectors/github/git_ops.py`) | one clone per repository name under `work/`, reused | clone or fetch and reset, branch, commit, push with a lease | GitHub |
| LLM providers (`connectors/llm/`, `remediate/context_builder.py`) | the conversation of one issue | the loop of `read_file` and `submit_remediation` | Anthropic, Gemini, the clone |
| GitHub, Jira, ServiceNow clients (`connectors/*/rest.py`) | none | one HTTP call an operation | the services |
| routing and mapping (`config/mapping.py`, `remediate/repo_selector.py`, `ingest/mapper.py`) | YAML read at start | first matching route; payload of a ticket | - |
| notifiers (`connectors/notify/`) | none | fan out, swallowing every failure | Teams, Slack, mail |
| settings, logging | read at start | - | - |
| mock servers (`mock_servers/`) | in memory | stand-ins for Jira and ServiceNow | - |
| deployment (`deploy/`) | - | cron: `ingest run` and `remediate run` every 15 minutes, the syncer every 5 | - |

### 1.2 What is hard

* **Interleaving.** Two ticks of one command overlap when a run is slow; the
  flock turns the second away. The syncer has a lock of its own and runs beside
  `remediate run`; `ignore` has none. All of them write to one row with
  statements that do not look at what is there.
* **Effect, then record.** `create_pull_request` and `create_issue` are each
  followed by a statement that records them. A crash in between, or an answer
  that is lost, leaves an effect that no row knows of.
* **Stale reads.** The syncer lists the rows once, then asks GitHub about each,
  then writes. The gate in front of an issue reads its row four times, with four
  SELECTs and no transaction, each testing something else; the attempt writes to
  the row minutes later.
* **Failure of a part.** One issue, ticket or table failing on every run must
  not starve the others.
* **A working copy that outlives its attempt.** One clone serves every attempt
  for a repository, and each may end at any step; what it leaves in the files,
  the index and the remote-tracking refs is what the next one starts from.
* **Counters and limits.** `failure_count` against the retry limit, LLM calls
  against their cap, reads of the LLM against two constants.
* **Long histories.** A row goes through many runs: failed and retried, ignored,
  forced, dry-run, merged, closed; old columns survive by `COALESCE`.

### 1.3 What makes each component correct

* `ingest run`: a link joins a ticket to its own issue; a linked ticket gets no
  further issue; without crashes and lost answers there is one issue a ticket;
  every ticket that can be ingested is.
* `remediate run`: an open row names the newest pull request of its issue; an
  unforced run never touches one that is open or was rejected, and one that was
  merged only if an operator's `ignore` fell into its gate; without crashes and lost
  answers no pull request beside an open one or after a rejected one, and none off
  the record that is not merged; without `ignore` besides, none twice; the retry
  limit is respected; every routed issue is attempted.
* `sync-pr-status`: what it records is what became of the pull request on
  record; it gets round to every resolved one.
* `ignore`: an ignored issue stays ignored (the code does not keep this: section 5).
* git working copies: a branch holds the edits of its own attempt; a push never
  replaces the commit of somebody else.
* LLM loop: a read that the provider grants is served.
* migrations: a command that has its connection has every table and column; no
  race between commands keeps one out for ever.
* routing, page and cap: the number and the repository of a row are those of one
  pull request; `--force` takes up open and given-up issues only if they are the one
  it names; an issue that page and
  cap leave room for is attempted.
* `remediate` as a whole, to somebody who only sees rows and pull requests: the
  abstract specification `Delivery`; and `ingest` as a whole, to somebody who only
  sees links and issues: `Intake`.

The `hazards` list of `PROJECT.json` has every point at its line, with the
properties that cover it or the reason why none does.

## 2. Modules

| module | what it is |
|---|---|
| `RunStore` | a row of `remediation_runs`, the operators of `RemediationRunRepository` on it, and the four reads of the gate |
| `Remediate` | `remediate run`, `sync-pr-status` and `ignore` as processes over rows, locks and pull requests; all properties of that side |
| `MCRemediate` | values of its constants for TLC |
| `RetryCap` | `Remediate` with a history variable that counts failed attempts in a row |
| `Delivery` | the abstract specification of the `remediate` side: the life of a row and of the pull requests of its issue, without processes |
| `RemediateRefinement` | the refinement mapping from `Remediate` to `Delivery` |
| `RemediateProofs` | theorems that hold under `--force` and every disturbance |
| `UnforcedProofs` | theorems about runs without `--force` |
| `UndisturbedProofs` | theorems about runs without `--force`, crashes and lost replies |
| `RefinementProofs` | `Remediate` implements `Delivery` |
| `Routing` | the rules for a table, `to_jira_payload`, `route_for` and `select_repo` as operators on the lists of the two YAML files |
| `JiraMock` | the requests of the mock Jira server as operators on the value of its store |
| `Board` | composes `RunStore`, `JiraMock` and `Routing`: ingest, people, one run with pages and a cap, two and more repositories |
| `MCBoard` | values of its constants for TLC |
| `BoardProofs` | theorems about `Board`, and about the search, the store and the routing it is built from |
| `Migrate` | `get_connection` as processes over the schema, statement by statement |
| `MCMigrate` | values of its constants for TLC |
| `MigrateProofs` | theorems about `Migrate` |
| `Ingest` | `ingest run` as processes over links, the lock and the issues of Jira; all its properties |
| `MCIngest` | values of its constants for TLC |
| `Intake` | the abstract specification of the ingest side: links and issues, without processes |
| `IngestRefinement` | the refinement mapping from `Ingest` to `Intake` |
| `IngestProofs` | theorems about `Ingest`; it implements `Intake` |
| `WorkTree` | the git commands of `git_ops.py` on one clone, with the default branch and the branches on GitHub, and what reviewers do with them |
| `LlmLoop` | the tool loop of the providers and the `file_reader`, each with its count of reads |
| `Attempt` | composes the two: `_remediate_one` from the clone to the push, over many attempts; the properties of both |
| `MCAttempt` | values of its constants for TLC |
| `AttemptProofs` | theorems about `Attempt` |

Definitions named `...Forgets...`, `...WithoutLock`, `...Late` and so on, with a
comment that starts with "Mutated", are not part of the specifications: each is a
plausible bug that must break one of the properties (`mutants` in `PROJECT.json`).

### 2.1 State and actions of `Remediate`

`rows` is the table, by Jira key, with the columns the program reads back
(`status`, `pr_number`, `failure_count`); `prs` is what GitHub has; `run[r]` and
`sync[s]` are the locals of a process; two variables say who holds the flocks.

An action is a stretch of a process that ends where another process, a person
or a crash can get in: at a remote call or after a committed statement.

| action | code |
|---|---|
| `StartRun`, `StartSync` | process start and flock; the loser of a flock exits and changes nothing, so that is a stutter |
| `Search`, `SearchFails` | `search_issues`; the answer is any member of `SearchAnswers`, visited in any order |
| `ReachIssue` | the loop moves to an issue: to the gate, or past it for the issue of `--force` |
| `SkipIssue`, `PassRead` | one read of the gate, which ends the matter or goes on to the next read |
| `UnroutedIssue`, `DeferIssue`, `TakeIssue` | no route, the cap, or the issue is taken up |
| `CloneBranch` ... `CreatePr`, `RecordPr` | the steps of `_remediate_one` in order; `DryReturn` before the commit |
| `StageFails`, `RecordFailure` | the exception of any step, and the handler in `run` |
| `CreatePrReplyLost` | GitHub opens the pull request and the call raises, or the upsert after it does |
| `CheckPr`, `CheckPrFails`, `RecordVerdict` | one row of the syncer |
| `ignore` | `remediate ignore` |
| `RunnerCrash`, `SyncerCrash` | a process dies: locals gone, flock released |
| `ResolvePr`, `ReopenPr` | a reviewer merges or closes; reopens what was closed |

The gate (`Gate`, `NextRead`, `TurnsAway` in `RunStore`) is four reads of the row,
each a SELECT and a step of its own, and each turns an issue away for another
reason, so that writes between them matter:

| read | code | turned away |
|---|---|---|
| `idempotency` | `pipeline.py:121` | `pr_open`, `pr_merged` |
| `delivered` | `repository.py:110` | `pr_open`, `pr_merged` |
| `rejected` | `repository.py:112` | `ignored`, `pr_closed` |
| `exhausted` | `repository.py:118`, `103` | `failed` as often as the limit says |

A row that is ignored at the first two reads and, by the answer a syncer had at
hand, merged from the third on passes all four, though `should_skip` of any single
value it has had is true (section 5).

`Disturbances` says which of crash, lost reply, ignore, retitle and reopen may
happen, `RunOptions` which command lines are used, so one module serves the runs
and the theorems that need them and those that must do without. The name of a
branch has the summary in it (`_branch_name`), so with "retitle" GitHub never
refuses a second pull request as one from the same branch (`BranchTaken`).

### 2.2 State and actions of `Ingest`

`links` is the table, `issues` what Jira has (the ticket each issue was made
for), `run[i]` the locals, `ingest_lock` the flock. `FetchTickets`/`FetchFails`
and `NextRule` are the outer loop; `PassOver`, `TakeTicket`, `CreateIssue`,
`CreateIssueReplyLost`, `CreateFails`, `RecordLink` the inner one. `ref` is a
Python local that outlives its iteration, and it does in the model. `DeadTables`
and `Refused` are tables and tickets that fail every time.

`Intake` is what is left when the processes are taken away: `links`, `issues`, and
`unlinked`, the one issue that is made and not yet recorded. Jira makes an issue
only for a ticket without a link and only while no other issue waits for its own
(`Create`); the next thing that happens to links and issues is its link
(`Link`), unless the process dies (`Forget`, only under `MayDie`) or the answer
was lost in the first place (`Lose`, only under `MayLose`). The mapping
(`IngestRefinement`): `unlinked` is the `ref` of the holder of `ingest.lock` while it
is between `create_issue` and `record_link`; `MayDie` and `MayLose` are members of
`Disturbances`. Fetching, skipping, failing, refusals, outages and the lock are
stutters. What it says beyond the invariants: the two writes of one ticket are not
separated by a write of any other process.

### 2.3 State and actions of `Attempt`

`Remediate` knows which issue is attempted when, and nothing of files; `Attempt`
knows what an attempt does to the files, and leaves open which issue is next.
`remediate.lock` lets one attempt run at a time (`LockIsHeld` in
`RemediateProofs`), so there is one `pc`.

`clone` is the working copy: the commit the branch was made at (`base`; HEAD until
the commit), the index and the files, each a function from paths to contents,
where a content is who wrote it last. `branches` is what GitHub has for each
issue, `tracking` what the clone's remote-tracking ref of it is worth: missing,
the tip, or a former tip. `git fetch origin <default branch>` refreshes none of
them, which is why they go stale.

| action | code |
|---|---|
| `CloneBranch` | `clone_or_update` (`CloneFresh`: git clone, with every branch; `UpdateClone`: fetch and `reset --hard`, which leaves files that neither the index nor the default branch knows) and `create_branch` |
| `ReadTurn`, `SubmitTurn` | a turn of the model, of either provider: some reads, and perhaps the submission |
| `ApplyEdits`, `ApplyEditsPartly` | `_apply_edits` through, or up to the edit that raises |
| `Verify`, `DryReturn` | `verify_command` passes; `--dry-run` returns |
| `Commit`, `CommitFails` | `add -A` and `commit`; the commit is refused (no change), fails or is never reached |
| `PushBranch` | `push --force-with-lease`, and the push that arrives though git is killed before it notes so |
| `AttemptFails` | any other exception, or the death of the process, at any step |
| `People` | reviewers merge a branch, add a commit to it, delete it |

The values of `reads`, `reader` and `refused` are locals of a conversation and
forgotten when it is over.

### 2.4 `Delivery`, and how `Remediate` implements it

`Delivery` is what an operator may rely on who sees the table and GitHub, and no
process: `record` (status and number of each issue), `prs`, and `attempted`, the
one issue an attempt is under way for. Its actions are the arrows of the state
machine of `docs/architecture/05-data-and-state-model.md` 5.3, as the code
draws them: an attempt begins on an issue that is not settled (`Begin`, unless
`MayForce`), except that under `MayIgnore` it may begin on one that is ignored or
merged (`Overlooked`: `ignore` takes no lock, and hides a merge from the first half
of the gate), never on an open or a rejected one; it moves it to `branch_created` (`Branch`), and only from there, or from
what operators and the syncer have written over it, opens a pull request (`Open`)
and puts it on record as the newest of the issue (`Deliver`); it may fail or be
abandoned at any point. `Ignore` happens only under `MayIgnore`. `SettleMerged` needs a merged pull request of the issue
always, and the merged one on record when nobody forces.

The mapping (`RemediateRefinement`): `attempted` is the issue of the process that
holds `remediate.lock`, from the end of the gate to the end of the attempt; `record` drops
`failure_count`; everything else is hidden. Searching, skipping, the steps
between clone and pull request, the syncer's list and its reads, and both locks
are stutters, and so are the reads of the gate. What the refinement says beyond the invariants is about steps: a
pull request is never opened beside a row in `pr_open`, not even by a forced
run, and a forced dry run that drops an open pull request off the list (a hazard
of `pipeline.py:214`) changes nothing but the status.

### 2.5 State and actions of `Board`

`Remediate` has many processes and lets Jira answer with any issues, in any
order, each with or without a route. `Board` is the other half: one run at a time
(which `LockIsHeld` justifies), and the answer, its order, its page, the cap and
the routes as the code and the mock server have them.

| variable | code |
|---|---|
| `jira` | the `RecordStore` of the mock: issues by number of their key, and the counter |
| `rows`, `repo_of` | `remediation_runs` with the column `repo_full_name` |
| `prs` | GitHub, which numbers pull requests by repository |
| `loop` | the locals of the run; `todo` is what is left of the list, a snapshot of project and components, with the issue at hand as its head until it is dropped or taken up |
| `listed` | what is left of the list of `sync-pr-status`, as it was read |

`Search` is `search_issues` of the client and of the server, `SkipIssue` and
`PassRead` are the four reads of the gate as in `Remediate`, `PassOver` the
`continue`s for want of a route and at the cap, `Clone` the statement that writes
the repository, `RecordPr` the one that writes the number without it.
`IngestTicket` makes an issue of a ticket by each of the mapping rules for its
table (links are in `Ingest`: here a ticket may become several issues, as after a
crash). `MoveIssue`, `EditComponents` and `DeleteIssue` are people at the board,
`Resolve` a reviewer. `SyncList` is the one SELECT of the syncer; `SyncRow` is its
answer for one row of that list, written whatever the row says by then, or not at
all. `Ignore` is `remediate ignore`; like the syncer it runs beside everything else.

The order of an answer is the order of the store (`InOrder`, a choice among the
enumerations of a set of numbers, not a recursion, so that it can be proved about).
`IsStore` is the type of the store: no issue has a key that was not handed out.

### 2.6 State and actions of `Migrate`

`schema` is the set of the tables and of the added columns there are. A command
goes through the statements of `get_connection`, each of which SQLite commits by
itself: two `CREATE TABLE IF NOT EXISTS`, the `PRAGMA` that reads the columns, an
`ALTER TABLE` for each column it has not read. An `ALTER` for a column that
another command has added in between raises (`DuplicateColumn`) and ends the
command. `Die` is a crash or a database that stays locked too long.

## 3. Runs

| run | question | bounds |
|---|---|---|
| `remediate_cron` | whatever `ignore` does: a further pull request only after a merge, nothing but a merge off the record, true verdicts, settled rows kept but for the gate's race, counter within limit, `Delivery` without force | 3 issues (2 routed, 1 with a verify command) of which a search answers with 2, 2 runners, 1 syncer, batch, dry and `--ticket` runs, `ignore`; 2 PRs; retry limit 2; LLM cap 1 |
| `remediate_forced` | which pull request a row names, and `Delivery`, for all command lines and disturbances | 1 issue, 2 runners, 2 syncers, crash, lost reply, ignore, retitle, reopen; 3 PRs; retry limit 1 |
| `remediate_live` | nothing created twice and settled rows kept without exception, where nobody ignores; verdicts arrive, every issue is attempted | 2 issues, 1 runner, 1 syncer, cron command lines, fairness |
| `ingest_crashes` | links are true, linked tickets left alone, `Intake` | 3 tickets in 2 tables, a third table that is dead, 2 processes, all disturbances; 4 issues |
| `ingest_cron` | one issue a ticket, each linked, every ticket ingested | the same without disturbances, with fairness |
| `attempt` | what leaks between attempts, what a push may replace, the limits on reads | 2 issues (1 verified) in 1 clone, 2 paths (a file and a path without one), every set of edits on them, 3 attempts; limits of 2 reads, 2 reads a turn |
| `migrate` | whoever is connected has the schema, races end, all get through | 3 commands, 4 old schemas, 2 deaths, fairness |
| `board` | page, cap, route and `--force`, with people at the board | 3 issues (2 seeded, 1 ingested), 2 repositories, pages of 2, cap of 1, retry limit 2; 2 acts of people, lists of the syncer, ignores or failures (`MaxMeddling`), 2 of the 7 statuses to move to; fairness |
| `retry_cap`, `ignore_race`, `created_twice` | three promises the code does not keep (section 5) | 1 issue |
| `attempt_leftovers` | a fourth one | as `attempt`, 2 attempts, no dry run |

Why the bounds are enough. The properties of `Remediate` relate a row to the pull
requests of its own issue, and issues only meet in the loop of a run (the list
and the LLM cap) and in the syncer's list: one issue with two processes of each
kind shows every interleaving on a row, and three issues with a cap of 1 show
every way through the loop: the answers are the two routed issues, where one is
deferred, and one of them with the unrouted one. Three pull requests let
an issue have one that is resolved, one that the syncer is stale about and one
that is open. `MaxPrs` and `MaxIssues` end the numbering, `MaxFailures` keeps
`--force` from counting for ever; no other counter is unbounded. The theorems
of section 4 need none of the bounds (they hold for every value of them).

`remediate_cron` checks the unforced properties without crashes and lost replies,
with `ignore`, on enough issues for the loop to matter; one issue and two pull
requests let the gate's race of section 5 happen there, and it does (TLC refutes
`NothingCreatedTwice` under its configuration). `SettledRowsAreKept` names the one
step the race makes possible as an alternative under `MayIgnore`, and is the strict
property where nobody ignores, as in `remediate_live`. That true verdicts, kept
settled rows and the limit survive crashes, lost replies, edited summaries and reopened pull
requests is what the theorems of `UnforcedProofs` add. `VerdictIsTrue` is weakened
there, for a pull request that was reopened, to what the code can know
(`StandsFor`).

`board`: a page of 2 and a cap of 1 are the smallest at which page and cap cut
different issues, and three issues are more than either. Two acts of meddling
let a component be edited and an attempt be lost, an issue be named and the
process die, or an issue be ignored while the syncer has its row on a list. The liveness property is about the state in which people have
stopped; they have after `MaxMeddling` acts. `migrate`: two commands race for a
column and the third finds what they leave; two deaths hit the same command
twice or two of them.

Three attempts show one that leaves something behind, one that commits and
pushes it, and one that meets what became of that branch and of its ref; a
leak needs one file that the default branch has and one that it has not.

Deadlock is checked for `Remediate`, `Ingest`, `Board` and `Migrate`: a process can
always be started again. `Attempt` stops when `MaxAttempts` are made and no branch is left for a
reviewer, so its configurations do not check it.

### 3.1 Fairness

`crontab.example` starts `ingest run`, `remediate run` and `sync-pr-status` for
ever, and a process that finds the lock free takes it (weak fairness of the
starts). A started process keeps going (weak fairness of its steps). The HTTP
clients have timeouts, so a call returns or raises; that git and the LLM
return is an **assumption**: `git_ops._run` has no timeout and the tool loop of
the providers has no end of its own (hazards). A service that is asked
again and again answers in the end (strong fairness of `Search`, of `CheckPr` for
each row, of `FetchTickets` for each rule that is not dead and of `CreateIssue`
for each ticket that is not refused): outages end, and what is never going to
work is a constant of the model. No attempt is assumed to succeed: `EveryIssueIsAttempted`
holds though every attempt may fail. The liveness run of `Remediate` has a cap
on LLM calls that covers the batch; with a smaller one, issues that fail on every
tick can starve the others, which follows from the first finding below.

`Board` has weak fairness of the run as a whole: cron starts batches, and a
started one goes on. Its `EveryIssueInReachIsAttempted` says exactly for which
issues that is enough: those on the first page of the answer, with fewer open
and routed ones before them than the cap. It holds though every attempt may fail,
and it is false without either condition, which are the hazards of
`connectors/jira/rest.py:35` and `pipeline.py:139`. `Migrate` has weak fairness of
each command; deaths are bounded, so that one which dies for ever promises
nothing.

## 4. Proofs

All theorems are checked by TLAPS to the last leaf, for every set of issues,
tickets and processes and every value of the limits.

`RemediateProofs` (any command line, any disturbance):

* `TypeCorrect`.
* `OpenRowNamesNewest`. `OpenRowNamesNewestPr` is not inductive: a run that
  opens a second pull request would break it if the row still said `pr_open`. The
  invariant `NewestPrInv` adds that a process past the flock holds it
  (`LockIsHeld`), so there is one attempt at a time; that an attempt that has
  written `branch_created` has a row out of `pr_open`, and nobody else can put it
  back (the syncer only writes the other two); and that the pull request
  about to be recorded is the newest.
* `SettledRowsAreNumbered`, `MergedRowsAreMerged`, from `VerdictInv`: numbers stay
  with their issue in the table and on the syncer's list, every row on the list
  has one, and an answer "merged" stays true as nobody unmerges.

`UnforcedProofs` (no `--force`; crashes, lost replies and `ignore` allowed):

* `VerdictsAreTrue`, `SettledRowsStay`, from `UnforcedInv`, which follows the issue
  through the reads of the gate. Beyond the first its row is not open, and merged
  only where issues are ignored: nobody but the run itself puts a row in `pr_open`,
  and a syncer merges what it listed as open. Beyond the third it is not rejected
  and on no syncer's list: an issue on a list is in `pr_open` or `ignored` until its
  answer is written, and the first and the third read have excluded both. So what
  an attempt writes over is at worst a merged row, and the verdict on record is
  that of the pull request the list had. With `sync-pr-status.lock` there is one
  list.
* `FailuresStayWithinLimit`, from `FailureInv`: the last read of the gate has seen a
  counter below the limit, or a row that is not failed and counts none, and only the holder of the flock adds to it. It assumes
  `MaxRetries >= 1`: with 0 an issue without a row is attempted once, and the
  counter is 1.

`IngestProofs`:

* `TypeCorrect`; `LinksAreTrue` and `LinkedTicketsAreLeftAlone` from `IngestInv`
  (one process past the flock; the ticket at hand has no link; the ref about to
  be recorded is of that ticket), under every disturbance.
* `NoTicketIsIngestedTwice`, `IssuesAreLinked`, assuming no crash and no lost
  reply: the two properties are inductive together given `IngestInv`.
* `IngestImplementsIntake`, from `IngestInv`, for every set of disturbances: who is at
  `record_link` holds the lock, its ticket has no link and its ref is the newest
  issue of that ticket; so its two writes are `Create` and `Link`, and whatever
  another process does in between is a stutter.

`AttemptProofs` (any number of attempts, issues and paths):

* `TypeCorrect`.
* `LeaksAreNewFiles`, from `LeakInv`: in each step of an attempt, the files (after
  the commit, the index) differ from the branch's base only in the edits and in
  files the base does not have. The reset establishes it whatever the clone held
  before; the push carries it over to the branch.
* `ForeignCommitsSurvive`, from `LeaseInv`: no remote-tracking ref names a tip
  that is not of this program, and there is no branch before there is a clone (a
  clone made after a reviewer's commit would have seen it: the theorem is about
  a clone kept under `work/` since the first push, as the initial state has no
  branches).
* `ReadsAreServed`, from `ReaderInv`: after any number of turns the `file_reader`
  has counted the smaller of the provider's count and its limit.

`UndisturbedProofs` (no `--force`, no crash, no lost reply; ignores, edited
summaries and reopened pull requests allowed):

* `PrsStayOnRecord` and `NoRivalPrs`, from `OnRecordInv`: a pull request is in the
  row of its issue, which is settled or ignored, except between its opening and
  its record; so an issue gets past the third read of the gate without one, or
  where `ignore` has hidden a merge from the first two reads. All that can be lost
  or followed by another pull request is a merged one, and GitHub's refusal of a
  second one from the same branch is not needed for that.
* `NothingIsCreatedTwice`, from the same invariant, assuming that nobody ignores
  issues either: then no gate lets an issue with a pull request through.

`RefinementProofs`: `RemediateImplementsDelivery`. The initial states map to each
other; each action maps to one of `Delivery` or to a stutter, by the invariants
of `RemediateProofs` (the pull request recorded is the newest; an answer "merged"
is of a merged one of the issue) and, where nobody forces, of `UnforcedProofs` (the
issue of an attempt is on no syncer's list, so the syncer and the attempt never
meet; its row is neither open nor rejected, and merged only in the race and until
`branch_created`). It needs `BranchInv` besides: in an attempt past the clone the row is there and does not
say failed.

`BoardProofs`, from `BoardAssumption` and `RoutingAssumption` (limits are numbers,
the seeded issues fit the bound, lists of the YAML files are lists):

* `SearchAnswersTheFirstPage`: the answer lists matching issues only, in the order of
  their numbers, at most `maxResults`, and leaves a matching issue out only if it is
  full of earlier ones. `InOrder` and `First` choose; that there is something to
  choose is what has to be proved first. A set of numbers that is not empty has
  a least (`LeastNumber`: `<` on numbers is well-founded), and so a smallest set
  without an enumeration cannot be: take away its least number, enumerate the rest
  and put the number in front (`OrderExists`). No induction theorem is used: their
  operator parameters are out of the provers' reach, minimal counterexamples are not.
* `SelectRepoTakesTheFirstRoute`: the repository is that of the first route of the
  first component that has one, and none exactly if no component has one.
* `TypeCorrect`: requests keep the store's type, what `search_issues` answers are
  issues on the board, and what `select_repo` answers is a repository there is.
* `OpenRowsNameTheirPr`. `OpenRowNamesAPrOfItsIssue` is not inductive: repository and
  number come from two statements. `AttemptInv` adds that between them the row's
  repository is that of the attempt, and that the number about to be written is one of
  this issue in that repository; and no step takes a pull request away or gives it to
  another issue. The old number of a row that is cloned for another repository does
  no harm because the row is out of `pr_open` until `RecordPr` writes both right;
  the run that loses the reply or fails goes to `failed`.
* `ForceIsForOneIssue`. What the first read of the gate says about `pr_open` and the
  last about the retry limit still holds when `Clone` writes: in between the syncer
  and `ignore` write rows, and neither puts one in `pr_open` or counts a failure;
  only the loop does, and of the issue at hand. The same is not true of the other
  statuses, which is why the property leaves them out.

`MigrateProofs`:

* `TypeCorrect`; `ConnectionsAreMigrated`, from `SchemaInv`: nothing is dropped, so
  what a command has read or added is still there; and a table made anew has every
  column.
* `RacesAreLostOncePerColumn`, from `RaceInv`: when a command has failed n times, the
  first n columns are there, and if it has read the table since, it has read them;
  so it can next fail on a later one only, and not more often than there are columns.
  This counts without a set of the failures: the loop goes through the columns in
  order.

With these, a theorem states every safety invariant, action property and refinement
that a passing run checks. Only model-checked are

* the five liveness properties (`VerdictArrives`, `EveryIssueIsAttempted`,
  `EveryTicketIsIngested`, `EveryCommandConnects`, `EveryIssueInReachIsAttempted`),
  which are out of the prover's reach, and so is that the fairness assumed can be met;
* the four counterexamples of section 5: a counterexample is a behaviour of one
  instance;
* `RetryCap`, which only has such a run.

## 5. What the code does not do

Four runs end in a counterexample; each quotes what the repository says.

1. `retry_cap`: `.env.example` says an issue is given up after
   `REMEDIATE_MAX_RETRIES` failed attempts. Each attempt records `branch_created`
   before it can fail, which sets `failure_count` back to 0, so only failures of
   the clone itself add up.
2. `ignore_race`: `remediate ignore` says future runs skip the issue. A run
   already past the gate, or past the one read of it that looks for the mark,
   overwrites it.
3. `created_twice`: the README says nothing is created twice. After a crash
   between opening and recording a pull request, the next run opens another as
   soon as the first is closed or merged.
4. `attempt_leftovers`: the goals say that a partially failed run needs no manual
   cleanup, and the edit format that it has no partial-apply failure. A file
   that a failed attempt created is not removed by `reset --hard`, and the next
   attempt commits it with its own edits and does not list it.

A fifth divergence has no run of its own, as the properties are weakened by it.
`docs/architecture/05-data-and-state-model.md:100` says of a merged issue
`pr_merged --> [*] : is_already_delivered() = True, future runs skip`. An issue in
`pr_open` whose pull request has just been merged, with that answer in the hands of
a syncer, is ignored by an operator; an unforced run reads `ignored` at
`pipeline.py:121` and `repository.py:110`, which is not delivered; the syncer writes
`pr_merged`; the run reads that at `repository.py:112` and `118`, where only other
statuses are turned away. It takes the issue up, writes `branch_created` (or
`failed`) over `pr_merged`, and may open a second pull request: no crash, no lost answer, no
`--force`. TLC finds it when `NothingCreatedTwice` is checked under the configuration
of `remediate_cron`. `SettledRowsAreKept`, `FurtherPrsFollowMerges`,
`EveryPrIsOnRecord` and `Delivery` (`Overlooked`) allow exactly this and are checked
and proved to allow no more: it happens only where issues are ignored, only to a
merged issue, and the second pull request never stands beside an open one or
repeats a rejected one. One read of the row for the whole gate would end it.

A `--force` run beside the syncer can get the verdict of the previous pull request
written over its new one: the locks are different ones. `Delivery` says what is left
under `MayForce`: `SettleMerged` still needs a merged pull request of the issue, and
`SettleClosed` only one that was opened.

`run --ticket` against the mock server takes up the whole board, because the server
looks at project, status, component and labels and not at the key. Each of the
other issues is behind its own gate, so that none with an open pull request or at
its retry limit is taken up (`ForceBypassesOneIssueOnly`); ignored, rejected and
merged ones are only as safe as divergence 2 and the race above leave them.

`WorkTree` also shows, without a run of its own, that a branch deleted on GitHub or
a push whose answer was lost makes `LeaseHolds` false for good: each later push of
that issue is refused until somebody repairs the ref in the clone (or, after the lost
answer, deletes the branch).

A crash or a lost reply in `ingest` creates a second issue for a ticket in the
same way as 3 (`NothingIngestedTwice` is stated, and proved, without them).

## 6. Not modelled, and assumptions

* A merge is final. Every module but `Remediate` takes a closed pull request as
  final too.
* The database file is not deleted or restored while the programs run.
* Two issues do not share a branch. The branch of an issue is one in `Attempt` and
  `Board`; in `Remediate` it may change with the summary.
* The mock Jira: each request is one step, there is no reset or restart, and the
  order of an answer is that of the keys. The mock ServiceNow makes up random
  tickets: in `Ingest` and `Board` tickets are a constant. Labels and comments,
  which no command searches for, are left out.
* Contents: files, prompts, payloads, comments, notifications, log lines.
* One clone for one repository: two repositories of the same name with
  different owners share a directory, and a `git clone` that is killed half-way
  leaves one; neither is modelled. `verify_command` leaves no file that git does
  not ignore. The path of an edit does not go through a symbolic link in the
  clone: `pipeline.py:299` resolves links, so that the file written might be another
  one than the path listed. The clone is not deleted while a branch of the program is open.
* Merges on GitHub have no conflicts: the branch's side is taken.
* Notifiers, settings and logging keep no state that a command reads back, and
  what a notifier raises is swallowed. `status` and `show` only read.

## 7. Plan

Done: the modules of section 2, their runs and the theorems of section 4. What
could still be added, in this order:

1. `Attempt` and `Remediate` composed, so that a push that is refused for good
   and the retry limit meet in one model.
2. Two owners of one repository name, and a `git clone` that is killed, in
   `WorkTree`.
