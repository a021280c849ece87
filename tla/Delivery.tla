------------------------------ MODULE Delivery ------------------------------
(***************************************************************************)
(* What the remediation side promises, issue by issue: the life of a row   *)
(* of remediation_runs and of the pull requests opened for it, with no     *)
(* process, lock, list or step of an attempt.  One attempt is under way at *)
(* a time; it opens a pull request only after it has taken its issue out   *)
(* of pr_open; and what is recorded as delivered, merged or rejected is    *)
(* what GitHub said.  Remediate implements it (RemediateRefinement).       *)
(***************************************************************************)
EXTENDS Naturals

CONSTANTS
  Keys,       \* the Jira issues
  PrNumber,   \* the numbers GitHub can give
  NoPr,       \* no number
  NoKey,      \* no issue
  MayForce,   \* operators use --force
  MayIgnore,  \* operators use `remediate ignore`, which takes no lock
  MayReopen   \* reviewers reopen closed pull requests

VARIABLES
  record,     \* status and pr_number of each issue
  prs,        \* GitHub's pull requests, by number
  attempted   \* the issue an attempt is under way for

vars == <<record, prs, attempted>>

Init ==
  /\ record = [k \in Keys |-> [status |-> "absent", pr |-> NoPr]]
  /\ prs = [n \in PrNumber |-> [key |-> NoKey, state |-> "unused"]]
  /\ attempted = NoKey

\* Without --force the status of the issue is one of these.
Usually(k, statuses) == MayForce \/ record[k].status \in statuses

IsNewest(k, n) ==
  /\ prs[n].key = k
  /\ \A m \in PrNumber : prs[m].key = k => m <= n

\* The status is written, and the number stays on record.
SetStatus(k, status) == record' = [record EXCEPT ![k].status = status]

\* What an issue may say besides when an attempt begins, if it is ignored while
\* the gate reads it: ignored, or merged, but never open or rejected.
Overlooked == IF MayIgnore THEN {"ignored", "pr_merged"} ELSE {}

\* An attempt begins: on an issue that is neither delivered, nor rejected, nor
\* ignored, and one at a time.
Begin(k) ==
  /\ attempted = NoKey
  /\ Usually(k, {"absent", "branch_created", "failed"} \cup Overlooked)
  /\ attempted' = k
  /\ UNCHANGED <<record, prs>>

Branch(k) ==
  /\ attempted = k
  /\ SetStatus(k, "branch_created")
  /\ UNCHANGED <<prs, attempted>>

\* The issue has left pr_open for branch_created; operators and, in a forced
\* attempt, the syncer may have written over that.
OnBranch(k) ==
  /\ record[k].status \in {"branch_created", "ignored", "pr_merged", "pr_closed"}
  /\ Usually(k, {"branch_created", "ignored"})

\* GitHub opens a pull request for the attempt.
Open(k, n) ==
  /\ attempted = k
  /\ OnBranch(k)
  /\ prs[n].state = "unused"
  /\ \A m \in PrNumber : m > n => prs[m].state = "unused"
  /\ prs' = [prs EXCEPT ![n] = [key |-> k, state |-> "open"]]
  /\ UNCHANGED <<record, attempted>>

\* The attempt ends with its pull request, the newest of the issue, on record.
Deliver(k, n) ==
  /\ attempted = k
  /\ OnBranch(k)
  /\ IsNewest(k, n)
  /\ record' = [record EXCEPT ![k] = [status |-> "pr_open", pr |-> n]]
  /\ attempted' = NoKey
  /\ UNCHANGED prs

Fail(k) ==
  /\ attempted = k
  /\ Usually(k, {"absent", "branch_created", "failed"} \cup Overlooked)
  /\ SetStatus(k, "failed")
  /\ attempted' = NoKey
  /\ UNCHANGED prs

\* A dry run returns, or the process dies.
Abandon ==
  /\ attempted # NoKey
  /\ attempted' = NoKey
  /\ UNCHANGED <<record, prs>>

\* What became of a pull request of the issue is recorded: of the one on
\* record, unless a forced attempt has opened another one meanwhile.  An
\* issue is only marked as merged when a fix of it was merged.
SettleMerged(k) ==
  /\ record[k].pr # NoPr
  /\ \E n \in PrNumber : prs[n] = [key |-> k, state |-> "merged"]
  /\ \/ MayForce
     \/ /\ record[k].status \in {"pr_open", "ignored"}
        /\ attempted # k
        /\ prs[record[k].pr].state = "merged"
  /\ SetStatus(k, "pr_merged")
  /\ UNCHANGED <<prs, attempted>>

SettleClosed(k) ==
  /\ record[k].pr # NoPr
  /\ \/ MayForce
     \/ /\ record[k].status \in {"pr_open", "ignored"}
        /\ attempted # k
        /\ prs[record[k].pr].state = "closed" \/ MayReopen
  /\ SetStatus(k, "pr_closed")
  /\ UNCHANGED <<prs, attempted>>

Ignore(k) ==
  /\ MayIgnore
  /\ SetStatus(k, "ignored")
  /\ UNCHANGED <<prs, attempted>>

\* Reviewers merge a pull request, close it, or reopen it.
Review(n) ==
  \E state \in {"open", "merged", "closed"} :
    /\ \/ prs[n].state = "open"
       \/ MayReopen /\ prs[n].state = "closed"
    /\ prs' = [prs EXCEPT ![n].state = state]
    /\ UNCHANGED <<record, attempted>>

Next ==
  \/ \E k \in Keys :
       \/ Begin(k)
       \/ Branch(k)
       \/ \E n \in PrNumber : Open(k, n) \/ Deliver(k, n)
       \/ Fail(k)
       \/ SettleMerged(k)
       \/ SettleClosed(k)
       \/ Ignore(k)
  \/ Abandon
  \/ \E n \in PrNumber : Review(n)

Spec == Init /\ [][Next]_vars
=============================================================================
