------------------------------ MODULE RunStore ------------------------------
(***************************************************************************)
(* One row of the table remediation_runs and the operations of             *)
(* RemediationRunRepository (db/repository.py) on it.  The repository      *)
(* commits after every statement, so a row is only ever changed by one of  *)
(* these operators applied in a single step of the modules that use them.  *)
(*                                                                         *)
(* A row keeps what the gates and the syncer read: status, pr_number and   *)
(* failure_count.  The descriptive columns (repo_full_name, branch_name,   *)
(* pr_url, error_message, stage, last_attempt_at) are left out.            *)
(***************************************************************************)
EXTENDS Naturals

\* SQL NULL in the column pr_number; GitHub numbers pull requests from 1.
NoPr == 0

Status ==
  {"branch_created", "failed", "pr_open", "pr_merged", "pr_closed", "ignored"}

\* The row of a ticket nobody has recorded anything about (get_run is None).
NoRow == [status |-> "absent", pr |-> NoPr, failures |-> 0]

Row(prNumbers) ==
  [status   : Status \cup {"absent"},
   pr       : prNumbers \cup {NoPr},
   failures : Nat]

-----------------------------------------------------------------------------
(* Mutated forms of the operators below, used to show that the properties   *)
(* of the project depend on them.                                           *)

\* pr_number overwritten instead of COALESCEd.
UpsertForgetsPr(row, status, pr) ==
  [status   |-> status,
   pr       |-> pr,
   failures |-> IF status = "failed" THEN row.failures + 1 ELSE 0]

\* The comparison with the retry limit off by one.
PermanentlyFailedLate(row, limit) ==
  row.status = "failed" /\ row.failures > limit

\* The gate of the first version, before pr_closed was a status.
TurnsAwayForgetsClosed(read, row, limit) ==
  \/ read \in {"idempotency", "delivered"} /\ row.status \in {"pr_open", "pr_merged"}
  \/ read = "rejected" /\ row.status = "ignored"
  \/ read = "exhausted" /\ row.status = "failed" /\ row.failures >= limit

\* The idempotency gate alone.
GateEndsAfterIdempotency ==
  [idempotency |-> "routing", delivered |-> "rejected", rejected |-> "exhausted",
   exhausted |-> "routing"]

-----------------------------------------------------------------------------

upsert_run(row, status, pr) ==
  [status   |-> status,
   pr       |-> IF pr = NoPr THEN row.pr ELSE pr,
   failures |-> IF status = "failed" THEN row.failures + 1 ELSE 0]

mark_ignored(row) == upsert_run(row, "ignored", NoPr)

is_already_delivered(row) == row.status \in {"pr_open", "pr_merged"}

is_permanently_failed(row, limit) ==
  row.status = "failed" /\ row.failures >= limit

\* The gate in front of an issue reads the row four times, one SELECT each and
\* no transaction around them: is_already_delivered at pipeline.py:121, and in
\* should_skip is_already_delivered again, the status, is_permanently_failed.
\* Each read tests something else, on what the row says by then.
Gate == {"idempotency", "delivered", "rejected", "exhausted"}

NextRead ==
  [idempotency |-> "delivered", delivered |-> "rejected", rejected |-> "exhausted",
   exhausted |-> "routing"]

\* This read of the row ends the matter for this run.
TurnsAway(read, row, limit) ==
  \/ read \in {"idempotency", "delivered"} /\ is_already_delivered(row)
  \/ read = "rejected" /\ row.status \in {"ignored", "pr_closed"}
  \/ read = "exhausted" /\ is_permanently_failed(row, limit)

\* What the gate comes to on a row that nobody writes meanwhile.
should_skip(row, limit) == \E read \in Gate : TurnsAway(read, row, limit)
=============================================================================
