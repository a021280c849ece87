------------------------ MODULE RemediateRefinement -------------------------
(***************************************************************************)
(* Remediate implements Delivery: the refinement mapping.                  *)
(***************************************************************************)
EXTENDS Remediate

\* The issue of the attempt that the holder of remediate.lock is making.
Attempted ==
  IF remediate_lock # NoProc /\ run[remediate_lock].pc \in Attempting
    THEN run[remediate_lock].key
    ELSE NoKey

\* Of each row, what Delivery speaks of.
Record == [k \in Keys |-> [status |-> rows[k].status, pr |-> rows[k].pr]]

ForcedRuns == \E o \in RunOptions : o.force

Abstract == INSTANCE Delivery WITH
  record    <- Record,
  attempted <- Attempted,
  MayForce  <- ForcedRuns,
  MayIgnore <- MayIgnore,
  MayReopen <- "reopen" \in Disturbances

\* Whatever the processes, the operators, the reviewers and the crashes do,
\* every step is one that Delivery allows, or changes nothing it speaks of: an
\* attempt never opens a pull request for an issue that is still in pr_open
\* (pipeline.py:181 comes before 228, in a forced run and a dry run too), and
\* a pull request goes on record only while it is the newest of its issue.
ImplementsDelivery == Abstract!Spec
=============================================================================
