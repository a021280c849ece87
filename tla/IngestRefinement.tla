-------------------------- MODULE IngestRefinement --------------------------
(***************************************************************************)
(* Ingest implements Intake: the refinement mapping.                       *)
(***************************************************************************)
EXTENDS Ingest

\* The issue that the holder of ingest.lock has created and not yet recorded.
Unlinked ==
  IF ingest_lock # NoProc /\ run[ingest_lock].pc = "recording"
    THEN run[ingest_lock].ref
    ELSE NoIssue

Abstract == INSTANCE Intake WITH
  unlinked <- Unlinked,
  MayLose  <- "lost_reply" \in Disturbances,
  MayDie   <- "crash" \in Disturbances

\* Whatever the processes, the outages, the refusals and the crashes do, every
\* step is one that Intake allows, or changes nothing it speaks of: between
\* create_issue and record_link (ingest/pipeline.py:70 and 76) nobody creates an
\* issue or writes a link, no link is ever written over, and no issue is left
\* without one unless an answer was lost or a process died.
ImplementsIntake == Abstract!Spec
=============================================================================
