------------------------------ MODULE RetryCap ------------------------------
(***************************************************************************)
(* Remediate with a history variable: how many failed attempts in a row    *)
(* the program has recorded for each issue, over all its runs.  The column *)
(* failure_count is meant to hold that number, and the retry limit is      *)
(* compared with the column.                                               *)
(***************************************************************************)
EXTENDS MCRemediate

VARIABLE failedInARow

\* The history is not followed beyond the first number above the limit.
HistoryBound == MaxRetries + 1

HInit == Init /\ failedInARow = [k \in Keys |-> 0]

HNext ==
  /\ Next
  /\ failedInARow' =
       [k \in Keys |->
          IF \E r \in Runners : RecordFailure(r) /\ run[r].key = k
            THEN IF failedInARow[k] < HistoryBound
                   THEN failedInARow[k] + 1 ELSE HistoryBound
          ELSE IF \E r \in Runners : RecordPr(r) /\ run[r].key = k
            THEN 0
          ELSE failedInARow[k]]

HSpec == HInit /\ [][HNext]_<<vars, failedInARow>>

\* The promise of .env.example:21, that an issue is given up after
\* REMEDIATE_MAX_RETRIES failed attempts across runs.
GivesUpAfterMaxRetries == \A k \in Keys : failedInARow[k] <= MaxRetries
=============================================================================
