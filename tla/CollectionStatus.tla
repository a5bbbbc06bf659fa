--------------------------- MODULE CollectionStatus ---------------------------
(***************************************************************************)
(* The status vocabulary of the two control-plane tables, collection_runs  *)
(* and collection_partitions, and the one piece of logic every handler     *)
(* shares: the run status computed by refresh_collection_run_counts.       *)
(***************************************************************************)

\* collection_runs.status
RunStatus == {"queued", "running", "paused", "completed",
              "completed_with_errors", "cancelled", "failed"}

\* collection_partitions.status
PartitionStatus == {"queued", "running", "completed", "completed_empty",
                    "retry_wait", "failed", "skipped", "cancelled"}

\* Work that is still owed: what refresh counts as v_active.
ActiveStatus == {"queued", "retry_wait", "running"}

\* Work that claim_collection_partition and claim_urgent_partition select.
ClaimableStatus == {"queued", "retry_wait"}

\* The two ways a worker declares that a partition's data is all there.
CollectedStatus == {"completed", "completed_empty"}

\* A run in one of these hands out work and has its stale work reclaimed.
LiveRunStatus == {"queued", "running"}

\* The run statuses that the operator (or a fatal error) set: refresh keeps them.
HeldRunStatus == {"paused", "cancelled", "failed"}

\* assert_collection_active raises CancelRequested in these.
StoppedRunStatus == {"cancelled", "failed", "completed", "completed_with_errors"}

\* The CASE of refresh_collection_run_counts: the run status that follows
\* from the current one, the stage, and the counts read just before.
RefreshedStatus(status, isReady, anyActive, anyFailed) ==
  IF status \in HeldRunStatus THEN status
  ELSE IF isReady /\ ~anyActive
       THEN IF anyFailed THEN "completed_with_errors" ELSE "completed"
       ELSE "running"
===============================================================================
