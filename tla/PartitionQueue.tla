---------------------------- MODULE PartitionQueue ----------------------------
(***************************************************************************)
(* The durable work queue of one collection run: collection_partitions     *)
(* rows that workers of several processes claim, fill page by page, and    *)
(* complete, while stale work is reclaimed and an operator pauses,         *)
(* resumes, cancels, retries or enhances the run.                          *)
(*                                                                         *)
(* One action is one database transaction of app/jobs.py,                  *)
(* app/collection_operational_hardening.py, app/urgent_collection.py or    *)
(* app/main.py.  Nothing after the claim checks that the writer still owns *)
(* the row (every statement says `where id=%s`), so two workers may be     *)
(* writing one row: that is the behaviour this module is about.            *)
(***************************************************************************)
EXTENDS Naturals, CollectionStatus

CONSTANTS
  Partitions,        \* the paged partitions (bars_1m, trades, quotes) of the run
  MainWorkers,       \* main loops of the worker service (old and new deploy overlap)
  UrgentWorkers,     \* urgent collection lanes
  UrgentPartitions,  \* partitions at or above URGENT_COLLECTION_MIN_PRIORITY
  None,              \* SQL null
  Pages,             \* how many pages the source serves for a partition
  DataPages,         \* which of them carry rows
  TokenPaged,        \* partitions whose source continues by next_page_token
  MaxAttempts,       \* max_attempts of every partition
  MaxDisturbances    \* bound on faults and operator commands in one behaviour

Workers == MainWorkers \cup UrgentWorkers

ASSUME QueueAssumption ==
  /\ MainWorkers \cap UrgentWorkers = {}
  /\ None \notin Workers \cup Partitions
  /\ UrgentPartitions \subseteq Partitions
  /\ TokenPaged \subseteq Partitions
  /\ Pages \in [Partitions -> Nat \ {0}]
  /\ DataPages \in [Partitions -> SUBSET Nat]
  /\ \A p \in Partitions : DataPages[p] \subseteq 1..Pages[p]
  /\ MaxAttempts \in Nat \ {0}
  /\ MaxDisturbances \in Nat

VARIABLES
  runStatus,   \* collection_runs.status
  stage,       \* collection_runs.stage, as far as this queue sees it
  row,         \* collection_partitions, one record per partition
  stored,      \* market tables: the pages whose rows are durable
  job,         \* per worker: the claimed partition it works on, and how far it is
  budget       \* disturbances left

vars == <<runStatus, stage, row, stored, job, budget>>

-------------------------------------------------------------------------------
(* State *)

\* From `collecting` to the end of enrichment the run waits for these partitions;
\* in `aggregation` and `ready` it does not.
Stage == {"collecting", "aggregation", "ready"}

\* fresh: heartbeat_at is younger than stale_partition_minutes.
\* deferred: not_before lies in the future.
\* cursor: the last page the checkpoint records; Pages[p] is `finished`.
\* stamped: the checkpoint has first_ts and last_ts.  counted: row_count > 0.
Row == [status: PartitionStatus, owner: Workers \cup {None}, fresh: BOOLEAN,
        deferred: BOOLEAN, attempts: Nat, cursor: Nat, stamped: BOOLEAN,
        counted: BOOLEAN]

NewRow == [status |-> "queued", owner |-> None, fresh |-> FALSE,
           deferred |-> FALSE, attempts |-> 0, cursor |-> 0,
           stamped |-> FALSE, counted |-> FALSE]

\* The worker's copy of the claimed row and its place in the page loop.
\* seen: rows_seen > 0.  stamped: first_ts is set.
Job == [pc: {"idle", "claimed", "begin", "pages", "save", "finish", "empty",
             "failing", "release", "cancel"},
        part: Partitions \cup {None}, cursor: Nat, seen: BOOLEAN,
        stamped: BOOLEAN, attempts: Nat]

NoJob == [pc |-> "idle", part |-> None, cursor |-> 0, seen |-> FALSE,
          stamped |-> FALSE, attempts |-> 0]

Init ==
  /\ runStatus = "running"
  /\ stage = "collecting"
  /\ row = [p \in Partitions |-> NewRow]
  /\ stored = [p \in Partitions |-> {}]
  /\ job = [w \in Workers |-> NoJob]
  /\ budget = MaxDisturbances

Working(w) == job[w].pc # "idle"
Holds(w, p) == Working(w) /\ job[w].part = p

\* refresh_collection_run_counts over the rows as the transaction leaves them.
Refreshed(current, stageNow, rows) ==
  RefreshedStatus(current, stageNow = "ready",
                  \E p \in Partitions : rows[p].status \in ActiveStatus,
                  \E p \in Partitions : rows[p].status = "failed")

\* `update collection_partitions set ... where id = p`, and a worker's next state.
Updated(p, newRow) == [row EXCEPT ![p] = newRow]
Becomes(w, newJob) == job' = [job EXCEPT ![w] = newJob]
MyRow(w) == row[job[w].part]

Disturb == budget > 0 /\ budget' = budget - 1

-------------------------------------------------------------------------------
(* Claiming *)

\* Variant: deferred work is never picked up again.
ClaimableQueuedOnly(p) == row[p].status = "queued" /\ ~row[p].deferred

Claimable(p) == row[p].status \in ClaimableStatus /\ ~row[p].deferred

\* SKIP LOCKED may pass over a row of higher priority, so any claimable row may
\* be the one returned.
Claim(w, p) ==
  /\ ~Working(w)
  /\ runStatus \in LiveRunStatus
  /\ Claimable(p)
  /\ w \in UrgentWorkers => p \in UrgentPartitions
  /\ row' = Updated(p, [row[p] EXCEPT !.status = "running", !.owner = w,
                                       !.fresh = TRUE, !.attempts = @ + 1])
  /\ Becomes(w, [pc |-> "claimed", part |-> p, cursor |-> row[p].cursor,
                 seen |-> row[p].counted, stamped |-> row[p].stamped,
                 attempts |-> row[p].attempts + 1])
  /\ UNCHANGED <<runStatus, stage, stored, budget>>

\* _checkpoint_problem on the claimed copy: rows are recorded but the timestamps
\* or the continuation are missing, or the market table holds none of the rows.
\* (The clauses about timestamp values lead to the same reset; values are
\* abstracted.)
CheckpointProblem(w) ==
  LET p == job[w].part
      continues == job[w].cursor > 0 /\ p \in TokenPaged
      finished  == job[w].cursor = Pages[p]
  IN /\ job[w].seen
     /\ \/ ~job[w].stamped
        \/ ~finished /\ ~continues
        \/ stored[p] = {}

AfterValidation(w) == IF w \in UrgentWorkers THEN "pages" ELSE "begin"

\* validate_claimed_checkpoint, a transaction of its own after the claim.
KeepCheckpoint(w) ==
  /\ job[w].pc = "claimed"
  /\ ~CheckpointProblem(w)
  /\ Becomes(w, [job[w] EXCEPT !.pc = AfterValidation(w)])
  /\ UNCHANGED <<runStatus, stage, row, stored, budget>>

ResetCheckpoint(w) ==
  /\ job[w].pc = "claimed"
  /\ CheckpointProblem(w)
  /\ row' = Updated(job[w].part,
               [MyRow(w) EXCEPT !.cursor = 0, !.stamped = FALSE, !.counted = FALSE])
  /\ Becomes(w, [job[w] EXCEPT !.pc = AfterValidation(w), !.cursor = 0,
                               !.seen = FALSE, !.stamped = FALSE])
  /\ UNCHANGED <<runStatus, stage, stored, budget>>

-------------------------------------------------------------------------------
(* The page loop *)

\* assert_collection_active: where the main loop goes once it has read the run.
Directed(w, proceed) ==
  CASE runStatus = "paused"               -> "release"
    [] runStatus \in StoppedRunStatus     -> "cancel"
    [] OTHER                              -> proceed

Begin(w) ==
  /\ job[w].pc = "begin"
  /\ Becomes(w, [job[w] EXCEPT !.pc = Directed(w, "pages")])
  /\ UNCHANGED <<runStatus, stage, row, stored, budget>>

\* The provider yields a page; only the main loop then re-reads the run status.
FetchPage(w) ==
  /\ job[w].pc = "pages"
  /\ Becomes(w, [job[w] EXCEPT !.pc =
               IF w \in UrgentWorkers THEN "save" ELSE Directed(w, "save")])
  /\ UNCHANGED <<runStatus, stage, row, stored, budget>>

\* The worker is told to stop (a deploy): the page in hand is dropped and the
\* partition is released as for a pause.
FetchPageThenShutdown(w) ==
  /\ w \in MainWorkers
  /\ job[w].pc = "pages"
  /\ runStatus \notin {"paused"} \cup StoppedRunStatus
  /\ Disturb
  /\ Becomes(w, [job[w] EXCEPT !.pc = "release"])
  /\ UNCHANGED <<runStatus, stage, row, stored>>

\* Variant: EmptyData raised for a window that does have rows.
FetchNothingAnywhere(w) ==
  /\ job[w].pc = "pages"
  /\ Becomes(w, [job[w] EXCEPT !.pc = "empty", !.seen = FALSE])
  /\ UNCHANGED <<runStatus, stage, row, stored, budget>>

\* The provider raises EmptyData: nothing at all in the window.  (What the
\* handler of EmptyData raises in turn escapes to the main loop: see Crash.)
FetchNothing(w) ==
  /\ job[w].pc = "pages"
  /\ job[w].cursor = 0
  /\ DataPages[job[w].part] = {}
  /\ Becomes(w, [job[w] EXCEPT !.pc = "empty", !.seen = FALSE])
  /\ UNCHANGED <<runStatus, stage, row, stored, budget>>

\* Variants: going on after the last page; skipping to it.
NextPageUnbounded(w) == job[w].cursor + 1
NextPageSkipping(w) == Pages[job[w].part]

\* A finished cursor makes the provider yield one last page without rows.
NextPage(w) ==
  IF job[w].cursor < Pages[job[w].part] THEN job[w].cursor + 1 ELSE job[w].cursor

\* Variant: off by one, the page's rows are taken for old ones.
PageHasRowsLate(w) ==
  NextPage(w) > job[w].cursor + 1 /\ NextPage(w) \in DataPages[job[w].part]

PageHasRows(w) ==
  NextPage(w) > job[w].cursor /\ NextPage(w) \in DataPages[job[w].part]

\* Variant: a page counts even when it is blank.
SavedRowCountingBlanks(w) ==
  Updated(job[w].part,
    [MyRow(w) EXCEPT !.cursor = NextPage(w), !.fresh = TRUE,
                     !.stamped = job[w].stamped \/ PageHasRows(w), !.counted = TRUE])

\* The checkpoint: the page's cursor with the worker's first_ts and last_ts, and
\* row_count counted on from what the row says.
SavedRow(w) ==
  Updated(job[w].part,
    [MyRow(w) EXCEPT !.cursor = NextPage(w), !.fresh = TRUE,
                     !.stamped = job[w].stamped \/ PageHasRows(w),
                     !.counted = @ \/ PageHasRows(w)])

\* save_bar_page, save_trade_page, save_quote_page: the rows and the checkpoint
\* are one transaction.
SavePage(w) ==
  LET p == job[w].part
      n == NextPage(w)
      hasRows == PageHasRows(w)
  IN /\ job[w].pc = "save"
     /\ stored' = [stored EXCEPT ![p] = IF hasRows THEN @ \cup {n} ELSE @]
     /\ row' = SavedRow(w)
     /\ Becomes(w, [job[w] EXCEPT !.pc = IF n = Pages[p] THEN "finish" ELSE "pages",
                                  !.cursor = n,
                                  !.seen = @ \/ hasRows,
                                  !.stamped = @ \/ hasRows])
     /\ UNCHANGED <<runStatus, stage, budget>>

-------------------------------------------------------------------------------
(* How a worker leaves a partition.  Each of these is one transaction that     *)
(* writes the row by id and, where the code calls it, refreshes the run.       *)

\* The row, the refreshed run, and the worker's return to its loop.
Leave(w, newRow) ==
  /\ row' = newRow
  /\ runStatus' = Refreshed(runStatus, stage, newRow)
  /\ Becomes(w, NoJob)
  /\ UNCHANGED <<stage, stored>>

\* complete_partition's update.
CompletedRow(w) ==
  Updated(job[w].part,
    [MyRow(w) EXCEPT !.status = IF job[w].seen THEN "completed" ELSE "completed_empty",
                     !.owner = None, !.fresh = TRUE])

Complete(w) ==
  /\ job[w].pc \in {"finish", "empty"}
  /\ Leave(w, CompletedRow(w))
  /\ UNCHANGED budget

\* The commit happens but the connection breaks before the worker hears of it:
\* the exception sends the worker to its failure handler.
CompleteUnheard(w) ==
  /\ job[w].pc = "finish"
  /\ Disturb
  /\ row' = CompletedRow(w)
  /\ runStatus' = Refreshed(runStatus, stage, CompletedRow(w))
  /\ Becomes(w, [job[w] EXCEPT !.pc = "failing"])
  /\ UNCHANGED <<stage, stored>>

\* Where an exception other than the control-flow ones can be raised.
MayFail(w) == job[w].pc \in {"begin", "pages", "save", "finish", "failing"}

\* retry_or_fail_partition of the hardening layer, transient infrastructure
\* failure: deferred without consuming the failure budget.
FailTransient(w) ==
  /\ MayFail(w)
  /\ Disturb
  /\ Leave(w, Updated(job[w].part,
                [MyRow(w) EXCEPT !.status = "retry_wait", !.deferred = TRUE,
                                 !.attempts = IF @ = 0 THEN 0 ELSE @ - 1,
                                 !.owner = None, !.fresh = TRUE]))

\* retry_or_fail_partition of app/jobs.py.  It decides from the attempts of the
\* claimed copy, and its Twelve Data branch is never reached: a rate limit is
\* always retryable, hence always a transient failure of the layer above.
FailOrdinary(w, retryable) ==
  LET again == retryable /\ job[w].attempts < MaxAttempts
  IN /\ IF retryable THEN MayFail(w) ELSE job[w].pc = "pages"
     /\ Leave(w, Updated(job[w].part,
                   [MyRow(w) EXCEPT !.status = IF again THEN "retry_wait" ELSE "failed",
                                    !.deferred = again, !.owner = None, !.fresh = TRUE]))
     /\ UNCHANGED budget

\* skip_partition: the provider does not know the symbol (http_404).
Skip(w) ==
  /\ job[w].pc = "pages"
  /\ Leave(w, Updated(job[w].part,
                [MyRow(w) EXCEPT !.status = "skipped", !.owner = None, !.fresh = TRUE]))
  /\ UNCHANGED budget

\* release_partition_for_pause and cancel_running_partition do not refresh.
LeaveUnrefreshed(w, status) ==
  /\ row' = Updated(job[w].part,
               [MyRow(w) EXCEPT !.status = status, !.owner = None, !.fresh = TRUE])
  /\ Becomes(w, NoJob)
  /\ UNCHANGED <<runStatus, stage, stored, budget>>

Release(w) == job[w].pc = "release" /\ LeaveUnrefreshed(w, "queued")
CancelOwn(w) == job[w].pc = "cancel" /\ LeaveUnrefreshed(w, "cancelled")

\* The process dies, or a database error escapes a handler of the worker: the row
\* stays as it is.  The restarted process has an empty hand.
Crash(w) ==
  /\ Working(w)
  /\ Disturb
  /\ Becomes(w, NoJob)
  /\ UNCHANGED <<runStatus, stage, row, stored>>

-------------------------------------------------------------------------------
(* Time *)

\* stale_partition_minutes pass without a heartbeat.  For a row nobody works on
\* this is only a matter of time; a worker at work must be stuck that long.
GoStale(p) ==
  /\ row[p].status = "running"
  /\ row[p].fresh
  /\ IF \E w \in Workers : Holds(w, p) THEN Disturb ELSE UNCHANGED budget
  /\ row' = Updated(p, [row[p] EXCEPT !.fresh = FALSE])
  /\ UNCHANGED <<runStatus, stage, stored, job>>

\* not_before passes.
BackoffElapses(p) ==
  /\ row[p].deferred
  /\ row' = Updated(p, [row[p] EXCEPT !.deferred = FALSE])
  /\ UNCHANGED <<runStatus, stage, stored, job, budget>>

\* Variant: the row keeps its owner.
RequeuedOwned(S) ==
  [p \in Partitions |->
     IF p \in S THEN [row[p] EXCEPT !.status = "retry_wait", !.deferred = FALSE]
     ELSE row[p]]

\* Back to the queue, claimable at once: the update that reclaim, resume,
\* retry-failed and enhance share.
Requeued(S) ==
  [p \in Partitions |->
     IF p \in S
     THEN [row[p] EXCEPT !.status = "retry_wait", !.deferred = FALSE, !.owner = None]
     ELSE row[p]]

\* Variant: work that has used up its attempts is not reclaimed.
ReclaimStaleWithinAttempts ==
  LET stale == {p \in Partitions : row[p].status = "running" /\ ~row[p].fresh
                                   /\ row[p].attempts < MaxAttempts}
  IN /\ runStatus \in LiveRunStatus
     /\ \E w \in MainWorkers : ~Working(w)
     /\ stale # {}
     /\ row' = Requeued(stale)
     /\ UNCHANGED <<runStatus, stage, stored, job, budget>>

\* reclaim_stale_work, run by a main loop between two partitions.
ReclaimStale ==
  LET stale == {p \in Partitions : row[p].status = "running" /\ ~row[p].fresh}
  IN /\ runStatus \in LiveRunStatus
     /\ \E w \in MainWorkers : ~Working(w)
     /\ stale # {}
     /\ row' = Requeued(stale)
     /\ UNCHANGED <<runStatus, stage, stored, job, budget>>

\* advance_mining_runs, as far as these partitions matter: they must be terminal
\* for the run to pass on to aggregation, but may have been requeued by the time
\* it becomes ready.  (Module RunStages has every stage and the interleavings
\* inside one advance.)
Aggregate ==
  /\ stage = "collecting"
  /\ runStatus \notin HeldRunStatus
  /\ \E w \in MainWorkers : ~Working(w)
  /\ \A p \in Partitions : row[p].status \notin ActiveStatus
  /\ stage' = "aggregation"
  /\ runStatus' = "running"
  /\ UNCHANGED <<row, stored, job, budget>>

BecomeReady ==
  /\ stage = "aggregation"
  /\ runStatus \notin HeldRunStatus
  /\ \E w \in MainWorkers : ~Working(w)
  /\ stage' = "ready"
  /\ runStatus' = Refreshed(runStatus, "ready", row)
  /\ UNCHANGED <<row, stored, job, budget>>

-------------------------------------------------------------------------------
(* Operator commands: the handlers of app/main.py *)

PauseRun ==
  /\ Disturb
  /\ runStatus \in LiveRunStatus
  /\ runStatus' = "paused"
  /\ UNCHANGED <<stage, row, stored, job>>

\* The partitions are requeued whatever the run's status was.
ResumeRun ==
  LET again == {p \in Partitions : row[p].status \in {"failed", "cancelled"}
                                   /\ row[p].attempts < MaxAttempts}
      resumed == IF runStatus \in {"paused", "completed_with_errors"}
                 THEN "running" ELSE runStatus
  IN /\ Disturb
     /\ row' = Requeued(again)
     /\ runStatus' = Refreshed(resumed, stage, Requeued(again))
     /\ UNCHANGED <<stage, stored, job>>

\* Variant: a cancel that leaves work in progress alone.
CancelledRowsWaiting ==
  [p \in Partitions |->
     IF row[p].status \in ClaimableStatus
     THEN [row[p] EXCEPT !.status = "cancelled", !.owner = None]
     ELSE row[p]]

CancelledRows ==
  [p \in Partitions |->
     IF row[p].status \in ActiveStatus
     THEN [row[p] EXCEPT !.status = "cancelled", !.owner = None]
     ELSE row[p]]

CancelRun ==
  /\ Disturb
  /\ runStatus' = "cancelled"
  /\ row' = CancelledRows
  /\ UNCHANGED <<stage, stored, job>>

CancelAllRuns ==
  /\ Disturb
  /\ runStatus' = IF runStatus \in LiveRunStatus \cup {"paused"}
                  THEN "cancelled" ELSE runStatus
  /\ row' = CancelledRows
  /\ UNCHANGED <<stage, stored, job>>

RetryFailed ==
  LET again == {p \in Partitions : row[p].status \in {"failed", "cancelled"}}
      reopened == IF runStatus \in {"cancelled", "failed"} THEN runStatus ELSE "running"
  IN /\ Disturb
     /\ row' = Requeued(again)
     /\ runStatus' = Refreshed(reopened, stage, Requeued(again))
     /\ UNCHANGED <<stage, stored, job>>

\* request_enhancement moves the run back to stage 'collecting' and takes every
\* running partition from its worker, however fresh its heartbeat.
EnhanceRun ==
  LET taken == {p \in Partitions : row[p].status = "running"}
      allowed == runStatus \notin {"cancelled", "failed"}
      stageNow == IF allowed THEN "collecting" ELSE stage
  IN /\ Disturb
     /\ stage' = stageNow
     /\ row' = Requeued(taken)
     /\ runStatus' = Refreshed(IF allowed THEN "running" ELSE runStatus,
                               stageNow, Requeued(taken))
     /\ UNCHANGED <<stored, job>>

-------------------------------------------------------------------------------
\* The normal course of a worker's loop.
Proceed(w) ==
  \/ \E p \in Partitions : Claim(w, p)
  \/ KeepCheckpoint(w)
  \/ ResetCheckpoint(w)
  \/ Begin(w)
  \/ FetchPage(w)
  \/ FetchNothing(w)
  \/ SavePage(w)
  \/ Complete(w)
  \/ Release(w)
  \/ CancelOwn(w)

Work(w) ==
  \/ Proceed(w)
  \/ \E retryable \in BOOLEAN : FailOrdinary(w, retryable)
  \/ Skip(w)

Fault ==
  \E w \in Workers :
    FetchPageThenShutdown(w) \/ CompleteUnheard(w) \/ FailTransient(w) \/ Crash(w)

Clock == \E p \in Partitions : GoStale(p) \/ BackoffElapses(p)

Operator == PauseRun \/ ResumeRun \/ CancelRun \/ CancelAllRuns \/ RetryFailed \/ EnhanceRun

Next ==
  \/ \E w \in Workers : Work(w)
  \/ Fault
  \/ Clock
  \/ ReclaimStale
  \/ Aggregate
  \/ BecomeReady
  \/ Operator

Spec == Init /\ [][Next]_vars

\* Every worker's loop runs on, its failure handler included, and time passes.
\* Nothing is assumed of errors and faults, of the operator, or of a stall of a
\* worker that still lives.
Fairness ==
  /\ \A w \in Workers :
       /\ WF_vars(Proceed(w))
       /\ WF_vars(job[w].pc = "failing" /\ FailOrdinary(w, TRUE))
  /\ \A p \in Partitions :
       /\ WF_vars(BackoffElapses(p))
       /\ WF_vars(GoStale(p) /\ UNCHANGED budget)
  /\ WF_vars(ReclaimStale)

FairSpec == Spec /\ Fairness

-------------------------------------------------------------------------------
(* Properties *)

TypeOK ==
  /\ runStatus \in RunStatus
  /\ stage \in Stage
  /\ row \in [Partitions -> Row]
  /\ \A p \in Partitions : row[p].cursor <= Pages[p]
  /\ stored \in [Partitions -> SUBSET Nat]
  /\ job \in [Workers -> Job]
  /\ \A w \in Workers : Working(w) => /\ job[w].part \in Partitions
                                      /\ job[w].cursor <= Pages[job[w].part]
  /\ budget \in Nat

\* The data pages of p that lie at or before page n are durable.
DurableUpTo(p, n) == \A m \in DataPages[p] : m <= n => m \in stored[p]

\* A checkpoint never runs ahead of the data: neither the one in the row nor the
\* one a worker carries, although workers that lost their claim go on writing
\* rows, checkpoints and resets over those of the present owner (save_*_page and
\* validate_claimed_checkpoint write `where id` only).
CheckpointDurable ==
  /\ \A p \in Partitions : DurableUpTo(p, row[p].cursor)
  /\ \A w \in Workers : Working(w) => DurableUpTo(job[w].part, job[w].cursor)

\* What complete_partition declares is true of the market tables, whoever
\* declared it: nothing of a collected partition is missing, and one marked
\* `completed` has rows.
CompletionTruthful ==
  \A p \in Partitions :
    /\ row[p].status \in CollectedStatus => DataPages[p] \subseteq stored[p]
    /\ row[p].status = "completed" => stored[p] # {}

\* row_count > 0 is never without rows in the table, so the last check of
\* _checkpoint_problem ("durable data is absent") cannot fire for a checkpoint
\* this code wrote.
CountedIsStored ==
  /\ \A p \in Partitions : row[p].counted => stored[p] # {}
  /\ \A w \in Workers : Working(w) /\ job[w].seen => stored[job[w].part] # {}

\* locked_by names a worker exactly while the row is running: every handler of
\* this module writes one or the other, and a row that kept its owner, or ran without one,
\* could not be told from one that is being worked on.
OwnedWhileRunning ==
  \A p \in Partitions : row[p].status = "running" <=> row[p].owner # None

\* After a cancel no row of the run is running, and none becomes so again,
\* whatever in-flight workers, resume or retry-failed do to the rows afterwards.
CancelledRunIsIdle ==
  runStatus = "cancelled" => \A p \in Partitions : row[p].status # "running"

\* The market tables, seen through the verdicts on the partitions, are the
\* ledger a reader of the lab relies on.
Ledger == INSTANCE BackfillLedger
            WITH collected <- {p \in Partitions : row[p].status \in CollectedStatus}

ImplementsLedger == Ledger!Spec

\* A running row is some day no longer running, whether its worker finished,
\* crashed or stalled, unless the run is paused (stale work is reclaimed in
\* queued and running runs only).
ClaimsResolve ==
  \A p \in Partitions :
    (row[p].status = "running") ~> (row[p].status # "running" \/ runStatus = "paused")

\* In a run that is left alone, every partition reaches a terminal status.
QueueDrains ==
  <>[](runStatus \in LiveRunStatus)
    => <>[](\A p \in Partitions : row[p].status \notin ActiveStatus)

\* A pause takes hold: the main loops put down what they hold.
PauseDrains ==
  <>[](runStatus = "paused") => <>[](\A w \in MainWorkers : ~Working(w))

\* No claim is held for ever: not by a worker that is gone, and not over a pause.
ClaimsEnd == ClaimsResolve /\ PauseDrains

\* "Completed partitions are never reopened by this layer"
\* (app/collection_operational_hardening.py): no step of the layer's
\* retry_or_fail_partition takes a collected row back to the queue.
CompletedNeverReopened ==
  [][\A w \in Workers : FailTransient(w) =>
       row[job[w].part].status \notin CollectedStatus]_vars
===============================================================================
