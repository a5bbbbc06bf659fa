# Market-data leading-indicator lab: specifications

TLA+ modules, TLC runs and TLAPS proofs about the durable machinery of this
repository: its queues, leases, stores and ledgers.  `PROJECT.json` lists runs,
properties, theorems, the code lines each definition stands for, and the hazards
the properties are aimed at.

## The system

The lab collects market data into PostgreSQL, mines it for events, enriches the
events, and runs research lanes on the result.  Its processes share the database,
object storage and, on one host, files; nothing else.

| Part | State it keeps | Operations | Hard parts |
|---|---|---|---|
| **Partition queue** (`app/jobs.py`, `collection_operational_hardening.py`, `urgent_collection.py`, `worker.py`) | `collection_partitions`; each worker's copy of the claimed row | claim, validate checkpoint, save page, complete, skip, retry or fail, release, cancel, reclaim | several claimers; every write after the claim says `where id=%s` only; crashes, stalls, lost acknowledgements |
| **Run stages** (`app/capture.py`, planning in `jobs.py`, `quality.py`, migration 020) | `collection_runs`; advisory locks | plan, advance, schedule aggregates (cron), check quality, refresh counts | READ COMMITTED transactions that act on what they read earlier; operator commands at any point |
| **Run commands** (`app/main.py`) | none | pause, resume, cancel, retry failed, enhance | race with everything above |
| **B-001 replication** (`app/b001_*.py`, migrations 006-008) | work items by stage, archives, analysis marks | claim, heartbeat, complete, post-process, advance, fail, reclaim; a resumable analysis | completion unfenced beside a fenced heartbeat; post-processing after the completion; crashes between rows and their mark |
| **Crypto stream** (`app/crypto_stream*.py`) | one-second buckets, order books, raw segments, broad ring, preservations | record, flush, upload, preserve, activate target | awaits between reading and acting; merge-back after failed flushes; reconnections; the handoff between two deployments |
| **Futures ingestion** (`app/index_futures_ingest_http*.py`) | bars, sessions, run status | resume behind the last bar, insert, complete | a thread in every process without any claim; repeated and late inserts |
| **Remediation workers** (`app/remediation_*.py`, `remediation_source_worker_schema.sql`) | batches with lease tokens | claim, heartbeat, commit, fail | a fenced protocol with replayed, late and lost calls |
| **Option events, C-INT-001** (`app/option_vol.py`, `option_convexity_http_worker.py`, `app/cint001_*.py`) | events, months, days of quotes, runs | claim, conclude by id, recompute or advance the run | two lanes with different transactions on one table; daemon threads that die |
| **Equity reference** (`app/equity_reference_backfill.py`) | days, scope row, events, intervals | compare sessions in order, fold | claims that pass over a running day; not the REST lane that `app/__init__.py:202-208` starts in its place when it is enabled |
| **EQ20 controllers** (`app/eq20_*.py`) | directories of an attempt, reservations and snapshots at a server, quantile ledgers | reserve, run a child, settle; restore, work, commit a segment; observe, finalise | a process that dies between two files; calls carried out late; two hosts |
| **XAL-006 monitor** (`app/xal006_live.py`) | evaluations, one signal a day | evaluate, enter, fill, exit | two transactions for one event; overlapping monitors; capture windows |
| **Providers, detectors, statistics, research hub, web** | | | numeric, I/O or SQL: see "Not modelled" |

What correctness means for them: a checkpoint is never ahead of the data, and a
verdict never ahead of its evidence; what is counted is counted once; a claim or a
reservation is given up exactly when its work is over; what has been received is
stored or its loss has a name; a late writer does no harm, or the harm is named; and
everything taken up comes to an end, or to a rest from which only an operator brings
it back, and these rests are listed.

## Modules

| Module | Models | Runs |
|---|---|---|
| `CollectionStatus` | the status vocabulary of runs and partitions and the status that `refresh_collection_run_counts` computes | |
| `PartitionQueue` | the queue of one run: rows, workers, time, operator | `queue_*` |
| `BackfillLedger` | what the queue promises a reader: pages become durable in order, verdicts only on complete partitions | `queue_safety` |
| `RunStages` | the stages of one run, statement by statement | `stages_*` |
| `B001Queue` | the eight stages of a replication run, with post-processing and advance | `b001_queue` |
| `B001Analysis` | its final analysis, phase by phase | `research_lanes` |
| `OptionEvents`, `ExecutionRun`, `QuoteDays`, `EquityReference` | the other research lanes | `research_lanes` |
| `StreamCollector`, `RawSegments`, `BroadStore`, `OrderBook` | the stores of the crypto stream | `crypto_stream`, `stream_handoff` |
| `FuturesIngest` | the futures bars and sessions | `crypto_stream` |
| `RemediationLease` | the lease protocol | `workers` |
| `SourceSupervisor`, `MissionSegments`, `QuantileLedger` | the EQ20 supervisor, the segments of its mission, the ledger inside them | `workers` |
| `SignalMonitor` | the XAL-006 monitor | `workers` |
| `MCPartitionQueue`, `MCRunStages`, `MCB001Queue` | instances for TLC | |
| `MCCryptoStream`, `MCResearchLanes`, `MCWorkers` | compositions for TLC | |
| `PartitionQueueProofs`, `PartitionQueueRefinement`, `RunStagesProofs`, `B001QueueProofs`, `StreamCollectorProofs`, `CryptoStreamProofs`, `ResearchLanesProofs`, `WorkersProofs` | proofs | |

`MCCryptoStream`, `MCResearchLanes` and `MCWorkers` put together components that
have their own tables, locks and threads.  They share no variable, so each
behaviour of all together is, seen from one component, a behaviour of that one:
the product would only multiply states.  The variable `store` or `part` picks the
component that moves, the rest stay where they began.

In every module one action is one transaction, one request, one file written, or
what a coroutine does between two awaits.  A history variable (`lapsed`, `lost`,
`again`, `disordered`, ...) records that one of the named exceptions has happened.

### PartitionQueue and the code

`row[p]` is the row of `collection_partitions`.  `status`, `owner` (`locked_by`)
and `attempts` are the columns; `fresh` stands for a heartbeat younger than
`stale_partition_minutes`, `deferred` for a `not_before` in the future; `cursor`
is the last page the checkpoint records (its last value is `finished`),
`stamped` says it has `first_ts` and `last_ts`, `counted` that `row_count > 0`.
`stored[p]` is the set of pages whose rows are in the market tables.  `job[w]`
is the worker's *copy* of the row, taken at the claim and never read again, and
its program counter.

The page loop is `FetchPage` (with the main loop's status check, which the
urgent lane does not make) and `SavePage`; leaving is `Complete`, `Skip`,
`FailTransient`, `FailOrdinary`, `Release`, `CancelOwn`.  `CompleteUnheard` is a
commit whose acknowledgement is lost, `Crash` a process that dies or whose
handler raises, `GoStale` a stall.  A row reclaimed from a stalled worker is
claimed by another and *both* go on: that is what the safety properties are
about.  The Twelve Data branch of `retry_or_fail_partition` is left out because
the hardening layer classifies every rate limit as transient before it.

A source serves `Pages[p]` pages, of which `DataPages[p]` carry rows.
`TokenPaged` are the sources that continue by `next_page_token`; the others
(Binance's `next_start_ms`) have their partial checkpoints reset at every claim,
as `_checkpoint_problem` does.  Two abstractions are worth knowing: what a page
holds does not change between two requests (market history), and timestamps are
reduced to being there or not, so the clauses of `_checkpoint_problem` that
compare them are not distinguished from the others, which lead to the same
reset.

### RunStages and the code

`part` is the status of each partition, or `unplanned`.  Every process runs
`main`'s loop: claim and process a partition, else `advance_mining_runs`
(`MineRead`, `MineCheck`, `MineCommit`), `run_ready_quality_checks` (`GateList`,
`GateRead`, `GateWrite`), planning (`PlanList` to `PlanFinish`), and back.  Reads
that a later statement relies on are steps of their own: the status check of
`advance_mining_runs`, the counts of `refresh_collection_run_counts` (`Count`,
then `Commit`), the list of runs to plan, the list of runs to check.  A quality
check reads the listed run a second time, and what it finds then, a status like
`running` after a command or an old planner, is what the gate records and what
makes the run count as checked: `QualityOvertaken`.  Whether a check is due is a
comparison of the time of the last one with the time of the entry into `ready`;
both are taken at the start of a transaction, and the model takes them in the order
of the commits.  The two advisory locks are the
conditions `MiningLocked` and `PlanningLocked`; rows locked by a transaction in
flight (`Locked`) make an operator command wait.

One partition of each kind stands for all of its kind, `Ticks` for all
enrichment partitions that are not aggregates.  The catalogue, bars and scan
either complete (with rows) or fail: `completed_empty` and `skipped` are not
distinguished.  The scheduler's batch limit is not reached by one run.  Reclaim
takes rows no process holds; rows reclaimed from living workers are the business
of `PartitionQueue`.  An operator command is one atomic step: the lock-order
cycle between a command and a completing worker (a hazard) is not modelled
beyond the error it causes, `FailTransient` in `PartitionQueue`.

### B-001 and the code

`B001Queue` has a work item for each archive (spot) and symbol (derive, ...) and one
for each later stage; `job[w]` is where a worker is between claim and the end of
its advance.  Completing and failing write by id; post-processing (null features
across gaps, delete signals beyond the window) comes after the completion's commit
and before the advance, as the patches order it; the advance reads and writes in
two steps.  `NotStranded` says that an open run has work, *unless* one of the holes
in the code was met: an advance that a crash or a pause swallowed (`unheard`; a slow
advance that writes an older stage over a newer one counts as that), a lapsed lock,
failed work retried after its stage was left (`reopened`: a late archive failure
also takes `completed_with_errors` back to running), or no archive that gave any
bar.

`B001Analysis` takes the analysis item apart: each phase commits rows, then a mark.
A later attempt skips what is marked.  It has one worker at a time, which is
`SingleOwner` of `B001Queue`.  An attempt that runs again keeps the export of the
earlier one when that is complete.

### The crypto stream and the code

`StreamCollector` follows one second of one market through the buckets of two
successive processes into a row to which every flush *adds*: a failed flush
merges its rows back, a cancelled one runs on in a thread nobody hears of, the last
one of a process is not repeated.  Exceptions: trades that two processes received
(`shared`), whose commit went unheard (`again`), that a process dropped (`lost`),
and prices while two processes overlap (`together`).  `RawSegments` follows one
segment from file to object: the object's path depends on the segment only and
uploads overwrite, so a message after the close, or a restarted process,
replaces the object (`late`, `restarted`).  One upload runs at a time, of the path at
the head of the queue; `ahead` says what stands before this one's: nothing, paths that
will be uploaded, or one that is stuck (a file that the storage refuses, or that was
removed while its path waited) and stops all behind it.  A process that is told to end
closes all its segments and uploads path after path until one fails; then it ends, and
no other looks for the files (`left = "queued"`).  An error of the final flush of the
aggregates comes even before the handles are closed (`left = "open"`).
`BroadStore` follows observations of one symbol and one detection; a *failed* flush may
put an older row back (`overwritten`).  `Shutdown` cancels the flush and the scanner
wherever they are: rows that were taken are lost but for those in a thread, which runs
on unheard (`orphan`), the detection is `cancelled`, and one last flush follows
(`ending`), or none after an error of the aggregates'.

`OrderBook` is the copy of one market's book.  It lives in the collector and
survives its connection; each connection begins with a whole book.  Prices are
kept, sizes are not.  A trim keeps twice the depth, and a level it drops is not
sent again unless it changes: `TopShown` therefore speaks of tops that lie within
`known`.  A venue is assumed to report every change of a level that it has shown
(a venue that silently drops levels beyond the subscribed depth is not covered),
and a partial book to be the best levels at the time it was sent.

`FuturesIngest` has a thread in each process and nothing else that would exclude
two.  Sessions are not fetched any more once there are enough of them (forty in the
code, `Enough`).  The status is that of whoever writes last; a thread that failed
is not started again before its process is; a failure that could not be reported
leaves `running`.  The `ifv1_*` functions are external.

### The research lanes and the code

`OptionEvents` has both lanes on one queue: the main loop claims and concludes in
transactions, the HTTP lane with one request after the other.  The run is
recomputed after each event; a count written late, or lost, misreports it
(`misreported`), and an event whose attempts are used up while it waits, or whose
run was closed from stale counts, is left (`Stranded`).
`ExecutionRun` rests for good (`Wedged`) when its last month failed, when a worker
was lost between a completion and the advance, or when the analysis has failed.
The advance is a read and a later write and may relabel a newer stage.
`QuoteDays` has threads that end when an error of their queue reaches them; only
slot zero of one lane takes lost days back, and only days of its own kind
(`Stranded` again).  `Provenance` is about the day's checksum and the prices; the source
label of a snapshot row is not reliable, since the bookticker lane keeps the label of a
row it overwrites.
`EquityReference` is right when days are written once and in order; `disordered`
records that they were not, which a lost worker is enough for.  A refusal that
comes late, or a claim after one, opens the run again (`Reopened`).

### The workers that hold something and the code

`RemediationLease` has the four database functions and a worker whose every call
may be refused, lost before or after it is carried out, or carried out after the
worker has given it up.  Tokens are attempt numbers.  A process that has come to its
ceiling of batches or requests claims no more (`Retired`); the model lets it come to
one after any batch, and when all have, what is left waits for a new process
(`AllRetired`).  `SourceSupervisor` writes
each file of an attempt in a step of its own, makes each call to the server through
a helper that may survive it, and recovers from the files; it leaves the
reservation to an operator in the ways that `Wedged` lists.  One of them is an attempt
whose child was launched and left a journal, but whose process is not on record:
recovery takes the journal for a proof, the reconciliation that follows a lost answer
does not (`Unproved`), and fails at every start.
`MissionSegments` has two hosts and one reservation; a child restores, works,
commits a snapshot and leaves a receipt, and the commit may be carried out late.
After a lost acknowledgement one segment is lost.  An attempt without identity or
terminal file, or whose terminal file names no process because its child could not be
identified, or on a host that has gone, stays reserved (`Stuck`); a host whose
own prepared snapshot rests on a base the server has left fails every segment
(`Conflict`).  `QuantileLedger` takes the inside of a fit stage: ledger commit,
then checkpoint, so that a session may be replayed; then finalisation field by
field, compaction, and the removal of the shards.  Its yields come after a session's
checkpoint or a field, or when the budget is over; that such a yield has made
progress is not checked.  SQLite's commit over several files is taken to be atomic.
`SignalMonitor` has two overlapping monitors.  Evaluation and signal are two
transactions and an evaluation is not repeated: a crash between them loses the
day's signal (`lost`).  A missing minute holds up the later boundaries of its day,
the times a capture claims are those of the tick's start, and a late monitor may
turn a captured entry into a missed one.

## Runs

| Run | Instance | Shows |
|---|---|---|
| `queue_safety` | one main loop, one urgent lane, a partition of two pages that either may claim and an empty one, 3 disturbances | the safety invariants and that the queue implements the ledger |
| `queue_liveness` | two main loops, one urgent lane, a two-page partition that is not token-paged, 2 disturbances, fair | `ClaimsEnd`: every claim is resolved and a pause takes hold; `QueueDrains` |
| `queue_reopened` | two main loops, 2 disturbances | **violation**: the hardening layer does reopen a completed partition |
| `stages_safety` | two processes, all five commands, 2 disturbances | only the operator or a mining transaction releases a hold; `ready` is entered settled; aggregates are planned over owed ticks only where a command overtook the check |
| `stages_liveness` | two processes, crashes and pauses, 2 disturbances, fair | runs finish, checked for this completion, and owe nothing; or are held, or prevented in a named way |
| `stages_gate` | two processes, retry-failed once, fair | **violation**: a second completion of a ready run is never quality-checked |
| `stages_cancel` | two processes, one cancel | **violation**: a stage planner overwrites a cancel |
| `b001_queue` | two workers, one symbol with one archive, 2 attempts, 2 disturbances | one owner, verdicts backed by archives, gaps closed, no unnamed standstill |
| `crypto_stream` | two processes, 2 trades, 3 messages, 3 observations, 2 contracts over 2 days, books of 4 prices, 2 disturbances | counts, prices, books, segments, evidence, bars, and that all of it arrives |
| `stream_handoff` | two processes, no disturbance | **violation**: both read the feeds during a handoff |
| `research_lanes` | B-001 analysis with two robustness variants; two events; two months; three days in three lanes; three sessions; 1 to 3 disturbances | what each lane promises, and that it ends or rests in a named way |
| `workers` | two workers on a batch; two cycles of the supervisor; two hosts, two units, eight attempts; a stage of two sessions, two fields, two shards; two monitors, two boundaries; 1 to 3 disturbances | leases, reservations, segments, ledgers and signals, and that each ends or rests in a named way |

Some properties are conjunctions of what a component says in its module: `ClaimsEnd`
(claims resolve; a pause drains), `StoresFaithful` (newest price and
observation, whole evidence, order book), `IngestCovers`,
`EvidenceVouched` (marks, verdict, export, completed runs), `RunsTruthful` (option
and execution runs), `SourcesFaithful` (quote days and reference intervals),
`ReservationKept` (released idle, traceable, sent once), `SegmentsSettled`,
`LedgerExact` (exact, never refused), `SignalFaithful`.  The conjuncts stand in the
modules with comments of their own.

The violation runs check statements of the code's own comments, docstrings and
dialogs; the `findings` of `PROJECT.json` quote them.

**Bounds.**  `MaxDisturbances` and its kin bound faults and operator commands in
one behaviour together; the actions of the normal course are not bounded by it.
The hazards need a stall and a reclaim followed by a command or a second fault:
two or three disturbances and two workers reach every pair of writers on a row; a
third worker adds another of the same.

- *Queue.*  A worker with two pages can be overtaken before, between and after
  them, and a page without rows separates the cursor from the row count.
  `MaxAttempts = 2` has both a retried and a final failure.  The proofs remove all
  of these bounds for the safety properties.
- *Stages.*  Two disturbances allow a command and the one that takes it back, or a crash
  and a command inside one advance; in `stages_liveness`, two of crash and pause.
- *Stream.*  Two trades can be parted by a flush; three messages by a close and an
  upload; three observations by two flushes.  `Depth = 1` makes four levels overfull:
  four prices are enough to trim, to delete what the trim kept, and to let a level it
  dropped come to the top.  `MaxInFlight = 1` message lets the venue move before the
  handler.
- *Futures.*  Two contracts and two days leave a hole behind or before a bar, and
  `Enough = 1` stops the sessions early, as forty does.
- *Workers.*  `LastAttempt = 8` attempts of the mission are more than two units
  and two disturbances use, unless a host is in conflict, which fails
  attempts without end; `Spare` of them are kept from it so that the
  bound itself never starves the other host.  `MaxCycles = 2` puts a recovery beside a
  fresh cycle.  `Hold = 3` is longer than the tolerance windows of
  the monitor, as it is in the code by far: entry and exit windows that overlapped
  would violate `CompleteCoherent`.  `MaxCallTries`, `LongestTick`, `Spacing` and
  `Lead` are smallest values that leave the order of events open.  Two disturbances of
  the lease lose an answer and delay another call, or end a process meanwhile; the proofs
  have no such bound.

`CHECK_DEADLOCK FALSE` where the system may stop: a cancelled run, a completed one,
partitions that are all terminal, a store with nothing to receive.  `RunStages`
never stops, its loops idle.

**Fairness.**  A worker's loop is weakly fair: `main` loops for as long as the
process lives, and a killed service is restarted by its host.  Errors, faults,
commands, messages, the stall of a living worker and the cron job are never assumed
to happen.  Beyond that:

- *Queue and stages*: `BackoffElapses`, and `GoStale` for a row nobody works on, are
  the passing of time; `ReclaimStale` is tried every 60 seconds, and in `RunStages`,
  where a loop is at its top again and again but not continuously, it is strongly
  fair.  B-001's exclusive mode, which skips the collection lane while it has work,
  and the REST-only mode are taken to be off.
- *Stream*: the flush loop is weakly fair.  The broad store's scanner is strongly fair:
  it waits for an `asyncio.Lock`, which serves in order, and the lock is free again and
  again.
- *Research lanes*: the work of each process; the lapse of claims that nobody holds;
  a reclaim is strongly fair because it precedes the claim in the loop of its lane.
- *Workers*: lapse of a lease whose holder has gone; a call to the server is over
  within its timeout and allowance; `ChildEnds` of the supervisor is strongly fair since
  the child's budget ends it between two statements, where it is again and again.

**Premises.**  `QueueDrains` speaks of runs that are left live in the end.
The pause part of `ClaimsEnd` is about main loops: the urgent lane does not look at
the run.  `CompletedOwesNothing` is checked for pauses and crashes, and proved for all
commands that find nothing to change in partitions or stage: counts that were taken
before a requeue do complete a run that owes work.  `AggregatesFollowTicks` is checked and
proved under every command; it speaks of the planning of aggregates, since a tick that is
requeued after it (retried, enhanced, or cancelled by a cancel that mining then undoes)
is owed behind its aggregate, and nothing in the code re-aggregates.  `RunFinishes`
excludes by name the behaviour
`SentBackForever`, in which two processes undo each other's stage for ever; it
exists, and needs an unlucky alternation without end.  It also excludes the quality check
that was overtaken and left a run completed with another status in its gate
(`QualityOvertaken`); TLC finds both when they are not excluded.  The properties of
`B001Queue` are about runs in which no held lock lapsed.  The engine inside
`QuantileLedger` is external: it names the stage before its first session and saves a
checkpoint after each session.  That two stream processes, two monitors or two
mission hosts overlap is what a deployment does.

## Proofs

`PartitionQueueProofs` proves for every set of partitions and workers, all page
counts and any number of disturbances, under `QueueAssumption` (disjoint worker
kinds, null values outside, data pages within the pages):

- `InvariantHolds`: `Spec => []IInv`.  `IInv` is `RunOK /\ RowsOK /\ JobsOK /\
  CancelledRunIsIdle`: a run, rows and workers' copies that are well typed and
  each true of `stored`.
- `TypeCorrect`, `CheckpointsDurable`, `CompletionsTruthful`, `CountsStored`,
  `OwnersWhileRunning`, `CancelledRunsIdle`: the invariants of `queue_safety`.

The safety properties are not inductive by themselves.  `CompletionTruthful`
fails to be because of a worker at `finish` that holds no claim any more: what
it declares must already be true.  `JobsOK` says so: a worker at `finish` or
`empty` knows all data pages stored, whoever owns the row.  And
`CheckpointDurable` needs the workers' copies beside the rows, since a copy is
written over a row without being compared with it.  The reason all of it holds
although no write is fenced is that `stored` only grows: a stale copy stays true.
Each action has its lemma; `NextPreserves` splits `Next` into them.

`PartitionQueueRefinement` proves `QueueImplementsLedger`, `Spec =>
ImplementsLedger`, from the same invariant: `SavePage` is a `Store` when its page
is new, `Complete` a `Declare`, a late retry, reset or cancel a `Withdraw` of the
rows it takes back, and the rest stutters.  `LedgerKeepsPromise` then
gives what the reader relies on, from the ledger alone.

`RunStagesProofs` proves, for every set of processes, partitions and commands,
`HoldsKept` and `ReadySettled` (step by step: planning and completion go through
guards or through the status computation that keeps a hold; every way into
`ready` goes through the trigger), and `StagesTypeCorrect` from the invariant
`TInv`, which adds to the types what each program counter implies of a process.

`AggregatesLast` (`AggregatesFollowTicks`) is a matter of steps too: two mining processes
never hold the lock together (`OneMiner`), the check of a mining process finds no tick
owed, and a tick comes to be owed again only by a command that requeues it, or by a worker
that puts back what a command took out of its hands; ticks are inserted by mining
processes alone, under that lock.  `OwingOvertaken` is the
same question of a completed run: it names the two kinds of step, counts overtaken before
they were written and a planner on a run in `ready`, by which alone it comes to owe work.

Without such commands it owes nothing at all.  `NothingOwed` (`CompletedOwesNothing`)
holds up to the first command that changes a partition or the stage
(`Spec /\ [][HandsOff]_vars`: a pause is allowed, a resume or retry of a run that has
nothing to requeue, a cancel of one that has nothing waiting), and follows from
`LayersInvariant`.  The stage of the run is no measure of its progress, since a process
that read it long ago takes it back to planning while another mines it on.  What is
invariant is in the rows: `Reached(stage)` says that everything behind a stage is over
and that all it gave cause to plan is planned, so that nothing there can become active
again (`ReachedStays`); it holds of the run's stage and, beside it, of the stage that
each mining process has read.  `RowsMove` says once how any step may move a row, and the
layers are shown to last under it.  It also shows that the status plays no part: in
`ready` nothing is owed, whatever a last worker's stale counts have written.

`B001QueueProofs` proves, for every set of workers, symbols and archives,
`QueueInvariant` and from it `TypeCorrect`, `OneOwner`, `VerdictsBacked` and
`GapsClosed`.  The invariant `IInv` is `TypeOK /\ Holding` (who works, completes or
post-processes has an item in hand) and, unless a held lock has lapsed, `ItemOK` of
every item: `Owns`, the status in which a holder may meet its item and what it is
about to report; `Backed`, `Contiguous` and `Unique`, the properties themselves.
`OneOwner` is not inductive because completions and failures write by id: a worker
keeps its item in hand through post-processing, after its status has left `running`,
and that no claim can take it there needs `Owns`, by which an item in hand is never
waiting.  An action of one worker leaves the items of the others undisturbed
(`Undisturbed`), which is stated once and used by the lemma for a worker's step and
the one for reclaim and commands.

`NeverStranded` (`NotStranded`) follows from `CourseInvariant`.  Nothing asks for the
next stage but a worker that has finished an item, from one reading of the counts, in two
further steps; so the invariant names, for every state of an open run without active
work, a worker that is on its way (`Heading`): it has yet to read the counts, or has read
that a stage is due which nobody has planned since, or is at the second look of a run
without signals.  A slower worker cannot disturb it, unless it writes an older stage over
it, which is one of the holes (`WriteGoesOn`).  That a decision is always the next
unplanned stage (`DecisionGoesOn`) needs that the analysis of an open run is never
finished (`FullOwed`): the verdict ends the run before its item is reported.

`StreamCollectorProofs` proves, for every finite set of processes and any number of
trades and disturbances, `SecondsInvariant` and `TradesCountedOnce`, the property
`CountedOnce`.  A counter of copies is not inductive: what is, is
where a trade can be.  `Once` says of a trade that one process received, and none of
whose commits went unheard, that it is in one place of one process (the bucket, the
rows of the flush, or those of a cancelled flush) and not counted, or nowhere and
counted once at most; `Ahead`, that a trade not yet sent is nowhere.  Every step is
then a move between the places of a process, a commit out of one, or the reception of
a new trade, and each kind has its lemma.  `CapturingFinite` is why
`CollectorAssumption` asks for finitely many processes: a trade is shared when more
than one captures.

`NewestPrice` says of the same second that its stored price is that of its newest
stored trade.  Newest is not inductive: a flush that failed puts its rows back behind
what was received since.  What is, is that the places of a process are ordered
(`Ordered`: orphan before rows before bucket, and the table before what is still to
come) as long as one process at a time writes the second; a handoff in which the old
process was ending when the new one began is covered by `Ending`.

`CryptoStreamProofs` takes the stores of the stream and of the ingestion together, as
`MCCryptoStream` composes them, under `StoreBounds`: numbers are numbers, prices are
finitely many, and the null value is neither a number nor a set of messages.  `OneStore`
is the reason that each store can be proved alone.  It proves the four invariants of
the run `crypto_stream` that are about them:

- `SegmentsKept` (`RawKept`).  An upload reads a file that is closed and will not grow,
  and removes it only when all of it is in the object (`Kept`).
- `IngestCovered` (`IngestCovers`).  No thread knows of another; the proof works because
  nothing that is stored goes away (`Grows`), so that what a thread knows to be behind it
  (`Knows`) stays true while others insert, and because an insert that was given up still
  finds the bars before it when it happens late (`MayStore`).  `ResumesBehindLast` is
  where contiguity is used: the thread goes on behind the last bar and must not jump
  over a hole.
- `StoresShowReceived` (`StoresFaithful`): the newest prices, from `NewestPrice`'s
  invariant; the broad observations, from `BroadIInv`: an observation is in the buffer,
  in one flush's hands or in the ring (`Places`), one flush works at a time (`Serial`),
  and what the scanner's flush took reaches the ring before its snapshot is made
  (`Evidence`); and the order books, from `BooksIInv`.  The last has a history as its
  witness: if messages are on their way, there are books `v[0] .. v[n]` of the venue
  (`History`) such that the copy follows the first, each message tells the step from one
  to the next, and the last is the venue's now.  Receiving a message drops the first,
  a change at the venue adds one.  `Follows` is weaker than equality because the copy is
  trimmed: it has no level that the venue has not, and none is missing where the copy
  still knows (`known`).  `TopShown` then needs that the best levels of a part are the
  best of the whole when the part contains them (`BestOfPart`), which is counting.
- `StoresAreTyped` (`StoresTyped`).

`ResearchLanesProofs` proves `LanesInvariant`, `EvidenceStaysVouched`,
`RunsStayTruthful`, `SourcesStayFaithful` and `LanesStayTyped` of `LanesSpec`, under
`LaneBounds`: events and months are finite sets, there is a session, and the kinds of
workers and days that the code tells apart are disjoint.  `LanesIInv` is the conjunction
of five invariants, each kept by the steps of its own part; `LanesStep` puts them
together, since the parts share only a counter.

- `AnalysisIInv`.  `EvidenceVouched` is about rows and marks; what keeps it is what the
  worker remembers.  `Sound` says of any set of marks, those of the item and those the
  worker has read or set, that all they vouch for is stored, and that a placebo is never
  marked before `falsification_initialized`, the mark that keeps its rows from being
  deleted again; `Remembers`, that the phases behind the worker left their rows, however
  often the item was taken over in the meantime.
- `OptionIInv`.  Counting and writing are two steps, so the counts a worker holds say
  nothing of the events when they are written.  What is invariant is `Told`: the run is as
  its events are, or one of them is open again, or a write was told wrong
  (`misreported`).  The counting itself is `CountsAre`: open, completed and failed events
  are disjoint and add up.
- `ExecutionIInv`.  A month that is completed or missing has what it was completed from
  (`Grounded`), for good; one worker to an item (`Orderly`) holds until an item is taken
  back from a live worker (`lapsed`), and only the verdict on failed months needs it.
- `QuotesIInv`.  Two providers write the same snapshots, so that the checksum of a
  completed day may describe the other's archive; that it does not needs that one thread
  at a time is at work on a day (`Sole`), unless a day was taken back from a live one.
- `ReferenceIInv`.  While the sessions are written in order, the last event up to a day
  says what the provider said of it, and the scope row is as the last session left it
  (`Historic`).  A difference was computed from an older scope row: it is still right when
  no session was written since (`Compared`, where `basis` is what had been).
  `NextDayWritten` is the step, and `FoldedFaithful` says that intervals folded from such
  events give back the snapshots: of the events up to a day only the last one covers it.

`WorkersProofs` proves what the workers promise, under `LeaseAssumption` and
`WorkerBounds`: the numbers are numbers, the monitors finitely many, the spare attempts
are among the attempts, and a session's value is none of the words for having none.
First the lease protocol by itself (`LeaseInvariant`, `LeaseTypeCorrect`,
`EveryAttemptAccounted`, `ResultsOfLastAttempt`), then all five workers as `MCWorkers`
puts them together.  A step of one leaves the variables of the others alone
(`OneAtATime`), so that the five inductive invariants are proved one by one and hold next
to one another (`WorkersInvariant`, `WatchInvariant`):

- `IInv`, of the lease.  A running batch's token is its attempt number, and whatever a
  worker carries, or a stray call still holds, belongs to the attempt it was leased for,
  which is at most that number: a late commit either has the token or is refused.
- `SupervisorIInv`, for `ReservationsKept` (`ReservationKept`).  A supervisor knows
  neither whether its helper still lives nor what the server has done: the invariant says
  what the files prove.  `FilesOK`: an attempt that the server has settled has that
  request on disk, and a request is only there when the child and its statement are gone.
  `ControlOK`: a call of the control directory is of the cycle that has no attempt yet,
  and its answer, once carried, says truly whether the reservation is held, whoever still
  hears it.  `CallOK`: a terminal call was written off before it was sent (`tried`), which
  is why it is not sent again.  `PlaceOK` and `HeardOK` tie the program counter to both.
- `MissionIInv`, for `SegmentsSettledInTime` (`SegmentsSettled`) and the action property
  `SnapshotOnlyGrows` (`SnapshotExtends`).  Until its commit is sent, a child works on the
  snapshot that the server still has (`Unmoved`), since one attempt is reserved at a time
  and nothing of it runs when it is settled (`Rests`).  A commit that comes late is based
  on the snapshot it replaces, and what is based on a snapshot extends it (`Adds`).
- `LedgerIInv`, for `LedgersExact` (`LedgerExact`).  The files may be one session ahead of
  the checkpoint, or finalized before it says so: `Sound` and `Ready` are the files that a
  segment can go on with, `SegmentOK` says for each step of a segment what its files are,
  and `Fits` which of output, seal and prepared snapshot can be trusted after a stop.
  Exactness is then kept because a session that was counted already is replayed and not
  added.
- `SignalIInv`, for `SignalsFaithful` (`SignalFaithful`).  Boundaries are evaluated in
  order, so a tail entry with none before it is the first (`EvaluationsOK`, `SourceOK`);
  a monitor's copy of the row may be old but what it is about to write is still right
  (`CopyOK`).  For that a tick must be over before the exit of an entry that it captures
  (`Patient`, `Hold > LongestTick + 1`): it is the theorem's premise, and in the code an
  exit is ninety minutes after its entry (`HOLD_MINUTES`).

`WorkersTypeCorrect` (`WorkersTyped`) puts the types together, under the same premise.

Every invariant and action property of the passing runs is stated by a theorem.  Only
model-checked: liveness (`ClaimsEnd`, `QueueDrains`, `RunFinishes`, `StreamEnds`,
`LanesEnd`, `WorkersEnd`), since TLAPS does not prove ENABLED or fairness, and the
expected violations.  No module uses RECURSIVE operators.

## Not modelled

- *Numeric code*: window detectors and admission, enrichment and one-minute
  aggregation, the multi-venue detector's confirmation, B-001 features and tests,
  option prices, XAL-006 returns, cluster inference.  Its results are floating point;
  the models keep whether they exist and what they were computed from.
- *Pure window and chunking algorithms* of `capture.py` and `jobs.py`: not reached.
- *I/O*: parsing of payloads, HTTP retries, pages, authentication, object storage
  beyond overwrite and failure, host preparation and hashes of EQ20.
- *SQL lanes*: the research hub and the crypto studies of the later migrations with
  their one-way holdout, the SQL changes under `remediation/`.
- *Lanes of the same kind as one that is modelled*: scenario 10, the psycopg futures
  ingestion that the HTTP one replaces, forward and warm-up ingestions, and the REST
  lane of the equity reference (`app/equity_reference_backfill_parallel.py`), whose
  claims, comparisons and order of days are database functions outside the repository.
- *`eq20_runner_orchestrator`, evidence bindings and certificates.*

`components` in `PROJECT.json` says for each part what is left out.

## Open ends

The window algorithms against reference definitions over bounded inputs; the research
hub's holdout; what becomes of a run that `OwingIsOvertaken` leaves completed with
work owed.
