----------------------------- MODULE B001Queue -----------------------------
(***************************************************************************)
(* One locked B-001 replication run (app/b001_replication.py as patched by *)
(* b001_runtime, the *_hardening modules and b001_analysis_resilience):    *)
(* the durable work items of eight stages and the workers that claim,      *)
(* carry out, complete, post-process and advance them.  The final analysis *)
(* is one step here; B001Analysis takes it apart.                          *)
(*                                                                         *)
(* A worker is one slot of a worker process.  Prices and signals are       *)
(* abstracted to what later steps can tell apart: whether the bars of an   *)
(* archive are stored, whether the features of a symbol still bridge gaps, *)
(* whether there is any signal.                                            *)
(***************************************************************************)
EXTENDS Naturals, FiniteSets

CONSTANTS Workers, Symbols, Archives,
          SymbolOf,         \* the symbol an archive file belongs to
          Daily,            \* archives that only the daily listing knows
          MaxAttempts,      \* crypto_b001_replication_work_items.max_attempts
          MaxDisturbances,  \* bound on faults, bad archives and operator commands
          None

ASSUME B001Assumption ==
  /\ SymbolOf \in [Archives -> Symbols]
  /\ Daily \subseteq Archives
  /\ MaxAttempts \in Nat \ {0}
  /\ MaxDisturbances \in Nat

VARIABLES run,        \* crypto_b001_replication_runs: status and stage
          item,       \* crypto_b001_replication_work_items
          archive,    \* crypto_b001_replication_archive_files.source_status
          verified,   \* archives whose published checksum was compared
          bars,       \* archives whose 15-minute rows are stored
          features,   \* crypto_b001_replication_features, by symbol
          signals,    \* crypto_b001_replication_signals
          job,        \* what each worker is doing
          unheard,    \* history: an advance was lost, or undone by a slower one
          lapsed,     \* history: a held lock went stale under its holder
          reopened,   \* history: failed work was retried, or an ended run put back to running
          disturbances

history == <<unheard, lapsed, reopened, disturbances>>
research == <<archive, verified, bars, features, signals>>
vars == <<run, item, research, job, history>>
-----------------------------------------------------------------------------
Root    == <<"discover_archives", "root">>
Symbol(s)  == <<"discover_symbol", s>>
Spot(a)    == <<"spot_month", a>>
Derive(s)  == <<"derive_features", s>>
Market  == <<"market_state", "months">>
Signals == <<"signals", "months">>
Short   == <<"shortability", "pairs">>
Full    == <<"analysis", "full">>

Items == {Root, Market, Signals, Short, Full}
           \cup {Symbol(s) : s \in Symbols} \cup {Derive(s) : s \in Symbols}
           \cup {Spot(a) : a \in Archives}

\* An idle worker's item is no item.
ASSUME NoneAssumption == None \notin Items

StageOf(i) == i[1]
InStage(st) == {i \in Items : StageOf(i) = st}
Rank == [discover_archives |-> 1, discover_symbol |-> 2, spot_month |-> 3,
         derive_features |-> 4, market_state |-> 5, signals |-> 6,
         shortability |-> 7, analysis |-> 8]

WaitingStatus == {"queued", "retry_wait"}
ActiveStatus  == WaitingStatus \cup {"running"}
WorkStatus    == {"absent", "completed", "missing", "failed", "cancelled"} \cup ActiveStatus
OpenRunStatus == {"queued", "running"}
\* The statuses advance_b001_run returns on.
HaltedStatus  == {"paused", "cancelled", "failed", "completed"}
RunStatus     == OpenRunStatus \cup HaltedStatus \cup {"completed_with_errors"}
RunStages     == {"archive_discovery", "historical_1m_backfill", "feature_reconstruction",
                  "market_state", "frozen_signal_generation", "shortability",
                  "replication_analysis", "completed"}

Order == [archive_discovery |-> 1, historical_1m_backfill |-> 2, feature_reconstruction |-> 3,
          market_state |-> 4, frozen_signal_generation |-> 5, shortability |-> 6,
          replication_analysis |-> 7, completed |-> 8]
Plans == {"none", "archive_discovery", "historical_1m_backfill", "derive_features",
          "market_state", "signals", "shortability", "analysis"}
Idle == [pc |-> "idle", item |-> None, attempts |-> 0, verdict |-> "completed",
         plan |-> "none"]

Init ==
  /\ run = [status |-> "queued", stage |-> "archive_discovery"]
  /\ item = [i \in Items |-> [status |-> IF i = Root THEN "queued" ELSE "absent",
                              attempts |-> 0]]
  /\ archive = [a \in Archives |-> "absent"]
  /\ verified = {} /\ bars = {}
  /\ features = [s \in Symbols |-> "none"]
  /\ signals = "none"
  /\ job = [w \in Workers |-> Idle]
  /\ unheard = FALSE /\ lapsed = FALSE /\ reopened = FALSE
  /\ disturbances = 0

At(w, pc, st) == job[w].pc = pc /\ job[w].item \in InStage(st)
Goes(w, pc) == job' = [job EXCEPT ![w].pc = pc]
Disturb == disturbances < MaxDisturbances /\ disturbances' = disturbances + 1

\* insert ... on conflict do nothing
Inserted(rows) == [i \in Items |-> IF i \in rows /\ item[i].status = "absent"
                                   THEN [item[i] EXCEPT !.status = "queued"] ELSE item[i]]
-----------------------------------------------------------------------------
\* Variant: running items are claimed as well.
ClaimRunning(w, i) ==
  /\ job[w].pc = "idle"
  /\ item[i].status \in ActiveStatus /\ run.status \in OpenRunStatus
  /\ item' = [item EXCEPT ![i] = [status |-> "running", attempts |-> @.attempts + 1]]
  /\ run' = [run EXCEPT !.status = "running"]
  /\ job' = [job EXCEPT ![w] = [Idle EXCEPT !.pc = "work", !.item = i,
                                  !.attempts = item[i].attempts + 1]]
  /\ UNCHANGED <<research, history>>

(* claim_b001_work takes the earliest stage first.  A retry_wait item may   *)
(* still be inside its delay, so only queued items are sure to be preferred.*)
Claim(w, i) ==
  /\ job[w].pc = "idle"
  /\ item[i].status \in WaitingStatus /\ run.status \in OpenRunStatus
  /\ \A j \in Items : item[j].status = "queued" => Rank[StageOf(j)] >= Rank[StageOf(i)]
  /\ item' = [item EXCEPT ![i] = [status |-> "running", attempts |-> @.attempts + 1]]
  /\ run' = [run EXCEPT !.status = "running"]
  /\ job' = [job EXCEPT ![w] = [Idle EXCEPT !.pc = "work", !.item = i,
                                  !.attempts = item[i].attempts + 1]]
  /\ UNCHANGED <<research, history>>

DiscoverArchives(w) ==
  /\ At(w, "work", "discover_archives")
  /\ item' = Inserted({Symbol(s) : s \in Symbols})
  /\ Goes(w, "complete")
  /\ UNCHANGED <<run, research, history>>

\* The archive rows and the spot_month items are inserted in one transaction.
PlanArchives(w, found, next) ==
  /\ item' = Inserted({Spot(a) : a \in found})
  /\ archive' = [a \in Archives |-> IF a \in found /\ archive[a] = "absent"
                                    THEN "planned" ELSE archive[a]]
  /\ Goes(w, next)
  /\ UNCHANGED <<run, verified, bars, features, signals, history>>

Listed(w, daily) == {a \in Archives : SymbolOf[a] = job[w].item[2] /\ (a \in Daily <=> daily)}

DiscoverSymbol(w) ==
  At(w, "work", "discover_symbol") /\ PlanArchives(w, Listed(w, FALSE), "complete")

\* The archive is gone (404).
FetchMissing(w) ==
  /\ At(w, "work", "spot_month") /\ Disturb
  /\ archive' = [archive EXCEPT ![job[w].item[2]] = "missing"]
  /\ job' = [job EXCEPT ![w].pc = "complete", ![w].verdict = "missing"]
  /\ UNCHANGED <<run, item, bars, verified, features, signals, unheard, lapsed, reopened>>

\* Bars and archive row in one transaction.  (An archive without one complete
\* 15-minute bar in the window is left out.)
Loaded(w, checked) ==
  LET a == job[w].item[2] IN
  /\ At(w, "work", "spot_month")
  /\ archive' = [archive EXCEPT ![a] = "loaded"]
  /\ bars' = bars \cup {a}
  /\ verified' = IF checked THEN verified \cup {a} ELSE verified \ {a}
  /\ Goes(w, "complete")
  /\ UNCHANGED <<run, item, features, signals, unheard, lapsed, reopened>>

\* A mismatch raises, but an archive without a published checksum is loaded.
LoadCanonical(w) ==
  \/ Loaded(w, TRUE) /\ UNCHANGED disturbances
  \/ Loaded(w, FALSE) /\ Disturb

\* The loader of a forward holdout run insists on the checksum.
LoadForward(w) == Loaded(w, TRUE) /\ UNCHANGED disturbances

LoadArchive(w) == FetchMissing(w) \/ LoadCanonical(w) \/ LoadForward(w)

\* The exact discovery formulas: lags reach across missing bars.
DeriveFeatures(w) ==
  /\ At(w, "work", "derive_features")
  /\ features' = [features EXCEPT ![job[w].item[2]] = "raw"]
  /\ Goes(w, "complete")
  /\ UNCHANGED <<run, item, archive, verified, bars, signals, history>>

MaterializeMarketState(w) ==
  /\ At(w, "work", "market_state")
  /\ Goes(w, "complete")
  /\ UNCHANGED <<run, item, research, history>>

GenerateSignals(w) ==
  /\ At(w, "work", "signals")
  /\ signals' \in {"zero", "some"}
  /\ Goes(w, "complete")
  /\ UNCHANGED <<run, item, archive, verified, bars, features, history>>

CheckShortability(w) ==
  /\ At(w, "work", "shortability")
  /\ Goes(w, "complete")
  /\ UNCHANGED <<run, item, research, history>>
-----------------------------------------------------------------------------
\* The verdict is written whatever the run's status is by then.
RunAnalysis(w) ==
  /\ At(w, "work", "analysis")
  /\ \E qaPassed \in BOOLEAN :
       run' = [status |-> IF qaPassed THEN "completed" ELSE "completed_with_errors",
               stage |-> "completed"]
  /\ Goes(w, "complete")
  /\ UNCHANGED <<item, research, history>>
-----------------------------------------------------------------------------
Verified(a) == archive[a] = "loaded" /\ a \in verified
\* The work that runs after the item has been reported complete.
PostStages == {"discover_symbol", "derive_features", "signals"}

\* Variant: the completion without the verification of the archive.
CompleteUnverified(w) ==
  LET i == job[w].item IN
  /\ job[w].pc = "complete"
  /\ item' = [item EXCEPT ![i].status = job[w].verdict]
  /\ Goes(w, IF StageOf(i) \in PostStages THEN "post" ELSE "advance")
  /\ UNCHANGED <<run, research, history>>

\* _complete writes by id.
Complete(w) ==
  LET i == job[w].item IN
  /\ job[w].pc = "complete"
  /\ StageOf(i) = "spot_month" /\ job[w].verdict = "completed" => Verified(i[2])
  /\ item' = [item EXCEPT ![i].status = job[w].verdict]
  /\ Goes(w, IF StageOf(i) \in PostStages THEN "post" ELSE "advance")
  /\ UNCHANGED <<run, archive, verified, bars, features, signals, history>>

SupplementDaily(w) ==
  At(w, "post", "discover_symbol") /\ PlanArchives(w, Listed(w, TRUE), "advance")

\* Variant: a finished symbol is left as it is.
InvalidateOnlyUnfinished(w) ==
  LET s == job[w].item[2] IN
  /\ At(w, "post", "derive_features")
  /\ features' = [features EXCEPT ![s] =
                    IF item[Derive(s)].status = "running" THEN "contiguous" ELSE @]
  /\ Goes(w, "advance")
  /\ UNCHANGED <<run, item, archive, verified, bars, signals, history>>

\* Lagged features that cross a gap become null.
InvalidateGaps(w) ==
  LET s == job[w].item[2] IN
  /\ At(w, "post", "derive_features")
  /\ features' = [features EXCEPT ![s] = IF @ = "raw" THEN "contiguous" ELSE @]
  /\ Goes(w, "advance")
  /\ UNCHANGED <<run, item, archive, verified, bars, signals, history>>

\* Signals whose exit lies beyond the window are deleted, perhaps all of them.
TrimSignals(w) ==
  /\ At(w, "post", "signals")
  /\ signals' \in IF signals = "some" THEN {"some", "zero"} ELSE {signals}
  /\ Goes(w, "advance")
  /\ UNCHANGED <<run, item, archive, verified, bars, features, history>>
-----------------------------------------------------------------------------
Planned(st) == \E i \in InStage(st) : item[i].status # "absent"
Active(st)  == \E i \in InStage(st) : item[i].status \in ActiveStatus

\* The stage advance_b001_run decides on from one reading of the counts.
Decision ==
  IF Active("discover_archives") \/ Active("discover_symbol") THEN "archive_discovery"
  ELSE IF Active("spot_month") THEN "historical_1m_backfill"
  ELSE IF ~Planned("spot_month") THEN "none"
  ELSE IF ~Planned("derive_features") THEN "derive_features"
  ELSE IF Active("derive_features") THEN "none"
  ELSE IF ~Planned("market_state") THEN "market_state"
  ELSE IF Active("market_state") THEN "none"
  ELSE IF ~Planned("signals") THEN "signals"
  ELSE IF Active("signals") THEN "none"
  ELSE IF ~Planned("shortability") THEN "shortability"
  ELSE IF Active("shortability") THEN "none"
  ELSE IF ~Planned("analysis") THEN "analysis"
  ELSE "none"

\* A run that is paused or finished is not advanced, and nobody asks again.
AdvanceRead(w) ==
  /\ job[w].pc = "advance"
  /\ \/ /\ run.status \in HaltedStatus
        /\ job' = [job EXCEPT ![w] = Idle]
        /\ unheard' = (unheard \/ run.status = "paused")
     \/ /\ run.status \notin HaltedStatus
        /\ job' = [job EXCEPT ![w].pc = "plan", ![w].plan = Decision]
        /\ UNCHANGED unheard
  /\ UNCHANGED <<run, item, research, lapsed, reopened, disturbances>>

PlannedRows(p) ==
  CASE p = "derive_features" -> {Derive(s) : s \in {SymbolOf[a] : a \in bars}}
    [] p = "market_state" -> {Market}
    [] p = "signals" -> {Signals}
    [] p = "shortability" -> IF signals \in {"none", "zero"} THEN {} ELSE {Short}
    [] p = "analysis" -> {Full}
    [] OTHER -> {}

StageLabel(p) ==
  CASE p = "none" -> run.stage
    [] p = "derive_features" -> "feature_reconstruction"
    [] p = "signals" -> "frozen_signal_generation"
    [] p = "analysis" -> "replication_analysis"
    [] OTHER -> p

AdvanceWrite(w) ==
  LET stage == StageLabel(job[w].plan) IN
  /\ job[w].pc = "plan"
  /\ item' = Inserted(PlannedRows(job[w].plan))
  /\ run' = [run EXCEPT !.stage = stage]
  /\ unheard' = (unheard \/ Order[stage] < Order[run.stage])
  /\ Goes(w, "zero")
  /\ UNCHANGED <<research, lapsed, reopened, disturbances>>

\* Variants: the worker goes idle with its item in hand; no second look at all.
KeepItemWhenDone(w) ==
  /\ job[w].pc = "zero"
  /\ Goes(w, "idle")
  /\ UNCHANGED <<run, item, research, history>>

NoZeroSignals(w) ==
  /\ job[w].pc = "zero"
  /\ job' = [job EXCEPT ![w] = Idle]
  /\ UNCHANGED <<run, item, research, history>>

\* b001_runtime: a run without signals goes straight to the analysis.
AdvanceZeroSignals(w) ==
  /\ job[w].pc = "zero"
  /\ IF /\ run.status \notin HaltedStatus /\ run.stage = "shortability"
        /\ signals \in {"none", "zero"} /\ item[Short].status = "absent"
     THEN /\ item' = Inserted({Full})
          /\ run' = [run EXCEPT !.stage = "replication_analysis"]
     ELSE UNCHANGED <<item, run>>
  /\ unheard' = (unheard \/ run.status = "paused")
  /\ job' = [job EXCEPT ![w] = Idle]
  /\ UNCHANGED <<research, lapsed, reopened, disturbances>>
-----------------------------------------------------------------------------
(* Failures.  Whatever step raises, after a completion too, _fail writes    *)
(* the item by id.  A step that raises may have committed before: those     *)
(* are the states in which the next step fails.                             *)
Fallible(w) == job[w].pc # "idle" /\ job[w].item # None

Withdraw(w, attempts) ==
  /\ item' = [item EXCEPT ![job[w].item] = [status |-> "retry_wait", attempts |-> attempts]]
  /\ job' = [job EXCEPT ![w] = Idle]
  /\ UNCHANGED <<run, research>>

\* greatest(attempts-1,0): an infrastructure failure gives the attempt back.
FailTransient(w) ==
  LET a == item[job[w].item].attempts IN
  /\ Fallible(w) /\ Disturb
  /\ Withdraw(w, IF a > 0 THEN a - 1 ELSE 0)
  /\ UNCHANGED <<unheard, lapsed, reopened>>

FailForGood(w) ==
  LET i == job[w].item IN
  /\ item' = [item EXCEPT ![i].status = "failed"]
  /\ IF StageOf(i) = "spot_month"
     THEN /\ archive' = [archive EXCEPT ![i[2]] = "failed"]
          /\ run' = [run EXCEPT !.status =
                       IF @ \in OpenRunStatus \cup {"completed_with_errors"} THEN "running" ELSE @]
          /\ reopened' = (reopened \/ run.status = "completed_with_errors")
          /\ job' = [job EXCEPT ![w] = [Idle EXCEPT !.pc = "advance"]]
     ELSE /\ run' = [run EXCEPT !.status = "completed_with_errors"]
          /\ job' = [job EXCEPT ![w] = Idle]
          /\ UNCHANGED <<archive, reopened>>
  /\ UNCHANGED <<verified, bars, features, signals, unheard, lapsed>>

FailRetryable(w) ==
  /\ Fallible(w) /\ Disturb
  /\ \/ job[w].attempts >= MaxAttempts /\ FailForGood(w)
     \/ /\ job[w].attempts < MaxAttempts
        /\ Withdraw(w, item[job[w].item].attempts)
        /\ UNCHANGED <<unheard, lapsed, reopened>>

\* A refused request or bad data; the daily listing asks after the completion.
FailPermanent(w) ==
  /\ job[w].pc = "work" \/ At(w, "post", "discover_symbol")
  /\ Disturb /\ FailForGood(w)

\* _verify_archive_before_complete refuses: an ArchiveVerificationError is final.
FailVerification(w) ==
  /\ At(w, "complete", "spot_month") /\ job[w].verdict = "completed"
  /\ ~Verified(job[w].item[2])
  /\ FailForGood(w)
  /\ UNCHANGED disturbances

\* The process dies, or _fail itself cannot reach the database.
Crash(w) ==
  /\ job[w].pc # "idle" /\ Disturb
  /\ unheard' = (unheard \/ job[w].pc \in {"post", "advance", "plan", "zero"})
  /\ job' = [job EXCEPT ![w] = Idle]
  /\ UNCHANGED <<run, item, research, lapsed, reopened>>

Held(i) == \E w \in Workers : job[w].item = i
Requeued(i) ==
  /\ item' = [item EXCEPT ![i].status = "retry_wait"]
  /\ UNCHANGED <<run, research, job, unheard, reopened>>

\* reclaim_stale_b001_work, 45 minutes after the last heartbeat.
Reclaim(i) ==
  /\ item[i].status = "running" /\ ~Held(i)
  /\ Requeued(i)
  /\ UNCHANGED <<lapsed, disturbances>>

\* Every heartbeat of a live holder failed for 45 minutes.
Lapse(i) ==
  /\ item[i].status = "running" /\ Held(i) /\ Disturb
  /\ Requeued(i)
  /\ lapsed' = TRUE
-----------------------------------------------------------------------------
Pause ==
  /\ Disturb /\ run.status \in OpenRunStatus
  /\ run' = [run EXCEPT !.status = "paused"]
  /\ UNCHANGED <<item, research, job, unheard, lapsed, reopened>>

\* The page offers it for a paused run and for one that completed with errors;
\* pressed late, it still retries the failed items of whatever run it finds.
\* The checks let a run be reopened once.
Resume ==
  LET again == {i \in Items : item[i].status = "failed" /\ item[i].attempts < MaxAttempts}
  IN
  /\ run.status = "paused" \/ ~reopened
  /\ run.status \in {"paused", "completed_with_errors"} \/ again # {}
  /\ run' = [run EXCEPT !.status = IF @ \in {"paused", "completed_with_errors"}
                                   THEN "running" ELSE @]
  /\ item' = [i \in Items |-> IF i \in again THEN [item[i] EXCEPT !.status = "retry_wait"]
                              ELSE item[i]]
  /\ reopened' = (reopened \/ run.status # "paused")
  /\ UNCHANGED <<research, job, unheard, lapsed, disturbances>>

Cancel ==
  /\ Disturb
  /\ run' = [run EXCEPT !.status = "cancelled"]
  /\ item' = [i \in Items |-> IF item[i].status \in ActiveStatus
                              THEN [item[i] EXCEPT !.status = "cancelled"] ELSE item[i]]
  /\ UNCHANGED <<research, job, unheard, lapsed, reopened>>

RequeueFailedArchives ==
  LET again == {i \in InStage("spot_month") : item[i].status = "failed"} IN
  /\ again # {} /\ ~reopened
  /\ item' = [i \in Items |-> IF i \in again THEN [status |-> "retry_wait", attempts |-> 0]
                              ELSE item[i]]
  /\ archive' = [a \in Archives |-> IF archive[a] = "failed" THEN "planned" ELSE archive[a]]
  /\ run' = [run EXCEPT !.status = "running"]
  /\ reopened' = TRUE
  /\ UNCHANGED <<verified, bars, features, signals, job,
                 unheard, lapsed, disturbances>>
-----------------------------------------------------------------------------
\* The normal course of a worker's item, step by step.
Work(w) ==
  \/ DiscoverArchives(w) \/ DiscoverSymbol(w) \/ LoadArchive(w) \/ DeriveFeatures(w)
  \/ MaterializeMarketState(w) \/ GenerateSignals(w) \/ CheckShortability(w)
  \/ RunAnalysis(w)
  \/ Complete(w) \/ FailVerification(w)
  \/ SupplementDaily(w) \/ InvalidateGaps(w) \/ TrimSignals(w)
  \/ AdvanceRead(w) \/ AdvanceWrite(w) \/ AdvanceZeroSignals(w)

Fail(w) == FailTransient(w) \/ FailRetryable(w) \/ FailPermanent(w) \/ Crash(w)
Operator == Pause \/ Resume \/ Cancel \/ RequeueFailedArchives

Next ==
  \/ \E w \in Workers : Work(w) \/ Fail(w) \/ \E i \in Items : Claim(w, i)
  \/ \E i \in Items : Reclaim(i) \/ Lapse(i)
  \/ Operator

Spec == Init /\ [][Next]_vars

-----------------------------------------------------------------------------
JobType == [pc : {"idle", "work", "complete", "post", "advance", "plan", "zero"},
            item : Items \cup {None}, attempts : Nat, verdict : {"completed", "missing"},
            plan : Plans]

\* Every variable has its type, and an idle worker holds nothing.
TypeOK ==
  /\ run \in [status : RunStatus, stage : RunStages]
  /\ item \in [Items -> [status : WorkStatus, attempts : Nat]]
  /\ archive \in [Archives -> {"absent", "planned", "loaded", "missing", "failed"}]
  /\ verified \subseteq Archives /\ bars \subseteq Archives
  /\ features \in [Symbols -> {"none", "raw", "contiguous"}]
  /\ signals \in {"none", "zero", "some"}
  /\ job \in [Workers -> JobType]
  /\ \A w \in Workers : job[w].pc = "idle" => job[w] = Idle
  /\ unheard \in BOOLEAN /\ lapsed \in BOOLEAN /\ reopened \in BOOLEAN
  /\ disturbances \in 0..MaxDisturbances

\* Unless a lock lapsed under its holder, a work item has one worker: claims,
\* failures after a completion, reclaims and operator commands keep it so.
SingleOwner ==
  lapsed \/ \A v, w \in Workers :
              v # w /\ job[v].item # None => job[v].item # job[w].item

\* An archive item that is reported completed rests on a loaded archive whose
\* checksum was verified, and one reported missing on an archive row that says so.
ArchiveBacksVerdict ==
  lapsed \/ \A a \in Archives :
    /\ item[Spot(a)].status = "completed" => Verified(a)
    /\ item[Spot(a)].status = "missing" => archive[a] = "missing"

\* The features of a symbol bridge gaps after its item completed only while the
\* worker is still invalidating them, or after an advance was lost in a crash.
GapsInvalidated ==
  lapsed \/ unheard \/ \A s \in Symbols :
    item[Derive(s)].status = "completed" /\ features[s] = "raw" =>
      \E w \in Workers : job[w].item = Derive(s) /\ job[w].pc = "post"

NoBars == bars = {}
Stranded ==
  /\ run.status \in OpenRunStatus
  /\ \A i \in Items : item[i].status \notin ActiveStatus
  /\ \A w \in Workers : job[w].pc = "idle"
\* An open run always has work to claim or in hand, since only a worker that
\* finishes an item ever plans the next stage.  The holes are named: an advance
\* that was lost (crash, pause, or a slower worker that wrote an older stage over
\* it), a lock that lapsed under its holder, failed work that was retried after
\* its stage was left, or no archive that gave a bar to derive features from.
NotStranded == Stranded => unheard \/ lapsed \/ reopened \/ NoBars
=============================================================================
