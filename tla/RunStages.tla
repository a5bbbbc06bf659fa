------------------------------ MODULE RunStages ------------------------------
(***************************************************************************)
(* The life of one collection run: catalogue, planning, collecting,        *)
(* capture_scan, enrichment, aggregation, ready.  Every worker process     *)
(* runs the same loop (claim a partition, else mine, check quality, plan), *)
(* a database cron job schedules aggregates early, a trigger guards the    *)
(* entry to 'ready', and the operator commands the run from the dashboard. *)
(*                                                                         *)
(* One action is one statement or one group of statements between which no *)
(* other transaction can come: the reads a transaction makes before it     *)
(* writes the run are steps of their own, since PostgreSQL runs it at READ *)
(* COMMITTED and what was read may be stale when the run is written.       *)
(***************************************************************************)
EXTENDS Naturals, CollectionStatus

CONSTANTS
  Workers,
  Catalogues, Bars, Scans, Ticks, Aggregates,  \* partitions by data_type
  Commands,         \* the operator commands that may be given
  None,             \* SQL null
  MaxDisturbances   \* bound on crashes and operator commands in one behaviour

Partitions == Catalogues \cup Bars \cup Scans \cup Ticks \cup Aggregates

ASSUME StagesAssumption ==
  /\ Catalogues \cap (Bars \cup Scans \cup Ticks \cup Aggregates) = {}
  /\ Bars \cap (Scans \cup Ticks \cup Aggregates) = {}
  /\ Scans \cap (Ticks \cup Aggregates) = {}
  /\ Ticks \cap Aggregates = {}
  /\ None \notin Partitions
  /\ Commands \subseteq {"pause", "resume", "cancel", "retry", "enhance"}
  /\ MaxDisturbances \in Nat

VARIABLES
  status, stage,  \* of the collection_runs row
  part,           \* status of each partition; "unplanned": no such row yet
  worker,         \* per process: where its loop is and what it has read
  gate,           \* collection_status in config.quality_gate
  due,            \* the last quality check is older than enhancement_completed_at
  budget          \* disturbances left

vars == <<status, stage, part, worker, gate, due, budget>>

Stages == {"catalogue", "planning", "collecting", "capture_scan", "enrichment",
           "aggregation", "ready"}

SettledStatus == {"completed", "completed_with_errors"}

\* pc is the statement the process is about to run; held is the partition in
\* its hands; outcome what it is about to report of it; active, failed, ready
\* and stage what it has read; saw the run status its quality check found.
Worker ==
  [pc: {"claim", "working", "counted", "mine", "mineCheck", "mineCommit", "gate",
        "gateRead", "gateWrite", "plan", "planStart", "planCheck", "planInsert", "planFinish"},
   held: Partitions \cup {None}, outcome: {"none", "completed", "failed"},
   active: BOOLEAN, failed: BOOLEAN, ready: BOOLEAN, stage: Stages, saw: RunStatus]

AtTop == [pc |-> "claim", held |-> None, outcome |-> "none", active |-> FALSE,
          failed |-> FALSE, ready |-> FALSE, stage |-> "catalogue", saw |-> "queued"]

Init ==
  /\ status = "queued"
  /\ stage = "catalogue"
  /\ part = [p \in Partitions |-> IF p \in Catalogues THEN "queued" ELSE "unplanned"]
  /\ worker = [w \in Workers |-> AtTop]
  /\ gate = "none"
  /\ due = FALSE
  /\ budget = MaxDisturbances

\* Variant: a partition in a worker's hands is not counted.
AnyClaimable(rows, S) == \E p \in S : rows[p] \in ClaimableStatus

AnyActive(rows, S) == \E p \in S : rows[p] \in ActiveStatus
AnyFailed(rows) == \E p \in Partitions : rows[p] = "failed"

\* refresh_collection_run_counts when nothing can come between its statements
\* because the transaction has locked the run.
Refreshed(current, stageNow, rows) ==
  RefreshedStatus(current, stageNow = "ready", AnyActive(rows, Partitions), AnyFailed(rows))

\* insert ... on conflict do nothing.
Planned(S) ==
  [p \in Partitions |-> IF p \in S /\ part[p] = "unplanned" THEN "queued" ELSE part[p]]

Goto(w, pc) == worker' = [worker EXCEPT ![w].pc = pc]
Restart(w) == worker' = [worker EXCEPT ![w] = AtTop]

-------------------------------------------------------------------------------
(* A partition, from claim to verdict *)

Claim(w, p) ==
  /\ worker[w].pc = "claim"
  /\ status \in LiveRunStatus
  /\ part[p] \in ClaimableStatus
  /\ part' = [part EXCEPT ![p] = "running"]
  /\ worker' = [worker EXCEPT ![w] = [AtTop EXCEPT !.pc = "working", !.held = p]]
  /\ UNCHANGED <<status, stage, gate, due, budget>>

ClaimNone(w) ==
  /\ worker[w].pc = "claim"
  /\ status \in LiveRunStatus => \A p \in Partitions : part[p] \notin ClaimableStatus
  /\ Goto(w, "mine")
  /\ UNCHANGED <<status, stage, part, gate, due, budget>>

\* assert_collection_active finds the run paused or stopped.
Abandon(w) ==
  /\ worker[w].pc = "working"
  /\ status \in {"paused"} \cup StoppedRunStatus
  /\ part' = [part EXCEPT ![worker[w].held] =
                IF status = "paused" THEN "queued" ELSE "cancelled"]
  /\ Restart(w)
  /\ UNCHANGED <<status, stage, gate, due, budget>>

\* complete_partition or retry_or_fail_partition, up to the counts that
\* refresh_collection_run_counts reads: the transaction sees its own row
\* changed, and every other row as last committed.
Count(w, outcome) ==
  LET rows == [part EXCEPT ![worker[w].held] = outcome]
  IN /\ worker[w].pc = "working"
     /\ worker' = [worker EXCEPT ![w] =
                     [@ EXCEPT !.pc = "counted", !.outcome = outcome,
                               !.active = AnyActive(rows, Partitions),
                               !.failed = AnyFailed(rows),
                               !.ready = (stage = "ready")]]
     /\ UNCHANGED <<status, stage, part, gate, due, budget>>

\* The update of the run by those counts, and the commit that makes the row's
\* new status visible.  After a catalogue the worker goes on to plan.
Commit(w) ==
  LET me == worker[w]
  IN /\ me.pc = "counted"
     /\ part' = [part EXCEPT ![me.held] = me.outcome]
     /\ status' = RefreshedStatus(status, me.ready, me.active, me.failed)
     /\ worker' = [worker EXCEPT ![w] =
                     [AtTop EXCEPT !.pc = IF me.held \in Catalogues /\ me.outcome = "completed"
                                          THEN "planStart" ELSE "claim"]]
     /\ UNCHANGED <<stage, gate, due, budget>>

\* Rows that a transaction in flight has locked.
Locked == {worker[w].held : w \in {v \in Workers : worker[v].pc = "counted"}}

-------------------------------------------------------------------------------
(* advance_mining_runs, under the run's mining advisory lock *)

MiningStages == {"collecting", "capture_scan", "enrichment", "aggregation"}
MiningLocked == \E v \in Workers : worker[v].pc \in {"mineCheck", "mineCommit"}

\* Variant: a run is mined whatever its stage.
MineReadAnyStage(w) ==
  /\ worker[w].pc = "mine"
  /\ IF status \notin HeldRunStatus /\ ~MiningLocked
     THEN worker' = [worker EXCEPT ![w] = [@ EXCEPT !.pc = "mineCheck", !.stage = stage]]
     ELSE Goto(w, "gate")
  /\ UNCHANGED <<status, stage, part, gate, due, budget>>

MineRead(w) ==
  /\ worker[w].pc = "mine"
  /\ IF stage \in MiningStages /\ status \notin HeldRunStatus /\ ~MiningLocked
     THEN worker' = [worker EXCEPT ![w] = [@ EXCEPT !.pc = "mineCheck", !.stage = stage]]
     ELSE Goto(w, "gate")
  /\ UNCHANGED <<status, stage, part, gate, due, budget>>

\* The partitions that must be terminal before the run may leave a stage.
Settling(s) ==
  CASE s = "collecting"   -> Catalogues \cup Bars
    [] s = "capture_scan" -> Scans
    [] s = "enrichment"   -> Partitions \ Aggregates
    [] s = "aggregation"  -> Aggregates

MineCheck(w) ==
  /\ worker[w].pc = "mineCheck"
  /\ Goto(w, IF AnyActive(part, Settling(worker[w].stage)) THEN "gate" ELSE "mineCommit")
  /\ UNCHANGED <<status, stage, part, gate, due, budget>>

\* Variant: no trigger.
ReadyAtOnce(rows) == "ready"

\* prevent_premature_microstructure_ready: where an update to 'ready' ends up.
ReadyOr(rows) == IF AnyActive(rows, Aggregates) THEN "aggregation" ELSE "ready"

\* Instruments to scan are those with bars, capture windows come from a scan.
HaveBars == \E p \in Bars : part[p] = "completed"
HaveWindows == \E p \in Scans : part[p] = "completed"

\* The transaction of plan_capture_scan, plan_enrichment and
\* plan_microstructure_aggregation: the run is taken to a stage and to status
\* running whatever its status has become, and partitions are inserted.
EnterStage(target, rows) ==
  /\ stage' = target
  /\ part' = rows
  /\ status' = Refreshed("running", target, rows)
  /\ due' = IF target = "ready" THEN TRUE ELSE due

PlanCaptureScan ==
  IF HaveBars THEN EnterStage("capture_scan", Planned(Scans))
              ELSE EnterStage("enrichment", part)

PlanEnrichment == EnterStage("enrichment", IF HaveWindows THEN Planned(Ticks) ELSE part)

PlanAggregation ==
  LET rows == IF HaveWindows THEN Planned(Aggregates) ELSE part
  IN EnterStage(IF rows = part THEN ReadyOr(part) ELSE "aggregation", rows)

\* The one stage change that leaves the status to refresh.
EnterReady ==
  LET target == IF stage = "ready" THEN "ready" ELSE ReadyOr(part)
  IN /\ stage' = target
     /\ status' = Refreshed(status, target, part)
     /\ due' = IF target = "ready" THEN TRUE ELSE due
     /\ UNCHANGED part

MineCommit(w) ==
  /\ worker[w].pc = "mineCommit"
  /\ \/ worker[w].stage = "collecting"   /\ PlanCaptureScan
     \/ worker[w].stage = "capture_scan" /\ PlanEnrichment
     \/ worker[w].stage = "enrichment"   /\ PlanAggregation
     \/ worker[w].stage = "aggregation"  /\ EnterReady
  /\ Goto(w, "gate")
  /\ UNCHANGED <<gate, budget>>

\* Variant: tick partitions need only have been planned.
ScheduleEarlyAggregates ==
  /\ stage = "enrichment"
  /\ status \notin {"cancelled", "failed"}
  /\ HaveWindows
  /\ \E p \in Ticks : part[p] # "unplanned"
  /\ \E p \in Aggregates : part[p] = "unplanned"
  /\ part' = Planned(Aggregates)
  /\ UNCHANGED <<status, stage, worker, gate, due, budget>>

\* schedule_ready_equity_microstructure, every five minutes: one statement.
\* (One run stays below its limit on active aggregates.)
ScheduleReadyAggregates ==
  /\ stage = "enrichment"
  /\ status \notin {"cancelled", "failed"}
  /\ HaveWindows
  /\ Ticks # {} /\ \A p \in Ticks : part[p] = "completed"
  /\ \E p \in Aggregates : part[p] = "unplanned"
  /\ part' = Planned(Aggregates)
  /\ UNCHANGED <<status, stage, worker, gate, due, budget>>

-------------------------------------------------------------------------------
(* run_ready_quality_checks *)

\* The listing of the runs to check.
GateList(w) ==
  /\ worker[w].pc = "gate"
  /\ Goto(w, IF stage = "ready" /\ status \in SettledStatus /\ due THEN "gateRead" ELSE "plan")
  /\ UNCHANGED <<status, stage, part, gate, due, budget>>

\* run_data_quality_checks reads the listed run once more, whatever has become
\* of it, and this reading is what the gate will name.
GateRead(w) ==
  /\ worker[w].pc = "gateRead"
  /\ worker' = [worker EXCEPT ![w] = [@ EXCEPT !.pc = "gateWrite", !.saw = status]]
  /\ UNCHANGED <<status, stage, part, gate, due, budget>>

GateWrite(w) ==
  /\ worker[w].pc = "gateWrite"
  /\ gate' = worker[w].saw
  /\ due' = FALSE
  /\ Goto(w, "plan")
  /\ UNCHANGED <<status, stage, part, budget>>

-------------------------------------------------------------------------------
(* plan_data_partitions, under the run's planning advisory lock *)

PlanningStatus == {"queued", "running", "completed"}
PlanningLocked ==
  \E v \in Workers : worker[v].pc \in {"planCheck", "planInsert", "planFinish"}

\* Variant: a run whose planning was cut short is not found again.
PlanListFresh(w) ==
  /\ worker[w].pc = "plan"
  /\ IF stage = "catalogue" /\ status \in PlanningStatus
     THEN Goto(w, "planStart") ELSE Restart(w)
  /\ UNCHANGED <<status, stage, part, gate, due, budget>>

\* find_runs_ready_for_planning.  A worker that completed a catalogue comes to
\* planStart without it, however long it has been on its way.
PlanList(w) ==
  /\ worker[w].pc = "plan"
  /\ IF stage \in {"catalogue", "planning"} /\ status \in PlanningStatus
     THEN Goto(w, "planStart") ELSE Restart(w)
  /\ UNCHANGED <<status, stage, part, gate, due, budget>>

CataloguesTerminal ==
  \A p \in Catalogues : part[p] \in CollectedStatus \cup {"skipped", "failed"}

\* The first transaction, under `select ... for update` of the run.
PlanRefused(w) ==
  /\ worker[w].pc = "planStart"
  /\ \/ PlanningLocked
     \/ stage = "collecting"
     \/ status \notin PlanningStatus
     \/ ~CataloguesTerminal
  /\ Restart(w)
  /\ UNCHANGED <<status, stage, part, gate, due, budget>>

PlanStart(w) ==
  /\ worker[w].pc = "planStart"
  /\ ~PlanningLocked
  /\ stage # "collecting"
  /\ status \in PlanningStatus
  /\ CataloguesTerminal
  /\ IF \E p \in Catalogues : part[p] = "failed"
     THEN /\ status' = "completed_with_errors"
          /\ Restart(w)
          /\ UNCHANGED stage
     ELSE /\ status' = "running"
          /\ stage' = "planning"
          /\ Goto(w, "planCheck")
  /\ UNCHANGED <<part, gate, due, budget>>

\* _planning_is_active, read before each batch of inserts.
PlanCheck(w) ==
  /\ worker[w].pc = "planCheck"
  /\ IF status \in PlanningStatus THEN Goto(w, "planInsert") ELSE Restart(w)
  /\ UNCHANGED <<status, stage, part, gate, due, budget>>

PlanInsert(w) ==
  /\ worker[w].pc = "planInsert"
  /\ part' = Planned(Bars)
  /\ Goto(w, "planFinish")
  /\ UNCHANGED <<status, stage, gate, due, budget>>

\* Variant: the last update of planning without its guard on the status.
PlanFinishUnguarded(w) ==
  /\ worker[w].pc = "planFinish"
  /\ stage' = "collecting"
  /\ status' = Refreshed("running", "collecting", part)
  /\ Restart(w)
  /\ UNCHANGED <<part, gate, due, budget>>

PlanFinish(w) ==
  LET stillPlanning == status \in PlanningStatus
      target == IF stillPlanning THEN "collecting" ELSE stage
  IN /\ worker[w].pc = "planFinish"
     /\ stage' = target
     /\ status' = Refreshed(IF stillPlanning THEN "running" ELSE status, target, part)
     /\ Restart(w)
     /\ UNCHANGED <<part, gate, due, budget>>

-------------------------------------------------------------------------------
(* Faults *)

Disturb == budget > 0 /\ budget' = budget - 1

\* The process dies: locks and the transaction in flight are gone, the claimed
\* row stays running.
Crash(w) ==
  /\ worker[w] # AtTop
  /\ Disturb
  /\ Restart(w)
  /\ UNCHANGED <<status, stage, part, gate, due>>

\* reclaim_stale_work, run at the top of some process's loop.  (A row reclaimed
\* from a worker that still lives is the subject of PartitionQueue.)
Reclaim ==
  LET orphans == {p \in Partitions : part[p] = "running"
                                     /\ \A w \in Workers : worker[w].held # p}
  IN /\ status \in LiveRunStatus
     /\ \E w \in Workers : worker[w].pc = "claim"
     /\ orphans # {}
     /\ part' = [p \in Partitions |-> IF p \in orphans THEN "retry_wait" ELSE part[p]]
     /\ UNCHANGED <<status, stage, worker, gate, due, budget>>

-------------------------------------------------------------------------------
(* Operator commands.  Each locks the run or its rows before it reads them; a  *)
(* row a transaction in flight has locked makes the command wait.              *)

Command(name, S) ==
  /\ name \in Commands
  /\ Disturb
  /\ S \cap Locked = {}
  /\ UNCHANGED <<worker, gate, due>>

Set(S, value) == [p \in Partitions |-> IF p \in S THEN value ELSE part[p]]
With(statuses) == {p \in Partitions : part[p] \in statuses}

Pause ==
  /\ Command("pause", {})
  /\ status \in LiveRunStatus
  /\ status' = "paused"
  /\ UNCHANGED <<stage, part>>

Cancel ==
  /\ Command("cancel", With(ActiveStatus))
  /\ status' = "cancelled"
  /\ part' = Set(With(ActiveStatus), "cancelled")
  /\ UNCHANGED stage

Resume ==
  LET again == With({"failed", "cancelled"})
      resumed == IF status \in {"paused", "completed_with_errors"} THEN "running" ELSE status
  IN /\ Command("resume", again)
     /\ part' = Set(again, "retry_wait")
     /\ status' = Refreshed(resumed, stage, part')
     /\ UNCHANGED stage

RetryFailed ==
  LET again == With({"failed", "cancelled"})
      reopened == IF status \in {"cancelled", "failed"} THEN status ELSE "running"
  IN /\ Command("retry", again)
     /\ part' = Set(again, "retry_wait")
     /\ status' = Refreshed(reopened, stage, part')
     /\ UNCHANGED stage

Enhance ==
  LET allowed == status \notin {"cancelled", "failed"}
      target == IF allowed THEN "collecting" ELSE stage
  IN /\ Command("enhance", With({"running"}))
     /\ part' = Set(With({"running"}), "retry_wait")
     /\ stage' = target
     /\ status' = Refreshed(IF allowed THEN "running" ELSE status, target, part')

-------------------------------------------------------------------------------
Step(w) ==
  \/ \E p \in Partitions : Claim(w, p)
  \/ ClaimNone(w)
  \/ Abandon(w)
  \/ \E outcome \in {"completed", "failed"} : Count(w, outcome)
  \/ Commit(w)
  \/ MineRead(w) \/ MineCheck(w) \/ MineCommit(w)
  \/ GateList(w) \/ GateRead(w) \/ GateWrite(w)
  \/ PlanList(w) \/ PlanRefused(w) \/ PlanStart(w)
  \/ PlanCheck(w) \/ PlanInsert(w) \/ PlanFinish(w)

Operator == Pause \/ Cancel \/ Resume \/ RetryFailed \/ Enhance

Next ==
  \/ \E w \in Workers : Step(w) \/ Crash(w)
  \/ ScheduleReadyAggregates
  \/ Reclaim
  \/ Operator

Spec == Init /\ [][Next]_vars

\* The processes' loops run on, and a loop that comes to its top with stale work
\* around again and again reclaims it once (every 60 seconds): strong fairness,
\* since it is not at its top all the time.  Nothing is assumed of the operator,
\* of crashes, or of the cron job.
FairSpec == Spec /\ (\A w \in Workers : WF_vars(Step(w))) /\ SF_vars(Reclaim)

-------------------------------------------------------------------------------
(* Properties *)

TypeOK ==
  /\ status \in RunStatus
  /\ stage \in Stages
  /\ part \in [Partitions -> PartitionStatus \cup {"unplanned"}]
  /\ worker \in [Workers -> Worker]
  /\ \A w \in Workers :
       /\ worker[w].pc \in {"working", "counted"} => worker[w].held \in Partitions
       /\ worker[w].pc \in {"mineCheck", "mineCommit"} => worker[w].stage \in MiningStages
  /\ gate \in RunStatus \cup {"none"}
  /\ due \in BOOLEAN
  /\ budget \in Nat

\* A run enters 'ready' only when no aggregate is owed, although the cron job
\* may insert aggregates while advance_mining_runs is on its way and finds
\* nothing left to insert (the trigger of migration 020 is what prevents it).
ReadyIsSettled ==
  [][stage # "ready" /\ stage' = "ready" => ~AnyActive(part', Aggregates)]_vars

Mining == \E w \in Workers : MineCommit(w)

\* A run the operator paused or cancelled is released only by the operator or
\* by a mining transaction: no late worker, planner or quality check does it.
HoldIsKept ==
  [][(status \in HeldRunStatus /\ status' # status) => (Operator \/ Mining)]_vars

Completed == stage = "ready" /\ status \in SettledStatus
Owing == Completed /\ AnyActive(part, Partitions)

\* A run shown as completed in 'ready' owes no work, as long as no command of the
\* operator changes a partition or takes the run back.
CompletedOwesNothing == ~Owing

\* The counts that a process is about to write say that nothing is owed, which
\* another transaction has made untrue.
CountsOvertaken(w) ==
  /\ worker[w].pc = "counted" /\ ~worker[w].active
  /\ AnyActive([part EXCEPT ![worker[w].held] = worker[w].outcome], Partitions)

\* Whatever is commanded, a run comes to be shown as completed while it owes work
\* only by counts that were overtaken before they were written, or by a planner
\* that works on a run which others have taken on to 'ready': no command, mining
\* transaction, cron job, reclaim or worker that gives up leaves it so.
OwingIsOvertaken ==
  [][Owing' /\ ~Owing =>
       \E w \in Workers :
         (CountsOvertaken(w) /\ Commit(w)) \/ PlanStart(w) \/ PlanInsert(w)]_vars

\* Ticks are owed although a mining process has found none and is about to plan
\* the aggregates.
CheckOvertaken(w) ==
  worker[w].pc = "mineCommit" /\ worker[w].stage = "enrichment" /\ AnyActive(part, Ticks)

PlansAggregates == \E p \in Aggregates : part[p] = "unplanned" /\ part'[p] # "unplanned"

\* Aggregates are planned once the ticks they aggregate are no longer owed, by
\* whichever of the two routes ("after all trade/quote backfills are terminal",
\* app/capture.py), unless the mining process was overtaken after its check.
\* Only a command that requeues ticks overtakes it, or a worker that puts back
\* a tick which a command took out of its hands; no other worker, planner,
\* reclaim or cron job does.
AggregatesFollowTicks ==
  [][/\ PlansAggregates /\ AnyActive(part, Ticks) =>
          \E w \in Workers : CheckOvertaken(w) /\ MineCommit(w)
     /\ \A w \in Workers : CheckOvertaken(w)' /\ ~CheckOvertaken(w) =>
          \/ Resume \/ RetryFailed
          \/ \E v \in Workers : Abandon(v) /\ part[worker[v].held] # "running"]_vars

Finished ==
  \/ Completed /\ ~due /\ gate = status
  \/ stage = "catalogue" /\ status = "completed_with_errors"

\* A quality check goes on although the run has left 'ready' since it was listed.
QualityOvertaken == ~Completed /\ \E w \in Workers : worker[w].pc \in {"gateRead", "gateWrite"}

\* Two processes may hand a run back and forth: while one mines it, the other
\* still holds a reading of find_runs_ready_for_planning and plans it again.
SentBackForever == []<>(stage = "planning") /\ []<>(stage \in MiningStages)

\* A run ends finished, with a gate that was computed for this completion and
\* names its status, or held by the operator.  Two things prevent it: the run is
\* sent back for ever, or a check that was overtaken writes what it has read, a
\* status like 'running', over the gate of the completion; the run then counts as
\* checked.
RunFinishes ==
  \/ <>[]Finished
  \/ <>QualityOvertaken /\ <>[](Completed /\ ~due)
  \/ <>[](status \in HeldRunStatus)
  \/ SentBackForever

\* Cancelling is final: `Cancel every queued, running and paused run?`, and the
\* guard of advance_mining_runs that skips cancelled runs.
CancelSticks == [][status = "cancelled" => status' = "cancelled"]_vars

\* "Quality-check newly completed ready runs once per completion cycle": a run
\* that stays completed has a gate that was computed for that completion.
EveryCycleChecked ==
  \A s \in SettledStatus :
    LET settled == stage = "ready" /\ status = s
    IN settled ~> (gate = s \/ ~settled)
===============================================================================
