--------------------------- MODULE RunStagesProofs ---------------------------
(***************************************************************************)
(* What RunStages promises, for every set of processes and partitions and  *)
(* under all commands of the operator; that a run owes nothing, up to the  *)
(* first command that changes a partition or takes the run back.           *)
(***************************************************************************)
EXTENDS RunStages, TLAPS

-------------------------------------------------------------------------------
(* The status that refresh computes *)

\* refresh_collection_run_counts keeps what the operator set.
LEMMA RefreshKeepsHold ==
  ASSUME NEW s \in HeldRunStatus, NEW isReady, NEW active, NEW failed
  PROVE  RefreshedStatus(s, isReady, active, failed) = s
BY DEF RefreshedStatus

\* A held run is not one that hands out work or is being planned.
LEMMA HeldIsApart ==
  ASSUME status \in HeldRunStatus
  PROVE  status \notin PlanningStatus
BY DEF HeldRunStatus, PlanningStatus

-------------------------------------------------------------------------------
(* HoldIsKept *)

\* No step of a process other than the mining transaction changes a held status.
LEMMA StepKeepsHold ==
  ASSUME NEW w \in Workers, Step(w), status \in HeldRunStatus, ~MineCommit(w)
  PROVE  status' = status
<1>1. CASE \/ \E p \in Partitions : Claim(w, p)
           \/ ClaimNone(w) \/ Abandon(w)
           \/ \E outcome \in {"completed", "failed"} : Count(w, outcome)
  BY <1>1 DEF Claim, ClaimNone, Abandon, Count
<1>2. CASE Commit(w)
  BY <1>2, RefreshKeepsHold DEF Commit
<1>3. CASE MineRead(w) \/ MineCheck(w) \/ GateList(w) \/ GateRead(w) \/ GateWrite(w)
  BY <1>3 DEF MineRead, MineCheck, GateList, GateRead, GateWrite
<1>4. CASE PlanList(w) \/ PlanRefused(w) \/ PlanCheck(w) \/ PlanInsert(w)
  BY <1>4 DEF PlanList, PlanRefused, PlanCheck, PlanInsert
<1>5. CASE PlanStart(w)
  BY <1>5, HeldIsApart DEF PlanStart
<1>6. CASE PlanFinish(w)
  BY <1>6, HeldIsApart, RefreshKeepsHold DEF PlanFinish, Refreshed
<1> QED
  BY <1>1, <1>2, <1>3, <1>4, <1>5, <1>6 DEF Step

\* A run the operator paused or cancelled is released only by the operator or by
\* a mining transaction: planning, completion and quality checks never do it.
THEOREM HoldsKept == Spec => HoldIsKept
<1>1. ASSUME [Next]_vars, status \in HeldRunStatus, status' # status
      PROVE  Operator \/ Mining
  <2>1. Next
    BY <1>1 DEF vars
  <2>2. ASSUME NEW w \in Workers, Step(w)
        PROVE  Mining
    BY <1>1, <2>2, StepKeepsHold DEF Mining
  <2>3. ASSUME NEW w \in Workers, Crash(w)
        PROVE  FALSE
    BY <1>1, <2>3 DEF Crash
  <2>4. CASE ScheduleReadyAggregates \/ Reclaim
    BY <1>1, <2>4 DEF ScheduleReadyAggregates, Reclaim
  <2> QED
    BY <2>1, <2>2, <2>3, <2>4 DEF Next
<1> QED
  BY <1>1, PTL DEF Spec, HoldIsKept

-------------------------------------------------------------------------------
(* ReadyIsSettled *)

\* An update to 'ready' that the trigger lets through owes no aggregate.
LEMMA ReadyOrIsSettled ==
  ASSUME ReadyOr(part) = "ready"
  PROVE  ~AnyActive(part, Aggregates)
BY DEF ReadyOr

\* The mining transaction enters 'ready' only past the trigger.
LEMMA MineCommitSettled ==
  ASSUME NEW w \in Workers, MineCommit(w), stage # "ready", stage' = "ready"
  PROVE  ~AnyActive(part', Aggregates)
<1>1. CASE PlanCaptureScan \/ PlanEnrichment
  BY <1>1 DEF PlanCaptureScan, PlanEnrichment, EnterStage
<1>2. CASE PlanAggregation
  <2> DEFINE rows == IF HaveWindows THEN Planned(Aggregates) ELSE part
  <2>1. stage' = (IF rows = part THEN ReadyOr(part) ELSE "aggregation") /\ part' = rows
    BY <1>2 DEF PlanAggregation, EnterStage
  <2>2. part' = part /\ ReadyOr(part) = "ready"
    BY <2>1
  <2> QED
    BY <2>2, ReadyOrIsSettled
<1>3. CASE EnterReady
  <2>1. part' = part /\ ReadyOr(part) = "ready"
    BY <1>3 DEF EnterReady
  <2> QED
    BY <2>1, ReadyOrIsSettled
<1> QED
  BY <1>1, <1>2, <1>3 DEF MineCommit

\* A process that takes a run to 'ready' does so in the mining transaction.
LEMMA StepEntersReadyMining ==
  ASSUME NEW w \in Workers, Step(w), stage # "ready", stage' = "ready"
  PROVE  MineCommit(w)
<1>1. CASE \/ \E p \in Partitions : Claim(w, p)
           \/ ClaimNone(w) \/ Abandon(w) \/ Commit(w)
           \/ \E outcome \in {"completed", "failed"} : Count(w, outcome)
  BY <1>1 DEF Claim, ClaimNone, Abandon, Count, Commit
<1>2. CASE MineRead(w) \/ MineCheck(w) \/ GateList(w) \/ GateRead(w) \/ GateWrite(w)
  BY <1>2 DEF MineRead, MineCheck, GateList, GateRead, GateWrite
<1>3. CASE PlanList(w) \/ PlanRefused(w) \/ PlanCheck(w) \/ PlanInsert(w)
  BY <1>3 DEF PlanList, PlanRefused, PlanCheck, PlanInsert
<1>4. CASE PlanStart(w) \/ PlanFinish(w)
  BY <1>4 DEF PlanStart, PlanFinish
<1> QED
  BY <1>1, <1>2, <1>3, <1>4 DEF Step

\* A run enters 'ready' only when no aggregate is owed, although the cron job may
\* insert aggregates while advance_mining_runs is on its way.
THEOREM ReadySettled == Spec => ReadyIsSettled
<1>1. ASSUME [Next]_vars, stage # "ready", stage' = "ready"
      PROVE  ~AnyActive(part', Aggregates)
  <2>1. Next
    BY <1>1 DEF vars
  <2>2. ASSUME NEW w \in Workers, Step(w)
        PROVE  ~AnyActive(part', Aggregates)
    BY <1>1, <2>2, StepEntersReadyMining, MineCommitSettled
  <2>3. ASSUME NEW w \in Workers, Crash(w)
        PROVE  FALSE
    BY <1>1, <2>3 DEF Crash
  <2>4. CASE ScheduleReadyAggregates \/ Reclaim
    BY <1>1, <2>4 DEF ScheduleReadyAggregates, Reclaim
  <2>5. CASE Operator
    BY <1>1, <2>5 DEF Operator, Pause, Cancel, Resume, RetryFailed, Enhance
  <2> QED
    BY <2>1, <2>2, <2>3, <2>4, <2>5 DEF Next
<1> QED
  BY <1>1, PTL DEF Spec, ReadyIsSettled

-------------------------------------------------------------------------------
(* TypeOK *)

\* What a process has read is fit to be written: a stage that is being mined is
\* one that can be left, and a counted partition has a verdict.
Fit(r) ==
  /\ r \in Worker
  /\ r.pc \in {"working", "counted"} => r.held \in Partitions
  /\ r.pc \in {"mineCheck", "mineCommit"} => r.stage \in MiningStages
  /\ r.pc = "counted" => r.outcome \in {"completed", "failed"}

WorkersOK ==
  /\ worker \in [Workers -> Worker]
  /\ \A w \in Workers : Fit(worker[w])

RunOK ==
  /\ status \in RunStatus
  /\ stage \in Stages
  /\ part \in [Partitions -> PartitionStatus \cup {"unplanned"}]
  /\ gate \in RunStatus \cup {"none"}
  /\ due \in BOOLEAN
  /\ budget \in Nat

TInv == RunOK /\ WorkersOK

\* The invariant starts.
LEMMA AtTopFits == Fit(AtTop)
BY DEF AtTop, Fit, Worker, Stages, RunStatus

\* One process's record is replaced by a fit one.
LEMMA MoveOK ==
  ASSUME WorkersOK, NEW w \in Workers, NEW r, Fit(r), worker' = [worker EXCEPT ![w] = r]
  PROVE  WorkersOK'
BY DEF WorkersOK, Fit

\* A process that moves on to a statement that writes nothing it has read.
LEMMA GotoOK ==
  ASSUME WorkersOK, NEW w \in Workers,
         NEW pc \in {"claim", "mine", "mineCommit", "gate", "gateRead", "plan",
                     "planStart", "planCheck", "planInsert", "planFinish"},
         Goto(w, pc), pc = "mineCommit" => worker[w].pc = "mineCheck"
  PROVE  WorkersOK'
<1> DEFINE r == [worker[w] EXCEPT !.pc = pc]
<1>1. Fit(r)
  BY DEF WorkersOK, Fit, Worker
<1>2. worker' = [worker EXCEPT ![w] = r]
  BY DEF Goto
<1> HIDE DEF r
<1> QED
  BY <1>1, <1>2, MoveOK

\* A process back at the top of its loop.
LEMMA RestartOK ==
  ASSUME WorkersOK, NEW w \in Workers, Restart(w)
  PROVE  WorkersOK'
BY AtTopFits, MoveOK DEF Restart

\* refresh_collection_run_counts yields a status of the table.
LEMMA RefreshedType ==
  ASSUME NEW s \in RunStatus, NEW isReady, NEW active, NEW failed
  PROVE  RefreshedStatus(s, isReady, active, failed) \in RunStatus
BY DEF RefreshedStatus, RunStatus

\* Inserting partitions that are not there keeps the table well typed.
LEMMA PlannedType ==
  ASSUME RunOK, NEW S
  PROVE  Planned(S) \in [Partitions -> PartitionStatus \cup {"unplanned"}]
BY DEF RunOK, Planned, PartitionStatus

\* So does an operator's update of a set of rows.
LEMMA SetType ==
  ASSUME RunOK, NEW S, NEW v \in PartitionStatus
  PROVE  Set(S, v) \in [Partitions -> PartitionStatus \cup {"unplanned"}]
BY DEF RunOK, Set

\* A partition from claim to verdict.
LEMMA PartitionTInv ==
  ASSUME TInv, NEW w \in Workers,
         \/ \E p \in Partitions : Claim(w, p)
         \/ ClaimNone(w) \/ Abandon(w)
         \/ \E outcome \in {"completed", "failed"} : Count(w, outcome)
         \/ Commit(w)
  PROVE  TInv'
<1> USE DEF TInv
<1>1. ASSUME NEW p \in Partitions, Claim(w, p)
      PROVE  TInv'
  <2>1. Fit([AtTop EXCEPT !.pc = "working", !.held = p])
    BY AtTopFits DEF AtTop, Fit, Worker
  <2>2. WorkersOK'
    BY <1>1, <2>1, MoveOK DEF Claim
  <2>3. RunOK'
    BY <1>1 DEF Claim, RunOK, PartitionStatus
  <2> QED
    BY <2>2, <2>3
<1>2. CASE ClaimNone(w)
  BY <1>2, GotoOK DEF ClaimNone, RunOK
<1>3. CASE Abandon(w)
  <2>1. RunOK'
    BY <1>3 DEF Abandon, RunOK, PartitionStatus
  <2> QED
    BY <1>3, <2>1, RestartOK DEF Abandon
<1>4. ASSUME NEW outcome \in {"completed", "failed"}, Count(w, outcome)
      PROVE  TInv'
  <2> DEFINE rows == [part EXCEPT ![worker[w].held] = outcome]
             r == [worker[w] EXCEPT !.pc = "counted", !.outcome = outcome,
                                    !.active = AnyActive(rows, Partitions),
                                    !.failed = AnyFailed(rows),
                                    !.ready = (stage = "ready")]
  <2>1. AnyActive(rows, Partitions) \in BOOLEAN /\ AnyFailed(rows) \in BOOLEAN
    BY DEF AnyActive, AnyFailed
  <2>2. worker' = [worker EXCEPT ![w] = r] /\ worker[w].pc = "working"
    BY <1>4 DEF Count
  <2>3. Fit(r)
    <3> HIDE DEF rows
    <3> QED
      BY <2>1, <2>2 DEF WorkersOK, Fit, Worker
  <2>4. WorkersOK'
    <3> HIDE DEF r
    <3> QED
      BY <2>2, <2>3, MoveOK
  <2>5. RunOK'
    BY <1>4 DEF Count, RunOK
  <2> QED
    BY <2>4, <2>5
<1>5. CASE Commit(w)
  <2> DEFINE pc == IF worker[w].held \in Catalogues /\ worker[w].outcome = "completed"
                   THEN "planStart" ELSE "claim"
             r == [AtTop EXCEPT !.pc = pc]
  <2>1. Fit(r)
    BY AtTopFits DEF AtTop, Fit, Worker
  <2>2. worker' = [worker EXCEPT ![w] = r]
    BY <1>5 DEF Commit
  <2>3. WorkersOK'
    <3> HIDE DEF r
    <3> QED
      BY <2>1, <2>2, MoveOK
  <2>4. status' \in RunStatus
    BY <1>5, RefreshedType DEF Commit, RunOK
  <2>5. part' \in [Partitions -> PartitionStatus \cup {"unplanned"}]
    BY <1>5 DEF Commit, RunOK, WorkersOK, Fit, PartitionStatus
  <2>6. RunOK'
    BY <1>5, <2>4, <2>5 DEF Commit, RunOK
  <2> QED
    BY <2>3, <2>6
<1> QED
  BY <1>1, <1>2, <1>3, <1>4, <1>5

\* The stage planners keep the run well typed.
LEMMA EnterStageType ==
  ASSUME RunOK, NEW target \in Stages,
         NEW rows \in [Partitions -> PartitionStatus \cup {"unplanned"}],
         EnterStage(target, rows)
  PROVE  /\ status' \in RunStatus /\ stage' \in Stages /\ due' \in BOOLEAN
         /\ part' \in [Partitions -> PartitionStatus \cup {"unplanned"}]
<1>1. "running" \in RunStatus
  BY DEF RunStatus
<1>2. status' \in RunStatus
  BY <1>1, RefreshedType DEF EnterStage, Refreshed
<1> QED
  BY <1>2 DEF EnterStage, RunOK

\* advance_mining_runs.
LEMMA MiningTInv ==
  ASSUME TInv, NEW w \in Workers, MineRead(w) \/ MineCheck(w) \/ MineCommit(w)
  PROVE  TInv'
<1> USE DEF TInv
<1>1. CASE MineRead(w)
  <2>1. RunOK'
    BY <1>1 DEF MineRead, RunOK
  <2>2. CASE Goto(w, "gate")
    BY <2>1, <2>2, GotoOK
  <2>3. CASE /\ stage \in MiningStages
             /\ worker' = [worker EXCEPT ![w] = [worker[w] EXCEPT !.pc = "mineCheck",
                                                                 !.stage = stage]]
    <3> DEFINE r == [worker[w] EXCEPT !.pc = "mineCheck", !.stage = stage]
    <3>1. Fit(r)
      BY <2>3 DEF WorkersOK, Fit, Worker, RunOK
    <3>2. worker' = [worker EXCEPT ![w] = r]
      BY <2>3
    <3> HIDE DEF r
    <3> QED
      BY <2>1, <3>1, <3>2, MoveOK
  <2> QED
    BY <1>1, <2>2, <2>3 DEF MineRead
<1>2. CASE MineCheck(w)
  <2>1. RunOK'
    BY <1>2 DEF MineCheck, RunOK
  <2> QED
    BY <1>2, <2>1, GotoOK DEF MineCheck
<1>3. CASE MineCommit(w)
  <2>1. WorkersOK'
    BY <1>3, GotoOK DEF MineCommit
  <2>2. /\ status' \in RunStatus /\ stage' \in Stages /\ due' \in BOOLEAN
        /\ part' \in [Partitions -> PartitionStatus \cup {"unplanned"}]
    <3>1. part \in [Partitions -> PartitionStatus \cup {"unplanned"}]
      BY DEF RunOK
    <3>2. ReadyOr(part) \in Stages
      BY DEF ReadyOr, Stages
    <3>3. {"capture_scan", "enrichment", "aggregation", "ready"} \subseteq Stages
      BY DEF Stages
    <3>4. CASE PlanCaptureScan
      BY <3>1, <3>3, <3>4, PlannedType, EnterStageType DEF PlanCaptureScan
    <3>5. CASE PlanEnrichment
      BY <3>1, <3>3, <3>5, PlannedType, EnterStageType DEF PlanEnrichment
    <3>6. CASE PlanAggregation
      BY <3>1, <3>2, <3>3, <3>6, PlannedType, EnterStageType DEF PlanAggregation
    <3>7. CASE EnterReady
      BY <3>1, <3>2, <3>3, <3>7, RefreshedType DEF EnterReady, Refreshed, RunOK
    <3> QED
      BY <1>3, <3>4, <3>5, <3>6, <3>7 DEF MineCommit
  <2>3. RunOK'
    BY <1>3, <2>2 DEF MineCommit, RunOK
  <2> QED
    BY <2>1, <2>3
<1> QED
  BY <1>1, <1>2, <1>3

\* run_ready_quality_checks: it records a status that the run has had.
LEMMA GateTInv ==
  ASSUME TInv, NEW w \in Workers, GateList(w) \/ GateRead(w) \/ GateWrite(w)
  PROVE  TInv'
<1> USE DEF TInv
<1>1. CASE GateList(w)
  <2>1. RunOK'
    BY <1>1 DEF GateList, RunOK
  <2>2. Goto(w, "gateRead") \/ Goto(w, "plan")
    BY <1>1 DEF GateList
  <2> QED
    BY <2>1, <2>2, GotoOK
<1>2. CASE GateRead(w)
  <2> DEFINE r == [worker[w] EXCEPT !.pc = "gateWrite", !.saw = status]
  <2>1. RunOK'
    BY <1>2 DEF GateRead, RunOK
  <2>2. Fit(r)
    BY DEF WorkersOK, Fit, Worker, RunOK
  <2>3. worker' = [worker EXCEPT ![w] = r]
    BY <1>2 DEF GateRead
  <2> HIDE DEF r
  <2> QED
    BY <2>1, <2>2, <2>3, MoveOK
<1>3. CASE GateWrite(w)
  <2>1. RunOK'
    BY <1>3 DEF GateWrite, RunOK, WorkersOK, Fit, Worker
  <2> QED
    BY <1>3, <2>1, GotoOK DEF GateWrite
<1> QED
  BY <1>1, <1>2, <1>3

\* plan_data_partitions.
LEMMA PlanningTInv ==
  ASSUME TInv, NEW w \in Workers,
         \/ PlanList(w) \/ PlanRefused(w) \/ PlanStart(w)
         \/ PlanCheck(w) \/ PlanInsert(w) \/ PlanFinish(w)
  PROVE  TInv'
<1> USE DEF TInv
<1>1. CASE PlanList(w) \/ PlanRefused(w) \/ PlanCheck(w)
  <2>1. RunOK'
    BY <1>1 DEF PlanList, PlanRefused, PlanCheck, RunOK
  <2>2. \/ Restart(w)
        \/ Goto(w, "planStart")
        \/ Goto(w, "planInsert")
    BY <1>1 DEF PlanList, PlanRefused, PlanCheck
  <2> QED
    BY <2>1, <2>2, GotoOK, RestartOK
<1>2. CASE PlanStart(w)
  <2>1. RunOK'
    BY <1>2 DEF PlanStart, RunOK, RunStatus, Stages
  <2>2. Restart(w) \/ Goto(w, "planCheck")
    BY <1>2 DEF PlanStart
  <2> QED
    BY <2>1, <2>2, GotoOK, RestartOK
<1>3. CASE PlanInsert(w)
  <2>1. RunOK'
    BY <1>3, PlannedType DEF PlanInsert, RunOK
  <2> QED
    BY <1>3, <2>1, GotoOK DEF PlanInsert
<1>4. CASE PlanFinish(w)
  <2>1. "running" \in RunStatus /\ "collecting" \in Stages
    BY DEF RunStatus, Stages
  <2>2. status' \in RunStatus
    BY <1>4, <2>1, RefreshedType DEF PlanFinish, Refreshed, RunOK
  <2>3. RunOK'
    BY <1>4, <2>1, <2>2 DEF PlanFinish, RunOK
  <2> QED
    BY <1>4, <2>3, RestartOK DEF PlanFinish
<1> QED
  BY <1>1, <1>2, <1>3, <1>4

\* Crashes, the cron job and reclaim.
LEMMA FaultTInv ==
  ASSUME TInv, (\E w \in Workers : Crash(w)) \/ ScheduleReadyAggregates \/ Reclaim
  PROVE  TInv'
<1> USE DEF TInv
<1>1. ASSUME NEW w \in Workers, Crash(w)
      PROVE  TInv'
  <2>1. RunOK'
    BY <1>1 DEF Crash, Disturb, RunOK
  <2> QED
    BY <1>1, <2>1, RestartOK DEF Crash
<1>2. CASE ScheduleReadyAggregates
  <2>1. RunOK'
    BY <1>2, PlannedType DEF ScheduleReadyAggregates, RunOK
  <2> QED
    BY <1>2, <2>1 DEF ScheduleReadyAggregates, WorkersOK
<1>3. CASE Reclaim
  <2>1. RunOK'
    BY <1>3 DEF Reclaim, RunOK, PartitionStatus
  <2> QED
    BY <1>3, <2>1 DEF Reclaim, WorkersOK
<1> QED
  BY <1>1, <1>2, <1>3

\* The operator's commands.
LEMMA OperatorTInv ==
  ASSUME TInv, Operator
  PROVE  TInv'
<1> USE DEF TInv
<1>1. /\ {"paused", "cancelled", "running"} \subseteq RunStatus
      /\ {"cancelled", "retry_wait"} \subseteq PartitionStatus
      /\ "collecting" \in Stages
  BY DEF RunStatus, PartitionStatus, Stages
<1>2. UNCHANGED <<worker, gate, due>> /\ budget' \in Nat
  BY DEF Operator, Pause, Cancel, Resume, RetryFailed, Enhance, Command, Disturb, RunOK
<1>3. WorkersOK'
  BY <1>2 DEF WorkersOK
<1>4. stage' \in Stages
  BY <1>1 DEF Operator, Pause, Cancel, Resume, RetryFailed, Enhance, RunOK
<1>5. part' \in [Partitions -> PartitionStatus \cup {"unplanned"}]
  BY <1>1, SetType DEF Operator, Pause, Cancel, Resume, RetryFailed, Enhance, RunOK
<1>6. status' \in RunStatus
  BY <1>1, RefreshedType
     DEF Operator, Pause, Cancel, Resume, RetryFailed, Enhance, Refreshed, RunOK
<1>7. RunOK'
  BY <1>2, <1>4, <1>5, <1>6 DEF RunOK
<1> QED
  BY <1>3, <1>7

\* Every step keeps the types.
LEMMA NextTInv == TInv /\ [Next]_vars => TInv'
<1> SUFFICES ASSUME TInv, [Next]_vars
             PROVE  TInv'
  OBVIOUS
<1>1. CASE UNCHANGED vars
  BY <1>1 DEF vars, TInv, RunOK, WorkersOK
<1>2. ASSUME NEW w \in Workers, Step(w)
      PROVE  TInv'
  BY <1>2, PartitionTInv, MiningTInv, GateTInv, PlanningTInv DEF Step
<1>3. CASE Next
  BY <1>2, <1>3, FaultTInv, OperatorTInv DEF Next
<1> QED
  BY <1>1, <1>3

\* The types hold at first.
LEMMA InitTInv == Init => TInv
<1>1. Init => WorkersOK
  BY AtTopFits DEF Init, WorkersOK, Fit
<1>2. Init => RunOK
  BY StagesAssumption DEF Init, RunOK, RunStatus, Stages, PartitionStatus
<1> QED
  BY <1>1, <1>2 DEF TInv

\* The state of a run, and what its processes have read, is always of its type.
THEOREM StagesInvariant == Spec => []TInv
<1> QED
  BY InitTInv, NextTInv, PTL DEF Spec

\* Every reachable state is well typed: the gate names a status that the run has
\* had, and a run is mined from a stage that mining can leave.
THEOREM StagesTypeCorrect == Spec => []TypeOK
<1>1. TInv => TypeOK
  BY DEF TInv, RunOK, WorkersOK, Fit, TypeOK
<1> QED
  BY <1>1, StagesInvariant, PTL

-------------------------------------------------------------------------------
(* CompletedOwesNothing: what a stage that has been reached says of the         *)
(* partitions, as long as the operator's commands, whichever they are, change   *)
(* neither a partition nor the stage.                                           *)

\* Pausing does not, nor does resuming or retrying a run that has no failed or
\* cancelled partition, or cancelling one that has none to come.
HandsOff == Operator => UNCHANGED <<stage, part>>

AllPlanned(S) == \A p \in S : part[p] # "unplanned"
Over(S) == ~AnyActive(part, S)

\* What the stages behind a stage have left: nothing of theirs is active, and
\* what they gave cause to plan is planned.
CollectingReached == Over(Catalogues) /\ AllPlanned(Bars)
CaptureReached == CollectingReached /\ Over(Bars) /\ (HaveBars => AllPlanned(Scans))
EnrichmentReached == CaptureReached /\ Over(Scans) /\ (HaveWindows => AllPlanned(Ticks))
AggregationReached == EnrichmentReached /\ Over(Ticks) /\ (HaveWindows => AllPlanned(Aggregates))

Reached(st) ==
  /\ st # "catalogue" => Over(Catalogues)
  /\ st = "collecting" => CollectingReached
  /\ st = "capture_scan" => CaptureReached
  /\ st = "enrichment" => EnrichmentReached
  /\ st = "aggregation" => AggregationReached
  /\ st = "ready" => AggregationReached /\ Over(Aggregates)

\* What a mining process has found before it takes the run on.
Found(st) ==
  /\ st = "collecting" => Over(Bars)
  /\ st = "capture_scan" => Over(Scans)
  /\ st = "enrichment" => Over(Ticks)

Busy(v) == worker[v].pc \in {"working", "counted"}

\* A partition in hand is running, and in one process's hands only.
Owned ==
  \A v \in Workers : Busy(v) =>
    /\ part[worker[v].held] = "running"
    /\ \A w \in Workers : w # v /\ Busy(w) => worker[w].held # worker[v].held

\* Scans come from bars, aggregates from ticks that are over.
InOrder ==
  /\ (\E p \in Scans : part[p] # "unplanned") => HaveBars
  /\ (\E p \in Aggregates : part[p] # "unplanned") => Over(Ticks) /\ AllPlanned(Ticks)

PlannersOK ==
  \A w \in Workers :
    /\ worker[w].pc \in {"planCheck", "planInsert", "planFinish"} => Over(Catalogues)
    /\ worker[w].pc = "planFinish" => AllPlanned(Bars)

\* The stage that a mining process has read was reached, and stays so even when
\* another process has sent the run back to planning meanwhile.
MinersOK ==
  \A w \in Workers :
    /\ worker[w].pc \in {"mineCheck", "mineCommit"} =>
         worker[w].stage \in MiningStages /\ Reached(worker[w].stage)
    /\ worker[w].pc = "mineCommit" => Found(worker[w].stage)

\* The inductive invariant, with the types.
LayersInv == TInv /\ Owned /\ InOrder /\ PlannersOK /\ MinersOK /\ Reached(stage)

\* How a step moves a row: it stays, is inserted when the stage before gave
\* cause to, or was active.
Cause(p) ==
  \/ p \in Bars
  \/ p \in Scans /\ HaveBars
  \/ p \in Ticks /\ HaveWindows
  \/ p \in Aggregates /\ HaveWindows /\ Over(Ticks) /\ AllPlanned(Ticks)

Inserts(p) == part[p] = "unplanned" /\ part'[p] = "queued" /\ Cause(p)

RowsMove ==
  \A p \in Partitions :
    \/ part'[p] = part[p]
    \/ Inserts(p)
    \/ part[p] \in ActiveStatus /\ part'[p] # "unplanned"

\* Rows of a set where nothing is active and nothing is inserted stay.
LEMMA OverStays ==
  ASSUME RowsMove, NEW S \in SUBSET Partitions, Over(S), \A p \in S : ~Inserts(p)
  PROVE  Over(S)' /\ \A p \in S : part'[p] = part[p]
BY DEF RowsMove, Over, AnyActive

\* A row that is there stays there, whatever its status becomes.
LEMMA PlannedStays ==
  ASSUME RowsMove, NEW S \in SUBSET Partitions, AllPlanned(S)
  PROVE  AllPlanned(S)' /\ \A p \in S : ~Inserts(p)
BY DEF RowsMove, AllPlanned, Inserts, Cause, ActiveStatus

\* The kinds of partitions are apart, and all are partitions.
LEMMA Kinds ==
  /\ Catalogues \subseteq Partitions /\ Bars \subseteq Partitions /\ Scans \subseteq Partitions
  /\ Ticks \subseteq Partitions /\ Aggregates \subseteq Partitions
  /\ \A p \in Catalogues : p \notin Bars \cup Scans \cup Ticks \cup Aggregates
  /\ \A p \in Bars : p \notin Scans \cup Ticks \cup Aggregates
  /\ \A p \in Scans : p \notin Ticks \cup Aggregates
  /\ \A p \in Ticks : p \notin Aggregates
BY StagesAssumption DEF Partitions

\* Catalogues that are over stay over: none is ever inserted.
LEMMA CataloguesStay ==
  ASSUME RowsMove, Over(Catalogues)
  PROVE  Over(Catalogues)'
BY OverStays, Kinds DEF Inserts, Cause

\* What the stages up to capture_scan have left stays.
LEMMA CaptureStays ==
  ASSUME RowsMove, CollectingReached, Over(Bars)
  PROVE  /\ CollectingReached' /\ Over(Bars)' /\ (HaveBars' <=> HaveBars)
         /\ CaptureReached => CaptureReached' /\ \A p \in Scans : ~Inserts(p)
<1>1. Over(Catalogues)' /\ AllPlanned(Bars)' /\ \A p \in Bars : ~Inserts(p)
  BY CataloguesStay, PlannedStays, Kinds DEF CollectingReached
<1>2. Over(Bars)' /\ \A p \in Bars : part'[p] = part[p]
  BY <1>1, OverStays, Kinds
<1>3. HaveBars' <=> HaveBars
  BY <1>2 DEF HaveBars
<1>4. ASSUME CaptureReached PROVE \A p \in Scans : ~Inserts(p)
  BY <1>4, Kinds DEF CaptureReached, Inserts, Cause, AllPlanned
<1>5. ASSUME CaptureReached, HaveBars PROVE AllPlanned(Scans)'
  BY <1>5, PlannedStays, Kinds DEF CaptureReached
<1> QED
  BY <1>1, <1>2, <1>3, <1>4, <1>5 DEF CollectingReached, CaptureReached

\* What the stages up to enrichment have left stays.
LEMMA EnrichmentStays ==
  ASSUME RowsMove, CaptureReached, Over(Scans)
  PROVE  /\ CaptureReached' /\ Over(Scans)' /\ (HaveWindows' <=> HaveWindows)
         /\ EnrichmentReached => EnrichmentReached' /\ \A p \in Ticks : ~Inserts(p)
<1>1. CaptureReached' /\ \A p \in Scans : ~Inserts(p)
  BY CaptureStays DEF CaptureReached
<1>2. Over(Scans)' /\ \A p \in Scans : part'[p] = part[p]
  BY <1>1, OverStays, Kinds
<1>3. HaveWindows' <=> HaveWindows
  BY <1>2 DEF HaveWindows
<1>4. ASSUME EnrichmentReached PROVE \A p \in Ticks : ~Inserts(p)
  BY <1>4, Kinds DEF EnrichmentReached, Inserts, Cause, AllPlanned
<1>5. ASSUME EnrichmentReached, HaveWindows PROVE AllPlanned(Ticks)'
  BY <1>5, PlannedStays, Kinds DEF EnrichmentReached
<1> QED
  BY <1>1, <1>2, <1>3, <1>4, <1>5 DEF EnrichmentReached

\* What the stages up to aggregation have left stays.
LEMMA AggregationStays ==
  ASSUME RowsMove, EnrichmentReached, Over(Ticks)
  PROVE  /\ EnrichmentReached' /\ Over(Ticks)'
         /\ AggregationReached => AggregationReached' /\ \A p \in Aggregates : ~Inserts(p)
<1>1. EnrichmentReached' /\ \A p \in Ticks : ~Inserts(p)
  BY EnrichmentStays DEF EnrichmentReached
<1>2. Over(Ticks)'
  BY <1>1, OverStays, Kinds
<1>3. HaveWindows' <=> HaveWindows
  BY EnrichmentStays DEF EnrichmentReached
<1>4. ASSUME AggregationReached PROVE \A p \in Aggregates : ~Inserts(p)
  BY <1>4, Kinds DEF AggregationReached, Inserts, Cause, AllPlanned
<1>5. ASSUME AggregationReached, HaveWindows PROVE AllPlanned(Aggregates)'
  BY <1>5, PlannedStays, Kinds DEF AggregationReached
<1> QED
  BY <1>1, <1>2, <1>3, <1>4, <1>5 DEF AggregationReached

\* A stage that has been reached stays reached, and what was found there true.
LEMMA ReachedStays ==
  ASSUME RowsMove, NEW st, Reached(st)
  PROVE  Reached(st)' /\ (Found(st) => Found(st)')
<1>1. st # "catalogue" => Over(Catalogues)'
  BY CataloguesStay DEF Reached
<1>2. ASSUME CollectingReached PROVE CollectingReached'
  BY <1>2, CataloguesStay, PlannedStays, Kinds DEF CollectingReached
<1>3. ASSUME CaptureReached PROVE CaptureReached'
  BY <1>3, CaptureStays DEF CaptureReached
<1>4. ASSUME EnrichmentReached PROVE EnrichmentReached'
  BY <1>4, EnrichmentStays DEF EnrichmentReached
<1>5. ASSUME AggregationReached PROVE AggregationReached'
  BY <1>5, AggregationStays DEF AggregationReached
<1>6. ASSUME AggregationReached, Over(Aggregates) PROVE Over(Aggregates)'
  <2>1. \A p \in Aggregates : ~Inserts(p)
    BY <1>6, AggregationStays DEF AggregationReached
  <2> QED
    BY <1>6, <2>1, OverStays, Kinds
<1>7. Reached(st)'
  BY <1>1, <1>2, <1>3, <1>4, <1>5, <1>6 DEF Reached
<1>8. ASSUME CollectingReached, Over(Bars) PROVE Over(Bars)'
  BY <1>8, CaptureStays
<1>9. ASSUME CaptureReached, Over(Scans) PROVE Over(Scans)'
  BY <1>9, EnrichmentStays
<1>10. ASSUME EnrichmentReached, Over(Ticks) PROVE Over(Ticks)'
  BY <1>10, AggregationStays
<1> QED
  BY <1>7, <1>8, <1>9, <1>10 DEF Reached, Found

\* Rows stay in order.
LEMMA InOrderStays ==
  ASSUME RowsMove, InOrder
  PROVE  InOrder'
<1>1. HaveBars => HaveBars'
  BY Kinds DEF RowsMove, HaveBars, Inserts, Cause, ActiveStatus
<1>2. ASSUME NEW p \in Scans, part'[p] # "unplanned" PROVE HaveBars
  <2>1. CASE part[p] = "unplanned"
    BY <1>2, <2>1, Kinds DEF RowsMove, Inserts, Cause, ActiveStatus
  <2> QED
    BY <2>1 DEF InOrder
<1>3. ASSUME NEW p \in Aggregates, part'[p] # "unplanned" PROVE Over(Ticks) /\ AllPlanned(Ticks)
  <2>1. CASE part[p] = "unplanned"
    BY <1>3, <2>1, Kinds DEF RowsMove, Inserts, Cause, ActiveStatus
  <2> QED
    BY <2>1 DEF InOrder
<1>4. ASSUME Over(Ticks), AllPlanned(Ticks) PROVE Over(Ticks)' /\ AllPlanned(Ticks)'
  BY <1>4, PlannedStays, OverStays, Kinds
<1> QED
  BY <1>1, <1>2, <1>3, <1>4 DEF InOrder

\* Inserting partitions that there is cause for.
LEMMA PlannedMoves ==
  ASSUME RunOK, NEW S \in SUBSET Partitions, part' = Planned(S), \A p \in S : Cause(p)
  PROVE  RowsMove
BY DEF RunOK, Planned, RowsMove, Inserts

\* The mining transaction inserts what the stage it leaves gave cause for.
LEMMA MiningMoves ==
  ASSUME LayersInv, NEW w \in Workers, MineCommit(w)
  PROVE  RowsMove
<1>0. RunOK /\ worker[w].pc = "mineCommit" /\ Reached(worker[w].stage) /\ Found(worker[w].stage)
  BY DEF LayersInv, TInv, MinersOK, MineCommit
<1>1. CASE UNCHANGED part
  BY <1>1 DEF RowsMove
<1>2. CASE worker[w].stage = "collecting" /\ PlanCaptureScan
  BY <1>0, <1>1, <1>2, PlannedMoves, Kinds DEF PlanCaptureScan, EnterStage, Cause
<1>3. CASE worker[w].stage = "capture_scan" /\ PlanEnrichment
  BY <1>0, <1>1, <1>3, PlannedMoves, Kinds DEF PlanEnrichment, EnterStage, Cause
<1>4. CASE worker[w].stage = "enrichment" /\ PlanAggregation
  <2>1. HaveWindows => AllPlanned(Ticks) /\ Over(Ticks)
    BY <1>0, <1>4 DEF Reached, Found, EnrichmentReached
  <2>2. part' = IF HaveWindows THEN Planned(Aggregates) ELSE part
    BY <1>4 DEF PlanAggregation, EnterStage
  <2> QED
    BY <1>0, <1>1, <2>1, <2>2, PlannedMoves, Kinds DEF Cause
<1>5. CASE EnterReady
  BY <1>1, <1>5 DEF EnterReady
<1> QED
  BY <1>2, <1>3, <1>4, <1>5 DEF MineCommit

\* An operator who keeps hands off changes the status of the run only.
LEMMA CommandKeeps ==
  ASSUME HandsOff, Operator
  PROVE  UNCHANGED <<stage, part, worker>>
BY DEF HandsOff, Operator, Pause, Cancel, Resume, RetryFailed, Enhance, Command

\* Every step moves the rows as it may.
LEMMA StepMoves ==
  ASSUME HandsOff, LayersInv, Next
  PROVE  RowsMove
<1>0. RunOK /\ WorkersOK
  BY DEF LayersInv, TInv
<1>1. CASE UNCHANGED part
  BY <1>1 DEF RowsMove
<1>2. ASSUME NEW w \in Workers, NEW p \in Partitions, Claim(w, p) PROVE RowsMove
  BY <1>0, <1>2 DEF Claim, RunOK, RowsMove, ClaimableStatus, ActiveStatus
<1>3. ASSUME NEW w \in Workers, Abandon(w) \/ Commit(w) PROVE RowsMove
  <2>1. worker[w].held \in Partitions /\ part[worker[w].held] = "running"
        /\ (worker[w].pc = "counted" => worker[w].outcome \in {"completed", "failed"})
    BY <1>0, <1>3 DEF Abandon, Commit, LayersInv, Owned, Busy, WorkersOK, Fit
  <2> QED
    BY <1>0, <1>3, <2>1 DEF Abandon, Commit, RunOK, RowsMove, ActiveStatus
<1>4. ASSUME NEW w \in Workers, PlanInsert(w) PROVE RowsMove
  BY <1>0, <1>4, PlannedMoves, Kinds DEF PlanInsert, Cause
<1>5. ASSUME NEW w \in Workers, Step(w) PROVE RowsMove
  <2>1. CASE ClaimNone(w) \/ \E outcome \in {"completed", "failed"} : Count(w, outcome)
    BY <1>1, <2>1 DEF ClaimNone, Count
  <2>2. CASE MineRead(w) \/ MineCheck(w) \/ GateList(w) \/ GateRead(w) \/ GateWrite(w)
    BY <1>1, <2>2 DEF MineRead, MineCheck, GateList, GateRead, GateWrite
  <2>3. CASE PlanList(w) \/ PlanRefused(w) \/ PlanStart(w) \/ PlanCheck(w) \/ PlanFinish(w)
    BY <1>1, <2>3 DEF PlanList, PlanRefused, PlanStart, PlanCheck, PlanFinish
  <2> QED
    BY <1>2, <1>3, <1>4, <1>5, <2>1, <2>2, <2>3, MiningMoves DEF Step
<1>6. CASE ScheduleReadyAggregates
  <2>1. Over(Ticks) /\ AllPlanned(Ticks)
    BY <1>6 DEF ScheduleReadyAggregates, Over, AnyActive, AllPlanned, ActiveStatus
  <2> QED
    BY <1>0, <1>6, <2>1, PlannedMoves, Kinds DEF ScheduleReadyAggregates, Cause
<1>7. CASE Reclaim
  BY <1>0, <1>7 DEF Reclaim, RunOK, RowsMove, ActiveStatus
<1>8. CASE Operator
  BY <1>1, <1>8, CommandKeeps
<1>9. ASSUME NEW w \in Workers, Crash(w) PROVE RowsMove
  BY <1>1, <1>9 DEF Crash
<1> QED
  BY <1>5, <1>6, <1>7, <1>8, <1>9 DEF Next

\* A step of a process that takes nothing new in hand.
LEMMA OwnedMoves ==
  ASSUME WorkersOK, Owned, NEW w \in Workers, NEW r, worker' = [worker EXCEPT ![w] = r],
         r.pc \in {"working", "counted"} => Busy(w) /\ r.held = worker[w].held,
         \A v \in Workers : Busy(v)' /\ part[worker'[v].held] = "running" =>
           part'[worker'[v].held] = "running"
  PROVE  Owned'
<1>1. \A v \in Workers : worker'[v] = IF v = w THEN r ELSE worker[v]
  BY DEF WorkersOK
<1>2. \A v \in Workers : Busy(v)' => Busy(v) /\ worker'[v].held = worker[v].held
  BY <1>1 DEF Busy
<1> QED
  BY <1>2 DEF Owned

\* Every step leaves a partition with one process, and running.
LEMMA StepOwned ==
  ASSUME HandsOff, LayersInv, Next
  PROVE  Owned'
<1>0. RunOK /\ WorkersOK /\ Owned
  BY DEF LayersInv, TInv
<1>1. ASSUME NEW S, part' = Planned(S), NEW p \in Partitions, part[p] = "running"
      PROVE  part'[p] = "running"
  BY <1>1 DEF Planned
<1>2. ASSUME NEW w \in Workers, NEW r, worker' = [worker EXCEPT ![w] = r],
             r.pc \in {"working", "counted"} => Busy(w) /\ r.held = worker[w].held,
             part' = part \/ \E S : part' = Planned(S)
      PROVE  Owned'
  <2>1. \A v \in Workers : worker'[v] = IF v = w THEN r ELSE worker[v]
    BY <1>0, <1>2 DEF WorkersOK
  <2>2. \A v \in Workers : Busy(v)' => worker'[v].held \in Partitions
    BY <1>0, <1>2, <2>1 DEF Busy, WorkersOK, Fit
  <2> QED
    BY <1>0, <1>1, <1>2, <2>2, OwnedMoves
<1>3. ASSUME NEW w \in Workers, Restart(w), part' = part PROVE Owned'
  BY <1>2, <1>3 DEF Restart, AtTop
<1>4. ASSUME NEW w \in Workers, NEW pc, pc \notin {"working", "counted"}, Goto(w, pc),
             part' = part \/ \E S : part' = Planned(S)
      PROVE  Owned'
  <2> DEFINE r == [worker[w] EXCEPT !.pc = pc]
  <2>1. worker' = [worker EXCEPT ![w] = r]
    BY <1>4 DEF Goto
  <2>2. r.pc = pc
    BY <1>0 DEF WorkersOK, Fit, Worker
  <2> HIDE DEF r
  <2> QED
    BY <1>2, <1>4, <2>1, <2>2
<1>5. ASSUME NEW w \in Workers, NEW p \in Partitions, Claim(w, p) PROVE Owned'
  <2> DEFINE r == [AtTop EXCEPT !.pc = "working", !.held = p]
  <2>1. r.pc = "working" /\ r.held = p
    BY DEF AtTop
  <2>2. worker' = [worker EXCEPT ![w] = r]
    BY <1>5 DEF Claim
  <2> HIDE DEF r
  <2>3. \A v \in Workers : worker'[v] = IF v = w THEN r ELSE worker[v]
    BY <1>0, <2>2 DEF WorkersOK
  <2>4. part[p] # "running" /\ \A q \in Partitions : part'[q] = IF q = p THEN "running" ELSE part[q]
    BY <1>0, <1>5 DEF Claim, ClaimableStatus, RunOK
  <2>5. \A v \in Workers : Busy(v) => worker[v].held \in Partitions
    BY <1>0 DEF Busy, WorkersOK, Fit
  <2> QED
    BY <1>0, <2>1, <2>3, <2>4, <2>5 DEF Owned, Busy
<1>6. ASSUME NEW w \in Workers, Abandon(w) \/ Commit(w) PROVE Owned'
  <2>1. Busy(w)
    BY <1>6 DEF Abandon, Commit, Busy
  <2>2. \A q \in Partitions : q # worker[w].held => part'[q] = part[q]
    BY <1>0, <1>6 DEF Abandon, Commit, RunOK
  <2>3. \A v \in Workers : v # w => worker'[v] = worker[v]
    BY <1>0, <1>6 DEF Abandon, Commit, Restart, WorkersOK
  <2>4. worker'[w].pc \notin {"working", "counted"}
    BY <1>0, <1>6 DEF Abandon, Commit, Restart, AtTop, WorkersOK
  <2>5. \A v \in Workers : Busy(v) => worker[v].held \in Partitions
    BY <1>0 DEF Busy, WorkersOK, Fit
  <2> QED
    BY <1>0, <2>1, <2>2, <2>3, <2>4, <2>5 DEF Owned, Busy
<1>7. ASSUME NEW w \in Workers, NEW outcome \in {"completed", "failed"}, Count(w, outcome)
      PROVE  Owned'
  <2> DEFINE rows == [part EXCEPT ![worker[w].held] = outcome]
             r == [worker[w] EXCEPT !.pc = "counted", !.outcome = outcome,
                                    !.active = AnyActive(rows, Partitions),
                                    !.failed = AnyFailed(rows),
                                    !.ready = (stage = "ready")]
  <2>1. worker' = [worker EXCEPT ![w] = r] /\ worker[w].pc = "working" /\ part' = part
    BY <1>7 DEF Count
  <2>2. r.held = worker[w].held
    BY <1>0 DEF WorkersOK, Fit, Worker
  <2> HIDE DEF r
  <2> QED
    BY <1>2, <2>1, <2>2 DEF Busy
<1>8. ASSUME NEW w \in Workers, NEW r, worker' = [worker EXCEPT ![w] = r], part' = part,
             \/ r = [worker[w] EXCEPT !.pc = "mineCheck", !.stage = stage]
             \/ r = [worker[w] EXCEPT !.pc = "gateWrite", !.saw = status]
      PROVE  Owned'
  <2>1. r.pc \in {"mineCheck", "gateWrite"}
    BY <1>0, <1>8 DEF WorkersOK, Fit, Worker
  <2> QED
    BY <1>2, <1>8, <2>1
<1>9. ASSUME NEW w \in Workers, Step(w) PROVE Owned'
  <2>1. CASE MineCommit(w)
    <3>1. part' = part \/ \E S : part' = Planned(S)
      BY <2>1
      DEF MineCommit, PlanCaptureScan, PlanEnrichment, PlanAggregation, EnterReady, EnterStage
    <3> QED
      BY <1>4, <2>1, <3>1 DEF MineCommit
  <2>2. CASE MineRead(w) \/ GateRead(w)
    BY <1>4, <1>8, <2>2 DEF MineRead, GateRead
  <2>3. CASE ClaimNone(w) \/ MineCheck(w) \/ GateList(w) \/ GateWrite(w) \/ PlanCheck(w) \/ PlanInsert(w)
    BY <1>3, <1>4, <2>3 DEF ClaimNone, MineCheck, GateList, GateWrite, PlanCheck, PlanInsert
  <2>4. CASE PlanList(w) \/ PlanRefused(w) \/ PlanStart(w) \/ PlanFinish(w)
    BY <1>3, <1>4, <2>4 DEF PlanList, PlanRefused, PlanStart, PlanFinish
  <2> QED
    BY <1>5, <1>6, <1>7, <1>9, <2>1, <2>2, <2>3, <2>4 DEF Step
<1>10. CASE /\ UNCHANGED worker
            /\ \A v \in Workers : Busy(v) /\ part[worker[v].held] = "running" =>
                 part'[worker[v].held] = "running"
  BY <1>0, <1>10 DEF Owned, Busy, WorkersOK, Fit
<1>11. CASE ScheduleReadyAggregates
  BY <1>0, <1>1, <1>10, <1>11 DEF ScheduleReadyAggregates, Busy, WorkersOK, Fit
<1>12. CASE Reclaim
  BY <1>0, <1>10, <1>12 DEF Reclaim, RunOK, Busy, WorkersOK, Fit
<1>13. CASE Operator
  BY <1>10, <1>13, CommandKeeps
<1>14. ASSUME NEW w \in Workers, Crash(w) PROVE Owned'
  BY <1>3, <1>14 DEF Crash
<1> QED
  BY <1>9, <1>11, <1>12, <1>13, <1>14 DEF Next

\* A process that moves on in planning or mining, and the others, keep what they
\* know: what it is about to rely on has been found.
LEMMA KnowledgeStays ==
  ASSUME RowsMove, WorkersOK, PlannersOK, MinersOK, NEW w \in Workers, NEW r,
         worker' = [worker EXCEPT ![w] = r],
         r.pc \in {"planCheck", "planInsert", "planFinish"} => Over(Catalogues)',
         r.pc = "planFinish" => AllPlanned(Bars)',
         r.pc \in {"mineCheck", "mineCommit"} => r.stage \in MiningStages /\ Reached(r.stage)',
         r.pc = "mineCommit" => Found(r.stage)'
  PROVE  PlannersOK' /\ MinersOK'
<1>1. \A v \in Workers : worker'[v] = IF v = w THEN r ELSE worker[v]
  BY DEF WorkersOK
<1>2. PlannersOK'
  BY <1>1, CataloguesStay, PlannedStays, Kinds DEF PlannersOK
<1>3. MinersOK'
  <2>1. ASSUME NEW v \in Workers, NEW st, worker'[v].stage = st
        PROVE  /\ worker'[v].pc \in {"mineCheck", "mineCommit"} =>
                    st \in MiningStages /\ Reached(st)'
               /\ worker'[v].pc = "mineCommit" => Found(st)'
    <3>1. CASE v = w
      BY <1>1, <2>1, <3>1 DEF Reached, Found
    <3>2. CASE v # w
      <4>1. worker'[v] = worker[v] /\ worker[v].stage = st
        BY <1>1, <2>1, <3>2
      <4>2. /\ worker[v].pc \in {"mineCheck", "mineCommit"} => st \in MiningStages /\ Reached(st)
            /\ worker[v].pc = "mineCommit" => Found(st)
        BY <4>1 DEF MinersOK
      <4>3. Reached(st) => Reached(st)' /\ (Found(st) => Found(st)')
        BY ReachedStays
      <4> QED
        BY <4>1, <4>2, <4>3
    <3> QED
      BY <3>1, <3>2
  <2> QED
    BY <2>1 DEF MinersOK, Reached, Found
<1> QED
  BY <1>2, <1>3

\* A level that a stage change rests on, as the mining transaction leaves it.
LEMMA MiningReaches ==
  ASSUME LayersInv, NEW w \in Workers, MineCommit(w)
  PROVE  Reached(stage)'
<1>0. RowsMove
  BY MiningMoves
<1>1. /\ worker[w].pc = "mineCommit" /\ Reached(worker[w].stage) /\ Found(worker[w].stage)
      /\ RunOK /\ InOrder /\ Reached(stage)
  BY DEF LayersInv, TInv, MinersOK, MineCommit
<1>2. CASE worker[w].stage = "collecting" /\ PlanCaptureScan
  <2>1. CollectingReached /\ Over(Bars)
    BY <1>1, <1>2 DEF Reached, Found
  <2>2. CollectingReached' /\ Over(Bars)' /\ (HaveBars' <=> HaveBars)
    BY <1>0, <2>1, CaptureStays
  <2>3. CASE HaveBars
    <3>1. stage' = "capture_scan" /\ part' = Planned(Scans)
      BY <1>2, <2>3 DEF PlanCaptureScan, EnterStage
    <3>2. AllPlanned(Scans)'
      BY <3>1, Kinds DEF AllPlanned, Planned
    <3> QED
      BY <2>2, <3>1, <3>2 DEF Reached, CaptureReached, CollectingReached
  <2>4. CASE ~HaveBars
    <3>1. stage' = "enrichment" /\ part' = part
      BY <1>2, <2>4 DEF PlanCaptureScan, EnterStage
    <3>2. \A p \in Scans : part[p] = "unplanned"
      BY <1>1, <2>4 DEF InOrder
    <3>3. Over(Scans)' /\ ~HaveWindows'
      BY <3>1, <3>2 DEF Over, AnyActive, ActiveStatus, HaveWindows
    <3> QED
      BY <2>2, <2>4, <3>1, <3>3 DEF Reached, EnrichmentReached, CaptureReached, CollectingReached
  <2> QED
    BY <2>3, <2>4
<1>3. CASE worker[w].stage = "capture_scan" /\ PlanEnrichment
  <2>1. CaptureReached /\ Over(Scans)
    BY <1>1, <1>3 DEF Reached, Found
  <2>2. CaptureReached' /\ Over(Scans)' /\ (HaveWindows' <=> HaveWindows)
    BY <1>0, <2>1, EnrichmentStays
  <2>3. stage' = "enrichment" /\ part' = IF HaveWindows THEN Planned(Ticks) ELSE part
    BY <1>3 DEF PlanEnrichment, EnterStage
  <2>4. HaveWindows => AllPlanned(Ticks)'
    BY <2>3, Kinds DEF AllPlanned, Planned
  <2> QED
    BY <2>2, <2>3, <2>4 DEF Reached, EnrichmentReached, CaptureReached, CollectingReached
<1>4. CASE worker[w].stage = "enrichment" /\ PlanAggregation
  <2>1. EnrichmentReached /\ Over(Ticks)
    BY <1>1, <1>4 DEF Reached, Found
  <2>2. EnrichmentReached' /\ Over(Ticks)' /\ (HaveWindows' <=> HaveWindows)
    BY <1>0, <2>1, AggregationStays, EnrichmentStays DEF EnrichmentReached
  <2> DEFINE rows == IF HaveWindows THEN Planned(Aggregates) ELSE part
  <2>3. stage' = (IF rows = part THEN ReadyOr(part) ELSE "aggregation") /\ part' = rows
    BY <1>4 DEF PlanAggregation, EnterStage
  <2>4. HaveWindows => AllPlanned(Aggregates)'
    BY <2>3, Kinds DEF AllPlanned, Planned
  <2>5. AggregationReached'
    BY <2>2, <2>4 DEF AggregationReached
  <2>6. stage' \in {"aggregation", "ready"} /\ (stage' = "ready" => Over(Aggregates)')
    BY <2>3 DEF ReadyOr, Over
  <2> QED
    BY <2>5, <2>6
    DEF Reached, AggregationReached, EnrichmentReached, CaptureReached, CollectingReached
<1>5. CASE worker[w].stage = "aggregation" /\ EnterReady
  <2>1. AggregationReached
    BY <1>1, <1>5 DEF Reached
  <2>2. AggregationReached' /\ part' = part
    BY <1>0, <1>5, <2>1, AggregationStays DEF AggregationReached, EnterReady
  <2>3. stage' \in {"aggregation", "ready"} /\ (stage' = "ready" => Over(Aggregates)')
    BY <1>1, <1>5, <2>2 DEF EnterReady, ReadyOr, Over, Reached
  <2> QED
    BY <2>2, <2>3
    DEF Reached, AggregationReached, EnrichmentReached, CaptureReached, CollectingReached
<1> QED
  BY <1>2, <1>3, <1>4, <1>5 DEF MineCommit

\* A stage is entered when it has been reached.
LEMMA StepReaches ==
  ASSUME HandsOff, LayersInv, Next
  PROVE  Reached(stage)'
<1>0. RowsMove /\ Reached(stage) /\ PlannersOK
  BY StepMoves DEF LayersInv
<1>1. CASE stage' = stage
  <2>1. ASSUME NEW st, st = stage PROVE Reached(st)'
    BY <1>0, <2>1, ReachedStays
  <2> QED
    BY <1>1, <2>1 DEF Reached
<1>2. ASSUME NEW w \in Workers, PlanStart(w) PROVE Reached(stage)'
  <2>1. CASE stage' = "planning"
    <3>1. Over(Catalogues)
      BY <1>2 DEF PlanStart, CataloguesTerminal, CollectedStatus, Over, AnyActive, ActiveStatus
    <3> QED
      BY <1>0, <2>1, <3>1, CataloguesStay DEF Reached
  <2> QED
    BY <1>1, <1>2, <2>1 DEF PlanStart
<1>3. ASSUME NEW w \in Workers, PlanFinish(w) PROVE Reached(stage)'
  <2>1. CASE stage' = "collecting"
    <3>1. CollectingReached
      BY <1>0, <1>3 DEF PlanFinish, PlannersOK, CollectingReached
    <3>2. CollectingReached'
      BY <1>0, <3>1, CataloguesStay, PlannedStays, Kinds DEF CollectingReached
    <3> QED
      BY <2>1, <3>2 DEF Reached, CollectingReached
  <2> QED
    BY <1>1, <1>3, <2>1 DEF PlanFinish
<1>4. ASSUME NEW w \in Workers, Step(w) PROVE Reached(stage)'
  BY <1>1, <1>2, <1>3, <1>4, MiningReaches
  DEF Step, Claim, ClaimNone, Abandon, Count, Commit, MineRead, MineCheck, GateList, GateRead,
      GateWrite,
      PlanList, PlanRefused, PlanCheck, PlanInsert, LayersInv
<1>5. CASE ScheduleReadyAggregates \/ Reclaim \/ \E w \in Workers : Crash(w)
  BY <1>1, <1>5 DEF ScheduleReadyAggregates, Reclaim, Crash
<1>6. CASE Operator
  BY <1>1, <1>6, CommandKeeps
<1> QED
  BY <1>4, <1>5, <1>6 DEF Next

\* What planners and miners rely on stays true.
LEMMA StepKnows ==
  ASSUME HandsOff, LayersInv, Next
  PROVE  PlannersOK' /\ MinersOK'
<1>0. RowsMove /\ WorkersOK /\ PlannersOK /\ MinersOK /\ RunOK /\ Reached(stage)
  BY StepMoves DEF LayersInv, TInv
<1> DEFINE Plain == {"claim", "working", "counted", "mine", "gate", "gateRead", "gateWrite",
                     "plan", "planStart"}
<1>1. ASSUME NEW w \in Workers, NEW r, worker' = [worker EXCEPT ![w] = r], r.pc \in Plain
      PROVE  PlannersOK' /\ MinersOK'
  BY <1>0, <1>1, KnowledgeStays
<1>2. ASSUME NEW w \in Workers, Restart(w) PROVE PlannersOK' /\ MinersOK'
  BY <1>1, <1>2 DEF Restart, AtTop
<1>3. ASSUME NEW w \in Workers, NEW pc, Goto(w, pc)
      PROVE  \E r : /\ worker' = [worker EXCEPT ![w] = r]
                    /\ r.pc = pc /\ r.stage = worker[w].stage
  <2> DEFINE r == [worker[w] EXCEPT !.pc = pc]
  <2>1. worker' = [worker EXCEPT ![w] = r]
    BY <1>3 DEF Goto
  <2>2. r.pc = pc /\ r.stage = worker[w].stage
    BY <1>0 DEF WorkersOK, Fit, Worker
  <2> HIDE DEF r
  <2> QED
    BY <2>1, <2>2
<1>4. ASSUME NEW w \in Workers, NEW pc \in Plain, Goto(w, pc) PROVE PlannersOK' /\ MinersOK'
  BY <1>1, <1>3, <1>4
<1>5. ASSUME NEW w \in Workers, NEW p \in Partitions, Claim(w, p) PROVE PlannersOK' /\ MinersOK'
  <2> DEFINE r == [AtTop EXCEPT !.pc = "working", !.held = p]
  <2>1. worker' = [worker EXCEPT ![w] = r] /\ r.pc = "working"
    BY <1>5 DEF Claim, AtTop
  <2> HIDE DEF r
  <2> QED
    BY <1>1, <2>1
<1>6. ASSUME NEW w \in Workers, NEW outcome \in {"completed", "failed"}, Count(w, outcome)
      PROVE  PlannersOK' /\ MinersOK'
  <2> DEFINE rows == [part EXCEPT ![worker[w].held] = outcome]
             r == [worker[w] EXCEPT !.pc = "counted", !.outcome = outcome,
                                    !.active = AnyActive(rows, Partitions),
                                    !.failed = AnyFailed(rows),
                                    !.ready = (stage = "ready")]
  <2>1. worker' = [worker EXCEPT ![w] = r]
    BY <1>6 DEF Count
  <2>2. r.pc = "counted"
    BY <1>0 DEF WorkersOK, Fit, Worker
  <2> HIDE DEF r
  <2> QED
    BY <1>1, <2>1, <2>2
<1>7. ASSUME NEW w \in Workers, Commit(w) PROVE PlannersOK' /\ MinersOK'
  <2> DEFINE pc == IF worker[w].held \in Catalogues /\ worker[w].outcome = "completed"
                   THEN "planStart" ELSE "claim"
             r == [AtTop EXCEPT !.pc = pc]
  <2>1. worker' = [worker EXCEPT ![w] = r] /\ r.pc \in {"planStart", "claim"}
    BY <1>7 DEF Commit, AtTop
  <2> HIDE DEF r
  <2> QED
    BY <1>1, <2>1
<1>8. ASSUME NEW w \in Workers, MineRead(w) PROVE PlannersOK' /\ MinersOK'
  <2>1. CASE Goto(w, "gate")
    BY <1>4, <2>1
  <2>2. CASE /\ stage \in MiningStages
             /\ worker' = [worker EXCEPT ![w] = [worker[w] EXCEPT !.pc = "mineCheck",
                                                                  !.stage = stage]]
    <3> DEFINE r == [worker[w] EXCEPT !.pc = "mineCheck", !.stage = stage]
    <3>1. worker' = [worker EXCEPT ![w] = r]
      BY <2>2
    <3>2. r.pc = "mineCheck" /\ r.stage = stage
      BY <1>0 DEF WorkersOK, Fit, Worker
    <3> HIDE DEF r
    <3>3. ASSUME NEW q, q = r PROVE Reached(q.stage)'
      <4>1. ASSUME NEW st, st = stage PROVE Reached(st)'
        BY <1>0, <4>1, ReachedStays
      <4> QED
        BY <3>2, <3>3, <4>1 DEF Reached
    <3>4. PICK q : q = r
      OBVIOUS
    <3>5. Reached(q.stage)' /\ q.pc = "mineCheck" /\ q.stage \in MiningStages
          /\ worker' = [worker EXCEPT ![w] = q]
      BY <2>2, <3>1, <3>2, <3>3, <3>4
    <3> QED
      BY <1>0, <3>5, KnowledgeStays
  <2> QED
    BY <1>8, <2>1, <2>2 DEF MineRead
<1>9. ASSUME NEW w \in Workers, MineCheck(w) PROVE PlannersOK' /\ MinersOK'
  <2>1. CASE Goto(w, "gate")
    BY <1>4, <2>1
  <2>2. CASE /\ ~AnyActive(part, Settling(worker[w].stage))
             /\ Goto(w, "mineCommit")
    <3>1. PICK r : /\ worker' = [worker EXCEPT ![w] = r]
                   /\ r.pc = "mineCommit" /\ r.stage = worker[w].stage
      BY <1>3, <2>2
    <3>2. r.stage \in MiningStages /\ Reached(r.stage)
      BY <1>0, <1>9, <3>1 DEF MineCheck, MinersOK
    <3>3. Found(r.stage)
      <4>1. ~AnyActive(part, Settling(r.stage))
        BY <2>2, <3>1
      <4>2. r.stage = "collecting" => Bars \subseteq Settling(r.stage)
        BY DEF Settling
      <4>3. r.stage = "capture_scan" => Scans \subseteq Settling(r.stage)
        BY DEF Settling
      <4>4. r.stage = "enrichment" => Ticks \subseteq Settling(r.stage)
        BY Kinds DEF Settling
      <4> QED
        BY <4>1, <4>2, <4>3, <4>4 DEF Found, Over, AnyActive
    <3>4. Reached(r.stage)' /\ Found(r.stage)'
      BY <1>0, <3>2, <3>3, ReachedStays
    <3> QED
      BY <1>0, <3>1, <3>2, <3>4, KnowledgeStays
  <2> QED
    BY <1>9, <2>1, <2>2 DEF MineCheck
<1>10. ASSUME NEW w \in Workers, GateRead(w) PROVE PlannersOK' /\ MinersOK'
  <2> DEFINE r == [worker[w] EXCEPT !.pc = "gateWrite", !.saw = status]
  <2>1. worker' = [worker EXCEPT ![w] = r]
    BY <1>10 DEF GateRead
  <2>2. r.pc = "gateWrite"
    BY <1>0 DEF WorkersOK, Fit, Worker
  <2> HIDE DEF r
  <2> QED
    BY <1>1, <2>1, <2>2
<1>11. ASSUME NEW w \in Workers, NEW pc \in {"planCheck", "planInsert", "planFinish"}, Goto(w, pc),
              Over(Catalogues), pc = "planFinish" => AllPlanned(Bars)'
       PROVE  PlannersOK' /\ MinersOK'
  <2>1. Over(Catalogues)'
    BY <1>0, <1>11, CataloguesStay
  <2>2. PICK r : worker' = [worker EXCEPT ![w] = r] /\ r.pc = pc
    BY <1>3, <1>11
  <2> QED
    BY <1>0, <1>11, <2>1, <2>2, KnowledgeStays
<1>12. ASSUME NEW w \in Workers, PlanStart(w) PROVE PlannersOK' /\ MinersOK'
  <2>1. Over(Catalogues)
    BY <1>12 DEF PlanStart, CataloguesTerminal, CollectedStatus, Over, AnyActive, ActiveStatus
  <2> QED
    BY <1>2, <1>11, <1>12, <2>1 DEF PlanStart
<1>13. ASSUME NEW w \in Workers, PlanCheck(w) PROVE PlannersOK' /\ MinersOK'
  BY <1>0, <1>2, <1>11, <1>13 DEF PlanCheck, PlannersOK
<1>14. ASSUME NEW w \in Workers, PlanInsert(w) PROVE PlannersOK' /\ MinersOK'
  <2>1. AllPlanned(Bars)'
    BY <1>14, Kinds DEF PlanInsert, Planned, AllPlanned
  <2> QED
    BY <1>0, <1>11, <1>14, <2>1 DEF PlanInsert, PlannersOK
<1>15. CASE UNCHANGED worker
  <2>1. PlannersOK'
    BY <1>0, <1>15, CataloguesStay, PlannedStays, Kinds DEF PlannersOK
  <2>2. ASSUME NEW v \in Workers, NEW st, worker[v].stage = st
        PROVE  /\ worker[v].pc \in {"mineCheck", "mineCommit"} =>
                    st \in MiningStages /\ Reached(st)'
               /\ worker[v].pc = "mineCommit" => Found(st)'
    <3>1. Reached(st) => Reached(st)' /\ (Found(st) => Found(st)')
      BY <1>0, ReachedStays
    <3> QED
      BY <1>0, <2>2, <3>1 DEF MinersOK
  <2>3. MinersOK'
    BY <1>15, <2>2 DEF MinersOK, Reached, Found
  <2> QED
    BY <2>1, <2>3
<1>16. ASSUME NEW w \in Workers, Step(w) PROVE PlannersOK' /\ MinersOK'
  <2>1. CASE ClaimNone(w) \/ GateList(w) \/ GateWrite(w) \/ PlanList(w) \/ PlanRefused(w) \/ PlanFinish(w)
             \/ MineCommit(w) \/ Abandon(w)
    BY <1>2, <1>4, <2>1
    DEF ClaimNone, GateList, GateWrite, PlanList, PlanRefused, PlanFinish, MineCommit, Abandon
  <2> QED
    BY <1>5, <1>6, <1>7, <1>8, <1>9, <1>10, <1>12, <1>13, <1>14, <1>16, <2>1 DEF Step
<1>17. CASE ScheduleReadyAggregates \/ Reclaim
  BY <1>15, <1>17 DEF ScheduleReadyAggregates, Reclaim
<1>18. CASE Operator
  BY <1>15, <1>18, CommandKeeps
<1>19. ASSUME NEW w \in Workers, Crash(w) PROVE PlannersOK' /\ MinersOK'
  BY <1>2, <1>19 DEF Crash
<1> QED
  BY <1>16, <1>17, <1>18, <1>19 DEF Next

\* The invariant of the stages, up to the first command that changes a partition or
\* takes the run back: nothing of a stage is active or still to be planned once the
\* run has gone past it, although two processes may undo each other's stage, crash
\* between a check and its commit, or schedule aggregates behind the miner.
THEOREM LayersInvariant ==
  Spec /\ [][HandsOff]_vars => []LayersInv
<1>1. Init => LayersInv
  <2> SUFFICES ASSUME Init PROVE LayersInv
    OBVIOUS
  <2>1. TInv
    BY InitTInv
  <2>2. \A w \in Workers : worker[w].pc = "claim"
    BY DEF Init, AtTop
  <2>3. Owned /\ PlannersOK /\ MinersOK
    BY <2>2 DEF Owned, Busy, PlannersOK, MinersOK
  <2>4. InOrder /\ Reached(stage)
    BY Kinds DEF Init, InOrder, Reached
  <2> QED
    BY <2>1, <2>3, <2>4 DEF LayersInv
<1>2. LayersInv /\ [Next]_vars /\ [HandsOff]_vars => LayersInv'
  <2> SUFFICES ASSUME LayersInv, [Next]_vars, [HandsOff]_vars PROVE LayersInv'
    OBVIOUS
  <2>1. TInv'
    BY NextTInv DEF LayersInv
  <2>2. CASE Next /\ HandsOff
    <3>1. InOrder'
      BY <2>2, StepMoves, InOrderStays DEF LayersInv
    <3> QED
      BY <2>1, <2>2, <3>1, StepOwned, StepKnows, StepReaches DEF LayersInv
  <2>3. CASE UNCHANGED vars
    <3>1. RowsMove /\ UNCHANGED <<worker, stage>>
      BY <2>3 DEF vars, RowsMove
    <3> QED
      BY <2>1, <2>3, <3>1
      DEF vars, LayersInv, Owned, Busy, InOrder, PlannersOK, MinersOK, Reached, Found, Over,
          AnyActive, AllPlanned, HaveBars, HaveWindows, CollectingReached, CaptureReached,
          EnrichmentReached, AggregationReached
  <2> QED
    BY <2>2, <2>3
<1> QED
  BY <1>1, <1>2, PTL DEF Spec

\* A run that is shown as completed owes no work, until a command changes a
\* partition or takes the run back: whatever the counts of the last workers were
\* when they wrote the run, and whoever took it to 'ready'.
THEOREM NothingOwed ==
  Spec /\ [][HandsOff]_vars => []CompletedOwesNothing
<1>1. LayersInv => CompletedOwesNothing
  <2> SUFFICES ASSUME LayersInv, stage = "ready" PROVE ~AnyActive(part, Partitions)
    BY DEF CompletedOwesNothing, Owing, Completed
  <2>1. Over(Catalogues) /\ Over(Bars) /\ Over(Scans) /\ Over(Ticks) /\ Over(Aggregates)
    BY DEF LayersInv, Reached, AggregationReached, EnrichmentReached, CaptureReached,
       CollectingReached
  <2> QED
    BY <2>1 DEF Over, AnyActive, Partitions
<1> QED
  BY <1>1, LayersInvariant, PTL

-------------------------------------------------------------------------------
(* AggregatesFollowTicks, under every command.                                   *)

Mines(v) == worker[v].pc \in {"mineCheck", "mineCommit"}

\* The advisory lock admits one miner, and a row in hand is in the table.
OneMiner == \A v, w \in Workers : Mines(v) /\ Mines(w) => v = w
HeldPlanned == \A v \in Workers : Busy(v) => part[worker[v].held] # "unplanned"

HandsInv == TInv /\ OneMiner /\ HeldPlanned

\* A row that is in the table stays there.
RowsStay == \A p \in Partitions : part[p] # "unplanned" => part'[p] # "unplanned"

\* Every step but a worker's verdict leaves rows in the table.
LEMMA StepRowsStay ==
  ASSUME HandsInv, Next
  PROVE  RowsStay
<1>0. RunOK /\ WorkersOK
  BY DEF HandsInv, TInv
<1>1. CASE part' = part
  BY <1>1 DEF RowsStay
<1>2. ASSUME NEW S, part' = Planned(S) PROVE RowsStay
  BY <1>2 DEF RowsStay, Planned
<1>3. ASSUME NEW S, NEW v \in PartitionStatus, part' = Set(S, v) PROVE RowsStay
  BY <1>3 DEF RowsStay, Set, PartitionStatus
<1>4. ASSUME NEW w \in Workers, NEW p \in Partitions, Claim(w, p) PROVE RowsStay
  BY <1>0, <1>4 DEF Claim, RunOK, RowsStay
<1>5. ASSUME NEW w \in Workers, Abandon(w) \/ Commit(w) PROVE RowsStay
  <2>1. worker[w].held \in Partitions
        /\ (worker[w].pc = "counted" => worker[w].outcome \in {"completed", "failed"})
    BY <1>0, <1>5 DEF Abandon, Commit, WorkersOK, Fit
  <2> QED
    BY <1>0, <1>5, <2>1 DEF Abandon, Commit, RunOK, RowsStay
<1>6. ASSUME NEW w \in Workers, MineCommit(w) PROVE RowsStay
  <2>1. part' = part \/ \E S : part' = Planned(S)
    BY <1>6
    DEF MineCommit, PlanCaptureScan, PlanEnrichment, PlanAggregation, EnterReady, EnterStage
  <2> QED
    BY <1>1, <1>2, <2>1
<1>7. ASSUME NEW w \in Workers, Step(w) PROVE RowsStay
  <2>1. CASE ClaimNone(w) \/ \E outcome \in {"completed", "failed"} : Count(w, outcome)
    BY <1>1, <2>1 DEF ClaimNone, Count
  <2>2. CASE MineRead(w) \/ MineCheck(w) \/ GateList(w) \/ GateRead(w) \/ GateWrite(w)
    BY <1>1, <2>2 DEF MineRead, MineCheck, GateList, GateRead, GateWrite
  <2>3. CASE PlanList(w) \/ PlanRefused(w) \/ PlanStart(w) \/ PlanCheck(w) \/ PlanFinish(w)
    BY <1>1, <2>3 DEF PlanList, PlanRefused, PlanStart, PlanCheck, PlanFinish
  <2>4. CASE PlanInsert(w)
    BY <1>2, <2>4 DEF PlanInsert
  <2> QED
    BY <1>4, <1>5, <1>6, <1>7, <2>1, <2>2, <2>3, <2>4 DEF Step
<1>8. CASE ScheduleReadyAggregates
  BY <1>2, <1>8 DEF ScheduleReadyAggregates
<1>9. CASE Reclaim
  BY <1>0, <1>9 DEF Reclaim, RunOK, RowsStay
<1>10. CASE Operator
  <2>1. {"cancelled", "retry_wait"} \subseteq PartitionStatus
    BY DEF PartitionStatus
  <2> QED
    BY <1>1, <1>3, <1>10, <2>1 DEF Operator, Pause, Cancel, Resume, RetryFailed, Enhance
<1>11. ASSUME NEW w \in Workers, Crash(w) PROVE RowsStay
  BY <1>1, <1>11 DEF Crash
<1> QED
  BY <1>7, <1>8, <1>9, <1>10, <1>11 DEF Next

\* A step of a process that takes nothing new in hand and mines nothing new.
LEMMA HandsMove ==
  ASSUME HandsInv, RowsStay, NEW w \in Workers, NEW r, worker' = [worker EXCEPT ![w] = r],
         r.pc \in {"working", "counted"} =>
           r.held \in Partitions /\ part'[r.held] # "unplanned",
         r.pc \in {"mineCheck", "mineCommit"} => Mines(w) \/ ~MiningLocked
  PROVE  OneMiner' /\ HeldPlanned'
<1>0. RunOK /\ WorkersOK /\ OneMiner /\ HeldPlanned
  BY DEF HandsInv, TInv
<1>1. \A v \in Workers : worker'[v] = IF v = w THEN r ELSE worker[v]
  BY <1>0 DEF WorkersOK
<1>2. \A v \in Workers : Busy(v) => worker[v].held \in Partitions
  BY <1>0 DEF Busy, WorkersOK, Fit
<1>3. HeldPlanned'
  BY <1>0, <1>1, <1>2 DEF HeldPlanned, Busy, RowsStay
<1>4. OneMiner'
  BY <1>0, <1>1 DEF OneMiner, Mines, MiningLocked
<1> QED
  BY <1>3, <1>4

\* One miner at a time, and rows in hand stay in the table, under every command.
LEMMA StepHands ==
  ASSUME HandsInv, Next
  PROVE  OneMiner' /\ HeldPlanned'
<1>0. RunOK /\ WorkersOK /\ OneMiner /\ HeldPlanned /\ RowsStay
  BY StepRowsStay DEF HandsInv, TInv
<1> DEFINE Idle == {"claim", "mine", "gate", "gateRead", "gateWrite", "plan", "planStart",
                    "planCheck", "planInsert", "planFinish"}
<1>1. ASSUME NEW w \in Workers, NEW r, worker' = [worker EXCEPT ![w] = r], r.pc \in Idle
      PROVE  OneMiner' /\ HeldPlanned'
  BY <1>0, <1>1, HandsMove
<1>2. ASSUME NEW w \in Workers, Restart(w) PROVE OneMiner' /\ HeldPlanned'
  BY <1>1, <1>2 DEF Restart, AtTop
<1>3. ASSUME NEW w \in Workers, NEW pc, Goto(w, pc)
      PROVE  \E r : worker' = [worker EXCEPT ![w] = r] /\ r.pc = pc
  <2> DEFINE r == [worker[w] EXCEPT !.pc = pc]
  <2>1. worker' = [worker EXCEPT ![w] = r]
    BY <1>3 DEF Goto
  <2>2. r.pc = pc
    BY <1>0 DEF WorkersOK, Fit, Worker
  <2> HIDE DEF r
  <2> QED
    BY <2>1, <2>2
<1>4. ASSUME NEW w \in Workers, NEW pc \in Idle, Goto(w, pc) PROVE OneMiner' /\ HeldPlanned'
  BY <1>1, <1>3, <1>4
<1>5. ASSUME NEW w \in Workers, NEW p \in Partitions, Claim(w, p)
      PROVE  OneMiner' /\ HeldPlanned'
  <2> DEFINE r == [AtTop EXCEPT !.pc = "working", !.held = p]
  <2>1. worker' = [worker EXCEPT ![w] = r] /\ r.pc = "working" /\ r.held = p
    BY <1>5 DEF Claim, AtTop
  <2> HIDE DEF r
  <2>2. part'[p] # "unplanned"
    BY <1>0, <1>5 DEF Claim, RunOK
  <2> QED
    BY <1>0, <2>1, <2>2, HandsMove
<1>6. ASSUME NEW w \in Workers, NEW outcome \in {"completed", "failed"}, Count(w, outcome)
      PROVE  OneMiner' /\ HeldPlanned'
  <2> DEFINE rows == [part EXCEPT ![worker[w].held] = outcome]
             r == [worker[w] EXCEPT !.pc = "counted", !.outcome = outcome,
                                    !.active = AnyActive(rows, Partitions),
                                    !.failed = AnyFailed(rows),
                                    !.ready = (stage = "ready")]
  <2>1. worker' = [worker EXCEPT ![w] = r] /\ worker[w].pc = "working" /\ part' = part
    BY <1>6 DEF Count
  <2>2. r.pc = "counted" /\ r.held = worker[w].held
    BY <1>0 DEF WorkersOK, Fit, Worker
  <2> HIDE DEF r
  <2>3. worker[w].held \in Partitions /\ part[worker[w].held] # "unplanned"
    BY <1>0, <2>1 DEF HeldPlanned, Busy, WorkersOK, Fit
  <2> QED
    BY <1>0, <2>1, <2>2, <2>3, HandsMove
<1>7. ASSUME NEW w \in Workers, Commit(w) PROVE OneMiner' /\ HeldPlanned'
  <2> DEFINE pc == IF worker[w].held \in Catalogues /\ worker[w].outcome = "completed"
                   THEN "planStart" ELSE "claim"
             r == [AtTop EXCEPT !.pc = pc]
  <2>1. worker' = [worker EXCEPT ![w] = r] /\ r.pc \in {"planStart", "claim"}
    BY <1>7 DEF Commit, AtTop
  <2> HIDE DEF r
  <2> QED
    BY <1>1, <2>1
<1>8. ASSUME NEW w \in Workers, MineRead(w) PROVE OneMiner' /\ HeldPlanned'
  <2>1. CASE Goto(w, "gate")
    BY <1>4, <2>1
  <2>2. CASE /\ ~MiningLocked
             /\ worker' = [worker EXCEPT ![w] = [worker[w] EXCEPT !.pc = "mineCheck",
                                                                  !.stage = stage]]
    <3> DEFINE r == [worker[w] EXCEPT !.pc = "mineCheck", !.stage = stage]
    <3>1. worker' = [worker EXCEPT ![w] = r]
      BY <2>2
    <3>2. r.pc = "mineCheck"
      BY <1>0 DEF WorkersOK, Fit, Worker
    <3> HIDE DEF r
    <3> QED
      BY <1>0, <2>2, <3>1, <3>2, HandsMove
  <2> QED
    BY <1>8, <2>1, <2>2 DEF MineRead
<1>9. ASSUME NEW w \in Workers, MineCheck(w) PROVE OneMiner' /\ HeldPlanned'
  <2>1. CASE Goto(w, "gate")
    BY <1>4, <2>1
  <2>2. CASE Goto(w, "mineCommit")
    <3>1. Mines(w)
      BY <1>9 DEF MineCheck, Mines
    <3>2. PICK r : worker' = [worker EXCEPT ![w] = r] /\ r.pc = "mineCommit"
      BY <1>3, <2>2
    <3> QED
      BY <1>0, <3>1, <3>2, HandsMove
  <2> QED
    BY <1>9, <2>1, <2>2 DEF MineCheck
<1>10. ASSUME NEW w \in Workers, GateRead(w) PROVE OneMiner' /\ HeldPlanned'
  <2> DEFINE r == [worker[w] EXCEPT !.pc = "gateWrite", !.saw = status]
  <2>1. worker' = [worker EXCEPT ![w] = r]
    BY <1>10 DEF GateRead
  <2>2. r.pc = "gateWrite"
    BY <1>0 DEF WorkersOK, Fit, Worker
  <2> HIDE DEF r
  <2> QED
    BY <1>1, <2>1, <2>2
<1>11. ASSUME NEW w \in Workers, Step(w) PROVE OneMiner' /\ HeldPlanned'
  <2>1. CASE ClaimNone(w) \/ GateList(w) \/ GateWrite(w) \/ MineCommit(w) \/ Abandon(w)
    BY <1>2, <1>4, <2>1 DEF ClaimNone, GateList, GateWrite, MineCommit, Abandon
  <2>2. CASE \/ PlanList(w) \/ PlanRefused(w) \/ PlanStart(w)
             \/ PlanCheck(w) \/ PlanInsert(w) \/ PlanFinish(w)
    BY <1>2, <1>4, <2>2
    DEF PlanList, PlanRefused, PlanStart, PlanCheck, PlanInsert, PlanFinish
  <2> QED
    BY <1>5, <1>6, <1>7, <1>8, <1>9, <1>10, <1>11, <2>1, <2>2 DEF Step
<1>12. CASE UNCHANGED worker
  BY <1>0, <1>12 DEF OneMiner, Mines, HeldPlanned, Busy, RowsStay, WorkersOK, Fit
<1>13. CASE ScheduleReadyAggregates \/ Reclaim \/ Operator
  BY <1>12, <1>13
  DEF ScheduleReadyAggregates, Reclaim, Operator, Pause, Cancel, Resume, RetryFailed, Enhance,
      Command
<1>14. ASSUME NEW w \in Workers, Crash(w) PROVE OneMiner' /\ HeldPlanned'
  BY <1>2, <1>14 DEF Crash
<1> QED
  BY <1>11, <1>13, <1>14 DEF Next

\* One miner, rows in hand in the table, and types: for any processes, partitions
\* and commands.
LEMMA HandsInvariant == Spec => []HandsInv
<1>1. Init => HandsInv
  BY InitTInv DEF Init, AtTop, HandsInv, OneMiner, Mines, HeldPlanned, Busy
<1>2. HandsInv /\ [Next]_vars => HandsInv'
  <2> SUFFICES ASSUME HandsInv, [Next]_vars PROVE HandsInv'
    OBVIOUS
  <2>1. TInv'
    BY NextTInv DEF HandsInv
  <2>2. CASE Next
    BY <2>1, <2>2, StepHands DEF HandsInv
  <2>3. CASE UNCHANGED vars
    BY <2>1, <2>3 DEF vars, HandsInv, OneMiner, Mines, HeldPlanned, Busy
  <2> QED
    BY <2>2, <2>3
<1> QED
  BY <1>1, <1>2, PTL DEF Spec

\* Who plans aggregates: the miner that leaves enrichment, and the cron job.
LEMMA WhoPlansAggregates ==
  ASSUME HandsInv, Next, PlansAggregates
  PROVE  \/ ScheduleReadyAggregates
         \/ \E w \in Workers : MineCommit(w) /\ worker[w].stage = "enrichment"
<1>0. RunOK /\ WorkersOK /\ HeldPlanned
  BY DEF HandsInv, TInv
<1>1. PICK p \in Aggregates : part[p] = "unplanned" /\ part'[p] # "unplanned"
  BY DEF PlansAggregates
<1>2. p \in Partitions /\ p \notin Bars \cup Scans \cup Ticks
  BY Kinds
<1>3. ASSUME NEW w \in Workers, NEW q \in Partitions, Claim(w, q) PROVE FALSE
  BY <1>0, <1>1, <1>2, <1>3 DEF Claim, RunOK, ClaimableStatus
<1>4. ASSUME NEW w \in Workers, Abandon(w) \/ Commit(w) PROVE FALSE
  <2>1. worker[w].held \in Partitions /\ part[worker[w].held] # "unplanned"
    BY <1>0, <1>4 DEF Abandon, Commit, HeldPlanned, Busy, WorkersOK, Fit
  <2> QED
    BY <1>0, <1>1, <1>2, <1>4, <2>1 DEF Abandon, Commit, RunOK
<1>5. ASSUME NEW w \in Workers, MineCommit(w) PROVE worker[w].stage = "enrichment"
  <2>1. CASE PlanCaptureScan
    BY <1>1, <1>2, <2>1 DEF PlanCaptureScan, EnterStage, Planned
  <2>2. CASE PlanEnrichment
    BY <1>1, <1>2, <2>2 DEF PlanEnrichment, EnterStage, Planned
  <2>3. CASE EnterReady
    BY <1>1, <2>3 DEF EnterReady
  <2> QED
    BY <1>5, <2>1, <2>2, <2>3 DEF MineCommit
<1>6. ASSUME NEW w \in Workers, Step(w), ~MineCommit(w) PROVE FALSE
  <2>1. CASE \/ ClaimNone(w) \/ \E outcome \in {"completed", "failed"} : Count(w, outcome)
             \/ MineRead(w) \/ MineCheck(w) \/ GateList(w) \/ GateRead(w) \/ GateWrite(w)
    BY <1>1, <2>1 DEF ClaimNone, Count, MineRead, MineCheck, GateList, GateRead, GateWrite
  <2>2. CASE PlanList(w) \/ PlanRefused(w) \/ PlanStart(w) \/ PlanCheck(w) \/ PlanFinish(w)
    BY <1>1, <2>2 DEF PlanList, PlanRefused, PlanStart, PlanCheck, PlanFinish
  <2>3. CASE PlanInsert(w)
    BY <1>1, <1>2, <2>3 DEF PlanInsert, Planned
  <2> QED
    BY <1>3, <1>4, <1>6, <2>1, <2>2, <2>3 DEF Step
<1>7. ASSUME Reclaim PROVE FALSE
  BY <1>0, <1>1, <1>2, <1>7 DEF Reclaim, RunOK
<1>8. ASSUME Operator PROVE FALSE
  <2>1. ASSUME NEW v, NEW S \in SUBSET {"failed", "cancelled", "queued", "retry_wait", "running"},
               part' = Set(With(S), v)
        PROVE  FALSE
    BY <1>1, <1>2, <2>1 DEF Set, With
  <2>2. CASE UNCHANGED part
    BY <1>1, <2>2
  <2> QED
    BY <1>8, <2>1, <2>2
    DEF Operator, Pause, Cancel, Resume, RetryFailed, Enhance, ActiveStatus
<1>9. ASSUME NEW w \in Workers, Crash(w) PROVE FALSE
  BY <1>1, <1>9 DEF Crash
<1> QED
  BY <1>5, <1>6, <1>7, <1>8, <1>9 DEF Next

\* Who makes ticks be owed when none is.
LEMMA WhoOwesTicks ==
  ASSUME HandsInv, Next, ~AnyActive(part, Ticks), AnyActive(part', Ticks)
  PROVE  \/ Resume \/ RetryFailed
         \/ \E w \in Workers : Abandon(w) /\ part[worker[w].held] # "running"
         \/ \E w \in Workers : MineCommit(w)
<1>0. RunOK /\ WorkersOK
  BY DEF HandsInv, TInv
<1>1. PICK p \in Ticks : part[p] \notin ActiveStatus /\ part'[p] \in ActiveStatus
  BY DEF AnyActive
<1>2. p \in Partitions /\ p \notin Bars \cup Scans \cup Aggregates
  BY Kinds
<1>3. ASSUME NEW w \in Workers, NEW q \in Partitions, Claim(w, q) PROVE FALSE
  BY <1>0, <1>1, <1>2, <1>3 DEF Claim, RunOK, ClaimableStatus, ActiveStatus
<1>4. ASSUME NEW w \in Workers, Abandon(w) PROVE part[worker[w].held] # "running"
  BY <1>0, <1>1, <1>2, <1>4 DEF Abandon, RunOK, ActiveStatus
<1>5. ASSUME NEW w \in Workers, Commit(w) PROVE FALSE
  <2>1. worker[w].outcome \in {"completed", "failed"}
    BY <1>0, <1>5 DEF Commit, WorkersOK, Fit
  <2> QED
    BY <1>0, <1>1, <1>2, <1>5, <2>1 DEF Commit, RunOK, ActiveStatus
<1>6. ASSUME NEW w \in Workers, Step(w), ~MineCommit(w), ~Abandon(w) PROVE FALSE
  <2>1. CASE \/ ClaimNone(w) \/ \E outcome \in {"completed", "failed"} : Count(w, outcome)
             \/ MineRead(w) \/ MineCheck(w) \/ GateList(w) \/ GateRead(w) \/ GateWrite(w)
    BY <1>1, <2>1 DEF ClaimNone, Count, MineRead, MineCheck, GateList, GateRead, GateWrite
  <2>2. CASE PlanList(w) \/ PlanRefused(w) \/ PlanStart(w) \/ PlanCheck(w) \/ PlanFinish(w)
    BY <1>1, <2>2 DEF PlanList, PlanRefused, PlanStart, PlanCheck, PlanFinish
  <2>3. CASE PlanInsert(w)
    BY <1>1, <1>2, <2>3 DEF PlanInsert, Planned
  <2> QED
    BY <1>3, <1>5, <1>6, <2>1, <2>2, <2>3 DEF Step
<1>7. ASSUME Reclaim PROVE FALSE
  BY <1>0, <1>1, <1>2, <1>7 DEF Reclaim, RunOK, ActiveStatus
<1>8. ASSUME ScheduleReadyAggregates PROVE FALSE
  BY <1>1, <1>2, <1>8 DEF ScheduleReadyAggregates, Planned
<1>9. ASSUME Pause \/ Cancel \/ Enhance PROVE FALSE
  BY <1>1, <1>2, <1>9 DEF Pause, Cancel, Enhance, Set, With, ActiveStatus
<1>10. ASSUME NEW w \in Workers, Crash(w) PROVE FALSE
  BY <1>1, <1>10 DEF Crash
<1> QED
  BY <1>4, <1>6, <1>7, <1>8, <1>9, <1>10 DEF Next, Operator

\* Only the check takes a process to the mining transaction.
LEMMA WhoMines ==
  ASSUME HandsInv, Next, NEW w \in Workers, worker'[w].pc = "mineCommit"
  PROVE  \/ MineCheck(w) /\ worker'[w].stage = worker[w].stage
         \/ worker'[w] = worker[w]
<1>0. WorkersOK
  BY DEF HandsInv, TInv
<1>1. ASSUME NEW v \in Workers, NEW r, worker' = [worker EXCEPT ![v] = r], r.pc # "mineCommit"
      PROVE  worker'[w] = worker[w]
  BY <1>0, <1>1 DEF WorkersOK
<1>2. ASSUME NEW v \in Workers, Restart(v) PROVE worker'[w] = worker[w]
  BY <1>1, <1>2 DEF Restart, AtTop
<1>3. ASSUME NEW v \in Workers, NEW pc, pc # "mineCommit", Goto(v, pc)
      PROVE  worker'[w] = worker[w]
  <2> DEFINE r == [worker[v] EXCEPT !.pc = pc]
  <2>1. worker' = [worker EXCEPT ![v] = r]
    BY <1>3 DEF Goto
  <2>2. r.pc = pc
    BY <1>0 DEF WorkersOK, Fit, Worker
  <2> HIDE DEF r
  <2> QED
    BY <1>1, <1>3, <2>1, <2>2
<1>4. ASSUME NEW v \in Workers, NEW p \in Partitions, Claim(v, p)
      PROVE  worker'[w] = worker[w]
  <2> DEFINE r == [AtTop EXCEPT !.pc = "working", !.held = p]
  <2>1. worker' = [worker EXCEPT ![v] = r] /\ r.pc = "working"
    BY <1>4 DEF Claim, AtTop
  <2> HIDE DEF r
  <2> QED
    BY <1>1, <2>1
<1>5. ASSUME NEW v \in Workers, NEW outcome \in {"completed", "failed"}, Count(v, outcome)
      PROVE  worker'[w] = worker[w]
  <2> DEFINE rows == [part EXCEPT ![worker[v].held] = outcome]
             r == [worker[v] EXCEPT !.pc = "counted", !.outcome = outcome,
                                    !.active = AnyActive(rows, Partitions),
                                    !.failed = AnyFailed(rows),
                                    !.ready = (stage = "ready")]
  <2>1. worker' = [worker EXCEPT ![v] = r]
    BY <1>5 DEF Count
  <2>2. r.pc = "counted"
    BY <1>0 DEF WorkersOK, Fit, Worker
  <2> HIDE DEF r
  <2> QED
    BY <1>1, <2>1, <2>2
<1>6. ASSUME NEW v \in Workers, Commit(v) PROVE worker'[w] = worker[w]
  <2> DEFINE pc == IF worker[v].held \in Catalogues /\ worker[v].outcome = "completed"
                   THEN "planStart" ELSE "claim"
             r == [AtTop EXCEPT !.pc = pc]
  <2>1. worker' = [worker EXCEPT ![v] = r] /\ r.pc \in {"planStart", "claim"}
    BY <1>6 DEF Commit, AtTop
  <2> HIDE DEF r
  <2> QED
    BY <1>1, <2>1
<1>7. ASSUME NEW v \in Workers, NEW r, worker' = [worker EXCEPT ![v] = r],
             \/ r = [worker[v] EXCEPT !.pc = "mineCheck", !.stage = stage]
             \/ r = [worker[v] EXCEPT !.pc = "gateWrite", !.saw = status]
      PROVE  worker'[w] = worker[w]
  <2>1. r.pc \in {"mineCheck", "gateWrite"}
    BY <1>0, <1>7 DEF WorkersOK, Fit, Worker
  <2> QED
    BY <1>1, <1>7, <2>1
<1>8. ASSUME NEW v \in Workers, MineRead(v) \/ GateRead(v) PROVE worker'[w] = worker[w]
  BY <1>3, <1>7, <1>8 DEF MineRead, GateRead
<1>9. ASSUME NEW v \in Workers, MineCheck(v)
      PROVE  \/ MineCheck(w) /\ worker'[w].stage = worker[w].stage
             \/ worker'[w] = worker[w]
  <2>1. CASE v # w
    BY <1>0, <1>9, <2>1 DEF MineCheck, Goto, WorkersOK
  <2>2. CASE v = w
    <3>1. worker'[w].stage = worker[w].stage
      BY <1>0, <1>9, <2>2 DEF MineCheck, Goto, WorkersOK, Fit, Worker
    <3> QED
      BY <1>9, <2>2, <3>1
  <2> QED
    BY <2>1, <2>2
<1>10. ASSUME NEW v \in Workers, Step(v)
       PROVE  \/ MineCheck(w) /\ worker'[w].stage = worker[w].stage
              \/ worker'[w] = worker[w]
  <2>1. CASE ClaimNone(v) \/ GateList(v) \/ GateWrite(v) \/ MineCommit(v) \/ Abandon(v)
    BY <1>2, <1>3, <2>1 DEF ClaimNone, GateList, GateWrite, MineCommit, Abandon
  <2>2. CASE \/ PlanList(v) \/ PlanRefused(v) \/ PlanStart(v)
             \/ PlanCheck(v) \/ PlanInsert(v) \/ PlanFinish(v)
    BY <1>2, <1>3, <2>2
    DEF PlanList, PlanRefused, PlanStart, PlanCheck, PlanInsert, PlanFinish
  <2> QED
    BY <1>4, <1>5, <1>6, <1>8, <1>9, <1>10, <2>1, <2>2 DEF Step
<1>11. CASE ScheduleReadyAggregates \/ Reclaim \/ Operator
  BY <1>11
  DEF ScheduleReadyAggregates, Reclaim, Operator, Pause, Cancel, Resume, RetryFailed, Enhance,
      Command
<1>12. ASSUME NEW v \in Workers, Crash(v) PROVE worker'[w] = worker[w]
  BY <1>2, <1>12 DEF Crash
<1> QED
  BY <1>10, <1>11, <1>12 DEF Next

\* A check that found no tick owed is overtaken by a command, or by a worker that
\* puts back what a command took out of its hands.
LEMMA WhoOvertakes ==
  ASSUME HandsInv, Next, NEW w \in Workers, CheckOvertaken(w)', ~CheckOvertaken(w)
  PROVE  \/ Resume \/ RetryFailed
         \/ \E v \in Workers : Abandon(v) /\ part[worker[v].held] # "running"
<1>0. WorkersOK
  BY DEF HandsInv, TInv
<1>1. /\ worker'[w].pc = "mineCommit" /\ worker'[w].stage = "enrichment"
      /\ AnyActive(part', Ticks)
  BY DEF CheckOvertaken, AnyActive
<1>2. CASE MineCheck(w) /\ worker'[w].stage = worker[w].stage
  <2>1. Goto(w, "mineCommit") => ~AnyActive(part, Settling("enrichment"))
    BY <1>0, <1>1, <1>2 DEF MineCheck, Goto, WorkersOK, Fit, Worker
  <2>2. worker'[w].pc = "mineCommit" => Goto(w, "mineCommit")
    BY <1>0, <1>2 DEF MineCheck, Goto, WorkersOK, Fit, Worker
  <2>3. part' = part
    BY <1>2 DEF MineCheck
  <2>4. Ticks \subseteq Settling("enrichment")
    BY Kinds DEF Settling
  <2> QED
    BY <1>1, <2>1, <2>2, <2>3, <2>4 DEF AnyActive
<1>3. CASE worker'[w] = worker[w]
  <2>1. worker[w].pc = "mineCommit" /\ ~AnyActive(part, Ticks)
    BY <1>1, <1>3 DEF CheckOvertaken
  <2>2. ASSUME NEW v \in Workers, MineCommit(v) PROVE FALSE
    <3>1. v = w
      BY <2>1, <2>2 DEF HandsInv, OneMiner, Mines, MineCommit
    <3>2. worker'[w].pc = "gate"
      BY <2>2, <3>1 DEF HandsInv, TInv, WorkersOK, Fit, Worker, MineCommit, Goto
    <3> QED
      BY <1>1, <3>2
  <2> QED
    BY <1>1, <2>1, <2>2, WhoOwesTicks
<1> QED
  BY <1>1, <1>2, <1>3, WhoMines

\* Aggregates are planned when no tick is owed, under every command, unless the
\* check of the mining process was overtaken, which only a command brings about.
THEOREM AggregatesLast == Spec => AggregatesFollowTicks
<1>1. ASSUME HandsInv, Next, PlansAggregates, AnyActive(part, Ticks)
      PROVE  \E w \in Workers : CheckOvertaken(w) /\ MineCommit(w)
  <2>1. ~ScheduleReadyAggregates
    BY <1>1 DEF ScheduleReadyAggregates, AnyActive, ActiveStatus
  <2>2. PICK w \in Workers : MineCommit(w) /\ worker[w].stage = "enrichment"
    BY <1>1, <2>1, WhoPlansAggregates
  <2> QED
    BY <1>1, <2>2 DEF CheckOvertaken, MineCommit
<1>2. HandsInv /\ [Next]_vars =>
        [/\ PlansAggregates /\ AnyActive(part, Ticks) =>
              \E w \in Workers : CheckOvertaken(w) /\ MineCommit(w)
         /\ \A w \in Workers : CheckOvertaken(w)' /\ ~CheckOvertaken(w) =>
              \/ Resume \/ RetryFailed
              \/ \E v \in Workers : Abandon(v) /\ part[worker[v].held] # "running"]_vars
  BY <1>1, WhoOvertakes DEF vars
<1> QED
  BY <1>2, HandsInvariant, PTL DEF Spec, AggregatesFollowTicks

-------------------------------------------------------------------------------
(* OwingIsOvertaken *)

\* A run whose status is refreshed with the rows as they are owes nothing when it
\* comes out as completed.
LEMMA RefreshedOwesNothing ==
  ASSUME NEW s, status' = Refreshed(s, stage', part')
  PROVE  ~Owing'
BY DEF Refreshed, RefreshedStatus, Owing, Completed, SettledStatus, HeldRunStatus

\* No new work is owed by a step that keeps the run and makes no row active.
LEMMA OwesNoMore ==
  ASSUME ~Owing, UNCHANGED <<status, stage>>,
         \A p \in Partitions : part'[p] \in ActiveStatus => part[p] \in ActiveStatus
  PROVE  ~Owing'
BY DEF Owing, Completed, AnyActive

\* What a process does, other than writing counts or planning.
LEMMA StepOwes ==
  ASSUME TInv, ~Owing, NEW w \in Workers, Step(w)
  PROVE  ~Owing' \/ (CountsOvertaken(w) /\ Commit(w)) \/ PlanStart(w) \/ PlanInsert(w)
<1>0. part \in [Partitions -> PartitionStatus \cup {"unplanned"}]
  BY DEF TInv, RunOK
<1>1. ASSUME NEW p \in Partitions, Claim(w, p) PROVE ~Owing'
  BY <1>1 DEF Claim, Owing, Completed, LiveRunStatus, SettledStatus
<1>2. CASE Abandon(w)
  <2>1. PICK v \in {"queued", "cancelled"} :
          /\ part' = [part EXCEPT ![worker[w].held] = v]
          /\ v = "queued" => status = "paused"
    BY <1>2 DEF Abandon
  <2>2. CASE v = "queued"
    BY <1>2, <2>1, <2>2 DEF Abandon, Owing, Completed, SettledStatus
  <2>3. CASE v = "cancelled"
    <3>1. \A p \in Partitions : part'[p] \in ActiveStatus => part[p] \in ActiveStatus
      BY <1>0, <2>1, <2>3 DEF ActiveStatus
    <3> QED
      BY <1>2, <3>1, OwesNoMore DEF Abandon
  <2> QED
    BY <2>2, <2>3
<1>3. CASE Commit(w)
  <2> DEFINE me == worker[w]
  <2>1. SUFFICES ASSUME Owing' PROVE CountsOvertaken(w)
    BY <1>3
  <2>2. /\ me.pc = "counted" /\ part' = [part EXCEPT ![me.held] = me.outcome]
        /\ status' = RefreshedStatus(status, me.ready, me.active, me.failed)
    BY <1>3 DEF Commit
  <2>3. status' \in SettledStatus /\ AnyActive(part', Partitions)
    BY <2>1 DEF Owing, Completed
  <2>4. ~me.active
    BY <2>2, <2>3 DEF RefreshedStatus, SettledStatus, HeldRunStatus
  <2> QED
    BY <2>2, <2>3, <2>4 DEF CountsOvertaken
<1>4. CASE MineCommit(w)
  <2>1. \E s : status' = Refreshed(s, stage', part')
    BY <1>4
    DEF MineCommit, PlanCaptureScan, PlanEnrichment, PlanAggregation, EnterReady, EnterStage
  <2> QED
    BY <2>1, RefreshedOwesNothing
<1>5. CASE PlanFinish(w)
  <2>1. \E s : status' = Refreshed(s, stage', part')
    BY <1>5 DEF PlanFinish
  <2> QED
    BY <2>1, RefreshedOwesNothing
<1>6. CASE UNCHANGED <<status, stage, part>>
  BY <1>6, OwesNoMore
<1>7. CASE ClaimNone(w) \/ \E outcome \in {"completed", "failed"} : Count(w, outcome)
  BY <1>6, <1>7 DEF ClaimNone, Count
<1>8. CASE MineRead(w) \/ MineCheck(w) \/ GateList(w) \/ GateRead(w) \/ GateWrite(w)
  BY <1>6, <1>8 DEF MineRead, MineCheck, GateList, GateRead, GateWrite
<1>9. CASE PlanList(w) \/ PlanRefused(w) \/ PlanCheck(w)
  BY <1>6, <1>9 DEF PlanList, PlanRefused, PlanCheck
<1> QED
  BY <1>1, <1>2, <1>3, <1>4, <1>5, <1>7, <1>8, <1>9 DEF Step

\* Under every command, a run comes to be shown as completed while it owes work only
\* by counts that were overtaken, or by a planner on a run that is in 'ready'.
THEOREM OwingOvertaken == Spec => OwingIsOvertaken
<1>1. ASSUME TInv, [Next]_vars, ~Owing, Owing'
      PROVE  \E w \in Workers :
               (CountsOvertaken(w) /\ Commit(w)) \/ PlanStart(w) \/ PlanInsert(w)
  <2>1. Next
    BY <1>1 DEF vars, Owing, Completed, AnyActive
  <2>2. ASSUME NEW w \in Workers, Crash(w) PROVE FALSE
    BY <1>1, <2>2, OwesNoMore DEF Crash
  <2>3. CASE ScheduleReadyAggregates \/ Reclaim
    BY <1>1, <2>3
    DEF ScheduleReadyAggregates, Reclaim, Owing, Completed, LiveRunStatus, SettledStatus
  <2>4. CASE Operator
    <3>1. CASE Pause \/ Cancel
      BY <1>1, <3>1 DEF Pause, Cancel, Owing, Completed, SettledStatus
    <3>2. CASE Resume \/ RetryFailed \/ Enhance
      <4>1. \E s : status' = Refreshed(s, stage', part')
        BY <3>2 DEF Resume, RetryFailed, Enhance
      <4> QED
        BY <1>1, <4>1, RefreshedOwesNothing
    <3> QED
      BY <2>4, <3>1, <3>2 DEF Operator
  <2> QED
    BY <1>1, <2>1, <2>2, <2>3, <2>4, StepOwes DEF Next
<1>2. TInv /\ [Next]_vars =>
        [Owing' /\ ~Owing =>
           \E w \in Workers :
             (CountsOvertaken(w) /\ Commit(w)) \/ PlanStart(w) \/ PlanInsert(w)]_vars
  BY <1>1
<1> QED
  BY <1>2, StagesInvariant, PTL DEF Spec, OwingIsOvertaken
===============================================================================
