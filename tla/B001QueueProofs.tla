--------------------------- MODULE B001QueueProofs ---------------------------
(***************************************************************************)
(* What B001Queue promises for every set of workers, symbols and archives  *)
(* and any number of attempts and disturbances.                            *)
(***************************************************************************)
EXTENDS B001Queue, TLAPS

-------------------------------------------------------------------------------
(* The items, told apart by their stage *)

\* The items of every symbol and archive are items, of the stage they are named for.
LEMMA ItemsOfStages ==
  /\ Root \in Items /\ Market \in Items /\ Signals \in Items /\ Short \in Items
  /\ Full \in Items
  /\ \A s \in Symbols : Symbol(s) \in Items /\ Derive(s) \in Items
  /\ \A a \in Archives : Spot(a) \in Items
BY DEF Items

\* An item of stage spot_month is that of an archive.
LEMMA SpotItems ==
  ASSUME NEW i \in Items, StageOf(i) = "spot_month"
  PROVE  i[2] \in Archives /\ i = Spot(i[2])
BY DEF StageOf, Items, Root, Market, Signals, Short, Full, Symbol, Derive, Spot

\* An item of stage derive_features is that of a symbol.
LEMMA DeriveItems ==
  ASSUME NEW i \in Items, StageOf(i) = "derive_features"
  PROVE  i[2] \in Symbols /\ i = Derive(i[2])
BY DEF StageOf, Items, Root, Market, Signals, Short, Full, Symbol, Derive, Spot

\* The stage of an item can be read off it.
LEMMA StagesOfItems ==
  /\ \A a \in Archives : StageOf(Spot(a)) = "spot_month" /\ Spot(a)[2] = a
  /\ \A s \in Symbols : StageOf(Derive(s)) = "derive_features" /\ Derive(s)[2] = s
BY DEF StageOf, Spot, Derive

\* What an advance decides on is one of the plans, and it names a stage of the run.
LEMMA AdvanceTypes ==
  /\ Decision \in Plans
  /\ \A p \in Plans : run.stage \in RunStages => StageLabel(p) \in RunStages
BY DEF Decision, Plans, StageLabel, RunStages

-------------------------------------------------------------------------------
(* Types, one table at a time *)

Pcs == {"idle", "work", "complete", "post", "advance", "plan", "zero"}
Row == [status : WorkStatus, attempts : Nat]
RunRow == [status : RunStatus, stage : RunStages]

ResearchOK ==
  /\ archive \in [Archives -> {"absent", "planned", "loaded", "missing", "failed"}]
  /\ verified \subseteq Archives /\ bars \subseteq Archives
  /\ features \in [Symbols -> {"none", "raw", "contiguous"}]
  /\ signals \in {"none", "zero", "some"}

JobsOK ==
  /\ job \in [Workers -> JobType]
  /\ \A w \in Workers : job[w].pc = "idle" => job[w] = Idle

HistoryOK ==
  /\ unheard \in BOOLEAN /\ lapsed \in BOOLEAN /\ reopened \in BOOLEAN
  /\ disturbances \in 0..MaxDisturbances

\* TypeOK is the conjunction of the tables' types.
LEMMA TypeParts ==
  TypeOK <=> run \in RunRow /\ item \in [Items -> Row] /\ ResearchOK /\ JobsOK /\ HistoryOK
BY DEF TypeOK, RunRow, Row, ResearchOK, JobsOK, HistoryOK

\* The same of the state that a step leads to.
LEMMA PartsType ==
  ASSUME run' \in RunRow, item' \in [Items -> Row], ResearchOK', JobsOK', HistoryOK'
  PROVE  TypeOK'
BY DEF TypeOK, RunRow, Row, ResearchOK, JobsOK, HistoryOK

\* A worker without work is one of JobType, and so is one that has lost its item.
LEMMA IdleTyped == Idle \in JobType /\ Idle.pc = "idle"
BY DEF Idle, JobType, Plans

\* The initial state is well typed.
LEMMA InitTyped == Init => TypeOK
<1> SUFFICES ASSUME Init PROVE TypeOK
  OBVIOUS
<1>1. run \in RunRow
  BY DEF Init, RunRow, RunStatus, OpenRunStatus, RunStages
<1>2. item \in [Items -> Row]
  BY DEF Init, Row, WorkStatus, ActiveStatus, WaitingStatus
<1>3. ResearchOK
  BY DEF Init, ResearchOK
<1>4. JobsOK
  BY IdleTyped DEF Init, JobsOK
<1>5. HistoryOK
  <2>1. unheard \in BOOLEAN /\ lapsed \in BOOLEAN /\ reopened \in BOOLEAN
    BY Zenon DEF Init
  <2>2. disturbances \in 0..MaxDisturbances
    BY B001Assumption DEF Init
  <2> QED
    BY <2>1, <2>2 DEF HistoryOK
<1> QED
  BY <1>1, <1>2, <1>3, <1>4, <1>5, TypeParts

\* A worker that goes on to its next step keeps its item and its plans.
LEMMA GoesTyped ==
  ASSUME JobsOK, NEW w \in Workers, NEW pc \in Pcs \ {"idle"}, Goes(w, pc)
  PROVE  JobsOK'
<1>1. [job[w] EXCEPT !.pc = pc] \in JobType
  BY DEF JobsOK, JobType, Pcs
<1>2. job' = [job EXCEPT ![w] = [job[w] EXCEPT !.pc = pc]]
  BY DEF Goes
<1>3. [job[w] EXCEPT !.pc = pc].pc = pc
  BY DEF JobsOK, JobType
<1> QED
  BY <1>1, <1>2, <1>3 DEF JobsOK

\* A worker that becomes idle forgets everything.
LEMMA IdlesTyped ==
  ASSUME JobsOK, NEW w \in Workers, job' = [job EXCEPT ![w] = Idle]
  PROVE  JobsOK'
BY IdleTyped DEF JobsOK

\* A worker that is given any other state.
LEMMA JobTyped ==
  ASSUME JobsOK, NEW w \in Workers, NEW j \in JobType, j.pc # "idle",
         job' = [job EXCEPT ![w] = j]
  PROVE  JobsOK'
BY DEF JobsOK

\* Rows that are inserted are queued; the others stay.
LEMMA InsertedTyped ==
  ASSUME item \in [Items -> Row], NEW rows
  PROVE  Inserted(rows) \in [Items -> Row]
<1>1. \A i \in Items : [item[i] EXCEPT !.status = "queued"] \in Row
  BY DEF Row, WorkStatus, ActiveStatus, WaitingStatus
<1> QED
  BY <1>1 DEF Inserted

\* A row whose status or attempts are written.
LEMMA WrittenTyped ==
  ASSUME item \in [Items -> Row], NEW i \in Items, NEW status \in WorkStatus
  PROVE  /\ [item EXCEPT ![i].status = status] \in [Items -> Row]
         /\ \A n \in Nat : [item EXCEPT ![i] = [status |-> status, attempts |-> n]]
                             \in [Items -> Row]
<1>1. [item[i] EXCEPT !.status = status] \in Row
  BY DEF Row
<1>2. [item EXCEPT ![i].status = status] = [item EXCEPT ![i] = [item[i] EXCEPT !.status = status]]
  OBVIOUS
<1>3. \A n \in Nat : [status |-> status, attempts |-> n] \in Row
  BY DEF Row
<1> QED
  BY <1>1, <1>2, <1>3

\* The statuses that the code writes.
LEMMA Statuses ==
  /\ {"queued", "retry_wait", "running", "completed", "missing", "failed", "cancelled"}
       \subseteq WorkStatus
  /\ {"queued", "running", "paused", "cancelled", "failed", "completed",
      "completed_with_errors"} \subseteq RunStatus
BY DEF WorkStatus, ActiveStatus, WaitingStatus, RunStatus, OpenRunStatus, HaltedStatus

-------------------------------------------------------------------------------
(* Types, one action at a time *)

\* Disturbances are counted within their bound.
LEMMA DisturbTyped ==
  ASSUME disturbances \in 0..MaxDisturbances, Disturb \/ UNCHANGED disturbances
  PROVE  disturbances' \in 0..MaxDisturbances
BY B001Assumption DEF Disturb

\* The parts of TypeOK, together with what holds of every worker that has an
\* item in hand: the strengthening that completions need.
TypeInv == /\ TypeOK
           /\ \A w \in Workers : job[w].pc \in {"work", "complete", "post"} => job[w].item \in Items

\* A claim gives the worker an item.
LEMMA ClaimTyped ==
  ASSUME TypeOK, NEW w \in Workers, NEW i \in Items, Claim(w, i)
  PROVE  TypeOK'
<1>0. run \in RunRow /\ item \in [Items -> Row] /\ ResearchOK /\ JobsOK /\ HistoryOK
  BY TypeParts
<1>1. run' \in RunRow
  BY <1>0, Statuses DEF Claim, RunRow
<1>2. item[i].attempts + 1 \in Nat
  BY <1>0 DEF Row
<1>3. item' \in [Items -> Row]
  BY <1>0, <1>2, WrittenTyped, Statuses DEF Claim
<1>4. ResearchOK' /\ HistoryOK'
  BY <1>0 DEF Claim, research, history, ResearchOK, HistoryOK
<1> DEFINE j == [Idle EXCEPT !.pc = "work", !.item = i, !.attempts = item[i].attempts + 1]
<1>5. j \in JobType /\ j.pc = "work"
  BY <1>2 DEF Idle, JobType, Plans
<1>6. job' = [job EXCEPT ![w] = j]
  BY DEF Claim
<1> HIDE DEF j
<1>7. JobsOK'
  BY <1>0, <1>5, <1>6, JobTyped
<1> QED
  BY <1>1, <1>3, <1>4, <1>7, PartsType

\* What the stages do to the tables of the research.
LEMMA StageTyped ==
  ASSUME TypeOK, NEW w \in Workers,
         \/ DiscoverArchives(w) \/ DiscoverSymbol(w) \/ SupplementDaily(w) \/ LoadArchive(w)
         \/ DeriveFeatures(w) \/ MaterializeMarketState(w) \/ GenerateSignals(w)
         \/ CheckShortability(w) \/ RunAnalysis(w) \/ InvalidateGaps(w) \/ TrimSignals(w)
  PROVE  TypeOK'
<1>0. run \in RunRow /\ item \in [Items -> Row] /\ ResearchOK /\ JobsOK /\ HistoryOK
  BY TypeParts
<1>1. JobsOK'
  <2>1. CASE FetchMissing(w)
    <3> DEFINE j == [job[w] EXCEPT !.pc = "complete", !.verdict = "missing"]
    <3>1. j \in JobType /\ j.pc = "complete"
      BY <1>0 DEF JobsOK, JobType
    <3>2. job' = [job EXCEPT ![w] = j]
      BY <1>0, <2>1 DEF FetchMissing, JobsOK
    <3> HIDE DEF j
    <3> QED
      BY <1>0, <3>1, <3>2, JobTyped
  <2>2. CASE Goes(w, "complete") \/ Goes(w, "advance")
    BY <1>0, <2>2, GoesTyped DEF Pcs
  <2> QED
    BY <2>1, <2>2 DEF DiscoverArchives, DiscoverSymbol, SupplementDaily, PlanArchives, LoadArchive,
       LoadCanonical, LoadForward, Loaded, DeriveFeatures, MaterializeMarketState,
       GenerateSignals, CheckShortability, RunAnalysis, InvalidateGaps, TrimSignals
<1>2. run' \in RunRow
  <2>1. CASE RunAnalysis(w)
    BY <2>1, Statuses DEF RunAnalysis, RunRow, RunStages
  <2>2. CASE UNCHANGED run
    BY <1>0, <2>2
  <2> QED
    BY <2>1, <2>2 DEF DiscoverArchives, DiscoverSymbol, SupplementDaily, PlanArchives, LoadArchive,
       FetchMissing, LoadCanonical, LoadForward, Loaded, DeriveFeatures, MaterializeMarketState,
       GenerateSignals, CheckShortability, RunAnalysis, InvalidateGaps, TrimSignals
<1>3. item' \in [Items -> Row]
  <2>1. CASE DiscoverArchives(w) \/ DiscoverSymbol(w) \/ SupplementDaily(w)
    BY <1>0, <2>1, InsertedTyped DEF DiscoverArchives, DiscoverSymbol, SupplementDaily, PlanArchives
  <2>2. CASE UNCHANGED item
    BY <1>0, <2>2
  <2> QED
    BY <2>1, <2>2 DEF LoadArchive,
       FetchMissing, LoadCanonical, LoadForward, Loaded, DeriveFeatures, MaterializeMarketState,
       GenerateSignals, CheckShortability, RunAnalysis, InvalidateGaps, TrimSignals
<1>4. ResearchOK'
  <2>1. CASE DiscoverSymbol(w) \/ SupplementDaily(w)
    BY <1>0, <2>1 DEF DiscoverSymbol, SupplementDaily, PlanArchives, ResearchOK
  <2>2. CASE LoadArchive(w)
    <3>1. job[w].item[2] \in Archives
      BY <2>2, SpotItems DEF LoadArchive, FetchMissing, LoadCanonical, LoadForward, Loaded, At, InStage
    <3>2. CASE FetchMissing(w)
      BY <1>0, <3>1, <3>2 DEF FetchMissing, ResearchOK
    <3>3. CASE Loaded(w, TRUE) \/ Loaded(w, FALSE)
      BY <1>0, <3>1, <3>3 DEF Loaded, ResearchOK
    <3> QED
      BY <2>2, <3>2, <3>3 DEF LoadArchive, LoadCanonical, LoadForward
  <2>3. CASE DeriveFeatures(w) \/ InvalidateGaps(w)
    BY <1>0, <2>3 DEF DeriveFeatures, InvalidateGaps, ResearchOK
  <2>4. CASE GenerateSignals(w) \/ TrimSignals(w)
    BY <1>0, <2>4 DEF GenerateSignals, TrimSignals, ResearchOK
  <2>5. CASE UNCHANGED research
    BY <1>0, <2>5 DEF research, ResearchOK
  <2> QED
    BY <2>1, <2>2, <2>3, <2>4, <2>5
    DEF DiscoverArchives, MaterializeMarketState, CheckShortability, RunAnalysis
<1>5. HistoryOK'
  <2>1. UNCHANGED <<unheard, lapsed, reopened>>
    BY DEF DiscoverArchives, DiscoverSymbol, SupplementDaily, PlanArchives, LoadArchive,
       FetchMissing, LoadCanonical, LoadForward, Loaded, DeriveFeatures, MaterializeMarketState,
       GenerateSignals, CheckShortability, RunAnalysis, InvalidateGaps, TrimSignals, history
  <2>2. Disturb \/ UNCHANGED disturbances
    BY DEF DiscoverArchives, DiscoverSymbol, SupplementDaily, PlanArchives, LoadArchive,
       FetchMissing, LoadCanonical, LoadForward, Loaded, DeriveFeatures, MaterializeMarketState,
       GenerateSignals, CheckShortability, RunAnalysis, InvalidateGaps, TrimSignals, history
  <2> QED
    BY <1>0, <2>1, <2>2, DisturbTyped DEF HistoryOK
<1> QED
  BY <1>1, <1>2, <1>3, <1>4, <1>5, PartsType

\* A completion writes one of the worker's two verdicts.
LEMMA CompleteTyped ==
  ASSUME TypeInv, NEW w \in Workers, Complete(w)
  PROVE  TypeOK'
<1>0. run \in RunRow /\ item \in [Items -> Row] /\ ResearchOK /\ JobsOK /\ HistoryOK
  BY TypeParts DEF TypeInv
<1>1. job[w].item \in Items /\ job[w].verdict \in WorkStatus
  BY <1>0, Statuses DEF TypeInv, Complete, JobsOK, JobType
<1>2. item' \in [Items -> Row]
  BY <1>0, <1>1, WrittenTyped DEF Complete
<1>3. JobsOK'
  BY <1>0, GoesTyped DEF Complete, Pcs
<1>4. run' \in RunRow /\ ResearchOK' /\ HistoryOK'
  BY <1>0 DEF Complete, history, ResearchOK, HistoryOK
<1> QED
  BY <1>2, <1>3, <1>4, PartsType

\* An advance inserts rows and writes a stage of the run.
LEMMA AdvanceTyped ==
  ASSUME TypeOK, NEW w \in Workers, AdvanceRead(w) \/ AdvanceWrite(w) \/ AdvanceZeroSignals(w)
  PROVE  TypeOK'
<1>0. run \in RunRow /\ item \in [Items -> Row] /\ ResearchOK /\ JobsOK /\ HistoryOK
  BY TypeParts
<1>1. ResearchOK'
  BY <1>0 DEF AdvanceRead, AdvanceWrite, AdvanceZeroSignals, research, ResearchOK
<1>2. unheard' \in BOOLEAN
  BY <1>0, Zenon DEF AdvanceRead, AdvanceWrite, AdvanceZeroSignals, HistoryOK
<1>3. HistoryOK'
  BY <1>0, <1>2 DEF AdvanceRead, AdvanceWrite, AdvanceZeroSignals, HistoryOK
<1>4. CASE AdvanceRead(w)
  <2>1. run' \in RunRow /\ item' \in [Items -> Row]
    BY <1>0, <1>4 DEF AdvanceRead
  <2>2. CASE job' = [job EXCEPT ![w] = Idle]
    BY <1>0, <1>1, <1>3, <2>1, <2>2, IdlesTyped, PartsType
  <2>3. CASE job' = [job EXCEPT ![w].pc = "plan", ![w].plan = Decision]
    <3> DEFINE j == [job[w] EXCEPT !.pc = "plan", !.plan = Decision]
    <3>1. j \in JobType /\ j.pc = "plan"
      BY <1>0, AdvanceTypes DEF JobsOK, JobType
    <3>2. job' = [job EXCEPT ![w] = j]
      BY <1>0, <2>3 DEF JobsOK
    <3> HIDE DEF j
    <3>3. JobsOK'
      BY <1>0, <3>1, <3>2, JobTyped
    <3> QED
      BY <1>1, <1>3, <2>1, <3>3, PartsType
  <2> QED
    BY <1>4, <2>2, <2>3 DEF AdvanceRead
<1>5. CASE AdvanceWrite(w)
  <2>1. StageLabel(job[w].plan) \in RunStages
    BY <1>0, AdvanceTypes DEF JobsOK, JobType, RunRow
  <2>2. run' \in RunRow
    BY <1>0, <1>5, <2>1 DEF AdvanceWrite, RunRow
  <2>3. item' \in [Items -> Row]
    BY <1>0, <1>5, InsertedTyped DEF AdvanceWrite
  <2>4. JobsOK'
    BY <1>0, <1>5, GoesTyped DEF AdvanceWrite, Pcs
  <2> QED
    BY <1>1, <1>3, <2>2, <2>3, <2>4, PartsType
<1>6. CASE AdvanceZeroSignals(w)
  <2>1. run' \in RunRow
    BY <1>0, <1>6 DEF AdvanceZeroSignals, RunRow, RunStages
  <2>2. item' \in [Items -> Row]
    BY <1>0, <1>6, InsertedTyped DEF AdvanceZeroSignals
  <2>3. JobsOK'
    BY <1>0, <1>6, IdlesTyped DEF AdvanceZeroSignals
  <2> QED
    BY <1>1, <1>3, <2>1, <2>2, <2>3, PartsType
<1> QED
  BY <1>4, <1>5, <1>6

\* Work that is put back to retry_wait.
LEMMA WithdrawTyped ==
  ASSUME TypeOK, NEW w \in Workers, job[w].item \in Items, NEW n \in Nat, Withdraw(w, n),
         HistoryOK'
  PROVE  TypeOK'
<1>0. run \in RunRow /\ item \in [Items -> Row] /\ ResearchOK /\ JobsOK /\ HistoryOK
  BY TypeParts
<1>1. item' \in [Items -> Row]
  BY <1>0, WrittenTyped, Statuses DEF Withdraw
<1>2. JobsOK'
  BY <1>0, IdlesTyped DEF Withdraw
<1>3. run' \in RunRow /\ ResearchOK'
  BY <1>0 DEF Withdraw, research, ResearchOK
<1> QED
  BY <1>1, <1>2, <1>3, PartsType

\* Work that has failed for good.
LEMMA FailForGoodTyped ==
  ASSUME TypeOK, NEW w \in Workers, job[w].item \in Items, FailForGood(w),
         disturbances' \in 0..MaxDisturbances
  PROVE  TypeOK'
<1>0. run \in RunRow /\ item \in [Items -> Row] /\ ResearchOK /\ JobsOK /\ HistoryOK
  BY TypeParts
<1>1. item' \in [Items -> Row]
  BY <1>0, WrittenTyped, Statuses DEF FailForGood
<1>2. run' \in RunRow
  BY <1>0, Statuses DEF FailForGood, RunRow
<1>3. ResearchOK'
  BY <1>0, SpotItems DEF FailForGood, ResearchOK
<1>4. JobsOK'
  <2>1. [Idle EXCEPT !.pc = "advance"] \in JobType /\ [Idle EXCEPT !.pc = "advance"].pc = "advance"
    BY DEF Idle, JobType, Plans
  <2> QED
    BY <1>0, <2>1, IdlesTyped, JobTyped DEF FailForGood
<1>5. unheard' \in BOOLEAN /\ lapsed' \in BOOLEAN /\ reopened' \in BOOLEAN
  <2>1. unheard \in BOOLEAN /\ lapsed \in BOOLEAN /\ reopened \in BOOLEAN
    BY <1>0 DEF HistoryOK
  <2> QED
    BY <2>1, Zenon DEF FailForGood
<1> QED
  BY <1>1, <1>2, <1>3, <1>4, <1>5, PartsType DEF HistoryOK

\* Every failure is one of the two, or loses the worker.
LEMMA FailTyped ==
  ASSUME TypeInv, NEW w \in Workers, Fail(w) \/ FailVerification(w)
  PROVE  TypeOK'
<1>0. TypeOK /\ run \in RunRow /\ item \in [Items -> Row] /\ ResearchOK /\ JobsOK /\ HistoryOK
  BY TypeParts DEF TypeInv
<1>1. disturbances' \in 0..MaxDisturbances
  BY <1>0, DisturbTyped DEF Fail, FailVerification, FailTransient, FailRetryable, FailPermanent,
     Crash, HistoryOK
<1>2. CASE FailTransient(w)
  <2>1. job[w].item \in Items
    BY <1>0, <1>2 DEF FailTransient, Fallible, JobsOK, JobType
  <2> DEFINE a == item[job[w].item].attempts
  <2>2. (IF a > 0 THEN a - 1 ELSE 0) \in Nat
    BY <1>0, <2>1 DEF Row
  <2>3. HistoryOK'
    BY <1>0, <1>1, <1>2 DEF FailTransient, HistoryOK
  <2> QED
    BY <1>0, <1>2, <2>1, <2>2, <2>3, WithdrawTyped DEF FailTransient
<1>3. CASE FailRetryable(w)
  <2>1. job[w].item \in Items
    BY <1>0, <1>3 DEF FailRetryable, Fallible, JobsOK, JobType
  <2>2. CASE FailForGood(w)
    BY <1>0, <1>1, <2>1, <2>2, FailForGoodTyped
  <2>3. CASE /\ Withdraw(w, item[job[w].item].attempts)
             /\ UNCHANGED <<unheard, lapsed, reopened>>
    <3>1. item[job[w].item].attempts \in Nat
      BY <1>0, <2>1 DEF Row
    <3>2. HistoryOK'
      BY <1>0, <1>1, <2>3 DEF HistoryOK
    <3> QED
      BY <1>0, <2>1, <2>3, <3>1, <3>2, WithdrawTyped
  <2> QED
    BY <1>3, <2>2, <2>3 DEF FailRetryable
<1>4. CASE FailPermanent(w) \/ FailVerification(w)
  <2>1. job[w].item \in Items
    BY <1>4 DEF FailPermanent, FailVerification, At, InStage, TypeInv
  <2> QED
    BY <1>0, <1>1, <1>4, <2>1, FailForGoodTyped DEF FailPermanent, FailVerification
<1>5. CASE Crash(w)
  <2>1. unheard' \in BOOLEAN
    BY <1>5, Zenon DEF Crash
  <2>2. HistoryOK'
    BY <1>0, <1>1, <1>5, <2>1 DEF Crash, HistoryOK
  <2>3. ResearchOK' /\ run' \in RunRow /\ item' \in [Items -> Row]
    BY <1>0, <1>5 DEF Crash, research, ResearchOK
  <2>4. JobsOK'
    BY <1>0, <1>5, IdlesTyped DEF Crash
  <2> QED
    BY <2>2, <2>3, <2>4, PartsType
<1> QED
  BY <1>2, <1>3, <1>4, <1>5 DEF Fail

\* Rows whose status is rewritten in one statement.
LEMMA ManyTyped ==
  ASSUME item \in [Items -> Row], NEW S, NEW status \in WorkStatus
  PROVE  [i \in Items |-> IF i \in S THEN [item[i] EXCEPT !.status = status] ELSE item[i]]
           \in [Items -> Row]
<1>1. \A i \in Items : [item[i] EXCEPT !.status = status] \in Row
  BY DEF Row
<1> QED
  BY <1>1

\* Reclaims and commands of the operator.
LEMMA OutsideTyped ==
  ASSUME TypeOK, (\E i \in Items : Reclaim(i) \/ Lapse(i)) \/ Operator
  PROVE  TypeOK'
<1>0. run \in RunRow /\ item \in [Items -> Row] /\ ResearchOK /\ JobsOK /\ HistoryOK
  BY TypeParts
<1>1. JobsOK'
  BY <1>0 DEF Reclaim, Lapse, Requeued, Operator, Pause, Resume, Cancel, RequeueFailedArchives, JobsOK
<1>2. ResearchOK'
  <2>1. CASE RequeueFailedArchives
    BY <1>0, <2>1 DEF RequeueFailedArchives, ResearchOK
  <2>2. CASE UNCHANGED research
    BY <1>0, <2>2 DEF research, ResearchOK
  <2> QED
    BY <2>1, <2>2 DEF Reclaim, Lapse, Requeued, Operator, Pause, Resume, Cancel
<1>3. disturbances' \in 0..MaxDisturbances
  BY <1>0, DisturbTyped DEF Reclaim, Lapse, Requeued, Operator, Pause, Resume, Cancel,
     RequeueFailedArchives, HistoryOK
<1>4. unheard' \in BOOLEAN /\ lapsed' \in BOOLEAN /\ reopened' \in BOOLEAN
  <2>1. unheard \in BOOLEAN /\ lapsed \in BOOLEAN /\ reopened \in BOOLEAN
    BY <1>0 DEF HistoryOK
  <2> QED
    BY <2>1, Zenon DEF Reclaim, Lapse, Requeued, Operator, Pause, Resume, Cancel,
       RequeueFailedArchives
<1>5. run' \in RunRow
  BY <1>0, Statuses DEF Reclaim, Lapse, Requeued, Operator, Pause, Resume, Cancel,
     RequeueFailedArchives, RunRow
<1>6. item' \in [Items -> Row]
  <2>1. ASSUME NEW i \in Items, Requeued(i) PROVE item' \in [Items -> Row]
    BY <1>0, <2>1, WrittenTyped, Statuses DEF Requeued
  <2>2. CASE Pause
    BY <1>0, <2>2 DEF Pause
  <2>3. CASE Resume
    <3> DEFINE S == {i \in Items : item[i].status = "failed" /\ item[i].attempts < MaxAttempts}
    <3>1. item' = [i \in Items |-> IF i \in S THEN [item[i] EXCEPT !.status = "retry_wait"]
                                  ELSE item[i]]
      BY <2>3 DEF Resume
    <3> HIDE DEF S
    <3> QED
      BY <1>0, <3>1, ManyTyped, Statuses
  <2>4. CASE Cancel
    <3> DEFINE S == {i \in Items : item[i].status \in ActiveStatus}
    <3>1. item' = [i \in Items |-> IF i \in S THEN [item[i] EXCEPT !.status = "cancelled"]
                                  ELSE item[i]]
      BY <2>4 DEF Cancel
    <3> HIDE DEF S
    <3> QED
      BY <1>0, <3>1, ManyTyped, Statuses
  <2>5. CASE RequeueFailedArchives
    <3>1. [status |-> "retry_wait", attempts |-> 0] \in Row
      BY Statuses DEF Row
    <3> QED
      BY <1>0, <2>5, <3>1 DEF RequeueFailedArchives
  <2> QED
    BY <2>1, <2>2, <2>3, <2>4, <2>5 DEF Reclaim, Lapse, Operator
<1> QED
  BY <1>1, <1>2, <1>3, <1>4, <1>5, <1>6, PartsType DEF HistoryOK

-------------------------------------------------------------------------------
(* What a step does to the workers and to the items it is not about *)

\* The other workers go on as they were.
Others(w) == \A v \in Workers : v # w => job'[v] = job[v]

\* An item keeps its status, or is given back to the queue while nobody holds
\* it, or is cancelled.
Moves(i) == \/ item'[i].status = item[i].status
            \/ ~Held(i) /\ item'[i].status \in WaitingStatus
            \/ item'[i].status = "cancelled"

\* Of an archive that is loaded or gone, nothing is taken back; features stay.
ResearchKept(i) ==
  /\ StageOf(i) = "spot_month" /\ archive[i[2]] \in {"loaded", "missing"} =>
       archive'[i[2]] = archive[i[2]] /\ (i[2] \in verified => i[2] \in verified')
  /\ StageOf(i) = "derive_features" => features'[i[2]] = features[i[2]]

\* A worker that is at work, completes or post-processes has an item in hand.
Holding == \A w \in Workers : job[w].pc \in {"work", "complete", "post"} => job[w].item \in Items

\* What holds of an item and of the worker that has it in hand.
Owns(v, i) ==
  /\ item[i].status \in {"running", "completed", "missing", "cancelled"}
  /\ job[v].pc \in {"work", "complete"} => item[i].status \in {"running", "cancelled"}
  /\ job[v].pc = "work" => job[v].verdict = "completed"
  /\ job[v].pc = "complete" /\ job[v].verdict = "missing" =>
       StageOf(i) = "spot_month" /\ archive[i[2]] = "missing"

Backed(i) ==
  StageOf(i) = "spot_month" =>
    /\ item[i].status = "completed" => Verified(i[2])
    /\ item[i].status = "missing" => archive[i[2]] = "missing"

Contiguous(i) ==
  StageOf(i) = "derive_features" /\ item[i].status = "completed" /\ features[i[2]] = "raw" =>
    unheard \/ \E w \in Workers : job[w].item = i /\ job[w].pc = "post"

Unique(i) == \A v, w \in Workers : job[v].item = i /\ job[w].item = i => v = w

ItemOK(i) ==
  /\ \A v \in Workers : job[v].item = i => Owns(v, i)
  /\ Backed(i) /\ Contiguous(i) /\ Unique(i)

Strong == \A i \in Items : ItemOK(i)

\* The inductive invariant.
IInv == TypeOK /\ Holding /\ (lapsed \/ Strong)

\* An item in hand is neither absent, waiting nor failed.
LEMMA LooseUnheld ==
  ASSUME NEW i \in Items, ItemOK(i), item[i].status \in {"absent", "failed"} \cup WaitingStatus
  PROVE  ~Held(i)
BY DEF ItemOK, Owns, Held, WaitingStatus

\* A worker that goes on keeps its item and its verdict.
LEMMA GoesOn ==
  ASSUME TypeOK, NEW w \in Workers, NEW pc, Goes(w, pc)
  PROVE  /\ Others(w)
         /\ job'[w].pc = pc /\ job'[w].item = job[w].item /\ job'[w].verdict = job[w].verdict
BY DEF TypeOK, JobType, Goes, Others

\* A worker that becomes idle has no item.
LEMMA GoesIdle ==
  ASSUME TypeOK, NEW w \in Workers, job' = [job EXCEPT ![w] = Idle]
  PROVE  Others(w) /\ job'[w].pc = "idle" /\ job'[w].item = None
BY DEF TypeOK, Idle, Others

\* An item that a step is not about stays as it should be.
LEMMA Undisturbed ==
  ASSUME NEW i \in Items, ItemOK(i), Moves(i), ResearchKept(i), unheard => unheard',
         \A v \in Workers : job[v].item = i \/ job'[v].item = i => job'[v] = job[v]
  PROVE  ItemOK(i)'
<1>1. ASSUME NEW v \in Workers, job'[v].item = i PROVE Owns(v, i)'
  <2>1. job'[v] = job[v] /\ Owns(v, i) /\ Held(i)
    BY <1>1 DEF ItemOK, Held
  <2>2. item'[i].status \in {item[i].status, "cancelled"}
    BY <2>1 DEF Moves
  <2> QED
    BY <2>1, <2>2 DEF Owns, ResearchKept
<1>2. Backed(i)'
  BY DEF ItemOK, Backed, Moves, ResearchKept, Verified, WaitingStatus
<1>3. Contiguous(i)'
  <2> SUFFICES ASSUME StageOf(i) = "derive_features", item'[i].status = "completed",
                      features'[i[2]] = "raw", ~unheard'
               PROVE  \E w \in Workers : job'[w].item = i /\ job'[w].pc = "post"
    BY DEF Contiguous
  <2>1. item[i].status = "completed" /\ features[i[2]] = "raw" /\ ~unheard
    BY DEF Moves, ResearchKept, WaitingStatus
  <2>2. PICK w \in Workers : job[w].item = i /\ job[w].pc = "post"
    BY <2>1 DEF ItemOK, Contiguous
  <2> QED
    BY <2>2
<1>4. Unique(i)'
  BY DEF ItemOK, Unique
<1> QED
  BY <1>1, <1>2, <1>3, <1>4 DEF ItemOK

\* A step of one worker: the items it does not have in hand move as they may,
\* and its own is as it should be afterwards.
LEMMA WorkerStep ==
  ASSUME Strong, NEW w \in Workers, Others(w), job'[w].item \in {job[w].item, None},
         unheard => unheard',
         \A i \in Items : i # job[w].item => Moves(i) /\ ResearchKept(i),
         \A i \in Items : i = job[w].item =>
           (job'[w].item = i => Owns(w, i)') /\ Backed(i)' /\ Contiguous(i)'
  PROVE  Strong'
<1> SUFFICES ASSUME NEW i \in Items PROVE ItemOK(i)'
  BY DEF Strong
<1>0. ItemOK(i)
  BY DEF Strong
<1>1. CASE i # job[w].item
  <2>1. \A v \in Workers : job[v].item = i \/ job'[v].item = i => job'[v] = job[v]
    BY <1>1, NoneAssumption DEF Others
  <2> QED
    BY <1>0, <1>1, <2>1, Undisturbed
<1>2. CASE i = job[w].item
  <2>1. \A v \in Workers : job'[v].item = i => v = w
    BY <1>0, <1>2 DEF Others, ItemOK, Unique
  <2> QED
    BY <1>2, <2>1 DEF ItemOK, Unique
<1> QED
  BY <1>1, <1>2

\* A step that no worker takes.
LEMMA OutsideStep ==
  ASSUME Strong, UNCHANGED job, unheard => unheard',
         \A i \in Items : Moves(i) /\ ResearchKept(i)
  PROVE  Strong'
BY Undisturbed DEF Strong

\* Rows that are inserted were held by nobody.
LEMMA InsertedMoves ==
  ASSUME TypeOK, Strong, NEW rows, item' = Inserted(rows)
  PROVE  /\ \A i \in Items : Moves(i)
         /\ \A i \in Items : item[i].status # "absent" => item'[i] = item[i]
<1>1. item \in [Items -> Row]
  BY TypeParts
<1>2. ASSUME NEW i \in Items
      PROVE  item'[i] = item[i] \/ (item[i].status = "absent" /\ item'[i].status = "queued")
  <2>1. [item[i] EXCEPT !.status = "queued"].status = "queued"
    BY <1>1 DEF Row
  <2>2. item'[i] = IF i \in rows /\ item[i].status = "absent"
                   THEN [item[i] EXCEPT !.status = "queued"] ELSE item[i]
    BY DEF Inserted
  <2> QED
    BY <2>1, <2>2
<1>3. \A i \in Items : item[i].status = "absent" => ~Held(i)
  BY LooseUnheld DEF Strong
<1>4. \A i \in Items : item[i].status # "absent" => item'[i] = item[i]
  BY DEF Inserted
<1> QED
  BY <1>2, <1>3, <1>4 DEF Moves, WaitingStatus

\* An item in hand of stage spot_month or derive_features names an archive or a symbol.
LEMMA InHand ==
  ASSUME NEW i \in Items
  PROVE  /\ StageOf(i) = "spot_month" =>
              i[2] \in Archives /\ \A k \in Items : StageOf(k) = "spot_month" /\ k[2] = i[2] => k = i
         /\ StageOf(i) = "derive_features" =>
              i[2] \in Symbols /\ \A k \in Items : StageOf(k) = "derive_features" /\ k[2] = i[2] => k = i
BY SpotItems, DeriveItems

-------------------------------------------------------------------------------
(* The invariant, one action at a time *)

\* A claim takes an item that nobody holds.
LEMMA ClaimKeeps ==
  ASSUME TypeOK, Strong, NEW w \in Workers, NEW i \in Items, Claim(w, i)
  PROVE  Strong'
<1>0. item \in [Items -> Row] /\ JobsOK
  BY TypeParts
<1>1. ~Held(i)
  BY LooseUnheld DEF Strong, Claim
<1>2. job[w].item = None
  BY <1>0 DEF JobsOK, Claim, Idle
<1> DEFINE j == [Idle EXCEPT !.pc = "work", !.item = i, !.attempts = item[i].attempts + 1]
<1>3. j.pc = "work" /\ j.item = i /\ j.verdict = "completed"
  BY DEF Idle
<1>4. job' = [job EXCEPT ![w] = j]
  BY DEF Claim
<1> HIDE DEF j
<1>5. Others(w) /\ job'[w] = j
  BY <1>0, <1>4 DEF JobsOK, Others
<1>6. item' = [item EXCEPT ![i] = [status |-> "running", attempts |-> item[i].attempts + 1]]
  BY DEF Claim
<1>7. item'[i].status = "running" /\ \A k \in Items : k # i => item'[k] = item[k]
  BY <1>0, <1>6
<1> SUFFICES ASSUME NEW k \in Items PROVE ItemOK(k)'
  BY DEF Strong
<1>8. ItemOK(k)
  BY DEF Strong
<1>9. UNCHANGED <<archive, verified, features, unheard>>
  BY DEF Claim, research, history
<1>10. CASE k # i
  <2>1. Moves(k) /\ ResearchKept(k)
    BY <1>7, <1>9, <1>10 DEF Moves, ResearchKept
  <2>2. \A v \in Workers : job[v].item = k \/ job'[v].item = k => job'[v] = job[v]
    BY <1>2, <1>3, <1>5, <1>10, NoneAssumption DEF Others
  <2> QED
    BY <1>8, <1>9, <2>1, <2>2, Undisturbed
<1>11. CASE k = i
  <2>1. \A v \in Workers : job'[v].item = i => v = w
    BY <1>1, <1>5 DEF Others, Held
  <2>2. Owns(w, i)'
    BY <1>3, <1>5, <1>7 DEF Owns
  <2>3. Backed(i)' /\ Contiguous(i)' /\ Unique(i)'
    BY <1>7, <2>1 DEF Backed, Contiguous, Unique
  <2> QED
    BY <1>11, <2>1, <2>2, <2>3 DEF ItemOK
<1> QED
  BY <1>10, <1>11

\* Planning the archives of a symbol, from the monthly or the daily listing.
LEMMA PlanKeeps ==
  ASSUME TypeOK, Strong, NEW w \in Workers, NEW found, NEW next \in {"complete", "advance"},
         PlanArchives(w, found, next), job[w].item \in Items,
         StageOf(job[w].item) = "discover_symbol",
         next = "complete" => job[w].pc = "work"
  PROVE  Strong'
<1>1. Others(w) /\ job'[w].pc = next /\ job'[w].item = job[w].item
      /\ job'[w].verdict = job[w].verdict
  BY GoesOn DEF PlanArchives
<1>2. \A i \in Items : Moves(i)
  BY InsertedMoves DEF PlanArchives
<1>3. \A i \in Items : item[i].status # "absent" => item'[i] = item[i]
  BY InsertedMoves DEF PlanArchives
<1>4. \A i \in Items : ResearchKept(i)
  BY InHand DEF PlanArchives, ResearchKept
<1>5. ASSUME NEW i \in Items, i = job[w].item
      PROVE  Owns(w, i)' /\ Backed(i)' /\ Contiguous(i)'
  <2>1. Owns(w, i)
    BY <1>5 DEF Strong, ItemOK
  <2>2. item'[i] = item[i]
    BY <1>3, <2>1 DEF Owns
  <2> QED
    BY <1>1, <1>5, <2>1, <2>2 DEF Owns, Backed, Contiguous
<1> QED
  BY <1>1, <1>2, <1>4, <1>5, WorkerStep DEF PlanArchives, history

\* A stage whose outcome no archive and no feature depends on.
LEMMA PlainStageKeeps ==
  ASSUME TypeOK, Strong, NEW w \in Workers,
         \/ DiscoverArchives(w) \/ MaterializeMarketState(w) \/ GenerateSignals(w)
         \/ CheckShortability(w) \/ RunAnalysis(w)
  PROVE  Strong'
<1>1. Goes(w, "complete") /\ job[w].pc = "work" /\ job[w].item \in Items
      /\ StageOf(job[w].item) \notin {"spot_month", "derive_features"}
      /\ UNCHANGED <<archive, verified, features, unheard>>
  BY DEF DiscoverArchives, MaterializeMarketState, GenerateSignals, CheckShortability, RunAnalysis,
     At, InStage, research, history
<1>2. /\ \A i \in Items : Moves(i)
      /\ \A i \in Items : item[i].status # "absent" => item'[i] = item[i]
  <2>1. CASE UNCHANGED item
    BY <2>1 DEF Moves
  <2>2. CASE DiscoverArchives(w)
    BY <2>2, InsertedMoves DEF DiscoverArchives
  <2> QED
    BY <2>1, <2>2 DEF MaterializeMarketState, GenerateSignals, CheckShortability, RunAnalysis
<1>3. Others(w) /\ job'[w].pc = "complete" /\ job'[w].item = job[w].item
      /\ job'[w].verdict = job[w].verdict
  BY <1>1, GoesOn
<1>4. \A i \in Items : ResearchKept(i)
  BY <1>1 DEF ResearchKept
<1>5. ASSUME NEW i \in Items, i = job[w].item
      PROVE  Owns(w, i)' /\ Backed(i)' /\ Contiguous(i)'
  <2>1. Owns(w, i)
    BY <1>5 DEF Strong, ItemOK
  <2>2. item'[i] = item[i]
    BY <1>2, <2>1 DEF Owns
  <2> QED
    BY <1>1, <1>3, <1>5, <2>1, <2>2 DEF Owns, Backed, Contiguous
<1> QED
  BY <1>1, <1>2, <1>3, <1>4, <1>5, WorkerStep

\* An archive is loaded, with or without a checksum, or turns out to be gone.
LEMMA LoadKeeps ==
  ASSUME TypeOK, Strong, NEW w \in Workers, LoadArchive(w)
  PROVE  Strong'
<1> DEFINE own == job[w].item
<1>1. job[w].pc = "work" /\ own \in Items /\ StageOf(own) = "spot_month"
      /\ UNCHANGED <<item, features, unheard>>
  BY DEF LoadArchive, FetchMissing, LoadCanonical, LoadForward, Loaded, At, InStage
<1>2. own[2] \in Archives /\ archive \in [Archives -> {"absent", "planned", "loaded", "missing", "failed"}]
  BY <1>1, InHand DEF TypeOK
<1>3. Others(w) /\ job'[w].pc = "complete" /\ job'[w].item = own
      /\ (job'[w].verdict = "missing" => archive'[own[2]] = "missing")
  <2>0. Owns(w, own)
    BY <1>1 DEF Strong, ItemOK
  <2>1. CASE FetchMissing(w)
    BY <1>2, <2>1 DEF FetchMissing, TypeOK, JobType, Others
  <2>2. CASE Loaded(w, TRUE) \/ Loaded(w, FALSE)
    BY <1>1, <2>0, <2>2, GoesOn DEF Loaded, Owns
  <2> QED
    BY <2>1, <2>2 DEF LoadArchive, LoadCanonical, LoadForward
<1>4. ASSUME NEW i \in Items, i # own PROVE Moves(i) /\ ResearchKept(i)
  <2>1. StageOf(i) = "spot_month" => i[2] # own[2]
    BY <1>1, <1>4, InHand
  <2>2. StageOf(i) = "spot_month" =>
          archive'[i[2]] = archive[i[2]] /\ (i[2] \in verified => i[2] \in verified')
    <3>1. CASE FetchMissing(w)
      BY <1>2, <2>1, <3>1, InHand DEF FetchMissing
    <3>2. CASE Loaded(w, TRUE) \/ Loaded(w, FALSE)
      BY <1>2, <2>1, <3>2, InHand DEF Loaded
    <3> QED
      BY <3>1, <3>2 DEF LoadArchive, LoadCanonical, LoadForward
  <2> QED
    BY <1>1, <2>2 DEF Moves, ResearchKept
<1>5. ASSUME NEW i \in Items, i = own PROVE Owns(w, i)' /\ Backed(i)' /\ Contiguous(i)'
  <2>1. Owns(w, i)
    BY <1>5 DEF Strong, ItemOK
  <2> QED
    BY <1>1, <1>3, <1>5, <2>1 DEF Owns, Backed, Contiguous
<1> HIDE DEF own
<1>6. unheard => unheard'
  BY <1>1
<1> QED
  BY <1>3, <1>4, <1>5, <1>6, WorkerStep DEF own

\* Features are derived while the item is running, and their gaps closed after it.
LEMMA DeriveKeeps ==
  ASSUME TypeOK, Strong, NEW w \in Workers, DeriveFeatures(w) \/ InvalidateGaps(w)
  PROVE  Strong'
<1> DEFINE own == job[w].item
<1>1. own \in Items /\ StageOf(own) = "derive_features"
      /\ UNCHANGED <<item, archive, verified, unheard>>
  BY DEF DeriveFeatures, InvalidateGaps, At, InStage, history
<1>2. own[2] \in Symbols /\ features \in [Symbols -> {"none", "raw", "contiguous"}]
  BY <1>1, InHand DEF TypeOK
<1>3. Others(w) /\ job'[w].item = own /\ job'[w].verdict = job[w].verdict
      /\ \/ job[w].pc = "work" /\ job'[w].pc = "complete"
         \/ job'[w].pc = "advance" /\ features'[own[2]] # "raw"
  <2>1. CASE DeriveFeatures(w)
    BY <2>1, GoesOn DEF DeriveFeatures, At
  <2>2. CASE InvalidateGaps(w)
    BY <1>2, <2>2, GoesOn DEF InvalidateGaps
  <2> QED
    BY <2>1, <2>2
<1>4. ASSUME NEW i \in Items, i # own PROVE Moves(i) /\ ResearchKept(i)
  <2>1. StageOf(i) = "derive_features" => i[2] # own[2]
    BY <1>1, <1>4, InHand
  <2>2. StageOf(i) = "derive_features" => features'[i[2]] = features[i[2]]
    BY <1>2, <2>1, InHand DEF DeriveFeatures, InvalidateGaps
  <2> QED
    BY <1>1, <2>2 DEF Moves, ResearchKept
<1>5. ASSUME NEW i \in Items, i = own PROVE Owns(w, i)' /\ Backed(i)' /\ Contiguous(i)'
  <2>1. Owns(w, i)
    BY <1>5 DEF Strong, ItemOK
  <2> QED
    BY <1>1, <1>3, <1>5, <2>1 DEF Owns, Backed, Contiguous
<1>6. unheard => unheard'
  BY <1>1
<1> HIDE DEF own
<1> QED
  BY <1>3, <1>4, <1>5, <1>6, WorkerStep DEF own

\* A completion is backed by the archive, and leaves features to be invalidated.
LEMMA CompleteKeeps ==
  ASSUME TypeInv, Strong, NEW w \in Workers, Complete(w)
  PROVE  Strong'
<1> DEFINE own == job[w].item
<1>0. TypeOK /\ item \in [Items -> Row]
  BY TypeParts DEF TypeInv
<1>1. job[w].pc = "complete" /\ own \in Items /\ UNCHANGED <<archive, verified, features, unheard>>
  BY DEF Complete, TypeInv, history
<1>11. job[w].verdict \in {"completed", "missing"}
  BY <1>0 DEF TypeOK, JobType
<1>2. Owns(w, own)
  BY <1>1 DEF Strong, ItemOK
<1>3. Others(w) /\ job'[w].item = own /\ job'[w].pc \in {"post", "advance"}
      /\ (StageOf(own) = "derive_features" => job'[w].pc = "post")
  BY <1>0, GoesOn DEF Complete, PostStages
<1>4. item'[own].status = job[w].verdict /\ \A i \in Items : i # own => item'[i] = item[i]
  BY <1>0, <1>1 DEF Complete, Row
<1>5. \A i \in Items : i # own => Moves(i) /\ ResearchKept(i)
  BY <1>1, <1>4 DEF Moves, ResearchKept
<1>6. ASSUME NEW i \in Items, i = own PROVE Owns(w, i)' /\ Backed(i)' /\ Contiguous(i)'
  <2>1. Owns(w, i)'
    BY <1>11, <1>3, <1>4, <1>6 DEF Owns
  <2>2. Backed(i)'
    BY <1>1, <1>11, <1>2, <1>4, <1>6 DEF Backed, Owns, Complete, Verified
  <2>3. Contiguous(i)'
    BY <1>3, <1>6 DEF Contiguous
  <2> QED
    BY <2>1, <2>2, <2>3
<1>7. unheard => unheard'
  BY <1>1
<1> HIDE DEF own
<1> QED
  BY <1>3, <1>5, <1>6, <1>7, WorkerStep DEF own

\* An item whose worker leaves it, or goes on to advance, without a change to it:
\* nobody was invalidating its gaps.
LEMMA OwnUntouched ==
  ASSUME NEW i \in Items, ItemOK(i), NEW w \in Workers, job[w].item = i, job[w].pc # "post",
         item'[i].status = item[i].status, UNCHANGED <<archive, verified, features>>,
         unheard => unheard', job'[w].pc \notin {"work", "complete"}
  PROVE  Owns(w, i)' /\ Backed(i)' /\ Contiguous(i)'
<1>1. Owns(w, i)'
  BY DEF ItemOK, Owns
<1>2. Backed(i)'
  BY DEF ItemOK, Backed, Verified
<1>3. Contiguous(i)'
  <2>1. ~\E v \in Workers : job[v].item = i /\ job[v].pc = "post"
    BY DEF ItemOK, Unique
  <2>2. Contiguous(i)
    BY DEF ItemOK
  <2> QED
    BY <2>1, <2>2 DEF Contiguous
<1> QED
  BY <1>1, <1>2, <1>3

\* Trimmed signals, and the advance of the run.
LEMMA AdvanceKeeps ==
  ASSUME TypeOK, Strong, NEW w \in Workers,
         TrimSignals(w) \/ AdvanceRead(w) \/ AdvanceWrite(w) \/ AdvanceZeroSignals(w)
  PROVE  Strong'
<1>1. UNCHANGED <<archive, verified, features>>
  BY DEF TrimSignals, AdvanceRead, AdvanceWrite, AdvanceZeroSignals, research
<1>2. unheard => unheard'
  BY DEF TrimSignals, AdvanceRead, AdvanceWrite, AdvanceZeroSignals, history
<1>3. Others(w) /\ job'[w].item \in {job[w].item, None}
      /\ job'[w].pc \notin {"work", "complete"}
  <2>1. CASE TrimSignals(w) \/ AdvanceWrite(w)
    BY <2>1, GoesOn DEF TrimSignals, AdvanceWrite
  <2>2. CASE job' = [job EXCEPT ![w] = Idle]
    BY <2>2, GoesIdle
  <2>3. CASE job' = [job EXCEPT ![w].pc = "plan", ![w].plan = Decision]
    BY <2>3 DEF TypeOK, JobType, Others
  <2> QED
    BY <2>1, <2>2, <2>3 DEF AdvanceRead, AdvanceZeroSignals
<1>4. /\ \A i \in Items : Moves(i)
      /\ \A i \in Items : item[i].status # "absent" => item'[i] = item[i]
  <2>1. CASE UNCHANGED item
    BY <2>1 DEF Moves
  <2>2. CASE \E rows : item' = Inserted(rows)
    BY <2>2, InsertedMoves
  <2> QED
    BY <2>1, <2>2 DEF TrimSignals, AdvanceRead, AdvanceWrite, AdvanceZeroSignals
<1>5. ASSUME NEW i \in Items, i = job[w].item PROVE Owns(w, i)' /\ Backed(i)' /\ Contiguous(i)'
  <2>1. ItemOK(i) /\ Owns(w, i)
    BY <1>5 DEF Strong, ItemOK
  <2>2. item'[i] = item[i]
    BY <1>4, <2>1 DEF Owns
  <2>3. CASE job[w].pc = "post"
    <3>1. TrimSignals(w)
      BY <2>3 DEF AdvanceRead, AdvanceWrite, AdvanceZeroSignals
    <3>2. StageOf(i) = "signals"
      BY <1>5, <3>1 DEF TrimSignals, At, InStage
    <3> QED
      BY <1>3, <2>1, <2>2, <3>2 DEF Owns, Backed, Contiguous
  <2>4. CASE job[w].pc # "post"
    BY <1>1, <1>2, <1>3, <1>5, <2>1, <2>2, <2>4, OwnUntouched
  <2> QED
    BY <2>3, <2>4
<1>6. \A i \in Items : ResearchKept(i)
  BY <1>1 DEF ResearchKept
<1> QED
  BY <1>2, <1>3, <1>4, <1>5, <1>6, WorkerStep

\* Work that is put back: its worker has let it go.
LEMMA WithdrawKeeps ==
  ASSUME TypeOK, Strong, NEW w \in Workers, job[w].item \in Items, NEW n, Withdraw(w, n),
         unheard => unheard'
  PROVE  Strong'
<1> DEFINE own == job[w].item
<1>1. Others(w) /\ job'[w].item = None
  BY GoesIdle DEF Withdraw
<1>2. item'[own].status = "retry_wait" /\ \A i \in Items : i # own => item'[i] = item[i]
  BY DEF Withdraw, TypeOK
<1>3. UNCHANGED <<archive, verified, features>>
  BY DEF Withdraw, research
<1>4. \A i \in Items : i # own => Moves(i) /\ ResearchKept(i)
  BY <1>2, <1>3 DEF Moves, ResearchKept
<1>5. ASSUME NEW i \in Items, i = own
      PROVE  (job'[w].item = i => Owns(w, i)') /\ Backed(i)' /\ Contiguous(i)'
  BY <1>1, <1>2, <1>5, NoneAssumption DEF Backed, Contiguous
<1> HIDE DEF own
<1> QED
  BY <1>1, <1>4, <1>5, WorkerStep DEF own

\* Work that failed for good takes its archive with it.
LEMMA FailForGoodKeeps ==
  ASSUME TypeOK, Strong, NEW w \in Workers, job[w].item \in Items, FailForGood(w)
  PROVE  Strong'
<1> DEFINE own == job[w].item
<1>1. Others(w) /\ job'[w].item = None
  <2>1. CASE job' = [job EXCEPT ![w] = Idle]
    BY <2>1, GoesIdle
  <2>2. CASE job' = [job EXCEPT ![w] = [Idle EXCEPT !.pc = "advance"]]
    BY <2>2 DEF TypeOK, Idle, Others
  <2> QED
    BY <2>1, <2>2 DEF FailForGood
<1>2. item'[own].status = "failed" /\ \A i \in Items : i # own => item'[i] = item[i]
  <2>1. item' = [item EXCEPT ![own].status = "failed"]
    BY DEF FailForGood
  <2>2. item \in [Items -> Row]
    BY TypeParts
  <2> QED
    BY <2>1, <2>2 DEF Row
<1>3. UNCHANGED <<verified, features, unheard>>
  BY DEF FailForGood
<1>4. ASSUME NEW i \in Items, i # own PROVE Moves(i) /\ ResearchKept(i)
  <2>1. StageOf(i) = "spot_month" => archive'[i[2]] = archive[i[2]]
    BY <1>4, InHand DEF FailForGood, TypeOK
  <2> QED
    BY <1>2, <1>3, <1>4, <2>1 DEF Moves, ResearchKept
<1>5. ASSUME NEW i \in Items, i = own
      PROVE  (job'[w].item = i => Owns(w, i)') /\ Backed(i)' /\ Contiguous(i)'
  BY <1>1, <1>2, <1>5, NoneAssumption DEF Backed, Contiguous
<1>6. unheard => unheard'
  BY <1>3
<1> HIDE DEF own
<1> QED
  BY <1>1, <1>4, <1>5, <1>6, WorkerStep DEF own

\* A crash leaves the item as it was, and says when an advance was lost by it.
LEMMA CrashKeeps ==
  ASSUME TypeOK, Strong, NEW w \in Workers, Crash(w)
  PROVE  Strong'
<1>1. Others(w) /\ job'[w].item = None /\ job'[w].pc = "idle"
  BY GoesIdle DEF Crash
<1>2. UNCHANGED <<item, archive, verified, features>>
  BY DEF Crash, research
<1>3. (unheard => unheard') /\ (job[w].pc = "post" => unheard')
  BY DEF Crash
<1>4. \A i \in Items : Moves(i) /\ ResearchKept(i)
  BY <1>2 DEF Moves, ResearchKept
<1>5. ASSUME NEW i \in Items, i = job[w].item PROVE Backed(i)' /\ Contiguous(i)'
  <2>1. ItemOK(i)
    BY DEF Strong
  <2>2. CASE job[w].pc = "post"
    <3>1. Backed(i)'
      BY <1>2, <2>1 DEF ItemOK, Backed, Verified
    <3> QED
      BY <1>3, <2>2, <3>1 DEF Contiguous
  <2>3. CASE job[w].pc # "post"
    BY <1>1, <1>2, <1>3, <1>5, <2>1, <2>3, OwnUntouched
  <2> QED
    BY <2>2, <2>3
<1>6. \A i \in Items : job'[w].item # i
  BY <1>1, NoneAssumption
<1> QED
  BY <1>1, <1>3, <1>4, <1>5, <1>6, WorkerStep

\* Every failure.
LEMMA FailKeeps ==
  ASSUME TypeInv, Strong, NEW w \in Workers, Fail(w) \/ FailVerification(w)
  PROVE  Strong'
<1>0. TypeOK
  BY DEF TypeInv
<1>1. CASE FailTransient(w) \/ FailRetryable(w)
  <2>1. job[w].item \in Items
    BY <1>0, <1>1 DEF FailTransient, FailRetryable, Fallible, TypeOK, JobType
  <2>2. (UNCHANGED unheard /\ \E n : Withdraw(w, n)) \/ FailForGood(w)
    BY <1>1 DEF FailTransient, FailRetryable
  <2> QED
    BY <1>0, <2>1, <2>2, WithdrawKeeps, FailForGoodKeeps
<1>2. CASE FailPermanent(w) \/ FailVerification(w)
  <2>1. job[w].item \in Items /\ FailForGood(w)
    BY <1>2 DEF FailPermanent, FailVerification, At, InStage, TypeInv
  <2> QED
    BY <1>0, <2>1, FailForGoodKeeps
<1>3. CASE Crash(w)
  BY <1>0, <1>3, CrashKeeps
<1> QED
  BY <1>1, <1>2, <1>3 DEF Fail

\* Reclaims and commands touch only what nobody holds, or cancel it.
LEMMA OutsideKeeps ==
  ASSUME TypeOK, Strong, (\E i \in Items : Reclaim(i)) \/ Operator
  PROVE  Strong'
<1>0. item \in [Items -> Row]
  BY TypeParts
<1>1. UNCHANGED <<job, verified, features, unheard>>
  BY DEF Reclaim, Requeued, Operator, Pause, Resume, Cancel, RequeueFailedArchives, research
<1>2. ASSUME NEW i \in Items PROVE Moves(i)
  <2>0. item[i].status = "failed" => ~Held(i)
    BY LooseUnheld DEF Strong
  <2>1. CASE \E k \in Items : Reclaim(k)
    <3>1. PICK k \in Items : Reclaim(k)
      BY <2>1
    <3>2. item' = [item EXCEPT ![k].status = "retry_wait"] /\ ~Held(k)
      BY <3>1 DEF Reclaim, Requeued
    <3> QED
      BY <1>0, <3>2 DEF Row, Moves, WaitingStatus
  <2>2. CASE Pause
    BY <2>2 DEF Pause, Moves
  <2>3. CASE Resume
    <3>1. [item[i] EXCEPT !.status = "retry_wait"].status = "retry_wait"
      BY <1>0 DEF Row
    <3>2. item'[i] = item[i]
          \/ (item[i].status = "failed" /\ item'[i] = [item[i] EXCEPT !.status = "retry_wait"])
      BY <2>3 DEF Resume
    <3> QED
      BY <2>0, <3>1, <3>2 DEF Moves, WaitingStatus
  <2>4. CASE Cancel
    <3>1. [item[i] EXCEPT !.status = "cancelled"].status = "cancelled"
      BY <1>0 DEF Row
    <3>2. item'[i] = item[i] \/ item'[i] = [item[i] EXCEPT !.status = "cancelled"]
      BY <2>4 DEF Cancel
    <3> QED
      BY <3>1, <3>2 DEF Moves
  <2>5. CASE RequeueFailedArchives
    <3>1. item'[i] = item[i]
          \/ (item[i].status = "failed" /\ item'[i] = [status |-> "retry_wait", attempts |-> 0])
      BY <2>5 DEF RequeueFailedArchives, InStage
    <3> QED
      BY <2>0, <3>1 DEF Moves, WaitingStatus
  <2> QED
    BY <2>1, <2>2, <2>3, <2>4, <2>5 DEF Operator
<1>3. ASSUME NEW i \in Items PROVE ResearchKept(i)
  <2>1. CASE UNCHANGED archive
    BY <1>1, <2>1 DEF ResearchKept
  <2>2. CASE RequeueFailedArchives
    BY <1>1, <2>2, InHand DEF RequeueFailedArchives, ResearchKept
  <2> QED
    BY <2>1, <2>2 DEF Reclaim, Requeued, Operator, Pause, Resume, Cancel, research
<1>4. unheard => unheard'
  BY <1>1
<1> QED
  BY <1>1, <1>2, <1>3, <1>4, OutsideStep

-------------------------------------------------------------------------------
(* The invariant, all actions together *)

\* A worker that has work to do keeps its item.
LEMMA HoldingKeeps ==
  ASSUME TypeOK, Holding, Next
  PROVE  Holding'
<1>1. ASSUME NEW w \in Workers, Others(w),
             job'[w].pc \in {"work", "complete", "post"} => job'[w].item \in Items
      PROVE  Holding'
  BY <1>1 DEF Holding, Others
<1>2. ASSUME NEW w \in Workers, NEW pc, Goes(w, pc),
             pc \in {"work", "complete", "post"} => job[w].item \in Items
      PROVE  Holding'
  BY <1>1, <1>2, GoesOn
<1>3. ASSUME NEW w \in Workers, job' = [job EXCEPT ![w] = Idle] PROVE Holding'
  BY <1>1, <1>3, GoesIdle
<1>4. ASSUME NEW w \in Workers, NEW i \in Items, Claim(w, i) PROVE Holding'
  <2> DEFINE j == [Idle EXCEPT !.pc = "work", !.item = i, !.attempts = item[i].attempts + 1]
  <2>1. j.item = i
    BY DEF Idle
  <2>2. job' = [job EXCEPT ![w] = j]
    BY <1>4 DEF Claim
  <2> HIDE DEF j
  <2> QED
    BY <1>1, <2>1, <2>2 DEF TypeOK, Others
<1>5. ASSUME NEW w \in Workers, FetchMissing(w) PROVE Holding'
  BY <1>1, <1>5 DEF FetchMissing, At, InStage, TypeOK, JobType, Others
<1>6. ASSUME NEW w \in Workers, FailForGood(w) PROVE Holding'
  <2>1. CASE job' = [job EXCEPT ![w] = [Idle EXCEPT !.pc = "advance"]]
    BY <1>1, <2>1 DEF TypeOK, Idle, Others
  <2> QED
    BY <1>3, <1>6, <2>1 DEF FailForGood
<1>7. ASSUME NEW w \in Workers, job' = [job EXCEPT ![w].pc = "plan", ![w].plan = Decision]
      PROVE  Holding'
  BY <1>1, <1>7 DEF TypeOK, JobType, Others
<1>8. ASSUME NEW w \in Workers, Work(w) PROVE Holding'
  <2>1. CASE \/ DiscoverArchives(w) \/ DiscoverSymbol(w) \/ Loaded(w, TRUE) \/ Loaded(w, FALSE)
             \/ DeriveFeatures(w) \/ MaterializeMarketState(w) \/ GenerateSignals(w)
             \/ CheckShortability(w) \/ RunAnalysis(w)
    BY <1>2, <2>1 DEF DiscoverArchives, DiscoverSymbol, PlanArchives, Loaded, DeriveFeatures,
       MaterializeMarketState, GenerateSignals, CheckShortability, RunAnalysis, At, InStage
  <2>2. CASE Complete(w)
    <3>1. job[w].item \in Items
      BY <2>2 DEF Complete, Holding
    <3> QED
      BY <1>2, <2>2, <3>1 DEF Complete
  <2>3. CASE SupplementDaily(w) \/ InvalidateGaps(w) \/ TrimSignals(w) \/ AdvanceWrite(w)
    BY <1>2, <2>3 DEF SupplementDaily, PlanArchives, InvalidateGaps, TrimSignals, AdvanceWrite
  <2>4. CASE AdvanceRead(w) \/ AdvanceZeroSignals(w)
    BY <1>3, <1>7, <2>4 DEF AdvanceRead, AdvanceZeroSignals
  <2> QED
    BY <1>5, <1>6, <1>8, <2>1, <2>2, <2>3, <2>4
    DEF Work, LoadArchive, LoadCanonical, LoadForward, FailVerification
<1>9. ASSUME NEW w \in Workers, Fail(w) PROVE Holding'
  BY <1>3, <1>6, <1>9 DEF Fail, FailTransient, FailRetryable, FailPermanent, Crash, Withdraw
<1>10. CASE UNCHANGED job
  BY <1>10 DEF Holding
<1> QED
  BY <1>4, <1>8, <1>9, <1>10
  DEF Next, Reclaim, Lapse, Requeued, Operator, Pause, Resume, Cancel, RequeueFailedArchives

\* Every step keeps the types.
LEMMA NextTyped ==
  ASSUME TypeInv, Next
  PROVE  TypeOK'
<1>0. TypeOK
  BY DEF TypeInv
<1>1. ASSUME NEW w \in Workers, Work(w) PROVE TypeOK'
  BY <1>0, <1>1, StageTyped, CompleteTyped, AdvanceTyped, FailTyped DEF Work
<1>2. ASSUME NEW w \in Workers, Fail(w) PROVE TypeOK'
  BY <1>2, FailTyped
<1>3. ASSUME NEW w \in Workers, NEW i \in Items, Claim(w, i) PROVE TypeOK'
  BY <1>0, <1>3, ClaimTyped
<1> QED
  BY <1>0, <1>1, <1>2, <1>3, OutsideTyped DEF Next

\* Every step keeps what holds of the items, unless a lock lapses.
LEMMA NextStrong ==
  ASSUME TypeInv, Strong, Next
  PROVE  lapsed' \/ Strong'
<1>0. TypeOK
  BY DEF TypeInv
<1>1. ASSUME NEW w \in Workers, Work(w) PROVE Strong'
  <2>1. CASE DiscoverSymbol(w) \/ SupplementDaily(w)
    <3>1. job[w].item \in Items /\ StageOf(job[w].item) = "discover_symbol"
      BY <2>1 DEF DiscoverSymbol, SupplementDaily, At, InStage
    <3> QED
      BY <1>0, <2>1, <3>1, PlanKeeps DEF DiscoverSymbol, SupplementDaily, At
  <2> QED
    BY <1>0, <1>1, <2>1, PlainStageKeeps, LoadKeeps, DeriveKeeps, CompleteKeeps, AdvanceKeeps,
       FailKeeps DEF Work
<1>2. ASSUME NEW w \in Workers, Fail(w) PROVE Strong'
  BY <1>2, FailKeeps
<1>3. ASSUME NEW w \in Workers, NEW i \in Items, Claim(w, i) PROVE Strong'
  BY <1>0, <1>3, ClaimKeeps
<1>4. ASSUME NEW i \in Items, Lapse(i) PROVE lapsed'
  BY <1>4 DEF Lapse
<1> QED
  BY <1>0, <1>1, <1>2, <1>3, <1>4, OutsideKeeps DEF Next

\* A lapse is never forgotten.
LEMMA LapsedStays ==
  ASSUME Next, lapsed
  PROVE  lapsed'
<1>1. ASSUME NEW w \in Workers, Work(w) PROVE lapsed'
  BY <1>1 DEF Work, DiscoverArchives, DiscoverSymbol, SupplementDaily, PlanArchives, LoadArchive,
     FetchMissing, LoadCanonical, LoadForward, Loaded, DeriveFeatures, MaterializeMarketState,
     GenerateSignals, CheckShortability, RunAnalysis, InvalidateGaps, TrimSignals, Complete,
     FailVerification, FailForGood, AdvanceRead, AdvanceWrite, AdvanceZeroSignals, history
<1>2. ASSUME NEW w \in Workers, Fail(w) PROVE lapsed'
  BY <1>2 DEF Fail, FailTransient, FailRetryable, FailPermanent, FailForGood, Crash
<1>3. ASSUME NEW w \in Workers, NEW i \in Items, Claim(w, i) PROVE lapsed'
  BY <1>3 DEF Claim, history
<1>4. ASSUME (\E i \in Items : Reclaim(i) \/ Lapse(i)) \/ Operator PROVE lapsed'
  BY <1>4 DEF Reclaim, Lapse, Requeued, Operator, Pause, Resume, Cancel, RequeueFailedArchives
<1> QED
  BY <1>1, <1>2, <1>3, <1>4 DEF Next

\* At first nobody holds anything and no item has a result.
LEMMA InitInv == Init => IInv
<1> SUFFICES ASSUME Init PROVE IInv
  OBVIOUS
<1>1. \A w \in Workers : job[w] = Idle
  BY DEF Init
<1>2. \A w \in Workers : job[w].pc = "idle" /\ job[w].item = None
  BY <1>1 DEF Idle
<1>3. \A i \in Items : item[i].status \notin {"completed", "missing"}
  BY DEF Init
<1>4. Holding
  BY <1>2 DEF Holding
<1>5. Strong
  BY <1>2, <1>3, NoneAssumption DEF Strong, ItemOK, Backed, Contiguous, Unique
<1> QED
  BY <1>4, <1>5, InitTyped DEF IInv

\* The invariant is inductive.
LEMMA NextInv == IInv /\ [Next]_vars => IInv'
<1> SUFFICES ASSUME IInv, [Next]_vars PROVE IInv'
  OBVIOUS
<1>1. CASE Next
  <2>1. TypeInv
    BY DEF IInv, TypeInv, Holding
  <2>2. TypeOK' /\ Holding'
    BY <1>1, <2>1, NextTyped, HoldingKeeps DEF IInv
  <2>3. lapsed' \/ Strong'
    BY <1>1, <2>1, NextStrong, LapsedStays DEF IInv
  <2> QED
    BY <2>2, <2>3 DEF IInv
<1>2. CASE UNCHANGED vars
  <2>1. TypeOK'
    BY <1>2 DEF IInv, vars, research, history, TypeOK
  <2>2. Holding'
    BY <1>2 DEF IInv, vars, Holding
  <2>3. lapsed' \/ Strong'
    BY <1>2 DEF IInv, vars, research, history, Strong, ItemOK, Owns, Backed, Contiguous, Unique,
       Verified
  <2> QED
    BY <2>1, <2>2, <2>3 DEF IInv
<1> QED
  BY <1>1, <1>2

\* The queue of a replication run, on every machine: types, and, until a held
\* lock lapses, every item has at most one worker, a status that its worker may
\* meet, an archive that backs its verdict and features without bridged gaps.
THEOREM QueueInvariant == Spec => []IInv
<1> QED
  BY InitInv, NextInv, PTL DEF Spec

\* The variables always have their types, and an idle worker holds nothing.
THEOREM TypeCorrect == Spec => []TypeOK
<1>1. IInv => TypeOK
  BY DEF IInv
<1> QED
  BY <1>1, QueueInvariant, PTL

\* No two workers ever have the same item in hand, unless the lock of a live
\* holder lapsed: failures after a completion, reclaims and commands included.
THEOREM OneOwner == Spec => []SingleOwner
<1>1. IInv => SingleOwner
  <2> SUFFICES ASSUME IInv, ~lapsed, NEW v \in Workers, NEW w \in Workers, v # w,
                      job[v].item # None, job[v].item = job[w].item
               PROVE  FALSE
    BY DEF SingleOwner
  <2>1. job[v].item \in Items
    BY DEF IInv, TypeOK, JobType
  <2> QED
    BY <2>1 DEF IInv, Strong, ItemOK, Unique
<1> QED
  BY <1>1, QueueInvariant, PTL

\* A completed archive item rests on a verified load, a missing one on an
\* archive that is recorded missing, whatever is retried or requeued later.
THEOREM VerdictsBacked == Spec => []ArchiveBacksVerdict
<1>1. IInv => ArchiveBacksVerdict
  <2> SUFFICES ASSUME IInv, ~lapsed, NEW a \in Archives
               PROVE  /\ item[Spot(a)].status = "completed" => Verified(a)
                      /\ item[Spot(a)].status = "missing" => archive[a] = "missing"
    BY DEF ArchiveBacksVerdict
  <2>1. Backed(Spot(a)) /\ StageOf(Spot(a)) = "spot_month" /\ Spot(a)[2] = a
    BY ItemsOfStages, StagesOfItems DEF IInv, Strong, ItemOK
  <2> QED
    BY <2>1 DEF Backed
<1> QED
  BY <1>1, QueueInvariant, PTL

\* Features of a completed symbol bridge gaps only while its worker is still
\* closing them, or after a crash has lost that worker.
THEOREM GapsClosed == Spec => []GapsInvalidated
<1>1. IInv => GapsInvalidated
  <2> SUFFICES ASSUME IInv, ~lapsed, ~unheard, NEW s \in Symbols,
                      item[Derive(s)].status = "completed", features[s] = "raw"
               PROVE  \E w \in Workers : job[w].item = Derive(s) /\ job[w].pc = "post"
    BY DEF GapsInvalidated
  <2>1. Contiguous(Derive(s)) /\ StageOf(Derive(s)) = "derive_features" /\ Derive(s)[2] = s
    BY ItemsOfStages, StagesOfItems DEF IInv, Strong, ItemOK
  <2> QED
    BY <2>1 DEF Contiguous
<1> QED
  BY <1>1, QueueInvariant, PTL
-------------------------------------------------------------------------------
(* An open run keeps going *)

\* None of the holes that NotStranded names has been fallen into.
Trusted == ~unheard /\ ~lapsed /\ ~reopened
\* The run has not come to an end.
Live == run.status \in OpenRunStatus \cup {"paused"}
Quiet == \A i \in Items : item[i].status \notin ActiveStatus
LaterStages == {"derive_features", "market_state", "signals", "shortability", "analysis"}

\* A worker that will put the next work into the queue: it is still to read the
\* counts, or is about to write a stage that nobody has planned, or is about to
\* find that the run has no signals.
Heading(w) ==
  \/ job[w].pc \in {"work", "complete", "post", "advance"}
  \/ job[w].pc = "plan" /\ job[w].plan \in LaterStages /\ ~Planned(job[w].plan)
  \/ /\ job[w].pc = "zero" /\ run.stage = "shortability"
     /\ signals \in {"none", "zero"} /\ item[Short].status = "absent"

BarsListed == \A a \in bars : item[Spot(a)].status # "absent"
VerdictEnds == \A w \in Workers : job[w].pc = "complete" /\ job[w].item = Full => ~Live
NoneCancelled == Live => \A i \in Items : item[i].status # "cancelled"
FullOwed == Live => item[Full].status \in ActiveStatus \cup {"absent"}
GoingOn == Live /\ Quiet /\ bars # {} => \E w \in Workers : Heading(w)

OnItsWay == BarsListed /\ VerdictEnds /\ NoneCancelled /\ FullOwed /\ GoingOn

\* The inductive invariant, with what an open run needs in order not to stop.
CourseInv == IInv /\ (Trusted => OnItsWay)

\* What has gone wrong once is not forgotten.
LEMMA HolesStay ==
  ASSUME Next, Trusted'
  PROVE  Trusted
<1> SUFFICES ASSUME unheard \/ reopened PROVE unheard' \/ reopened'
  BY LapsedStays DEF Trusted
<1>1. ASSUME NEW w \in Workers, Work(w) PROVE unheard' \/ reopened'
  BY <1>1 DEF Work, DiscoverArchives, DiscoverSymbol, SupplementDaily, PlanArchives, LoadArchive,
     FetchMissing, LoadCanonical, LoadForward, Loaded, DeriveFeatures, MaterializeMarketState,
     GenerateSignals, CheckShortability, RunAnalysis, InvalidateGaps, TrimSignals, Complete,
     FailVerification, FailForGood, AdvanceRead, AdvanceWrite, AdvanceZeroSignals, history
<1>2. ASSUME NEW w \in Workers, Fail(w) PROVE unheard' \/ reopened'
  BY <1>2 DEF Fail, FailTransient, FailRetryable, FailPermanent, FailForGood, Crash
<1>3. ASSUME NEW w \in Workers, NEW i \in Items, Claim(w, i) PROVE unheard' \/ reopened'
  BY <1>3 DEF Claim, history
<1>4. ASSUME (\E i \in Items : Reclaim(i) \/ Lapse(i)) \/ Operator PROVE unheard' \/ reopened'
  BY <1>4 DEF Reclaim, Lapse, Requeued, Operator, Pause, Resume, Cancel, RequeueFailedArchives
<1> QED
  BY <1>1, <1>2, <1>3, <1>4 DEF Next

\* A run that has come to an end stays there unless it is reopened.
LEMMA EndStays ==
  ASSUME TypeOK, Next, Trusted', Live'
  PROVE  Live
<1> SUFFICES ASSUME ~Live PROVE FALSE
  OBVIOUS
<1>0. run \in RunRow /\ run.status \notin OpenRunStatus \cup {"paused"} /\ ~reopened'
  BY TypeParts DEF Live, Trusted
<1>1. ASSUME NEW w \in Workers, FailForGood(w) PROVE FALSE
  BY <1>0, <1>1 DEF FailForGood, RunRow, Live, OpenRunStatus
<1>2. ASSUME NEW w \in Workers, Work(w) PROVE FALSE
  <2>1. CASE run'.status = run.status
    BY <1>0, <2>1 DEF Live
  <2>2. CASE RunAnalysis(w)
    BY <2>2 DEF RunAnalysis, Live, OpenRunStatus
  <2>3. CASE AdvanceWrite(w) \/ AdvanceZeroSignals(w)
    BY <1>0, <2>1, <2>3 DEF AdvanceWrite, AdvanceZeroSignals, RunRow
  <2> QED
    BY <1>1, <1>2, <2>1, <2>2, <2>3
    DEF Work, DiscoverArchives, DiscoverSymbol, SupplementDaily, PlanArchives, LoadArchive,
     FetchMissing, LoadCanonical, LoadForward, Loaded, DeriveFeatures, MaterializeMarketState,
     GenerateSignals, CheckShortability, InvalidateGaps, TrimSignals, Complete,
     FailVerification, AdvanceRead
<1>3. ASSUME NEW w \in Workers, Fail(w) PROVE FALSE
  BY <1>0, <1>1, <1>3 DEF Fail, FailTransient, FailRetryable, FailPermanent, Withdraw, Crash, Live
<1>4. ASSUME NEW w \in Workers, NEW i \in Items, Claim(w, i) PROVE FALSE
  BY <1>0, <1>4 DEF Claim
<1>5. ASSUME (\E i \in Items : Reclaim(i) \/ Lapse(i)) \/ Operator PROVE FALSE
  BY <1>0, <1>5 DEF Reclaim, Lapse, Requeued, Operator, Pause, Resume, Cancel, RequeueFailedArchives,
     RunRow, Live, OpenRunStatus
<1> QED
  BY <1>2, <1>3, <1>4, <1>5 DEF Next

\* No row is ever taken away, and none is cancelled in a run that goes on.
LEMMA RowsStay ==
  ASSUME TypeInv, Next, NEW i \in Items
  PROVE  /\ item[i].status # "absent" => item'[i].status # "absent"
         /\ item[i].status # "cancelled" /\ item'[i].status = "cancelled" => ~Live'
<1>0. TypeOK /\ item \in [Items -> Row] /\ JobsOK
  BY TypeParts DEF TypeInv
<1> DEFINE Stays == /\ item[i].status # "absent" => item'[i].status # "absent"
                    /\ item'[i].status = "cancelled" => item[i].status = "cancelled"
<1>1. ASSUME NEW rows, item' = Inserted(rows) PROVE Stays
  BY <1>0, <1>1 DEF Inserted, Row
<1>2. ASSUME NEW k \in Items, NEW status \in WorkStatus \ {"absent", "cancelled"},
             \/ item' = [item EXCEPT ![k].status = status]
             \/ \E n \in Nat : item' = [item EXCEPT ![k] = [status |-> status, attempts |-> n]]
      PROVE  Stays
  BY <1>0, <1>2 DEF Row
<1>3. {"running", "retry_wait", "failed", "completed", "missing"}
        \subseteq WorkStatus \ {"absent", "cancelled"}
  BY DEF WorkStatus, ActiveStatus, WaitingStatus
<1>4. ASSUME NEW w \in Workers, Work(w) \/ Fail(w)
      PROVE  Stays
  <2>1. CASE FailForGood(w) /\ job[w].item \in Items
    BY <1>2, <1>3, <2>1 DEF FailForGood
  <2>2. ASSUME NEW n \in Nat, Withdraw(w, n), job[w].item \in Items
        PROVE  Stays
    BY <1>2, <1>3, <2>2 DEF Withdraw
  <2>3. CASE Work(w)
    <3>1. CASE Complete(w)
      <4>1. job[w].item \in Items /\ job[w].verdict \in {"completed", "missing"}
        BY <1>0, <3>1 DEF TypeInv, Complete, JobsOK, JobType
      <4> QED
        BY <1>2, <1>3, <3>1, <4>1 DEF Complete
    <3>2. CASE FailVerification(w)
      BY <2>1, <3>2 DEF FailVerification, At, InStage
    <3>3. CASE item' = item \/ \E rows : item' = Inserted(rows)
      BY <1>1, <3>3
    <3> QED
      BY <2>3, <3>1, <3>2, <3>3
      DEF Work, DiscoverArchives, DiscoverSymbol, SupplementDaily, PlanArchives, LoadArchive,
        FetchMissing, LoadCanonical, LoadForward, Loaded, DeriveFeatures, MaterializeMarketState,
        GenerateSignals, CheckShortability, RunAnalysis, InvalidateGaps, TrimSignals,
        AdvanceRead, AdvanceWrite, AdvanceZeroSignals, research
  <2>4. CASE FailTransient(w)
    <3>1. job[w].item \in Items
      BY <1>0, <2>4 DEF FailTransient, Fallible, JobsOK, JobType
    <3> DEFINE a == item[job[w].item].attempts
    <3>2. (IF a > 0 THEN a - 1 ELSE 0) \in Nat
      BY <1>0, <3>1 DEF Row
    <3> QED
      BY <2>2, <2>4, <3>1, <3>2 DEF FailTransient
  <2>5. CASE FailRetryable(w)
    <3>1. job[w].item \in Items
      BY <1>0, <2>5 DEF FailRetryable, Fallible, JobsOK, JobType
    <3>2. item[job[w].item].attempts \in Nat
      BY <1>0, <3>1 DEF Row
    <3> QED
      BY <2>1, <2>2, <2>5, <3>1, <3>2 DEF FailRetryable
  <2>6. CASE FailPermanent(w)
    <3>1. job[w].item \in Items
      BY <2>6 DEF FailPermanent, At, InStage, TypeInv
    <3> QED
      BY <2>1, <2>6, <3>1 DEF FailPermanent
  <2>7. CASE Crash(w)
    BY <2>7 DEF Crash
  <2> QED
    BY <1>4, <2>3, <2>4, <2>5, <2>6, <2>7 DEF Fail
<1>5. ASSUME NEW w \in Workers, NEW k \in Items, Claim(w, k)
      PROVE  Stays
  BY <1>0, <1>2, <1>3, <1>5 DEF Claim, Row
<1>6. ASSUME NEW k \in Items, Reclaim(k) \/ Lapse(k)
      PROVE  Stays
  BY <1>2, <1>3, <1>6 DEF Reclaim, Lapse, Requeued
<1>7. CASE Operator
  <2>1. CASE Cancel
    <3>1. run'.status = "cancelled"
      BY <2>1, TypeParts, <1>0 DEF Cancel, RunRow
    <3>2. item[i].status # "absent" => item'[i].status # "absent"
      BY <1>0, <2>1 DEF Cancel, Row
    <3> QED
      BY <3>1, <3>2 DEF Live, OpenRunStatus
  <2>2. CASE Pause
    BY <2>2 DEF Pause
  <2>3. CASE Resume \/ RequeueFailedArchives
    BY <1>0, <2>3 DEF Resume, RequeueFailedArchives, Row
  <2> QED
    BY <1>7, <2>1, <2>2, <2>3 DEF Operator
<1> QED
  BY <1>4, <1>5, <1>6, <1>7 DEF Next

\* What the workers hold while no lock has lapsed.
LEMMA InHandThere ==
  ASSUME TypeOK, Strong, NEW w \in Workers, job[w].item \in Items
  PROVE  /\ item[job[w].item].status # "absent"
         /\ job[w].pc \in {"work", "complete"} =>
              item[job[w].item].status \in {"running", "cancelled"}
BY DEF Strong, ItemOK, Owns

\* Bars are stored for archives that have a row.
LEMMA ListedKeeps ==
  ASSUME TypeInv, Strong, BarsListed, Next
  PROVE  BarsListed'
<1>0. TypeOK
  BY DEF TypeInv
<1>1. \A a \in Archives : item[Spot(a)].status # "absent" => item'[Spot(a)].status # "absent"
  BY RowsStay, ItemsOfStages
<1>2. ASSUME NEW w \in Workers, Loaded(w, TRUE) \/ Loaded(w, FALSE) PROVE BarsListed'
  <2>1. job[w].item \in Items /\ StageOf(job[w].item) = "spot_month"
    BY <1>2 DEF Loaded, At, InStage
  <2>2. job[w].item[2] \in Archives /\ job[w].item = Spot(job[w].item[2])
    BY <2>1, SpotItems
  <2>3. bars' = bars \cup {job[w].item[2]} /\ bars \subseteq Archives
    BY <1>0, <1>2 DEF Loaded, TypeOK
  <2>4. item[job[w].item].status # "absent"
    BY <1>0, <2>1, InHandThere
  <2> QED
    BY <1>1, <2>2, <2>3, <2>4 DEF BarsListed
<1>3. CASE bars' = bars
  BY <1>0, <1>1, <1>3 DEF BarsListed, TypeOK
<1>4. ASSUME NEW w \in Workers, Work(w) PROVE BarsListed'
  BY <1>2, <1>3, <1>4 DEF Work, DiscoverArchives, DiscoverSymbol, SupplementDaily, PlanArchives,
     LoadArchive, FetchMissing, LoadCanonical, LoadForward, DeriveFeatures, MaterializeMarketState,
     GenerateSignals, CheckShortability, RunAnalysis, InvalidateGaps, TrimSignals, Complete,
     FailVerification, FailForGood, AdvanceRead, AdvanceWrite, AdvanceZeroSignals, research
<1>5. ASSUME NEW w \in Workers, Fail(w) PROVE BarsListed'
  BY <1>3, <1>5 DEF Fail, FailTransient, FailRetryable, FailPermanent, Withdraw, FailForGood, Crash,
     research
<1>6. ASSUME NEW w \in Workers, NEW i \in Items, Claim(w, i) PROVE BarsListed'
  BY <1>3, <1>6 DEF Claim, research
<1>7. CASE (\E i \in Items : Reclaim(i) \/ Lapse(i)) \/ Operator
  BY <1>3, <1>7 DEF Reclaim, Lapse, Requeued, Operator, Pause, Resume, Cancel,
     RequeueFailedArchives, research
<1> QED
  BY <1>4, <1>5, <1>6, <1>7 DEF Next

\* The analysis ends the run before its item is reported complete.
LEMMA VerdictKeeps ==
  ASSUME TypeOK, VerdictEnds, Next, Live' => Live
  PROVE  VerdictEnds'
<1>1. ASSUME NEW w \in Workers, Others(w), job'[w].pc = "complete" /\ job'[w].item = Full => ~Live'
      PROVE  VerdictEnds'
  BY <1>1 DEF VerdictEnds, Others
<1>2. ASSUME NEW w \in Workers, NEW pc, Goes(w, pc), pc # "complete" PROVE VerdictEnds'
  BY <1>1, <1>2, GoesOn
<1>3. ASSUME NEW w \in Workers, job' = [job EXCEPT ![w] = Idle] PROVE VerdictEnds'
  BY <1>1, <1>3, GoesIdle
<1>4. ASSUME NEW w \in Workers, Goes(w, "complete"), StageOf(job[w].item) # "analysis"
      PROVE  VerdictEnds'
  BY <1>1, <1>4, GoesOn DEF StageOf, Full
<1>5. ASSUME NEW w \in Workers, FailForGood(w) PROVE VerdictEnds'
  <2>1. CASE job' = [job EXCEPT ![w] = [Idle EXCEPT !.pc = "advance"]]
    BY <1>1, <2>1 DEF TypeOK, Idle, Others
  <2> QED
    BY <1>3, <1>5, <2>1 DEF FailForGood
<1>6. ASSUME NEW w \in Workers, Work(w) PROVE VerdictEnds'
  <2>1. CASE \/ DiscoverArchives(w) \/ DiscoverSymbol(w) \/ Loaded(w, TRUE) \/ Loaded(w, FALSE)
             \/ DeriveFeatures(w) \/ MaterializeMarketState(w) \/ GenerateSignals(w)
             \/ CheckShortability(w)
    BY <1>4, <2>1 DEF DiscoverArchives, DiscoverSymbol, PlanArchives, Loaded, DeriveFeatures,
       MaterializeMarketState, GenerateSignals, CheckShortability, At, InStage
  <2>2. CASE FetchMissing(w)
    <3>1. StageOf(job[w].item) = "spot_month"
      BY <2>2 DEF FetchMissing, At, InStage
    <3>2. Others(w) /\ job'[w].item = job[w].item
      BY <2>2 DEF FetchMissing, TypeOK, JobType, Others
    <3> QED
      BY <1>1, <3>1, <3>2 DEF StageOf, Full
  <2>3. CASE RunAnalysis(w)
    <3>1. ~Live'
      BY <2>3 DEF RunAnalysis, Live, OpenRunStatus
    <3> QED
      BY <3>1 DEF VerdictEnds
  <2>4. CASE \/ Complete(w) \/ SupplementDaily(w) \/ InvalidateGaps(w) \/ TrimSignals(w)
             \/ AdvanceWrite(w)
    BY <1>2, <2>4 DEF Complete, SupplementDaily, PlanArchives, InvalidateGaps, TrimSignals,
       AdvanceWrite
  <2>5. CASE FailVerification(w)
    BY <1>5, <2>5 DEF FailVerification
  <2>6. CASE AdvanceRead(w) /\ job' = [job EXCEPT ![w].pc = "plan", ![w].plan = Decision]
    BY <1>1, <2>6 DEF TypeOK, JobType, Others
  <2>7. CASE AdvanceRead(w) \/ AdvanceZeroSignals(w)
    BY <1>3, <2>6, <2>7 DEF AdvanceRead, AdvanceZeroSignals
  <2> QED
    BY <1>6, <2>1, <2>2, <2>3, <2>4, <2>5, <2>7 DEF Work, LoadArchive, LoadCanonical, LoadForward
<1>7. ASSUME NEW w \in Workers, Fail(w) PROVE VerdictEnds'
  BY <1>3, <1>5, <1>7 DEF Fail, FailTransient, FailRetryable, FailPermanent, Crash, Withdraw
<1>8. ASSUME NEW w \in Workers, NEW i \in Items, Claim(w, i) PROVE VerdictEnds'
  <2> DEFINE j == [Idle EXCEPT !.pc = "work", !.item = i, !.attempts = item[i].attempts + 1]
  <2>1. j.pc = "work"
    BY DEF Idle
  <2>2. job' = [job EXCEPT ![w] = j]
    BY <1>8 DEF Claim
  <2> HIDE DEF j
  <2> QED
    BY <1>1, <2>1, <2>2 DEF TypeOK, Others
<1>9. CASE UNCHANGED job
  BY <1>9 DEF VerdictEnds
<1> QED
  BY <1>6, <1>7, <1>8, <1>9
  DEF Next, Reclaim, Lapse, Requeued, Operator, Pause, Resume, Cancel, RequeueFailedArchives

\* The item of the analysis is not reported in a run that goes on.
LEMMA OwedKeeps ==
  ASSUME TypeInv, VerdictEnds, FullOwed, Next, Live' => Live
  PROVE  FullOwed'
<1> SUFFICES ASSUME Live' PROVE item'[Full].status \in ActiveStatus \cup {"absent"}
  BY DEF FullOwed
<1>0. TypeOK /\ item \in [Items -> Row] /\ run \in RunRow /\ JobsOK /\ Full \in Items
  BY TypeParts, ItemsOfStages DEF TypeInv
<1>1. item[Full].status \in ActiveStatus \cup {"absent"}
  BY DEF FullOwed
<1>2. ASSUME NEW rows, item' = Inserted(rows)
      PROVE  item'[Full].status \in ActiveStatus \cup {"absent"}
  BY <1>0, <1>1, <1>2 DEF Inserted, Row, ActiveStatus, WaitingStatus
<1>3. ASSUME NEW k \in Items, NEW status,
             k = Full => status \in ActiveStatus,
             \/ item' = [item EXCEPT ![k].status = status]
             \/ \E n \in Nat : item' = [item EXCEPT ![k] = [status |-> status, attempts |-> n]]
      PROVE  item'[Full].status \in ActiveStatus \cup {"absent"}
  BY <1>0, <1>1, <1>3 DEF Row
<1>4. {"running", "retry_wait"} \subseteq ActiveStatus
  BY DEF ActiveStatus, WaitingStatus
<1>5. ASSUME NEW w \in Workers, FailForGood(w), job[w].item \in Items
      PROVE  item'[Full].status \in ActiveStatus \cup {"absent"}
  <2>1. CASE StageOf(job[w].item) = "spot_month"
    <3>1. job[w].item # Full
      BY <2>1 DEF StageOf, Full
    <3> QED
      BY <1>3, <1>5, <3>1 DEF FailForGood
  <2>2. CASE StageOf(job[w].item) # "spot_month"
    BY <1>0, <1>5, <2>2 DEF FailForGood, Live, OpenRunStatus, RunRow
  <2> QED
    BY <2>1, <2>2
<1>6. ASSUME NEW w \in Workers, NEW n \in Nat, Withdraw(w, n), job[w].item \in Items
      PROVE  item'[Full].status \in ActiveStatus \cup {"absent"}
  BY <1>3, <1>4, <1>6 DEF Withdraw
<1>7. ASSUME NEW w \in Workers, Work(w)
      PROVE  item'[Full].status \in ActiveStatus \cup {"absent"}
  <2>1. CASE Complete(w)
    <3>1. job[w].item \in Items /\ job[w].item # Full
      BY <2>1 DEF TypeInv, Complete, VerdictEnds
    <3> QED
      BY <1>3, <2>1, <3>1 DEF Complete
  <2>2. CASE FailVerification(w)
    BY <1>5, <2>2 DEF FailVerification, At, InStage
  <2>3. CASE item' = item \/ \E rows : item' = Inserted(rows)
    BY <1>1, <1>2, <2>3
  <2> QED
    BY <1>7, <2>1, <2>2, <2>3
    DEF Work, DiscoverArchives, DiscoverSymbol, SupplementDaily, PlanArchives, LoadArchive,
      FetchMissing, LoadCanonical, LoadForward, Loaded, DeriveFeatures, MaterializeMarketState,
      GenerateSignals, CheckShortability, RunAnalysis, InvalidateGaps, TrimSignals,
      AdvanceRead, AdvanceWrite, AdvanceZeroSignals
<1>8. ASSUME NEW w \in Workers, Fail(w)
      PROVE  item'[Full].status \in ActiveStatus \cup {"absent"}
  <2>1. CASE FailTransient(w) \/ FailRetryable(w)
    <3>1. job[w].item \in Items
      BY <1>0, <2>1 DEF FailTransient, FailRetryable, Fallible, JobsOK, JobType
    <3> DEFINE a == item[job[w].item].attempts
    <3>2. a \in Nat /\ (IF a > 0 THEN a - 1 ELSE 0) \in Nat
      BY <1>0, <3>1 DEF Row
    <3> QED
      BY <1>5, <1>6, <2>1, <3>1, <3>2 DEF FailTransient, FailRetryable
  <2>2. CASE FailPermanent(w)
    BY <1>5, <2>2 DEF FailPermanent, At, InStage, TypeInv
  <2>3. CASE Crash(w)
    BY <1>1, <2>3 DEF Crash
  <2> QED
    BY <1>8, <2>1, <2>2, <2>3 DEF Fail
<1>9. ASSUME NEW w \in Workers, NEW k \in Items, Claim(w, k)
      PROVE  item'[Full].status \in ActiveStatus \cup {"absent"}
  <2>1. item[k].attempts + 1 \in Nat
    BY <1>0 DEF Row
  <2>2. item' = [item EXCEPT ![k] = [status |-> "running", attempts |-> item[k].attempts + 1]]
    BY <1>9 DEF Claim
  <2> QED
    BY <1>3, <1>4, <2>1, <2>2
<1>10. ASSUME NEW k \in Items, Reclaim(k) \/ Lapse(k)
      PROVE  item'[Full].status \in ActiveStatus \cup {"absent"}
  BY <1>3, <1>4, <1>10 DEF Reclaim, Lapse, Requeued
<1>11. CASE Operator
  <2>1. CASE Cancel
    BY <1>0, <2>1 DEF Cancel, Live, OpenRunStatus, RunRow
  <2>2. CASE Pause
    BY <1>1, <2>2 DEF Pause
  <2>3. CASE Resume \/ RequeueFailedArchives
    BY <1>0, <1>1, <1>4, <2>3 DEF Resume, RequeueFailedArchives, Row
  <2> QED
    BY <1>11, <2>1, <2>2, <2>3 DEF Operator
<1> QED
  BY <1>7, <1>8, <1>9, <1>10, <1>11 DEF Next

\* An insertion after which nothing is active has inserted nothing.
LEMMA NothingInserted ==
  ASSUME TypeOK, NEW rows, item' = Inserted(rows), Quiet'
  PROVE  item' = item /\ \A i \in rows \cap Items : item[i].status # "absent"
<1>0. item \in [Items -> Row]
  BY TypeParts
<1>1. ASSUME NEW i \in rows \cap Items, item[i].status = "absent" PROVE FALSE
  <2>1. item'[i].status = "queued"
    BY <1>0, <1>1 DEF Inserted, Row
  <2> QED
    BY <2>1 DEF Quiet, ActiveStatus, WaitingStatus
<1>2. \A i \in Items : item'[i] = item[i]
  BY <1>0, <1>1 DEF Inserted
<1> QED
  BY <1>0, <1>1, <1>2 DEF Inserted

\* A worker that is on its way stays so while others do nothing it minds.
LEMMA HeadingKept ==
  ASSUME NEW v \in Workers, Heading(v), job'[v] = job[v], item' = item,
         job[v].pc = "zero" => signals' = signals /\ run'.stage = run.stage
  PROVE  Heading(v)'
BY DEF Heading, Planned

\* What a plan inserts are items.
LEMMA PlannedItems ==
  ASSUME TypeOK, NEW p \in Plans
  PROVE  PlannedRows(p) \subseteq Items
<1>1. \A a \in bars : Derive(SymbolOf[a]) \in Items
  BY ItemsOfStages, B001Assumption DEF TypeOK
<1> QED
  BY <1>1, ItemsOfStages DEF PlannedRows, Plans

\* The stages of one item each, and what is planned of them.
LEMMA OneItemStages ==
  /\ ~Planned("market_state") => item[Market].status = "absent"
  /\ ~Planned("signals") => item[Signals].status = "absent"
  /\ ~Planned("shortability") => item[Short].status = "absent"
  /\ Planned("analysis") => item[Full].status # "absent"
  /\ ~Planned("analysis") => item[Full].status = "absent"
  /\ \A s \in Symbols : ~Planned("derive_features") => item[Derive(s)].status = "absent"
  /\ \A a \in Archives : ~Planned("spot_month") => item[Spot(a)].status = "absent"
<1>1. InStage("analysis") = {Full}
  BY DEF InStage, Items, StageOf, Root, Market, Signals, Short, Full, Symbol, Derive, Spot
<1>2. Market \in InStage("market_state") /\ Signals \in InStage("signals")
      /\ Short \in InStage("shortability")
  BY ItemsOfStages DEF InStage, StageOf, Market, Signals, Short
<1>3. \A s \in Symbols : Derive(s) \in InStage("derive_features")
  BY ItemsOfStages DEF InStage, StageOf, Derive
<1>4. \A a \in Archives : Spot(a) \in InStage("spot_month")
  BY ItemsOfStages DEF InStage, StageOf, Spot
<1> QED
  BY <1>1, <1>2, <1>3, <1>4 DEF Planned

\* With nothing active in a run that has bars, the counts name the next stage.
LEMMA DecisionGoesOn ==
  ASSUME TypeOK, Live, Quiet, FullOwed, BarsListed, bars # {}
  PROVE  Decision \in LaterStages /\ ~Planned(Decision)
<1>1. \A st : ~Active(st)
  BY DEF Quiet, Active, InStage
<1>2. Planned("spot_month")
  BY OneItemStages DEF BarsListed, TypeOK
<1>3. ~Planned("analysis")
  BY OneItemStages, ItemsOfStages DEF FullOwed, Quiet
<1> QED
  BY <1>1, <1>2, <1>3 DEF Decision, LaterStages

\* advance_b001_run's reading: nobody asks again for a run that is paused then;
\* of any other run with nothing active, the reader is the one who goes on.
LEMMA ReadGoesOn ==
  ASSUME TypeOK, OnItsWay, NEW w \in Workers, AdvanceRead(w), Trusted', Live, Quiet', bars # {}
  PROVE  \E v \in Workers : Heading(v)'
<1>1. run.status \notin HaltedStatus
  BY DEF AdvanceRead, Trusted, Live, OpenRunStatus, HaltedStatus
<1>2. job' = [job EXCEPT ![w].pc = "plan", ![w].plan = Decision] /\ item' = item
  BY <1>1 DEF AdvanceRead
<1>3. Quiet
  BY <1>2 DEF Quiet
<1>4. Decision \in LaterStages /\ ~Planned(Decision)
  BY <1>3, DecisionGoesOn DEF OnItsWay
<1>5. job'[w].pc = "plan" /\ job'[w].plan = Decision
  BY <1>2 DEF TypeOK, JobType
<1>6. ~(Planned(job[w].plan)')
  BY <1>2, <1>4, <1>5 DEF Planned
<1> QED
  BY <1>4, <1>5, <1>6 DEF Heading

\* advance_b001_run's writing: who was about to plan the next stage plans it; a
\* slower worker plans nothing, and nothing of those who go on is undone unless
\* it writes an older stage over theirs.
LEMMA WriteGoesOn ==
  ASSUME TypeOK, OnItsWay, NEW w \in Workers, AdvanceWrite(w), Trusted', Live, Quiet', bars # {}
  PROVE  \E v \in Workers : Heading(v)'
<1> DEFINE p == job[w].plan
           label == StageLabel(p)
<1>0. run \in RunRow /\ JobsOK /\ p \in Plans
  BY TypeParts DEF JobsOK, JobType
<1>1. job[w].pc = "plan" /\ item' = Inserted(PlannedRows(p)) /\ run' = [run EXCEPT !.stage = label]
      /\ unheard' = (unheard \/ Order[label] < Order[run.stage]) /\ Goes(w, "zero")
      /\ UNCHANGED research
  BY DEF AdvanceWrite
<1>2. item' = item /\ \A i \in PlannedRows(p) : item[i].status # "absent"
  BY <1>0, <1>1, NothingInserted, PlannedItems
<1>3. Quiet /\ item[Full].status = "absent"
  BY <1>2, ItemsOfStages DEF Quiet, OnItsWay, FullOwed
<1>4. p # "analysis"
  BY <1>2, <1>3 DEF PlannedRows
<1>5. run'.stage = label /\ ~(Order[label] < Order[run.stage])
  BY <1>0, <1>1 DEF RunRow, Trusted
<1>6. run.stage = "shortability" => run'.stage = "shortability"
  BY <1>0, <1>4, <1>5 DEF StageLabel, Order, Plans
<1>7. PICK v \in Workers : Heading(v)
  BY <1>3 DEF OnItsWay, GoingOn
<1>8. CASE v # w
  <2>1. job'[v] = job[v]
    BY <1>1, <1>8, GoesOn DEF Others
  <2>2. signals' = signals
    BY <1>1 DEF research
  <2>3. job[v].pc = "zero" => run.stage = "shortability"
    BY <1>7 DEF Heading
  <2> QED
    BY <1>2, <1>6, <1>7, <2>1, <2>2, <2>3, HeadingKept
<1>9. CASE v = w
  <2>1. p \in LaterStages /\ ~Planned(p)
    BY <1>1, <1>7, <1>9 DEF Heading
  <2>2. PICK a \in bars : a \in Archives
    BY DEF TypeOK
  <2>3. SymbolOf[a] \in Symbols
    BY <2>2, B001Assumption
  <2>4. p # "derive_features"
    BY <1>2, <2>1, <2>2, <2>3, OneItemStages DEF PlannedRows
  <2>5. p # "market_state" /\ p # "signals"
    BY <1>2, <2>1, OneItemStages DEF PlannedRows
  <2>6. p = "shortability"
    BY <1>4, <2>1, <2>4, <2>5 DEF LaterStages
  <2>7. item[Short].status = "absent"
    BY <2>1, <2>6, OneItemStages
  <2>8. signals \in {"none", "zero"}
    BY <1>2, <2>6, <2>7 DEF PlannedRows
  <2>9. run'.stage = "shortability" /\ signals' = signals /\ job'[w].pc = "zero"
    BY <1>1, <1>5, <2>6, GoesOn DEF StageLabel, research
  <2>10. Heading(w)'
    BY <1>2, <2>7, <2>8, <2>9 DEF Heading
  <2> QED
    BY <2>10
<1> QED
  BY <1>8, <1>9

\* The second look of b001_runtime: whoever finds a run without signals plans
\* its analysis, unless the run is paused by then.
LEMMA ZeroGoesOn ==
  ASSUME TypeOK, OnItsWay, NEW w \in Workers, AdvanceZeroSignals(w), Trusted', Live, Quiet',
         bars # {}
  PROVE  \E v \in Workers : Heading(v)'
<1> DEFINE NoSignals == /\ run.status \notin HaltedStatus /\ run.stage = "shortability"
                        /\ signals \in {"none", "zero"} /\ item[Short].status = "absent"
<1>1. /\ job[w].pc = "zero" /\ job' = [job EXCEPT ![w] = Idle] /\ UNCHANGED research
      /\ NoSignals => item' = Inserted({Full})
      /\ ~NoSignals => UNCHANGED <<item, run>>
  BY DEF AdvanceZeroSignals
<1>2. run.status \notin HaltedStatus
  BY DEF AdvanceZeroSignals, Trusted, Live, OpenRunStatus, HaltedStatus
<1>3. ~NoSignals
  <2> SUFFICES ASSUME NoSignals PROVE FALSE
    OBVIOUS
  <2>1. item' = item /\ item[Full].status # "absent"
    BY <1>1, NothingInserted, ItemsOfStages
  <2> QED
    BY <2>1, ItemsOfStages DEF OnItsWay, FullOwed, Quiet
<1>4. item' = item /\ run' = run /\ signals' = signals
  BY <1>1, <1>3 DEF research
<1>5. Quiet
  BY <1>4 DEF Quiet
<1>6. PICK v \in Workers : Heading(v)
  BY <1>5 DEF OnItsWay, GoingOn
<1>7. v # w
  BY <1>1, <1>2, <1>3, <1>6 DEF Heading
<1>8. job'[v] = job[v]
  BY <1>1, <1>7, GoesIdle DEF Others
<1> QED
  BY <1>4, <1>6, <1>8, HeadingKept

\* A failure leaves its item waiting, ends the run, or goes on to the counts.
LEMMA FailGoesOn ==
  ASSUME TypeInv, Strong, OnItsWay, NEW w \in Workers, Fail(w) \/ FailVerification(w),
         Trusted', Live, Live', Quiet'
  PROVE  \E v \in Workers : Heading(v)'
<1>0. TypeOK /\ item \in [Items -> Row] /\ run \in RunRow /\ JobsOK
  BY TypeParts DEF TypeInv
<1>1. ASSUME NEW n \in Nat, Withdraw(w, n), job[w].item \in Items PROVE FALSE
  <2>1. item'[job[w].item].status = "retry_wait"
    BY <1>0, <1>1 DEF Withdraw
  <2> QED
    BY <1>1, <2>1 DEF Quiet, ActiveStatus, WaitingStatus
<1>2. CASE FailForGood(w)
  <2>1. StageOf(job[w].item) = "spot_month"
    BY <1>0, <1>2 DEF FailForGood, Live, OpenRunStatus, RunRow
  <2>2. job' = [job EXCEPT ![w] = [Idle EXCEPT !.pc = "advance"]]
    BY <1>2, <2>1 DEF FailForGood
  <2>3. job'[w].pc = "advance"
    BY <1>0, <2>2 DEF JobsOK, Idle
  <2> QED
    BY <2>3 DEF Heading
<1>3. CASE FailTransient(w) \/ FailRetryable(w)
  <2>1. job[w].item \in Items
    BY <1>0, <1>3 DEF FailTransient, FailRetryable, Fallible, JobsOK, JobType
  <2> DEFINE a == item[job[w].item].attempts
  <2>2. a \in Nat /\ (IF a > 0 THEN a - 1 ELSE 0) \in Nat
    BY <1>0, <2>1 DEF Row
  <2> QED
    BY <1>1, <1>2, <1>3, <2>1, <2>2 DEF FailTransient, FailRetryable
<1>4. CASE Crash(w)
  <2>1. job[w].pc \in {"work", "complete"} /\ item' = item
    BY <1>0, <1>4 DEF Crash, Trusted, JobsOK, JobType
  <2>2. job[w].item \in Items
    BY <2>1 DEF TypeInv
  <2>3. item[job[w].item].status = "running"
    BY <1>0, <2>1, <2>2, InHandThere DEF OnItsWay, NoneCancelled
  <2> QED
    BY <2>1, <2>2, <2>3 DEF Quiet, ActiveStatus
<1> QED
  BY <1>2, <1>3, <1>4 DEF Fail, FailPermanent, FailVerification

\* No step takes an open run with bars to where nothing is active and nobody is
\* on the way, but for the holes.
LEMMA GoingOnKeeps ==
  ASSUME TypeInv, Strong, OnItsWay, Next, Trusted', Live' => Live
  PROVE  GoingOn'
<1> SUFFICES ASSUME Live', Quiet', bars' # {} PROVE \E v \in Workers : Heading(v)'
  BY DEF GoingOn
<1>0. TypeOK /\ Live /\ JobsOK /\ item \in [Items -> Row]
  BY TypeParts DEF TypeInv
<1>1. ASSUME NEW w \in Workers, NEW pc \in {"complete", "post", "advance"}, Goes(w, pc)
      PROVE  \E v \in Workers : Heading(v)'
  BY <1>0, <1>1, GoesOn DEF Heading
<1>2. ASSUME NEW i \in Items, item'[i].status \in ActiveStatus PROVE FALSE
  BY <1>2 DEF Quiet
<1>3. ASSUME NEW w \in Workers, Work(w) PROVE \E v \in Workers : Heading(v)'
  <2>1. CASE FetchMissing(w)
    <3>1. job'[w].pc = "complete"
      BY <1>0, <2>1 DEF FetchMissing, JobsOK, JobType
    <3> QED
      BY <3>1 DEF Heading
  <2>2. CASE AdvanceRead(w) \/ AdvanceWrite(w) \/ AdvanceZeroSignals(w)
    <3>1. bars # {}
      BY <2>2 DEF AdvanceRead, AdvanceWrite, AdvanceZeroSignals, research
    <3> QED
      BY <1>0, <2>2, <3>1, ReadGoesOn, WriteGoesOn, ZeroGoesOn
  <2>3. CASE FailVerification(w)
    BY <1>0, <2>3, FailGoesOn
  <2> QED
    BY <1>1, <1>3, <2>1, <2>2, <2>3
    DEF Work, DiscoverArchives, DiscoverSymbol, SupplementDaily, PlanArchives, LoadArchive,
      LoadCanonical, LoadForward, Loaded, DeriveFeatures, MaterializeMarketState,
      GenerateSignals, CheckShortability, RunAnalysis, InvalidateGaps, TrimSignals, Complete
<1>4. ASSUME NEW w \in Workers, Fail(w) PROVE \E v \in Workers : Heading(v)'
  BY <1>0, <1>4, FailGoesOn
<1>5. ASSUME NEW w \in Workers, NEW k \in Items, Claim(w, k) PROVE FALSE
  <2>1. item'[k].status = "running"
    BY <1>0, <1>5 DEF Claim
  <2> QED
    BY <1>2, <2>1 DEF ActiveStatus
<1>6. ASSUME NEW k \in Items, Reclaim(k) \/ Lapse(k) PROVE FALSE
  <2>1. item'[k].status = "retry_wait"
    BY <1>0, <1>6 DEF Reclaim, Lapse, Requeued, Row
  <2> QED
    BY <1>2, <2>1 DEF ActiveStatus, WaitingStatus
<1>7. CASE Operator
  <2>1. ~Cancel /\ ~RequeueFailedArchives
    BY <1>0, TypeParts DEF Cancel, RequeueFailedArchives, Live, OpenRunStatus, RunRow, Trusted
  <2>2. UNCHANGED <<job, bars, signals>> /\ run'.stage = run.stage
    BY <1>7, <2>1, <1>0, TypeParts DEF Operator, Pause, Resume, research, RunRow
  <2>3. item' = item
    <3>1. CASE Pause
      BY <3>1 DEF Pause
    <3>2. CASE Resume
      <4> DEFINE again == {i \in Items : item[i].status = "failed" /\ item[i].attempts < MaxAttempts}
      <4>1. item' = [i \in Items |-> IF i \in again THEN [item[i] EXCEPT !.status = "retry_wait"]
                                     ELSE item[i]]
        BY <3>2 DEF Resume
      <4>2. ASSUME NEW i \in again PROVE FALSE
        <5>1. item'[i].status = "retry_wait"
          BY <1>0, <4>1 DEF Row
        <5> QED
          BY <1>2, <5>1 DEF ActiveStatus, WaitingStatus
      <4> HIDE DEF again
      <4> QED
        BY <1>0, <4>1, <4>2
    <3> QED
      BY <1>7, <2>1, <3>1, <3>2 DEF Operator
  <2>4. Quiet /\ bars # {}
    BY <2>2, <2>3 DEF Quiet
  <2>5. PICK v \in Workers : Heading(v)
    BY <1>0, <2>4 DEF OnItsWay, GoingOn
  <2> QED
    BY <2>2, <2>3, <2>5, HeadingKept
<1> QED
  BY <1>3, <1>4, <1>5, <1>6, <1>7 DEF Next

\* The invariant with the course of the run is inductive.
LEMMA NextCourse == CourseInv /\ [Next]_vars => CourseInv'
<1> SUFFICES ASSUME CourseInv, [Next]_vars PROVE Trusted' => OnItsWay'
  BY NextInv DEF CourseInv
<1>1. CASE Next
  <2> SUFFICES ASSUME Trusted' PROVE OnItsWay'
    OBVIOUS
  <2>1. OnItsWay /\ TypeInv /\ TypeOK
    BY <1>1, HolesStay DEF CourseInv, IInv, TypeInv, Holding
  <2>2. Strong
    BY <1>1, HolesStay DEF CourseInv, IInv, Trusted
  <2>3. Live' => Live
    BY <1>1, <2>1, EndStays
  <2>4. BarsListed' /\ VerdictEnds' /\ FullOwed'
    BY <1>1, <2>1, <2>2, <2>3, ListedKeeps, VerdictKeeps, OwedKeeps DEF OnItsWay
  <2>5. GoingOn'
    BY <1>1, <2>1, <2>2, <2>3, GoingOnKeeps
  <2>6. NoneCancelled'
    <3> SUFFICES ASSUME Live', NEW i \in Items, item'[i].status = "cancelled" PROVE FALSE
      BY DEF NoneCancelled
    <3>1. item[i].status # "cancelled"
      BY <2>1, <2>3 DEF OnItsWay, NoneCancelled
    <3> QED
      BY <1>1, <2>1, <3>1, RowsStay
  <2> QED
    BY <2>4, <2>5, <2>6 DEF OnItsWay
<1>2. CASE UNCHANGED vars
  BY <1>2 DEF CourseInv, vars, research, history, Trusted, OnItsWay, BarsListed, VerdictEnds,
     NoneCancelled, FullOwed, GoingOn, Live, Quiet, Heading, Planned
<1> QED
  BY <1>1, <1>2

\* The course of a replication run: besides the types and what holds of its
\* items, an open run that has bars and nothing active has a worker on its way to
\* plan the next stage, until an advance is lost, a lock lapses or work is retried.
THEOREM CourseInvariant == Spec => []CourseInv
<1>1. Init => CourseInv
  <2> SUFFICES ASSUME Init PROVE OnItsWay
    BY InitInv DEF CourseInv
  <2>1. item[Full].status = "absent" /\ item[Root].status = "queued"
    BY ItemsOfStages DEF Init, Full, Root
  <2>2. BarsListed /\ VerdictEnds
    BY DEF Init, Idle, BarsListed, VerdictEnds
  <2>3. NoneCancelled
    BY DEF Init, NoneCancelled
  <2>4. ~Quiet
    BY <2>1, ItemsOfStages DEF Quiet, ActiveStatus, WaitingStatus
  <2> QED
    BY <2>1, <2>2, <2>3, <2>4 DEF OnItsWay, FullOwed, GoingOn
<1> QED
  BY <1>1, NextCourse, PTL DEF Spec

\* An open replication run is never left with nothing to claim and nobody at
\* work, except through one of the holes that NotStranded names.
THEOREM NeverStranded == Spec => []NotStranded
<1>1. CourseInv => NotStranded
  <2> SUFFICES ASSUME CourseInv, Stranded, Trusted, ~NoBars PROVE FALSE
    BY DEF NotStranded, Trusted
  <2>1. Live /\ Quiet /\ bars # {}
    BY DEF Stranded, Live, Quiet, NoBars
  <2>2. PICK w \in Workers : Heading(w)
    BY <2>1 DEF CourseInv, OnItsWay, GoingOn
  <2> QED
    BY <2>2 DEF Stranded, Heading
<1> QED
  BY <1>1, CourseInvariant, PTL
===============================================================================
