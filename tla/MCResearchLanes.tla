--------------------------- MODULE MCResearchLanes ---------------------------
(***************************************************************************)
(* The research lanes of a worker process for TLC: the B-001 analysis, the *)
(* option events, the execution run, the quote days and the equity         *)
(* reference.  They have their own tables and threads and share no         *)
(* variable but the count of disturbances, so that every behaviour of all  *)
(* of them together is, for each of them, a behaviour of it alone.  The    *)
(* run therefore explores one at a time: `part` says which, and the others *)
(* rest in an initial state.                                               *)
(***************************************************************************)
EXTENDS B001Analysis, FiniteSets

CONSTANTS Events, Buckets, DbWorkers, HttpWorkers, Nobody, MaxOptionDisturbances,
          Months, MonthWorkers,
          Dates, BookDays, TardisDays, DepthDays, BookThreads, TardisThreads, DepthThreads,
          SlotZero, Bare,
          Sessions, States, NotListed, ReferenceLanes,
          MaxLaneDisturbances

\* Two robustness variants in place of the twenty-seven of the analysis.
TwoVariants == {"cost_stress:50bp", "holding_period:6h"}

ASSUME LaneBounds ==
  /\ IsFiniteSet(Events) /\ DbWorkers \cap HttpWorkers = {}
  /\ Nobody \notin DbWorkers \cup HttpWorkers
  /\ IsFiniteSet(Months) /\ "analysis" \notin Months
  /\ BookDays \cup TardisDays \cup DepthDays = Dates
  /\ DepthDays \cap (BookDays \cup TardisDays) = {}
  /\ Bare \subseteq Dates \ DepthDays /\ SlotZero \in BookThreads
  /\ Sessions \in Nat \ {0} /\ NotListed \notin States
  /\ MaxOptionDisturbances \in Nat /\ MaxLaneDisturbances \in Nat

VARIABLES part,
          optionEvent, optionRun, optionResult, optionJob, misreported,
          executionItem, executionRun, stored, published, trades, result, executionJob,
          executionLapsed,
          quoteDay, snapshot, thread, quoteLapsed,
          provider, referenceDay, referenceRun, scope, events, intervals, lane, written,
          disordered

Option == INSTANCE OptionEvents
  WITH event <- optionEvent, run <- optionRun, result <- optionResult, job <- optionJob,
       MaxDisturbances <- MaxOptionDisturbances
Execution == INSTANCE ExecutionRun
  WITH Workers <- MonthWorkers, item <- executionItem, run <- executionRun, job <- executionJob,
       lapsed <- executionLapsed, MaxDisturbances <- MaxLaneDisturbances
Quotes == INSTANCE QuoteDays
  WITH Days <- Dates, day <- quoteDay, lapsed <- quoteLapsed, MaxDisturbances <- MaxLaneDisturbances
Reference == INSTANCE EquityReference
  WITH Absent <- NotListed, Lanes <- ReferenceLanes, day <- referenceDay,
       run <- referenceRun, MaxDisturbances <- MaxLaneDisturbances

analysis == <<run, item, evidence, robustness, export, job>>
option == <<optionEvent, optionRun, optionResult, optionJob, misreported>>
execution == <<executionItem, executionRun, stored, published, trades, result, executionJob,
               executionLapsed>>
quotes == <<quoteDay, snapshot, thread, quoteLapsed>>
reference == <<provider, referenceDay, referenceRun, scope, events, intervals, lane, written,
               disordered>>
everything == <<part, analysis, option, execution, quotes, reference, disturbances>>
-----------------------------------------------------------------------------
\* What only one part looks at is left open in its own behaviours only.
Begin ==
  /\ part \in {"analysis", "option", "execution", "quotes", "reference"}
  /\ Init /\ Option!Init /\ Execution!Init /\ Quotes!Init /\ Reference!Init
  /\ part = "execution" \/ published = Months
  /\ part = "reference" \/ provider = [d \in 1..Sessions |-> NotListed]

InAnalysis(A) ==
  part = "analysis" /\ A /\ UNCHANGED <<part, option, execution, quotes, reference>>
InOption(A) ==
  part = "option" /\ A /\ UNCHANGED <<part, analysis, execution, quotes, reference>>
InExecution(A) ==
  part = "execution" /\ A /\ UNCHANGED <<part, analysis, option, quotes, reference>>
InQuotes(A) ==
  part = "quotes" /\ A /\ UNCHANGED <<part, analysis, option, execution, reference>>
InReference(A) ==
  part = "reference" /\ A /\ UNCHANGED <<part, analysis, option, execution, quotes>>

Step ==
  \/ InAnalysis(Next) \/ InOption(Option!Next) \/ InExecution(Execution!Next)
  \/ InQuotes(Quotes!Next) \/ InReference(Reference!Next)

\* The processes of whichever part is explored go on with what they can do.
Processes == DbWorkers \cup HttpWorkers \cup MonthWorkers \cup ReferenceLanes
             \cup BookThreads \cup TardisThreads \cup DepthThreads
Works(p) ==
  \/ p \in DbWorkers /\ InAnalysis(Claim \/ Work)
  \/ p \in DbWorkers \cup HttpWorkers /\ InOption(Option!Proceed(p))
  \/ p \in DbWorkers /\ InOption(Option!Loop(p))
  \/ p \in MonthWorkers /\ InExecution(Execution!Work(p))
  \/ p \in Quotes!Threads /\ InQuotes(Quotes!Work(p))
  \/ p \in ReferenceLanes /\ InReference(Reference!Step(p))

\* What nobody works on gets old, and what is old is taken back.
TimePasses ==
  \/ InOption(\E e \in Events : Option!Abandoned(e) /\ Option!GoStale(e))
  \/ InExecution(\E i \in Execution!Items : ~Execution!Held(i) /\ Execution!GoStale(i))
  \/ InQuotes(\E d \in Dates : ~Quotes!Held(d) /\ Quotes!GoStale(d))
  \/ InReference(\E d \in Reference!Days : ~Reference!Held(d) /\ Reference!GoStale(d))
Reclaims == InAnalysis(Reclaim) \/ InExecution(Execution!Reclaim) \/ InQuotes(Quotes!Reclaim)

LanesSpec ==
  /\ Begin /\ [][Step]_everything
  /\ \A p \in Processes : WF_everything(Works(p))
  /\ WF_everything(TimePasses) /\ SF_everything(Reclaims)
-----------------------------------------------------------------------------
\* The variables of every part have their types.
LanesTyped ==
  TypeOK /\ Option!TypeOK /\ Execution!TypeOK /\ Quotes!TypeOK /\ Reference!TypeOK

\* A mark of the B-001 analysis stands for evidence that is completely stored; the
\* verdict and the export rest on all of it, though parts come from attempts that
\* died; and no later attempt deletes it under a completed run.
EvidenceVouched == MarksVouch /\ VerdictRests /\ ExportWhole /\ CompletedKeepsEvidence

\* What the runs of options and executions say in the end is what became of their
\* events and months, whoever wrote it last.
RunsTruthful == Option!RunTold /\ Execution!ResultComplete

\* A completed quote day carries the checksum of the archive that its snapshots came
\* from, and the intervals of the reference say what the provider's snapshots said, but
\* for the exceptions that the two modules name.
SourcesFaithful == Quotes!Provenance /\ Reference!IntervalsFaithful

\* Whatever a lane has taken up comes to an end, or to rest in one of the ways that
\* its module names: the analysis, every option event, the execution run, every quote
\* day and the reference run.
LanesEnd ==
  <>[](CASE part = "analysis" -> AnalysisOver
         [] part = "option" -> Option!EventsOver
         [] part = "execution" -> Execution!RunOver
         [] part = "quotes" -> Quotes!DaysOver
         [] part = "reference" -> Reference!RunSettled)
=============================================================================
