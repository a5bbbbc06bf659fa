------------------------------ MODULE MCWorkers ------------------------------
(***************************************************************************)
(* The workers that hold something of a server's while they are at work,   *)
(* for TLC: the remediation lease, the EQ20 source supervisor, the         *)
(* segments of the EQ20 mission, the quantile ledger of its fit stages and *)
(* the XAL-006 monitor.  They share no variable, so that every behaviour   *)
(* of all of them together is, for each of them, a behaviour of it alone.  *)
(* The run therefore explores one at a time: `part` says which, and the    *)
(* others rest in an initial state.                                        *)
(***************************************************************************)
EXTENDS RemediationLease, FiniteSets

CONSTANTS Monitors, LastBoundary, Spacing, Lead, Hold, LongestTick, MaxMonitorDisturbances,
          MaxCycles, MaxSupervisorDisturbances,
          Hosts, Units, LastAttempt, Spare, MaxMissionDisturbances,
          Sessions, Values, Fields, Shards, MaxLedgerDisturbances

ASSUME WorkerBounds ==
  /\ IsFiniteSet(Monitors) /\ {LastBoundary, Spacing, Lead, Hold, LongestTick} \subseteq Nat \ {0}
  /\ {MaxCycles, Units, LastAttempt} \subseteq Nat \ {0} /\ Spare \in 1..LastAttempt
  /\ {Sessions, Fields, Shards} \subseteq Nat \ {0}
  /\ Values \cap {"nothing", "none", "conflict"} = {}
  /\ {MaxMonitorDisturbances, MaxSupervisorDisturbances, MaxMissionDisturbances,
      MaxLedgerDisturbances} \subseteq Nat

VARIABLES part,
          pc, after, cycle, control, attempt, call, child, statement, held, verdict, sent,
          supervisorFaults,
          missionHeld, attempts, missionVerdict, snapshot, runner, files, missionChild,
          commitCall, late, disk, controller, missionFaults,
          content, server, ledgerDisk, prepared, ledgerChild, refused, ledgerFaults,
          clock, bars, fills, evaluations, signal, monitor, lost, monitorFaults

Supervisor == INSTANCE SourceSupervisor
  WITH MaxDisturbances <- MaxSupervisorDisturbances, disturbances <- supervisorFaults
Mission == INSTANCE MissionSegments
  WITH MaxDisturbances <- MaxMissionDisturbances, disturbances <- missionFaults,
       held <- missionHeld, verdict <- missionVerdict, child <- missionChild,
       statement <- commitCall
Ledger == INSTANCE QuantileLedger
  WITH MaxDisturbances <- MaxLedgerDisturbances, disturbances <- ledgerFaults,
       disk <- ledgerDisk, child <- ledgerChild
Signal == INSTANCE SignalMonitor
  WITH MaxDisturbances <- MaxMonitorDisturbances, disturbances <- monitorFaults

supervisor == <<pc, after, cycle, control, attempt, call, child, statement, held, verdict, sent,
                supervisorFaults>>
mission == <<missionHeld, attempts, missionVerdict, snapshot, runner, files, missionChild,
             commitCall, late, disk, controller, missionFaults>>
ledger == <<content, server, ledgerDisk, prepared, ledgerChild, refused, ledgerFaults>>
evidence == <<clock, bars, fills, evaluations, signal, monitor, lost, monitorFaults>>
everything == <<part, vars, supervisor, mission, ledger, evidence>>
-----------------------------------------------------------------------------
\* What only one part looks at is left open in its own behaviours only.
Begin ==
  /\ part \in {"lease", "supervisor", "mission", "ledger", "signal"}
  /\ Init /\ Supervisor!Init /\ Mission!Init /\ Ledger!Init /\ Signal!Init
  /\ part = "mission" \/ runner = CHOOSE h \in Hosts : TRUE
  /\ part = "ledger" \/ content = [s \in 1..Sessions |-> "nothing"]

InLease(A) == part = "lease" /\ A /\ UNCHANGED <<part, supervisor, mission, ledger, evidence>>
InSupervisor(A) == part = "supervisor" /\ A /\ UNCHANGED <<part, vars, mission, ledger, evidence>>
InMission(A) == part = "mission" /\ A /\ UNCHANGED <<part, vars, supervisor, ledger, evidence>>
InLedger(A) == part = "ledger" /\ A /\ UNCHANGED <<part, vars, supervisor, mission, evidence>>
InSignal(A) == part = "signal" /\ A /\ UNCHANGED <<part, vars, supervisor, mission, ledger>>

Step ==
  \/ InLease(Next) \/ InSupervisor(Supervisor!Next) \/ InMission(Mission!Next)
  \/ InLedger(Ledger!Next) \/ InSignal(Signal!Next)

\* The fairness of each part, as its module states it.
Works(p) ==
  \/ p \in Workers /\ InLease(Work(p))
  \/ p \in Hosts /\ InMission(Mission!Control(p))
  \/ p \in Monitors /\ InSignal(Signal!Work(p))
Answers ==
  \/ InSupervisor(Supervisor!Dispatch \/ Supervisor!Carry \/ Supervisor!Answer)
  \/ InMission(Mission!Commit)

WorkersSpec ==
  /\ Begin /\ [][Step]_everything
  /\ \A p \in Workers \cup Hosts \cup Monitors : WF_everything(Works(p))
  /\ WF_everything(Answers)
  /\ \A b \in Batches : WF_everything(InLease(Abandoned(b) /\ LeaseLapses(b)))
  /\ WF_everything(InSupervisor(Supervisor!Supervise) \/ InSignal(Signal!TimePasses)
                   \/ InMission(Mission!Child) \/ InLedger(Ledger!Work))
  /\ WF_everything(InSupervisor(Supervisor!Journal) \/ InMission(Mission!LateCall))
  /\ SF_everything(InSupervisor(Supervisor!ChildEnds))
  /\ WF_everything(InSupervisor(Supervisor!StatementEnds))
-----------------------------------------------------------------------------
\* The variables of the part that is explored have their types.
WorkersTyped ==
  CASE part = "lease" -> TypeOK
    [] part = "supervisor" -> Supervisor!TypeOK
    [] part = "mission" -> Mission!TypeOK
    [] part = "ledger" -> Ledger!TypeOK
    [] part = "signal" -> Signal!TypeOK

\* The reservation of a source attempt is released when nothing of it runs any more,
\* can be traced on the supervisor's disk until then, and its terminal request is sent
\* once.
ReservationKept == Supervisor!ReleasedIdle /\ Supervisor!Traceable /\ Supervisor!SentOnce

\* A mission segment is settled when it is over, as its own disk says, and the mission
\* is verified from what the server has had before.
SegmentsSettled ==
  Mission!SettledIdle /\ Mission!TerminalAsWritten /\ Mission!VerifiedFromServer

\* The server's snapshot only ever grows by work that was done on it.
SnapshotExtends == Mission!SnapshotExtends

\* The ledger of a fit stage counts each of its sessions once, its results are those of
\* all of them, and no stop leaves files that a later segment refuses.
LedgerExact == Ledger!LedgerExact /\ Ledger!NeverRefused

\* The XAL-006 event of a day is its first tail entry, and its completed record is of
\* one piece.
SignalFaithful == Signal!FirstTailOnly /\ Signal!CompleteCoherent

\* Whatever a worker holds is given back in the end, or left in one of the ways that its
\* module names; and whatever it takes up again comes to that again.
WorkersEnd == \A b \in Batches :
  []<>(CASE part = "lease" -> BatchOver(b)
         [] part = "supervisor" -> Supervisor!SupervisorOver
         [] part = "mission" -> Mission!MissionOver
         [] part = "ledger" -> Ledger!StageOver
         [] part = "signal" -> Signal!SignalOver)
=============================================================================
