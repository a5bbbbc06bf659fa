---------------------------- MODULE SignalMonitor ----------------------------
(***************************************************************************)
(* The XAL-006 evidence monitor (app/xal006_live.py): every tick first     *)
(* takes the day's signal further, then evaluates the source boundaries    *)
(* that have passed, in their order.  Each statement is a transaction of   *)
(* its own and a signal is written by its id, whatever its status has      *)
(* become.  A deployment lets two workers, hence two monitors, overlap.    *)
(*                                                                         *)
(* One trade day.  One unit of time is one tolerance of prospective        *)
(* evidence; the passive order is judged two units after the entry.  What   *)
(* the provider says of a minute does not change.  Books, capacities and   *)
(* returns are left out: an exit says which entry it was computed from.    *)
(***************************************************************************)
EXTENDS Naturals, FiniteSets

CONSTANTS Monitors,
          LastBoundary,     \* source boundaries of the day
          Spacing,          \* time between two of them
          Lead, Hold,       \* from the source to the entry, and from there to the exit
          LongestTick,      \* bound on the time a tick takes
          MaxDisturbances   \* bound on failed requests and lost processes

VARIABLES clock,
          bars,         \* what the minutes of a boundary say, once the provider has them
          fills,        \* what they say of the passive order, once they were asked
          evaluations,  \* xal_live_source_evaluations: boundary -> event_triggered
          signal,       \* the day's row of xal_live_signals
          monitor,      \* what each monitor is doing
          lost,         \* a triggered evaluation was stored and its signal was not
          disturbances

vars == <<clock, bars, fills, evaluations, signal, monitor, lost, disturbances>>
market == <<bars, fills>>
-----------------------------------------------------------------------------
Boundaries == 1..LastBoundary
Passed(now) == {b \in Boundaries : b * Spacing <= now}
DayOver == LastBoundary * Spacing + Lead + Hold + 2
NoSignal == [status |-> "none"]
Pending == {"TRIGGERED", "ENTRY_CAPTURED"}
Idle == [pc |-> "idle", now |-> 0, row |-> NoSignal, todo |-> {}, tail |-> FALSE, book |-> 0]

EntryAt(s) == s.boundary * Spacing + Lead
ExitAt(s) == EntryAt(s) + Hold

Init ==
  /\ clock = 0
  /\ bars = [b \in Boundaries |-> "none"] /\ fills = "open"
  /\ evaluations = [b \in {} |-> FALSE]
  /\ signal = NoSignal
  /\ monitor = [w \in Monitors |-> Idle]
  /\ lost = FALSE
  /\ disturbances = 0

Disturb == disturbances < MaxDisturbances /\ disturbances' = disturbances + 1
At(w, pc) == monitor[w].pc = pc
Set(w, state) == monitor' = [monitor EXCEPT ![w] = state]
Now(w) == monitor[w].now
Row(w) == monitor[w].row
Goes(w, pc) == Set(w, [monitor[w] EXCEPT !.pc = pc])

\* A monitor keeps no copy of the row that it has no use for.
GoesWith(w, now, pc, row) ==
  Set(w, [Idle EXCEPT !.now = now, !.pc = pc, !.row = IF pc = "list" THEN NoSignal ELSE row])
Leaves(w, pc) == GoesWith(w, Now(w), pc, NoSignal)

TimePasses ==
  /\ clock < DayOver
  /\ \A w \in Monitors : At(w, "idle") \/ clock < Now(w) + LongestTick
  /\ clock' = clock + 1
  /\ UNCHANGED <<market, evaluations, signal, monitor, lost, disturbances>>

\* The provider has the minutes of a boundary, late or never.
BarsArrive(b) ==
  /\ bars[b] = "none" /\ b \in Passed(clock)
  /\ \E says \in {"plain", "tail"} : bars' = [bars EXCEPT ![b] = says]
  /\ UNCHANGED <<clock, fills, evaluations, signal, monitor, lost, disturbances>>
-----------------------------------------------------------------------------
\* What is due of a copy of the row.
PassiveDue(row, now) == row.passive = "open" /\ now >= EntryAt(row) + 2
Leads(row, now) ==
  IF row.status # "ENTRY_CAPTURED" THEN "list"
  ELSE IF PassiveDue(row, now) THEN "passive"
  ELSE IF now >= ExitAt(row) THEN "exit"
  ELSE "list"

\* tick takes the time once, and a copy of the pending signal.
Tick(w) ==
  /\ At(w, "idle")
  /\ GoesWith(w, clock,
       IF signal.status = "TRIGGERED" THEN "entry" ELSE Leads(signal, clock), signal)
  /\ UNCHANGED <<clock, market, evaluations, signal, lost, disturbances>>

\* The row is read again, before or after _capture_entry was due.
Reread(w) ==
  /\ At(w, "reread") \/ (At(w, "entry") /\ Now(w) < EntryAt(Row(w)))
  /\ GoesWith(w, Now(w), Leads(signal, Now(w)), signal)
  /\ UNCHANGED <<clock, market, evaluations, signal, lost, disturbances>>

\* _capture_entry is too late ...
EntryMissed(w) ==
  /\ At(w, "entry") /\ Now(w) > EntryAt(Row(w)) + 1
  /\ signal' = [signal EXCEPT !.status = "MISSED_ENTRY_CAPTURE"]
  /\ Leaves(w, "reread")
  /\ UNCHANGED <<clock, market, evaluations, lost, disturbances>>

\* ... or the book is fetched, and written with the time of the tick.
EntryBook(w) ==
  /\ At(w, "entry") /\ Now(w) \in EntryAt(Row(w))..(EntryAt(Row(w)) + 1)
  /\ Set(w, [monitor[w] EXCEPT !.pc = "entered", !.book = clock])
  /\ UNCHANGED <<clock, market, evaluations, signal, lost, disturbances>>

EntryCaptured(w) ==
  /\ At(w, "entered")
  /\ signal' = [signal EXCEPT !.status = "ENTRY_CAPTURED", !.entry = monitor[w].book]
  /\ Leaves(w, "reread")
  /\ UNCHANGED <<clock, market, evaluations, lost, disturbances>>

\* _evaluate_passive_fill: once, from minutes that are over.
EvaluatePassive(w) ==
  /\ At(w, "passive")
  /\ fills' \in IF fills = "open" THEN {"filled", "unfilled"} ELSE {fills}
  /\ signal' = [signal EXCEPT !.passive = fills']
  /\ Goes(w, "passed")
  /\ UNCHANGED <<clock, bars, evaluations, lost, disturbances>>

\* When an exit is due, whatever the status.
ExitOr(w) == IF Now(w) < ExitAt(Row(w)) THEN "list" ELSE "exit"

\* The row is read again, but its status is not looked at.
RereadAfterPassive(w) ==
  /\ At(w, "passed") /\ GoesWith(w, Now(w), ExitOr(w), signal)
  /\ UNCHANGED <<clock, market, evaluations, signal, lost, disturbances>>

\* _capture_exit, from the copy of the row.
ExitMissed(w) ==
  /\ At(w, "exit") /\ Now(w) > ExitAt(Row(w)) + 1
  /\ signal' = [signal EXCEPT !.status = "MISSED_EXIT_CAPTURE"]
  /\ Leaves(w, "list")
  /\ UNCHANGED <<clock, market, evaluations, lost, disturbances>>

ExitBook(w) ==
  /\ At(w, "exit") /\ Now(w) <= ExitAt(Row(w)) + 1
  /\ Set(w, [monitor[w] EXCEPT !.pc = "exited", !.book = clock])
  /\ UNCHANGED <<clock, market, evaluations, signal, lost, disturbances>>

ExitCaptured(w) ==
  /\ At(w, "exited")
  /\ signal' = [signal EXCEPT !.status = "COMPLETE", !.exit = monitor[w].book,
                              !.basis = Row(w).entry, !.cross = (Row(w).passive = "filled")]
  /\ Leaves(w, "list")
  /\ UNCHANGED <<clock, market, evaluations, lost, disturbances>>
-----------------------------------------------------------------------------
\* When no boundary is left the tick is over.
Sources(w, todo) ==
  Set(w, IF todo = {} THEN Idle ELSE [monitor[w] EXCEPT !.pc = "source", !.todo = todo])

\* The boundaries of the day that are not evaluated.
ListSources(w) ==
  /\ At(w, "list") /\ Sources(w, Passed(Now(w)) \ DOMAIN evaluations)
  /\ UNCHANGED <<clock, market, evaluations, signal, lost, disturbances>>

First(S) == CHOOSE b \in S : \A c \in S : b <= c
Boundary(w) == First(monitor[w].todo)
Skip(w) == Sources(w, monitor[w].todo \ {Boundary(w)})

\* _record_source: the other monitor was here first ...
AlreadyRecorded(w) ==
  /\ At(w, "source") /\ Boundary(w) \in DOMAIN evaluations
  /\ Skip(w)
  /\ UNCHANGED <<clock, market, evaluations, signal, lost, disturbances>>

Unknown(w) == Boundary(w) \notin DOMAIN evaluations /\ bars[Boundary(w)] = "none"

\* ... the minutes are not there: the tick is over ...
MinutesMissing(w) ==
  /\ At(w, "source") /\ Unknown(w)
  /\ Set(w, Idle)
  /\ UNCHANGED <<clock, market, evaluations, signal, lost, disturbances>>

\* ... or they say whether this is a tail entry.
FetchReturns(w) ==
  /\ At(w, "source") /\ Boundary(w) \notin DOMAIN evaluations /\ ~Unknown(w)
  /\ Goes(w, "prior")
  /\ UNCHANGED <<clock, market, evaluations, signal, lost, disturbances>>

\* Variant: every tail entry of the day is an event.
EveryTail(w) ==
  /\ At(w, "prior")
  /\ Set(w, [monitor[w] EXCEPT !.pc = "evaluated", !.tail = bars[Boundary(w)] = "tail"])
  /\ UNCHANGED <<clock, market, evaluations, signal, lost, disturbances>>

\* Only the first tail entry of the day is an event.
LookForPrior(w) ==
  /\ At(w, "prior")
  /\ Set(w, [monitor[w] EXCEPT !.pc = "evaluated",
        !.tail = bars[Boundary(w)] = "tail" /\ \A b \in DOMAIN evaluations : ~evaluations[b]])
  /\ UNCHANGED <<clock, market, evaluations, signal, lost, disturbances>>

Store(w) == [b \in (DOMAIN evaluations) \cup {Boundary(w)} |->
  IF b \in DOMAIN evaluations THEN evaluations[b] ELSE monitor[w].tail]

\* The evaluation is stored first, for good ...
StoreEvaluation(w) ==
  /\ At(w, "evaluated")
  /\ evaluations' = Store(w)
  /\ IF monitor[w].tail THEN Goes(w, "signal") ELSE Skip(w)
  /\ UNCHANGED <<clock, market, signal, lost, disturbances>>

\* ... then the signal, if the day has none.
StoreSignal(w) ==
  /\ At(w, "signal")
  /\ signal' = IF signal # NoSignal THEN signal ELSE
       [status |-> IF Now(w) <= Boundary(w) * Spacing + 1 THEN "TRIGGERED"
                   ELSE "MISSED_SOURCE_CAPTURE",
        boundary |-> Boundary(w), entry |-> 0, passive |-> "open", exit |-> 0, basis |-> 0,
        cross |-> FALSE]
  /\ Skip(w)
  /\ UNCHANGED <<clock, market, evaluations, lost, disturbances>>
-----------------------------------------------------------------------------
\* A request or a statement fails, or the process goes: the tick ends where it is.
TickEnds(w) ==
  /\ Disturb /\ ~At(w, "idle") /\ Set(w, Idle)
  /\ lost' = (lost \/ (At(w, "signal") /\ signal = NoSignal))
  /\ UNCHANGED <<clock, market, evaluations, signal>>

Work(w) ==
  \/ Tick(w) \/ EntryMissed(w) \/ EntryBook(w) \/ EntryCaptured(w) \/ Reread(w)
  \/ EvaluatePassive(w) \/ RereadAfterPassive(w) \/ ExitMissed(w) \/ ExitBook(w) \/ ExitCaptured(w)
  \/ ListSources(w) \/ AlreadyRecorded(w) \/ MinutesMissing(w) \/ FetchReturns(w)
  \/ LookForPrior(w) \/ StoreEvaluation(w) \/ StoreSignal(w)

Next ==
  \/ \E w \in Monitors : Work(w) \/ TickEnds(w)
  \/ TimePasses
  \/ \E b \in Boundaries : BarsArrive(b)

\* Every monitor ticks, and time goes on.  The provider need not have every minute.
Fairness == WF_vars(TimePasses) /\ \A w \in Monitors : WF_vars(Work(w))

Spec == Init /\ [][Next]_vars /\ Fairness
-----------------------------------------------------------------------------
TypeOK ==
  /\ clock \in 0..DayOver
  /\ bars \in [Boundaries -> {"none", "plain", "tail"}] /\ fills \in {"open", "filled", "unfilled"}
  /\ DOMAIN evaluations \subseteq Boundaries
  /\ signal # NoSignal =>
       /\ signal.status \in Pending \cup {"COMPLETE", "MISSED_SOURCE_CAPTURE",
                                          "MISSED_ENTRY_CAPTURE", "MISSED_EXIT_CAPTURE"}
       /\ signal.boundary \in Boundaries /\ signal.passive \in {"open", "filled", "unfilled"}
  /\ \A w \in Monitors : At(w, "idle") \/ clock \in Now(w)..(Now(w) + LongestTick)

\* The event of the day is its first tail entry, though its minutes came late and two
\* monitors evaluated it; it alone has the signal, unless its own was lost.
FirstTailOnly ==
  /\ \A b \in DOMAIN evaluations : evaluations[b] =>
       bars[b] = "tail" /\ \A c \in 1..(b - 1) : bars[c] = "plain"
  /\ signal # NoSignal => signal.boundary \in DOMAIN evaluations /\ evaluations[signal.boundary]
  /\ (\A w \in Monitors : At(w, "idle")) /\ signal = NoSignal =>
       lost \/ \A b \in DOMAIN evaluations : ~evaluations[b]

\* A completed signal is of one piece: its exit was computed from the entry and the
\* passive outcome that stand in the row, whichever monitor has written them.
CompleteCoherent ==
  signal.status = "COMPLETE" =>
    /\ signal.basis = signal.entry /\ signal.entry >= EntryAt(signal)
    /\ signal.exit >= ExitAt(signal)
    /\ signal.passive # "open" /\ signal.cross = (signal.passive = "filled")

\* A signal does not stay half captured.
SignalOver == signal.status \notin Pending
SignalEnds == <>[]SignalOver
=============================================================================
