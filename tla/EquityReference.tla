--------------------------- MODULE EquityReference ---------------------------
(***************************************************************************)
(* The equity reference backfill (app/equity_reference_backfill.py, run by *)
(* a daemon lane of app/worker_with_xal.py): the provider's snapshot of    *)
(* each session is compared with the scope row of an instrument, the       *)
(* differences are stored as events, and at the end the events are folded  *)
(* into certified validity intervals.                                      *)
(*                                                                         *)
(* The differences are right only if the sessions are written once and in  *)
(* order.  Days are claimed in date order, but the claim passes over a day *)
(* that is running, and a lost worker's day comes back after the ones      *)
(* behind it.                                                              *)
(*                                                                         *)
(* One run, one instrument; a state stands for the hash of its columns.    *)
(* Corporate actions are loaded and mapped as one step each.               *)
(***************************************************************************)
EXTENDS Naturals, Sequences, FiniteSets

CONSTANTS Sessions,          \* number of sessions of the window
          States, Absent,    \* what a snapshot may say of the instrument
          Lanes,             \* the processes that run the lane
          MaxDisturbances    \* bound on errors, crashes and stalls

VARIABLES provider,     \* the snapshot of each session
          day,          \* the days table
          run,          \* status and phase of the run
          scope,        \* the scope row of the instrument
          events,       \* the events of the instrument, in the order of event_id
          intervals,    \* its security states
          lane,         \* what each process is doing
          written,      \* the sessions that have been written
          disordered,   \* a session was written twice, or without the ones before it
          disturbances

vars == <<provider, day, run, scope, events, intervals, lane, written, disordered, disturbances>>
-----------------------------------------------------------------------------
Days == 1..Sessions
ActiveRun == {"queued", "running", "retry"}
Idle == [at |-> "idle", day |-> 1, delta |-> <<>>, basis |-> {}]

Init ==
  /\ provider \in [Days -> States \cup {Absent}]
  /\ day = [d \in Days |-> [status |-> "queued", fresh |-> FALSE]]
  /\ run = [status |-> "queued", phase |-> "reference_snapshots"]
  /\ scope = [seen |-> FALSE, present |-> FALSE, state |-> Absent]
  /\ events = <<>> /\ intervals = {}
  /\ lane = [p \in Lanes |-> Idle]
  /\ written = {} /\ disordered = FALSE /\ disturbances = 0

Disturb == disturbances < MaxDisturbances /\ disturbances' = disturbances + 1
AtPhase(p, phase) == lane[p].at = phase
ToIdle(p) == lane' = [lane EXCEPT ![p] = Idle]

\* _active_run: the lane goes by the phase of the row it has read.
ReadRun(p) ==
  /\ lane[p].at = "idle" /\ run.status \in ActiveRun /\ run.phase # "complete"
  /\ lane' = [lane EXCEPT ![p].at = run.phase]
  /\ UNCHANGED <<provider, day, run, scope, events, intervals, written, disordered, disturbances>>

Claimable(d) ==
  day[d].status \in {"queued", "retry"} \/ (day[d].status = "running" /\ ~day[d].fresh)

\* _claim_day: the first day that waits or is stale; the run is set running, whatever it was.
ClaimDay(p, d) ==
  /\ AtPhase(p, "reference_snapshots")
  /\ Claimable(d) /\ \A before \in 1..(d - 1) : ~Claimable(before)
  /\ day' = [day EXCEPT ![d] = [status |-> "running", fresh |-> TRUE]]
  /\ run' = [run EXCEPT !.status = "running"]
  /\ lane' = [lane EXCEPT ![p] = [Idle EXCEPT !.at = "fetch", !.day = d]]
  /\ UNCHANGED <<provider, scope, events, intervals, written, disordered, disturbances>>

\* No day to claim: if all are completed the phase is over, whatever the phase is by now.
DaysOver(p) ==
  /\ AtPhase(p, "reference_snapshots") /\ \A d \in Days : ~Claimable(d)
  /\ run' = IF \A d \in Days : day[d].status = "completed"
            THEN [run EXCEPT !.phase = "corporate_actions"] ELSE run
  /\ ToIdle(p)
  /\ UNCHANGED <<provider, day, scope, events, intervals, written, disordered, disturbances>>
-----------------------------------------------------------------------------
Kinds == {"STATE_INITIAL", "STATE_CHANGE", "REAPPEAR", "ABSENT_START"}
Event(d, kind, state) == <<[day |-> d, kind |-> kind, state |-> state]>>

\* The event by which session d differs from the scope row.
Delta(d) ==
  LET state == provider[d] IN
  IF state = Absent THEN IF scope.present THEN Event(d, "ABSENT_START", Absent) ELSE <<>>
  ELSE IF ~scope.seen THEN Event(d, "STATE_INITIAL", state)
  ELSE IF ~scope.present THEN Event(d, "REAPPEAR", state)
  ELSE IF scope.state # state THEN Event(d, "STATE_CHANGE", state)
  ELSE <<>>

\* Variant: an instrument that is not in a snapshot stays present.
ScopeKeepingAbsent(d) ==
  IF provider[d] = Absent THEN scope
  ELSE [seen |-> TRUE, present |-> TRUE, state |-> provider[d]]

\* The scope row after session d.
ScopeAfter(d) ==
  IF provider[d] = Absent THEN [scope EXCEPT !.present = FALSE]
  ELSE [seen |-> TRUE, present |-> TRUE, state |-> provider[d]]

\* _write_reference_day computes the events from the scope row it can see ...
Compare(p) ==
  /\ lane[p].at = "fetch"
  /\ lane' = [lane EXCEPT ![p] = [@ EXCEPT !.at = "commit", !.delta = Delta(lane[p].day),
                                           !.basis = written]]
  /\ UNCHANGED <<provider, day, run, scope, events, intervals, written, disordered, disturbances>>

\* ... of which there may be one per day and kind ...
New(delta) ==
  IF delta # <<>> /\ \E k \in DOMAIN events :
                       events[k].day = delta[1].day /\ events[k].kind = delta[1].kind
  THEN <<>> ELSE delta

\* ... and updates the scope row, the day and the run with them, by id, in one transaction.
CommitDay(p) ==
  LET d == lane[p].day IN
  /\ lane[p].at = "commit"
  /\ events' = events \o New(lane[p].delta)
  /\ scope' = ScopeAfter(d)
  /\ day' = [day EXCEPT ![d] = [status |-> "completed", fresh |-> FALSE]]
  /\ written' = written \cup {d}
  /\ disordered' = (disordered \/ written # 1..(d - 1) \/ lane[p].basis # written)
  /\ ToIdle(p)
  /\ UNCHANGED <<provider, run, intervals, disturbances>>

\* _process_actions: everything is upserted, and the phase moves on.
LoadActions(p) ==
  /\ AtPhase(p, "corporate_actions")
  /\ run' = [run EXCEPT !.phase = "finalize"]
  /\ ToIdle(p)
  /\ UNCHANGED <<provider, day, scope, events, intervals, written, disordered, disturbances>>

\* The events behind event k, by date and event_id, and the date of the first of them.
Behind(k) ==
  {j \in DOMAIN events : events[j].day > events[k].day \/ (events[j].day = events[k].day /\ j > k)}
NextDay(k) ==
  IF Behind(k) = {} THEN Sessions + 1
  ELSE CHOOSE d \in {events[j].day : j \in Behind(k)} : \A j \in Behind(k) : d <= events[j].day

\* The states that the positive events open, each until the next event.
Folded ==
  {[from |-> events[k].day, to |-> NextDay(k), state |-> events[k].state] :
     k \in {j \in DOMAIN events : events[j].kind # "ABSENT_START"}}

\* _finalize rebuilds the intervals and completes the run, in one transaction.
Finalize(p) ==
  /\ AtPhase(p, "finalize")
  /\ intervals' = Folded
  /\ run' = [status |-> "completed", phase |-> "complete"]
  /\ ToIdle(p)
  /\ UNCHANGED <<provider, day, scope, events, written, disordered, disturbances>>
-----------------------------------------------------------------------------
\* The provider refuses: the day and the run wait for another try, or are blocked.
\* Neither is asked whether it has been completed by someone else.
ProviderFails(p) ==
  /\ Disturb /\ lane[p].at \in {"fetch", "corporate_actions"}
  /\ \E status \in {"retry", "blocked"} :
       /\ run' = [run EXCEPT !.status = status]
       /\ day' = IF lane[p].at = "fetch"
                 THEN [day EXCEPT ![lane[p].day] = [status |-> status, fresh |-> FALSE]] ELSE day
  /\ ToIdle(p)
  /\ UNCHANGED <<provider, scope, events, intervals, written, disordered>>

\* The process restarts, or another error escapes the iteration.
Escape(p) ==
  /\ Disturb /\ lane[p].at # "idle"
  /\ ToIdle(p)
  /\ UNCHANGED <<provider, day, run, scope, events, intervals, written, disordered>>

Held(d) == \E p \in Lanes : lane[p].at \in {"fetch", "commit"} /\ lane[p].day = d

\* Twenty minutes pass since the claim: over a lost lane, or a slow one.
GoStale(d) ==
  /\ day[d].status = "running" /\ day[d].fresh
  /\ IF Held(d) THEN Disturb ELSE UNCHANGED disturbances
  /\ day' = [day EXCEPT ![d].fresh = FALSE]
  /\ UNCHANGED <<provider, run, scope, events, intervals, lane, written, disordered>>
-----------------------------------------------------------------------------
Step(p) ==
  \/ ReadRun(p) \/ DaysOver(p) \/ Compare(p) \/ CommitDay(p) \/ LoadActions(p) \/ Finalize(p)
  \/ \E d \in Days : ClaimDay(p, d)

Next ==
  \/ \E p \in Lanes : Step(p) \/ ProviderFails(p) \/ Escape(p)
  \/ \E d \in Days : GoStale(d)

\* The lanes loop for ever, and time passes over days that nobody works on.
Fairness ==
  /\ \A p \in Lanes : WF_vars(Step(p))
  /\ \A d \in Days : WF_vars(~Held(d) /\ GoStale(d))

Spec == Init /\ [][Next]_vars /\ Fairness
-----------------------------------------------------------------------------
TypeOK ==
  /\ day \in [Days -> [status : {"queued", "running", "retry", "completed", "blocked"},
                       fresh : BOOLEAN]]
  /\ run.status \in ActiveRun \cup {"completed", "blocked"}
  /\ run.phase \in {"reference_snapshots", "corporate_actions", "finalize", "complete"}
  /\ events \in Seq([day : Days, kind : Kinds, state : States \cup {Absent}])
  /\ \A j, k \in DOMAIN events :
       events[j].day = events[k].day /\ events[j].kind = events[k].kind => j = k
  /\ \A i \in intervals : i.from \in Days /\ i.to \in Days \cup {Sessions + 1} /\ i.state \in States
  /\ written \subseteq Days

\* The certified intervals of a completed run say of every session what the provider's
\* snapshot said, unless a session was written twice or without the ones before it.
IntervalsFaithful ==
  run.status = "completed" /\ ~disordered =>
    \A d \in Days : {i.state : i \in {j \in intervals : j.from <= d /\ d < j.to}}
                    = {provider[d]} \ {Absent}

\* A late refusal, or a claim after one, opens a run again that has nothing left to do,
\* or in which a day is blocked.
Reopened == run.phase = "complete" \/ \E d \in Days : day[d].status = "blocked"

\* The run is completed or blocked in the end, or opened again in one of these ways.
RunSettled == run.status \in {"completed", "blocked"} \/ Reopened
RunSettles == <>[]RunSettled
=============================================================================
