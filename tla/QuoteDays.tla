----------------------------- MODULE QuoteDays -----------------------------
(***************************************************************************)
(* The quote backfills of C-INT-001: daemon threads that drain days of     *)
(* archives and then return.  The lanes of app/cint001_bookticker.py and   *)
(* app/cint001_tardis_quotes.py work on the same table of days, from two   *)
(* providers, and write the same snapshots; only the first of them ever    *)
(* takes a day back from a lost worker.  app/cint001_tardis_depth.py is a  *)
(* third lane of the tardis kind over days of its own.                     *)
(*                                                                         *)
(* A thread catches the errors of an item but not those of its queue: one  *)
(* of those ends it, and nothing starts it again but a restart.            *)
(***************************************************************************)
EXTENDS Naturals, FiniteSets

CONSTANTS Days, BookDays, TardisDays, DepthDays,        \* the days that each lane may take
          BookThreads, TardisThreads, DepthThreads,
          SlotZero,                                     \* the bookticker thread that reclaims
          Bare,                                         \* the days without target timestamps
          MaxAttempts, MaxDisturbances

VARIABLES day,        \* cint001_bookticker_days and cint001_depth_days
          snapshot,   \* the lane whose prices the snapshots of a day hold, and their source label
          thread,     \* what each thread is doing
          lapsed,     \* a day was reclaimed under a live thread
          disturbances

vars == <<day, snapshot, thread, lapsed, disturbances>>
-----------------------------------------------------------------------------
Threads == BookThreads \cup TardisThreads \cup DepthThreads
Lanes == {"book", "tardis", "depth"}
LaneOf(t) == CASE t \in BookThreads -> "book" [] t \in TardisThreads -> "tardis" [] OTHER -> "depth"
DaysOf(lane) == CASE lane = "book" -> BookDays [] lane = "tardis" -> TardisDays [] OTHER -> DepthDays
Waiting == {"queued", "retry_wait"}
Ended == {"completed", "missing", "failed"}
NoDay == CHOOSE d \in Days : TRUE
AtLoop == [at |-> "loop", day |-> NoDay, attempts |-> 0]

\* "by" is the lane whose archive the day's row count and checksum describe.
Init ==
  /\ day = [d \in Days |-> [status |-> "queued", attempts |-> 0, fresh |-> FALSE, by |-> "none"]]
  /\ snapshot = [d \in Days |-> [price |-> "none", label |-> "none"]]
  /\ thread = [t \in Threads |-> AtLoop]
  /\ lapsed = FALSE /\ disturbances = 0

Disturb == disturbances < MaxDisturbances /\ disturbances' = disturbances + 1
Busy(t) == thread[t].at \in {"fetch", "finish"}
Held(d) == \E t \in Threads : Busy(t) /\ thread[t].day = d
Pending(t) == {d \in DaysOf(LaneOf(t)) : day[d].status \in Waiting \cup {"running"}}
-----------------------------------------------------------------------------
\* _claim: a day of the lane that waits, whatever its attempts.
Claim(t, d) ==
  /\ thread[t].at = "loop" /\ d \in DaysOf(LaneOf(t)) /\ day[d].status \in Waiting
  /\ day' = [day EXCEPT ![d] = [@ EXCEPT !.status = "running", !.fresh = TRUE,
                                      !.attempts = day[d].attempts + 1]]
  /\ thread' = [thread EXCEPT ![t] = [at |-> "fetch", day |-> d, attempts |-> day[d].attempts + 1]]
  /\ UNCHANGED <<snapshot, lapsed, disturbances>>

\* Variant: a day in another thread's hands does not keep the thread.
DrainedEarly(t) ==
  /\ thread[t].at = "loop" /\ \A d \in Pending(t) : day[d].status \notin Waiting
  /\ thread' = [thread EXCEPT ![t].at = "returned"]
  /\ UNCHANGED <<day, snapshot, lapsed, disturbances>>

\* Nothing of the lane is pending: the thread returns, for good.
Drained(t) ==
  /\ thread[t].at = "loop" /\ Pending(t) = {}
  /\ thread' = [thread EXCEPT ![t].at = "returned"]
  /\ UNCHANGED <<day, snapshot, lapsed, disturbances>>

\* _finish and _fail: the row is written by id.
Write(t, status, by) ==
  /\ day' = [day EXCEPT ![thread[t].day] = [@ EXCEPT !.status = status, !.fresh = FALSE, !.by = by]]
  /\ thread' = [thread EXCEPT ![t] = AtLoop]

\* No timestamp to quote: the day is complete without a download.
FinishBare(t) ==
  /\ thread[t].at = "fetch" /\ thread[t].day \in Bare
  /\ Write(t, "completed", "none")
  /\ UNCHANGED <<snapshot, lapsed, disturbances>>

\* The provider has no archive of the day.
FinishMissing(t) ==
  /\ thread[t].at = "fetch" /\ thread[t].day \notin Bare
  /\ Write(t, "missing", "none")
  /\ UNCHANGED <<snapshot, lapsed, disturbances>>

\* All targets matched: the snapshots are upserted.  The bookticker lane inserts its
\* label by default and leaves that of a row it overwrites.
Snapshot(t, d) ==
  [price |-> LaneOf(t),
   label |-> IF LaneOf(t) = "book" /\ snapshot[d].label # "none" THEN snapshot[d].label
             ELSE LaneOf(t)]

Store(t) ==
  /\ thread[t].at = "fetch" /\ thread[t].day \notin Bare
  /\ snapshot' = [snapshot EXCEPT ![thread[t].day] = Snapshot(t, thread[t].day)]
  /\ thread' = [thread EXCEPT ![t].at = "finish"]
  /\ UNCHANGED <<day, lapsed, disturbances>>

Finish(t) ==
  /\ thread[t].at = "finish"
  /\ Write(t, "completed", LaneOf(t))
  /\ UNCHANGED <<snapshot, lapsed, disturbances>>

\* A download, a partial match or a write fails, or the completion commits unheard.
Fail(t) ==
  /\ Disturb /\ Busy(t) /\ thread[t].day \notin Bare
  /\ \/ Write(t, IF thread[t].attempts >= MaxAttempts THEN "failed" ELSE "retry_wait",
              day[thread[t].day].by)
     \/ /\ thread[t].at = "finish"
        /\ Write(t, IF thread[t].attempts >= MaxAttempts THEN "failed" ELSE "retry_wait", LaneOf(t))
  /\ UNCHANGED <<snapshot, lapsed>>

\* An error of _claim, _pending, _targets or _fail is caught by nobody.
Die(t) ==
  /\ Disturb /\ thread[t].at \notin {"returned", "dead"}
  /\ thread' = [thread EXCEPT ![t].at = "dead"]
  /\ UNCHANGED <<day, snapshot, lapsed>>

\* The process restarts, and with it every lane.
Restart ==
  /\ Disturb
  /\ thread' = [t \in Threads |-> AtLoop]
  /\ UNCHANGED <<day, snapshot, lapsed>>
-----------------------------------------------------------------------------
\* Half an hour passes since a claim: over a lost thread, or a slow one.
GoStale(d) ==
  /\ day[d].status = "running" /\ day[d].fresh
  /\ IF Held(d) THEN Disturb ELSE UNCHANGED disturbances
  /\ day' = [day EXCEPT ![d].fresh = FALSE]
  /\ UNCHANGED <<snapshot, thread, lapsed>>

\* The days that _reclaim takes back.
Stale == {d \in BookDays : day[d].status = "running" /\ ~day[d].fresh}

\* _reclaim, between two items of slot zero.
Reclaim ==
  /\ thread[SlotZero].at = "loop" /\ Stale # {}
  /\ day' = [d \in Days |-> IF d \in Stale THEN [day[d] EXCEPT !.status = "retry_wait"] ELSE day[d]]
  /\ lapsed' = (lapsed \/ \E d \in Stale : Held(d) /\ ~day[d].fresh)
  /\ UNCHANGED <<snapshot, thread, disturbances>>
-----------------------------------------------------------------------------
Work(t) ==
  \/ \E d \in Days : Claim(t, d)
  \/ Drained(t) \/ FinishBare(t) \/ FinishMissing(t) \/ Store(t) \/ Finish(t)

Next ==
  \/ \E t \in Threads : Work(t) \/ Fail(t) \/ Die(t)
  \/ Restart \/ Reclaim
  \/ \E d \in Days : GoStale(d)

\* Live threads work, slot zero looks for stale days once a minute, time passes.
Fairness ==
  /\ \A t \in Threads : WF_vars(Work(t))
  /\ SF_vars(Reclaim)
  /\ \A d \in Days : WF_vars(~Held(d) /\ GoStale(d))

Spec == Init /\ [][Next]_vars /\ Fairness
-----------------------------------------------------------------------------
TypeOK ==
  /\ day \in [Days -> [status : Waiting \cup Ended \cup {"running"}, attempts : Nat,
                       fresh : BOOLEAN, by : Lanes \cup {"none"}]]
  /\ snapshot \in [Days -> [price : Lanes \cup {"none"}, label : Lanes \cup {"none"}]]
  /\ thread \in [Threads -> [at : {"loop", "fetch", "finish", "returned", "dead"},
                             day : Days \cup {NoDay}, attempts : Nat]]
  /\ \A t \in Threads : Busy(t) => thread[t].day \in DaysOf(LaneOf(t))

\* The checksum of a completed day describes the archive that its snapshots came from,
\* although two providers fill it in turns: unless a thread that had lost it came back.
Provenance ==
  \A d \in Days : day[d].status = "completed" /\ ~lapsed => day[d].by = snapshot[d].price

Gone(t) == thread[t].at \in {"returned", "dead"}
Eligible(d) == {t \in Threads : d \in DaysOf(LaneOf(t))}

\* A waiting day is left when every thread that may take it is gone and one of them
\* died or a late failure brought it back; a running one when its thread was lost
\* and slot zero is dead, or does not look at days of that kind.
Stranded(d) ==
  \/ /\ day[d].status \in Waiting /\ \A t \in Eligible(d) : Gone(t)
     /\ lapsed \/ \E t \in Eligible(d) : thread[t].at = "dead"
  \/ /\ day[d].status = "running" /\ ~Held(d)
     /\ d \notin BookDays \/ thread[SlotZero].at = "dead" \/ (lapsed /\ Gone(SlotZero))

\* Every day ends, or is left behind in one of these ways.
DaysOver == \A d \in Days : day[d].status \in Ended \/ Stranded(d)
DaysEnd == <>[]DaysOver
=============================================================================
