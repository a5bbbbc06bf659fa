----------------------------- MODULE BroadStore -----------------------------
(***************************************************************************)
(* The broad observations of the crypto stream (BroadObservationStore with *)
(* the serialised flush of crypto_stream_deadlock_fixes) and the path of   *)
(* one detection from MultiVenueDetector to the capture targets: one       *)
(* symbol over one minute and the look-back before it.                     *)
(*                                                                         *)
(* Observations are numbered as they are recorded.  All of them belong to  *)
(* one row of crypto_market_observations_1m, which holds the newest, and   *)
(* each to a row of its own in the local ring.  The flush loop and the     *)
(* scanner that has a detection flush the same maps; the process that      *)
(* holds them is told to end, or is killed, at any moment.                 *)
(***************************************************************************)
EXTENDS Naturals, FiniteSets

CONSTANTS MaxObservations,  \* bound on the observations
          MaxAttempts,      \* attempts of one flush at a conflict
          MaxDisturbances,  \* bound on failed writes and uploads
          None

VARIABLES observed,     \* observations recorded
          minute,       \* pending_permanent of the minute: an observation, 0 if absent
          buffer,       \* pending_buffer
          flight,       \* for each flusher, what its flush has taken, and its phase
          stored,       \* the row of the minute: an observation, 0 if absent
          ring,         \* rows of the ring
          detected,     \* the observation that the detector acted on, or 0
          scanner,      \* where the scanner is with the detection
          snapshot,     \* the pre-trigger file: its rows, or None
          queued,       \* the file is in pending_preservations
          uploaded,     \* object and row of the snapshot exist
          active,       \* the symbol is a capture target
          ending,       \* "no", "draining" (in run()'s finally), "over"
          orphan,       \* the thread of a cancelled flush, and the rows it has
          faults,
          overwritten   \* history: a failed flush put an old row over a newer one

vars == <<observed, minute, buffer, flight, stored, ring, detected, scanner,
          snapshot, queued, uploaded, active, ending, orphan, faults, overwritten>>
memory == <<observed, minute, buffer, stored, ring, overwritten>>
detection == <<detected, scanner, snapshot, queued, uploaded, active>>
process == <<ending, orphan>>
-----------------------------------------------------------------------------
Observations == 1..MaxObservations
Flushers == {"loop", "scanner"}
NoFlight == [phase |-> "idle", minute |-> 0, buffer |-> {}, attempt |-> 0]
Fault == faults < MaxDisturbances /\ faults' = faults + 1

Init ==
  /\ observed = 0 /\ minute = 0 /\ buffer = {} /\ stored = 0 /\ ring = {}
  /\ flight = [f \in Flushers |-> NoFlight]
  /\ detected = 0 /\ scanner = "scanning" /\ active = FALSE
  /\ snapshot = None /\ queued = FALSE /\ uploaded = FALSE
  /\ ending = "no" /\ orphan = NoFlight
  /\ faults = 0 /\ overwritten = FALSE

\* record: the newest observation replaces what waits under its keys.  Its
\* scanner then asks the detector, which starts its cooldown with the decision.
Observe ==
  /\ ending = "no" /\ observed < MaxObservations
  /\ observed' = observed + 1
  /\ minute' = observed'
  /\ buffer' = buffer \cup {observed'}
  /\ \/ UNCHANGED <<detected, scanner>>
     \/ scanner = "scanning" /\ detected' = observed' /\ scanner' = "flushing"
  /\ UNCHANGED <<flight, stored, ring, snapshot, queued, uploaded, active, process, faults,
                 overwritten>>

\* The loop flushes all the time, the scanner once, before it saves the buffer; in
\* the loop's place, a process that ends flushes once more.
Wants(f) == IF f = "loop" THEN ending # "over" ELSE scanner = "flushing"
Alone(f) == \A g \in Flushers \ {f} : flight[g].phase = "idle"

\* A forced flush takes everything; the loop what is older than its cutoffs.
Taken(f) == IF f = "scanner" \/ ending = "draining" THEN {[minute |-> minute, buffer |-> buffer]}
            ELSE [minute : {0, minute},
                  buffer : {{o \in buffer : o <= last} : last \in 0..observed}]

\* Rows are taken out of the maps under the lock of the serialised flush.
Take(f) ==
  /\ \/ flight[f].phase = "idle" /\ Wants(f) /\ Alone(f)
     \/ flight[f].phase = "retry"
  /\ \E taken \in Taken(f) :
       /\ flight' = [flight EXCEPT ![f] = [phase |-> "minute", minute |-> taken.minute,
            buffer |-> taken.buffer, attempt |-> @.attempt + 1]]
       /\ minute' = IF taken.minute = 0 THEN minute ELSE 0
       /\ buffer' = buffer \ taken.buffer
  /\ UNCHANGED <<observed, stored, ring, detection, process, faults, overwritten>>

\* insert ... on conflict do update, in the database.
WriteMinute(f) ==
  /\ flight[f].phase = "minute"
  /\ stored' = IF flight[f].minute = 0 THEN stored ELSE flight[f].minute
  /\ flight' = [flight EXCEPT ![f].phase = "ring", ![f].minute = 0]
  /\ UNCHANGED <<observed, minute, buffer, ring, detection, process, faults, overwritten>>

\* The scanner goes on to save the buffer when its flush returns.
Returned(f) == IF f = "scanner" THEN "saving" ELSE scanner
Raised(f) == IF f = "scanner" THEN "dropped" ELSE scanner

\* The last flush of the process ends it, also with an error.
AfterFlush == IF ending = "draining" THEN "over" ELSE ending

WriteRing(f) ==
  /\ flight[f].phase = "ring"
  /\ ring' = ring \cup flight[f].buffer
  /\ flight' = [flight EXCEPT ![f].phase = "files", ![f].buffer = {}]
  /\ UNCHANGED <<observed, minute, buffer, stored, detection, process, faults, overwritten>>

\* The rows of the ring that were taken go back together with those of the minute.
KeptRows(f) == flight[f].buffer

\* A failed flush, of other markets' rows it may be, puts back what it has not
\* written, over what came meanwhile.
\* A conflict is tried again under the lock; otherwise the caller gets the error,
\* and a scanner drops its detection with it.
FlushFails(f) ==
  /\ flight[f].phase \in {"minute", "ring"} /\ Fault
  /\ minute' = IF flight[f].minute = 0 THEN minute ELSE flight[f].minute
  /\ overwritten' = (overwritten \/ (flight[f].minute # 0 /\ minute # 0))
  /\ buffer' = buffer \cup KeptRows(f)
  /\ \/ /\ flight[f].phase = "minute" /\ flight[f].attempt < MaxAttempts
        /\ flight' = [flight EXCEPT ![f] = [NoFlight EXCEPT !.phase = "retry",
                                                            !.attempt = flight[f].attempt]]
        /\ UNCHANGED <<scanner, ending>>
     \/ /\ flight' = [flight EXCEPT ![f] = NoFlight]
        /\ scanner' = Raised(f) /\ ending' = AfterFlush
  /\ UNCHANGED <<observed, stored, ring, detected, snapshot, queued, uploaded, active, orphan>>
-----------------------------------------------------------------------------
\* Every flush ends with the upload of the files that wait for one.
Upload(f) ==
  /\ flight[f].phase = "files"
  /\ flight' = [flight EXCEPT ![f] = NoFlight]
  /\ uploaded' = (uploaded \/ queued) /\ queued' = FALSE
  /\ scanner' = Returned(f) /\ ending' = AfterFlush
  /\ UNCHANGED <<memory, detected, snapshot, active, orphan, faults>>

\* The file that failed stays queued, and the flush succeeds all the same.
UploadFails(f) ==
  /\ flight[f].phase = "files" /\ queued /\ Fault
  /\ flight' = [flight EXCEPT ![f] = NoFlight]
  /\ scanner' = Returned(f) /\ ending' = AfterFlush
  /\ UNCHANGED <<memory, detected, snapshot, queued, uploaded, active, orphan>>

\* _preserve_sync writes the rows up to the detection to a file and queues it.
Save ==
  /\ scanner = "saving"
  /\ snapshot' = {o \in ring : o <= detected}
  /\ queued' = (snapshot' # {})
  /\ scanner' = "uploading"
  /\ UNCHANGED <<memory, flight, detected, uploaded, active, process, faults>>

\* A cancelled detection ends with the thread that it was in.
AfterSave == IF ending = "no" THEN "activating" ELSE "cancelled"

\* The local file cannot be written: the target is activated without it.
SaveFails ==
  /\ scanner = "saving" /\ Fault
  /\ scanner' = AfterSave
  /\ UNCHANGED <<memory, flight, detected, snapshot, queued, uploaded, active, process>>

\* The scanner tries every queued file itself; failing, it leaves it to the loop.
UploadSaved ==
  /\ scanner = "uploading"
  /\ scanner' = AfterSave
  /\ \/ uploaded' = (uploaded \/ queued) /\ queued' = FALSE /\ UNCHANGED faults
     \/ Fault /\ UNCHANGED <<queued, uploaded>>
  /\ UNCHANGED <<memory, flight, detected, snapshot, active, process>>

\* _activate_target: one transaction, or the detection is dropped.
Activate ==
  /\ scanner = "activating"
  /\ \/ scanner' = "done" /\ active' = TRUE /\ UNCHANGED faults
     \/ scanner' = "dropped" /\ Fault /\ UNCHANGED active
  /\ UNCHANGED <<memory, flight, detected, snapshot, queued, uploaded, process>>
-----------------------------------------------------------------------------
\* What the thread of a flush has in its hands.
InHands(f) ==
  CASE flight[f].phase = "minute" /\ flight[f].minute # 0 ->
         [NoFlight EXCEPT !.phase = "minute", !.minute = flight[f].minute]
    [] flight[f].phase = "ring" /\ flight[f].buffer # {} ->
         [NoFlight EXCEPT !.phase = "ring", !.buffer = flight[f].buffer]
    [] flight[f].phase = "files" /\ queued -> [NoFlight EXCEPT !.phase = "files"]
    [] OTHER -> NoFlight
InThread == {"saving", "uploading", "activating"}

\* SIGTERM: run() cancels its tasks.  A flush loses what it had taken, but for the rows
\* in its thread, which runs on; so does the thread of a detection, if it has begun.
Shutdown ==
  /\ ending = "no" /\ ending' = "draining"
  /\ orphan' = InHands(IF flight["loop"].phase = "idle" THEN "scanner" ELSE "loop")
  /\ flight' = [f \in Flushers |-> NoFlight]
  /\ \/ scanner \in InThread \cup {"flushing"} /\ scanner' = "cancelled"
     \/ scanner # "flushing" /\ UNCHANGED scanner
  /\ UNCHANGED <<memory, detected, snapshot, queued, uploaded, active, faults>>

\* Nobody hears how that thread ends, and the lock of the flush is free meanwhile.
OrphanEnds ==
  /\ orphan # NoFlight /\ orphan' = NoFlight
  /\ \/ /\ orphan.phase = "minute"
        /\ stored' = orphan.minute
        /\ UNCHANGED <<ring, uploaded, queued, faults>>
     \/ /\ orphan.phase = "ring"
        /\ ring' = ring \cup orphan.buffer
        /\ UNCHANGED <<stored, uploaded, queued, faults>>
     \/ /\ orphan.phase = "files"
        /\ uploaded' = TRUE /\ queued' = FALSE
        /\ UNCHANGED <<stored, ring, faults>>
     \/ Fault /\ UNCHANGED <<stored, ring, uploaded, queued>>
  /\ UNCHANGED <<observed, minute, buffer, overwritten, flight, detected, scanner, snapshot,
                 active, ending>>

\* The flush of the aggregates comes first, and its error ends the process.
EndUnflushed ==
  /\ ending = "draining" /\ flight["loop"].phase = "idle" /\ Fault
  /\ ending' = "over"
  /\ UNCHANGED <<memory, flight, detection, orphan>>

\* The process is killed: only the tables, the ring and the files remain.
Crash ==
  /\ ending # "over" /\ Fault
  /\ ending' = "over" /\ orphan' = NoFlight
  /\ flight' = [f \in Flushers |-> NoFlight]
  /\ minute' = 0 /\ buffer' = {} /\ queued' = FALSE
  /\ scanner' = IF scanner \in InThread \cup {"flushing"} THEN "cancelled" ELSE scanner
  /\ UNCHANGED <<observed, stored, ring, overwritten, detected, snapshot, uploaded, active>>

Work(f) == Take(f) \/ WriteMinute(f) \/ WriteRing(f) \/ Upload(f)
Preserve == Save \/ UploadSaved \/ Activate

Next ==
  \/ Observe
  \/ \E f \in Flushers : Work(f) \/ FlushFails(f) \/ UploadFails(f)
  \/ Preserve
  \/ SaveFails
  \/ Shutdown \/ OrphanEnds \/ EndUnflushed \/ Crash

\* The loop and the scanner go on; the lock of the serialised flush is handed
\* over in the order of the requests.
Fairness == WF_vars(Work("loop")) /\ SF_vars(Work("scanner")) /\ WF_vars(Preserve)
Spec == Init /\ [][Next]_vars /\ Fairness
-----------------------------------------------------------------------------
Flights == [phase : {"idle", "retry", "minute", "ring", "files"}, minute : 0..MaxObservations,
            buffer : SUBSET Observations, attempt : 0..MaxAttempts]

\* Every variable has its type; rows are in flight only in their phase.
TypeOK ==
  /\ {observed, minute, stored, detected} \subseteq 0..MaxObservations
  /\ buffer \subseteq Observations /\ ring \subseteq Observations
  /\ flight \in [Flushers -> Flights]
  /\ scanner \in InThread \cup {"scanning", "flushing", "done", "dropped", "cancelled"}
  /\ ending \in {"no", "draining", "over"} /\ orphan \in Flights
  /\ snapshot \in (SUBSET Observations) \cup {None}
  /\ {queued, uploaded, active, overwritten} \subseteq BOOLEAN
  /\ faults \in 0..MaxDisturbances
  /\ \A f \in Flushers : flight[f].phase \in {"idle", "retry"} =>
                           flight[f].minute = 0 /\ flight[f].buffer = {}

\* The evidence saved for a detection has every observation up to it, those in
\* the flush loop's hands at that moment and those of failed flushes included.
SnapshotWhole == snapshot # None => 1..detected \subseteq snapshot

\* Once nothing waits, the minute shows its newest observation: flushes do not
\* overtake one another.  Only a failed one may put an older row back, and the end of
\* a process a flush that was cancelled, or none.
NewestObservationStored ==
  (minute = 0 /\ \A f \in Flushers : flight[f].minute = 0) =>
    stored = observed \/ overwritten \/ ending # "no"

\* A detection comes to a capture target with its evidence stored, unless an error on
\* the way or the end of the process dropped it, or its file could not be written, or
\* not be uploaded before the process ended.
DetectionActs == detected > 0 ~>
  \/ scanner \in {"dropped", "cancelled"}
  \/ active /\ (uploaded \/ snapshot = None \/ ending = "over")
=============================================================================
