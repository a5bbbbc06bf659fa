---------------------------- MODULE OptionEvents ----------------------------
(***************************************************************************)
(* The option research queue and its two lanes: the main loop of a worker  *)
(* (app/option_vol.py), which claims and concludes in transactions, and    *)
(* the HTTP lane (option_convexity_http_worker.py), which does the same    *)
(* with one Data API request after another.  Both take any event that      *)
(* waits, both write by id, and both recompute the run after each event:   *)
(* in the transaction that concludes it, or in two requests after it.      *)
(*                                                                         *)
(* One run.  A transaction reads committed rows and its own writes         *)
(* (READ COMMITTED), and locks the rows it has written until it ends.      *)
(* Prices and contracts are left out: a bucket has a result or has none.   *)
(* not_before is left out: a waiting event may be taken at any time.       *)
(***************************************************************************)
EXTENDS Naturals, FiniteSets

CONSTANTS Events, Buckets, DbWorkers, HttpWorkers, Nobody,
          MaxAttempts,      \* option_vol_research_events.max_attempts
          MaxDisturbances   \* bound on faults and stalls

VARIABLES event,        \* option_vol_research_events
          run,          \* status and counters of the row of option_vol_research_runs
          result,       \* the buckets of an event that have a result row
          job,          \* what each worker is doing
          misreported,  \* the run was last written from counts that were out of date,
                        \* or an event has changed and its report was lost
          disturbances

vars == <<event, run, result, job, misreported, disturbances>>
-----------------------------------------------------------------------------
Workers == DbWorkers \cup HttpWorkers
Waiting == {"queued", "retry_wait"}
Ended == {"completed", "failed"}
NoChange == [e \in {} |-> "queued"]
Idle == [at |-> "idle", event |-> Nobody, attempts |-> 0, todo |-> {}, change |-> NoChange,
         seen |-> [done |-> 0, bad |-> 0, pending |-> 0], retrying |-> FALSE]

Init ==
  /\ event = [e \in Events |-> [status |-> "queued", attempts |-> 0, owner |-> Nobody,
                                fresh |-> FALSE]]
  /\ run = [status |-> "queued", done |-> 0, bad |-> 0]
  /\ result = [e \in Events |-> {}]
  /\ job = [w \in Workers |-> Idle]
  /\ misreported = FALSE
  /\ disturbances = 0

Disturb == disturbances < MaxDisturbances /\ disturbances' = disturbances + 1

\* The rows that an open transaction has written.
Locked(e) == \E w \in DbWorkers : job[w].at = "counted" /\ e \in DOMAIN job[w].change

Number(statuses, S) == Cardinality({e \in Events : statuses[e] \in S})
Counts(statuses) == [done |-> Number(statuses, {"completed"}), bad |-> Number(statuses, {"failed"}),
                     pending |-> Number(statuses, Waiting \cup {"running"})]
Statuses == [e \in Events |-> event[e].status]

\* Variant: failed events do not show in the status.
RunOfIgnoringFailures(c) ==
  [status |-> IF c.pending > 0 THEN "running" ELSE "completed", done |-> c.done, bad |-> c.bad]

\* What _refresh_run makes of its counts.
RunOf(c) ==
  [status |-> IF c.pending > 0 THEN "running"
              ELSE IF c.bad > 0 THEN "completed_with_errors" ELSE "completed",
   done |-> c.done, bad |-> c.bad]

\* The rows after a conclusion or a reclaim.
Concluded(change) ==
  [e \in Events |-> IF e \in DOMAIN change
                    THEN [event[e] EXCEPT !.status = change[e], !.owner = Nobody, !.fresh = FALSE]
                    ELSE event[e]]
StatusesWith(change) ==
  [e \in Events |-> IF e \in DOMAIN change THEN change[e] ELSE event[e].status]

Report(c, rows) ==
  /\ run' = RunOf(c)
  /\ misreported' = (c # Counts([e \in Events |-> rows[e].status]))
-----------------------------------------------------------------------------
\* claim_option_event: one transaction over rows that nobody has locked.
Claim(w, e) ==
  /\ w \in DbWorkers /\ job[w].at = "idle"
  /\ run.status \in {"queued", "running"} /\ ~Locked(e)
  /\ event[e].status \in Waiting /\ event[e].attempts < MaxAttempts
  /\ event' = [event EXCEPT ![e] = [status |-> "running", attempts |-> @.attempts + 1,
                                    owner |-> w, fresh |-> TRUE]]
  /\ run' = IF run.status = "queued" THEN [run EXCEPT !.status = "running"] ELSE run
  /\ job' = [job EXCEPT ![w] = [Idle EXCEPT !.at = "fetch", !.event = e, !.todo = Buckets,
                                            !.attempts = event[e].attempts + 1]]
  /\ UNCHANGED <<result, misreported, disturbances>>

\* _next_event of the HTTP lane: a copy of a waiting row, whatever its run says.
Pick(w, e) ==
  /\ w \in HttpWorkers /\ job[w].at = "idle" /\ event[e].status \in Waiting
  /\ job' = [job EXCEPT ![w] = [Idle EXCEPT !.at = "picked", !.event = e,
                                            !.attempts = event[e].attempts]]
  /\ UNCHANGED <<event, run, result, misreported, disturbances>>

\* Its _claim: the row is overwritten by id, from the copy.
ClaimByPatch(w) ==
  LET e == job[w].event n == job[w].attempts + 1 IN
  /\ job[w].at = "picked" /\ ~Locked(e)
  /\ event' = [event EXCEPT ![e] = [status |-> "running", attempts |-> n, owner |-> w,
                                    fresh |-> TRUE]]
  /\ job' = [job EXCEPT ![w] = [@ EXCEPT !.at = "fetch", !.attempts = n, !.todo = Buckets]]
  /\ UNCHANGED <<run, result, misreported, disturbances>>

\* A bucket is priced, or found to have no contract pair: its result row is written.
StoreBucket(w) ==
  /\ job[w].at = "fetch"
  /\ \E b \in job[w].todo :
       /\ result' = [result EXCEPT ![job[w].event] = @ \cup {b}]
       /\ job' = [job EXCEPT ![w].todo = @ \ {b}]
  /\ UNCHANGED <<event, run, misreported, disturbances>>

Retried(w) == IF job[w].attempts >= MaxAttempts THEN "failed" ELSE "retry_wait"
ToClose(w, status, retrying) ==
  job' = [job EXCEPT ![w] = [@ EXCEPT !.at = "close", !.retrying = retrying,
                                      !.change = [e \in {job[w].event} |-> status]]]

\* All buckets are stored.
Done(w) ==
  /\ job[w].at = "fetch" /\ job[w].todo = {}
  /\ ToClose(w, "completed", FALSE)
  /\ UNCHANGED <<event, run, result, misreported, disturbances>>

\* A provider or database error, which may not be retryable; an event without an
\* underlying price, which the HTTP lane fails by _finish.
Fails(w) ==
  /\ job[w].at = "fetch"
  /\ ToClose(w, Retried(w), TRUE) \/ ToClose(w, "failed", w \in DbWorkers)
  /\ UNCHANGED <<event, run, result, misreported, disturbances>>

\* _finish and _retry of the main loop: the row is written and the run counted ...
CloseInTransaction(w) ==
  LET change == job[w].change IN
  /\ w \in DbWorkers /\ job[w].at = "close" /\ ~Locked(job[w].event)
  /\ job' = [job EXCEPT ![w] = [@ EXCEPT !.at = "counted", !.seen = Counts(StatusesWith(change))]]
  /\ UNCHANGED <<event, run, result, misreported, disturbances>>

\* ... and reclaim_stale_option_events, before the loop claims anything ...
Reclaim(w) ==
  LET stale == {e \in Events : event[e].status = "running" /\ ~event[e].fresh /\ ~Locked(e)}
      change == [e \in stale |-> IF event[e].attempts >= MaxAttempts THEN "failed"
                                 ELSE "retry_wait"]
  IN /\ w \in DbWorkers /\ job[w].at = "idle" /\ stale # {}
     /\ job' = [job EXCEPT ![w] = [Idle EXCEPT !.at = "counted", !.change = change,
                                     !.retrying = TRUE, !.seen = Counts(StatusesWith(change))]]
     /\ UNCHANGED <<event, run, result, misreported, disturbances>>

\* ... then the run is written, and both become visible.
Commit(w) ==
  /\ job[w].at = "counted"
  /\ event' = Concluded(job[w].change)
  /\ Report(job[w].seen, event')
  /\ job' = [job EXCEPT ![w] = Idle]
  /\ UNCHANGED <<result, disturbances>>

\* What follows an error: process catches one of _finish and retries the event;
\* one of _retry, or of the reclaim, escapes to the loop.
AfterError(w) == IF job[w].retrying THEN job' = [job EXCEPT ![w] = Idle]
                 ELSE ToClose(w, Retried(w), TRUE)

\* The transaction is rolled back, or committed without the worker hearing of it.
CommitErrs(w) ==
  /\ Disturb /\ job[w].at = "counted"
  /\ \/ UNCHANGED <<event, run, misreported>>
     \/ /\ event' = Concluded(job[w].change)
        /\ Report(job[w].seen, event')
  /\ AfterError(w)
  /\ UNCHANGED result

\* The HTTP lane concludes the event, reads the statuses, and writes the run.
CloseByPatch(w) ==
  /\ w \in HttpWorkers /\ job[w].at = "close" /\ ~Locked(job[w].event)
  /\ event' = Concluded(job[w].change)
  /\ job' = [job EXCEPT ![w].at = "report"]
  /\ misreported' = TRUE
  /\ UNCHANGED <<run, result, disturbances>>

ReadStatuses(w) ==
  /\ job[w].at = "report"
  /\ job' = [job EXCEPT ![w] = [@ EXCEPT !.at = "told", !.seen = Counts(Statuses)]]
  /\ UNCHANGED <<event, run, result, misreported, disturbances>>

WriteRun(w) ==
  /\ job[w].at = "told"
  /\ Report(job[w].seen, event)
  /\ job' = [job EXCEPT ![w] = Idle]
  /\ UNCHANGED <<event, result, disturbances>>

\* A request of the HTTP lane fails: a pick is dropped, a finish becomes a retry.
RequestErrs(w) ==
  /\ Disturb /\ w \in HttpWorkers /\ job[w].at \in {"picked", "close", "report", "told"}
  /\ IF job[w].at = "picked" THEN job' = [job EXCEPT ![w] = Idle] ELSE AfterError(w)
  /\ UNCHANGED <<event, run, result, misreported>>
-----------------------------------------------------------------------------
\* The process dies, or the handler's own write fails.
Crash(w) ==
  /\ Disturb /\ job[w].at # "idle"
  /\ job' = [job EXCEPT ![w] = Idle]
  /\ UNCHANGED <<event, run, result, misreported>>

Abandoned(e) ==
  \A w \in Workers : event[e].owner = w => job[w].at = "idle" \/ job[w].event # e

\* Fifteen minutes pass since locked_at: over an abandoned event, or a slow worker.
GoStale(e) ==
  /\ event[e].status = "running" /\ event[e].fresh
  /\ IF Abandoned(e) THEN UNCHANGED disturbances ELSE Disturb
  /\ event' = [event EXCEPT ![e].fresh = FALSE]
  /\ UNCHANGED <<run, result, job, misreported>>
-----------------------------------------------------------------------------
Proceed(w) ==
  \/ ClaimByPatch(w) \/ StoreBucket(w) \/ Done(w) \/ CloseInTransaction(w) \/ Commit(w)
  \/ CloseByPatch(w) \/ ReadStatuses(w) \/ WriteRun(w)

\* The main loop reclaims, and claims the first event it may.
Loop(w) == Reclaim(w) \/ \E e \in Events : Claim(w, e)

Next ==
  \/ \E w \in Workers : Proceed(w) \/ Loop(w) \/ Fails(w) \/ CommitErrs(w)
                        \/ RequestErrs(w) \/ Crash(w)
  \/ \E w \in Workers, e \in Events : Pick(w, e)
  \/ \E e \in Events : GoStale(e)

\* A job that is started goes on, and the main loop runs; the HTTP lane need not.
Fairness ==
  /\ \A w \in Workers : WF_vars(Proceed(w))
  /\ \A w \in DbWorkers : WF_vars(Loop(w))
  /\ \A e \in Events : WF_vars(Abandoned(e) /\ GoStale(e))

Spec == Init /\ [][Next]_vars /\ Fairness
-----------------------------------------------------------------------------
TypeOK ==
  /\ event \in [Events -> [status : Waiting \cup Ended \cup {"running"}, attempts : Nat,
                           owner : Workers \cup {Nobody}, fresh : BOOLEAN]]
  /\ run.status \in {"queued", "running", "completed", "completed_with_errors"}
  /\ run.done + run.bad <= Cardinality(Events)
  /\ result \in [Events -> SUBSET Buckets]
  /\ \A w \in Workers :
       job[w].at \in {"idle", "picked", "fetch", "close", "counted", "report", "told"}
  /\ misreported \in BOOLEAN

\* An event that only the HTTP lane would still take: its attempts are used up
\* while it waits, which a late retry of an overtaken worker does, or its run was
\* closed from stale counts.
Stranded(e) ==
  /\ event[e].status \in Waiting
  /\ event[e].attempts >= MaxAttempts \/ run.status \notin {"queued", "running"}

\* When no worker is left in an event, a run that has events tells what became of
\* them, and a completed event has all its results: unless a count was written late
\* or its report was lost.
RunTold ==
  (/\ Events # {}
   /\ \A w \in Workers : job[w].at = "idle"
   /\ \A e \in Events : event[e].status \in Ended)
    => /\ \A e \in Events : event[e].status = "completed" => result[e] = Buckets
       /\ misreported \/ /\ run.bad = Cardinality({e \in Events : event[e].status = "failed"})
                         /\ run.done + run.bad = Cardinality(Events)
                         /\ run.status = IF run.bad > 0 THEN "completed_with_errors" ELSE "completed"

\* Every event is completed or failed in the end, or stranded.
EventsOver == \A e \in Events : event[e].status \in Ended \/ Stranded(e)
EventsEnd == <>[]EventsOver
=============================================================================
