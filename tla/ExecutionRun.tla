---------------------------- MODULE ExecutionRun ----------------------------
(***************************************************************************)
(* One C-INT-001 execution run (app/cint001_execution_v2.py over           *)
(* app/cint001_execution.py): archive months, one work item each, and when *)
(* the last is in, one analysis item.  Items are written by id; the run is *)
(* advanced by whoever has completed an item, in a read and a later write. *)
(*                                                                         *)
(* A month is three parts that are committed one by one.  Prices are left  *)
(* out: trades, metrics and result are the months whose data they rest on. *)
(***************************************************************************)
EXTENDS Naturals, FiniteSets, Sequences

CONSTANTS Months, Workers,
          MaxAttempts,      \* cint001_execution_work_items.max_attempts
          MaxDisturbances   \* bound on errors, crashes and stalls

VARIABLES item,       \* cint001_execution_work_items, by partition
          run,        \* status and stage of the row of cint001_execution_runs
          stored,     \* the parts of a month that are in the tables
          published,  \* the months whose futures archive exists
          trades,     \* the months that cint001_execution_trades rests on
          result,     \* the same of cint001_execution_results
          job,        \* what each worker is doing
          lapsed,     \* an item was reclaimed under a live worker
          disturbances

vars == <<item, run, stored, published, trades, result, job, lapsed, disturbances>>
-----------------------------------------------------------------------------
Items == Months \cup {"analysis"}
Waiting == {"queued", "retry_wait"}
Active == Waiting \cup {"running"}
Open == {"queued", "running"}
Absent == [status |-> "absent", attempts |-> 0, fresh |-> FALSE]
Queued == [Absent EXCEPT !.status = "queued"]
Idle == [at |-> "idle", item |-> "analysis", attempts |-> 0, seen |-> {}, verdict |-> "none"]

Init ==
  /\ item = [i \in Items |-> IF i \in Months THEN Queued ELSE Absent]
  /\ run = [status |-> "queued", stage |-> "archive_backfill"]
  /\ stored = [m \in Months |-> {}]
  /\ published \in SUBSET Months
  /\ trades = {} /\ result = {}
  /\ job = [w \in Workers |-> Idle]
  /\ lapsed = FALSE /\ disturbances = 0

\* The parts of a month in the order of their commits; no archive, no bars.
Parts(m) == IF m \in published THEN <<"spot", "contract", "bars">> ELSE <<"spot", "contract">>
Whole(m) == \A k \in DOMAIN Parts(m) : Parts(m)[k] \in stored[m]

Disturb == disturbances < MaxDisturbances /\ disturbances' = disturbances + 1
At(w, place) == job[w].at = place
GoTo(w, place) == job' = [job EXCEPT ![w].at = place]
Written(i, status) == [item EXCEPT ![i] = [@ EXCEPT !.status = status, !.fresh = FALSE]]
-----------------------------------------------------------------------------
\* claim_execution_work: months first, of a run that is open.
Claim(w, i) ==
  /\ At(w, "idle") /\ item[i].status \in Waiting /\ run.status \in Open
  /\ i = "analysis" => \A m \in Months : item[m].status \notin Waiting
  /\ item' = [item EXCEPT ![i] = [status |-> "running", attempts |-> @.attempts + 1, fresh |-> TRUE]]
  /\ run' = [run EXCEPT !.status = "running"]
  /\ job' = [job EXCEPT ![w] = [Idle EXCEPT !.at = IF i = "analysis" THEN "trades" ELSE "store",
                                            !.item = i, !.attempts = item[i].attempts + 1]]
  /\ UNCHANGED <<stored, published, trades, result, lapsed, disturbances>>

\* The next part of the month in hand: an upsert, which a repeated attempt repeats.
Store(w) ==
  LET m == job[w].item k == Cardinality(job[w].seen) + 1 IN
  /\ At(w, "store") /\ k \in DOMAIN Parts(m)
  /\ stored' = [stored EXCEPT ![m] = @ \cup {Parts(m)[k]}]
  /\ job' = [job EXCEPT ![w].seen = @ \cup {Parts(m)[k]}]
  /\ UNCHANGED <<item, run, published, trades, result, lapsed, disturbances>>

\* _complete, by id: a month without an archive is missing.
Settle(w) ==
  LET i == job[w].item IN
  /\ \/ At(w, "store") /\ Cardinality(job[w].seen) = Len(Parts(i))
     \/ At(w, "settle")
  /\ item' = Written(i, IF i \in Months \ published THEN "missing" ELSE "completed")
  /\ GoTo(w, "read")
  /\ UNCHANGED <<run, stored, published, trades, result, lapsed, disturbances>>
-----------------------------------------------------------------------------
\* What _queue_analysis_if_ready makes of its counts.
Verdict ==
  IF item["analysis"].status # "absent" \/ \E m \in Months : item[m].status \in Active THEN "none"
  ELSE IF \E m \in Months : item[m].status = "failed" THEN "failed"
  ELSE "analyse"

\* advance_execution_run reads the items ...
AdvanceRead(w) ==
  /\ At(w, "read")
  /\ job' = [job EXCEPT ![w] = IF Verdict = "none" THEN Idle
                               ELSE [@ EXCEPT !.at = "write", !.verdict = Verdict]]
  /\ UNCHANGED <<item, run, stored, published, trades, result, lapsed, disturbances>>

\* ... and later writes what it made of them, whatever has become of the run.
Advanced(w) ==
  IF job[w].verdict = "failed"
  THEN [run |-> [status |-> "completed_with_errors", stage |-> "archive_backfill_failed"],
        item |-> item]
  ELSE [run |-> [run EXCEPT !.stage = "execution_analysis"],
        item |-> IF item["analysis"].status = "absent"
                 THEN [item EXCEPT !["analysis"] = Queued] ELSE item]

AdvanceWrite(w) ==
  /\ At(w, "write")
  /\ run' = Advanced(w).run /\ item' = Advanced(w).item
  /\ job' = [job EXCEPT ![w] = Idle]
  /\ UNCHANGED <<stored, published, trades, result, lapsed, disturbances>>
-----------------------------------------------------------------------------
\* _process_analysis: the trades are deleted and rebuilt in one transaction ...
Trades(w) ==
  /\ At(w, "trades")
  /\ trades' = {m \in Months : Whole(m)}
  /\ GoTo(w, "metrics")
  /\ UNCHANGED <<item, run, stored, published, result, lapsed, disturbances>>

\* ... the metrics are read from them ...
Metrics(w) ==
  /\ At(w, "metrics")
  /\ job' = [job EXCEPT ![w] = [@ EXCEPT !.at = "results", !.seen = trades]]
  /\ UNCHANGED <<item, run, stored, published, trades, result, lapsed, disturbances>>

Finished == [status |-> "completed", stage |-> "completed"]

\* ... and the result ends the run before the item is completed.
Results(w) ==
  /\ At(w, "results")
  /\ result' = job[w].seen
  /\ run' = Finished
  /\ GoTo(w, "settle")
  /\ UNCHANGED <<item, stored, published, trades, lapsed, disturbances>>
-----------------------------------------------------------------------------
\* _fail judges the attempts of the copy.
FailedStatus(w) == IF job[w].attempts >= MaxAttempts THEN "failed" ELSE "retry_wait"

\* Any error on the way, one of the advance included, makes the item wait or fail,
\* also when the item was completed; and _fail does not advance the run.
Fail(w) ==
  /\ Disturb /\ ~At(w, "idle")
  /\ item' = Written(job[w].item, FailedStatus(w))
  /\ job' = [job EXCEPT ![w] = Idle]
  /\ UNCHANGED <<run, stored, published, trades, result, lapsed>>

\* The transaction of the advance, or of the results, commits unheard.
Unheard(w) ==
  /\ Disturb
  /\ \/ /\ At(w, "write") /\ run' = Advanced(w).run /\ UNCHANGED result
        /\ item' = [Advanced(w).item EXCEPT ![job[w].item].status = FailedStatus(w)]
     \/ /\ At(w, "results") /\ result' = job[w].seen /\ run' = Finished
        /\ item' = Written(job[w].item, FailedStatus(w))
  /\ job' = [job EXCEPT ![w] = Idle]
  /\ UNCHANGED <<stored, published, trades, lapsed>>

\* The process dies, or _fail raises too.
Crash(w) ==
  /\ Disturb /\ ~At(w, "idle")
  /\ job' = [job EXCEPT ![w] = Idle]
  /\ UNCHANGED <<item, run, stored, published, trades, result, lapsed>>

Held(i) == \E w \in Workers : job[w].item = i /\ job[w].at \in {"store", "trades", "metrics",
                                                               "results", "settle"}

\* Half an hour passes since the claim: over a lost worker, or a slow one.
GoStale(i) ==
  /\ item[i].status = "running" /\ item[i].fresh
  /\ IF Held(i) THEN Disturb ELSE UNCHANGED disturbances
  /\ item' = [item EXCEPT ![i].fresh = FALSE]
  /\ UNCHANGED <<run, stored, published, trades, result, job, lapsed>>

\* reclaim_stale_execution_work: any stale item, whatever its attempts and its run.
Reclaim ==
  LET stale == {i \in Items : item[i].status = "running" /\ ~item[i].fresh} IN
  /\ stale # {}
  /\ item' = [i \in Items |-> IF i \in stale THEN [item[i] EXCEPT !.status = "retry_wait"]
                              ELSE item[i]]
  /\ lapsed' = (lapsed \/ \E i \in stale : Held(i))
  /\ UNCHANGED <<run, stored, published, trades, result, job, disturbances>>
-----------------------------------------------------------------------------
Work(w) ==
  \/ \E i \in Items : Claim(w, i)
  \/ Store(w) \/ Settle(w) \/ AdvanceRead(w) \/ AdvanceWrite(w)
  \/ Trades(w) \/ Metrics(w) \/ Results(w)

Next ==
  \/ \E w \in Workers : Work(w) \/ Fail(w) \/ Unheard(w) \/ Crash(w)
  \/ \E i \in Items : GoStale(i)
  \/ Reclaim

\* The worker loops run, and so does the clock over items that nobody works on.
Fairness ==
  /\ \A w \in Workers : WF_vars(Work(w))
  /\ \A i \in Items : WF_vars(~Held(i) /\ GoStale(i))
  /\ WF_vars(Reclaim)

Spec == Init /\ [][Next]_vars /\ Fairness
-----------------------------------------------------------------------------
TypeOK ==
  /\ item \in [Items -> [status : Active \cup {"absent", "completed", "missing", "failed"},
                         attempts : Nat, fresh : BOOLEAN]]
  /\ run.status \in Open \cup {"completed", "completed_with_errors"}
  /\ stored \in [Months -> SUBSET {"spot", "contract", "bars"}]
  /\ trades \subseteq Months /\ result \subseteq Months

\* A completed run has a result that rests on the whole data of every month, although
\* months are repeated beside the analysis; and it ends with errors for a month that
\* failed, unless a worker that had lost its item came back.
ResultComplete ==
  /\ run.status = "completed" => result = Months
  /\ run.status = "completed_with_errors" /\ ~lapsed
       => \E m \in Months : item[m].status = "failed"

\* Nobody is left to advance the run: its last month failed, or the worker was lost
\* between a completion and the advance; or the analysis has failed for good.
Wedged ==
  \/ /\ item["analysis"].status = "absent"
     /\ \A m \in Months : item[m].status \notin Active
     /\ \A w \in Workers : job[w].at \notin {"read", "write"}
  \/ item["analysis"].status = "failed"

\* A run comes to an end, or to rest in one of these two ways.
RunOver == run.status \notin Open \/ Wedged
RunEnds == <>[]RunOver
=============================================================================
