-------------------------- MODULE StreamCollector --------------------------
(***************************************************************************)
(* The one-second aggregates of the crypto stream (CryptoCollector of      *)
(* app/crypto_stream.py with crypto_stream_runtime_fixes and the handoff   *)
(* of crypto_stream_entrypoint): one second of one market, the processes   *)
(* of successive deployments that collect it, and the row in               *)
(* crypto_microstructure_1s, to which every flush adds.                    *)
(*                                                                         *)
(* Trades are numbered in the order of the venue.  Counts and volumes are  *)
(* abstracted to how often the row counts each trade, and the coalesced    *)
(* columns (prices, book, derivatives) to the newest trade they are from.  *)
(***************************************************************************)
EXTENDS Naturals, FiniteSets

CONSTANTS Processes,        \* processes of the stream service, over deployments
          MaxTrades,        \* bound on the trades of the second
          MaxDisturbances,  \* bound on crashes, failed or unheard commits, lost locks
          None

ASSUME CollectorAssumption ==
  /\ IsFiniteSet(Processes)
  /\ MaxTrades \in Nat
  /\ MaxDisturbances \in Nat
  /\ None \notin Processes

VARIABLES emitted,   \* trades the venue has sent
          lock,      \* who holds the advisory lock of the stream
          proc,      \* each process: its phase, bucket, rows being flushed
          row,       \* the stored second
          captured,  \* history: trades that some process received
          shared,    \* history: trades that two processes received
          again,     \* history: trades whose commit was not heard of
          lost,      \* history: trades that a process dropped from memory
          together,  \* history: a process took the lock before the last had ended
          disturbances

history == <<captured, shared, again, lost, together>>
vars == <<emitted, lock, proc, row, history, disturbances>>
-----------------------------------------------------------------------------
Trades == 1..MaxTrades
NoRows == [trades |-> {}, last |-> 0]
Fresh == [pc |-> "waiting", bucket |-> NoRows, rows |-> NoRows, orphan |-> NoRows]

Init ==
  /\ emitted = 0
  /\ lock = None
  /\ proc = [p \in Processes |-> Fresh]
  /\ row = [count |-> [t \in Trades |-> 0], last |-> 0]
  /\ captured = {} /\ shared = {} /\ again = {} /\ lost = {}
  /\ together = FALSE
  /\ disturbances = 0

\* Tasks read the feeds until the main loop has cancelled them.
Capturing == {p \in Processes : proc[p].pc \in {"capturing", "stopping"}}
Flushing  == {"capturing", "stopping", "draining"}
Disturb == disturbances < MaxDisturbances /\ disturbances' = disturbances + 1
Held(p) == proc[p].bucket.trades \cup proc[p].rows.trades \cup proc[p].orphan.trades

\* Whoever is connected receives the trade.
Trade ==
  /\ emitted < MaxTrades
  /\ emitted' = emitted + 1
  /\ LET t == emitted + 1 IN
     /\ proc' = [p \in Processes |->
                   IF p \in Capturing
                   THEN [proc[p] EXCEPT !.bucket = [trades |-> @.trades \cup {t}, last |-> t]]
                   ELSE proc[p]]
     /\ captured' = IF Capturing # {} THEN captured \cup {t} ELSE captured
     /\ shared' = IF Cardinality(Capturing) > 1 THEN shared \cup {t} ELSE shared
  /\ UNCHANGED <<lock, row, again, lost, together, disturbances>>

\* flush takes the buckets out of the map under the lock, and writes unlocked.
Take(p) ==
  /\ proc[p].pc \in Flushing /\ proc[p].rows = NoRows /\ proc[p].bucket # NoRows
  /\ proc' = [proc EXCEPT ![p].rows = proc[p].bucket,
                           ![p].bucket = NoRows]
  /\ UNCHANGED <<emitted, lock, row, history, disturbances>>

\* insert ... on conflict do update: counts are added, prices coalesced.
Added(rows) == [count |-> [t \in Trades |-> row.count[t] + IF t \in rows.trades THEN 1 ELSE 0],
                last  |-> IF rows.last # 0 THEN rows.last ELSE row.last]

Commit(p) ==
  /\ proc[p].rows # NoRows
  /\ row' = Added(proc[p].rows)
  /\ proc' = [proc EXCEPT ![p].rows = NoRows]
  /\ UNCHANGED <<emitted, lock, history, disturbances>>

\* Variant: a failed flush puts its rows back over the bucket.
RestoredOver(bucket, rows) == rows

\* Rows are merged back into the bucket that has begun in the meantime.
Restored(bucket, rows) ==
  [trades |-> bucket.trades \cup rows.trades,
   last   |-> IF bucket.last # 0 THEN bucket.last ELSE rows.last]

\* The last flush of a process is not repeated: run() ends with its error.
Raise(p) ==
  IF proc[p].pc = "draining"
  THEN /\ proc' = [proc EXCEPT ![p].pc = "gone", ![p].bucket = NoRows, ![p].rows = NoRows]
       /\ lost' = lost \cup proc[p].bucket.trades \cup proc[p].rows.trades
  ELSE /\ proc' = [proc EXCEPT ![p].rows = NoRows,
                               ![p].bucket = Restored(proc[p].bucket, proc[p].rows)]
       /\ UNCHANGED lost

FlushFails(p) ==
  /\ proc[p].rows # NoRows /\ Disturb
  /\ Raise(p)
  /\ UNCHANGED <<emitted, lock, row, captured, shared, again, together>>

\* The commit happens and its answer is lost.
CommitUnheard(p) ==
  /\ proc[p].rows # NoRows /\ Disturb
  /\ row' = Added(proc[p].rows)
  /\ again' = again \cup proc[p].rows.trades
  /\ Raise(p)
  /\ UNCHANGED <<emitted, lock, captured, shared, together>>

\* A thread whose flush was cancelled runs on: nobody hears how it ends.
OrphanCommits(p) ==
  /\ proc[p].orphan # NoRows
  /\ row' = Added(proc[p].orphan)
  /\ proc' = [proc EXCEPT ![p].orphan = NoRows]
  /\ UNCHANGED <<emitted, lock, history, disturbances>>

OrphanFails(p) ==
  /\ proc[p].orphan # NoRows /\ Disturb
  /\ proc' = [proc EXCEPT ![p].orphan = NoRows]
  /\ lost' = lost \cup proc[p].orphan.trades
  /\ UNCHANGED <<emitted, lock, row, captured, shared, again, together>>
-----------------------------------------------------------------------------
\* A new process asks for the lock until it gets it, then begins to capture.
Acquire(p) ==
  /\ proc[p].pc = "waiting" /\ lock = None
  /\ lock' = p
  /\ proc' = [proc EXCEPT ![p].pc = "capturing"]
  /\ together' = (together \/ \E q \in Processes :
                    proc[q].pc \in Flushing \/ proc[q].orphan # NoRows)
  /\ UNCHANGED <<emitted, row, captured, shared, again, lost, disturbances>>

Released(p) == IF lock = p THEN None ELSE lock

\* SIGTERM sets the shutdown event and gives up the lock.
Signal(p) ==
  /\ proc[p].pc = "capturing"
  /\ proc' = [proc EXCEPT ![p].pc = "stopping"]
  /\ lock' = Released(p)
  /\ UNCHANGED <<emitted, row, history, disturbances>>

\* Variant: the rows of the cancelled flush are put back, and its thread still has them.
RetireRestoring(p) ==
  /\ proc[p].pc = "stopping"
  /\ proc' = [proc EXCEPT ![p].pc = "draining", ![p].rows = NoRows, ![p].orphan = proc[p].rows,
                           ![p].bucket = Restored(proc[p].bucket, proc[p].rows)]
  /\ UNCHANGED <<emitted, lock, row, history, disturbances>>

\* The main loop, once it is back from reading its targets, cancels its tasks,
\* the flush among them: rows in its thread are no longer anyone's.
Retire(p) ==
  /\ proc[p].pc = "stopping"
  /\ proc' = [proc EXCEPT ![p].pc = "draining", ![p].rows = NoRows,
                           ![p].orphan = proc[p].rows]
  /\ UNCHANGED <<emitted, lock, row, history, disturbances>>

\* Variant: the process ends without a last flush.
EndUnflushed(p) ==
  /\ proc[p].pc = "draining"
  /\ proc' = [proc EXCEPT ![p].pc = "gone"]
  /\ lock' = Released(p)
  /\ UNCHANGED <<emitted, row, history, disturbances>>

\* After one forced flush.
End(p) ==
  /\ proc[p].pc = "draining" /\ proc[p].rows = NoRows /\ proc[p].bucket = NoRows
  /\ proc' = [proc EXCEPT ![p].pc = "gone"]
  /\ lock' = Released(p)
  /\ UNCHANGED <<emitted, row, history, disturbances>>

Crash(p) ==
  /\ proc[p].pc \in Flushing /\ Disturb
  /\ proc' = [proc EXCEPT ![p] = [Fresh EXCEPT !.pc = "gone"]]
  /\ lock' = Released(p)
  /\ lost' = lost \cup Held(p)
  /\ UNCHANGED <<emitted, row, captured, shared, again, together>>

\* The session that holds the lock is closed; the process does not notice.
LoseLock(p) ==
  /\ lock = p /\ proc[p].pc = "capturing" /\ Disturb
  /\ lock' = None
  /\ UNCHANGED <<emitted, proc, row, history>>
-----------------------------------------------------------------------------
Flush(p) == Take(p) \/ Commit(p) \/ OrphanCommits(p) \/ Retire(p) \/ End(p)

Next ==
  \/ Trade
  \/ \E p \in Processes :
       \/ Acquire(p) \/ Signal(p) \/ Flush(p)
       \/ FlushFails(p) \/ CommitUnheard(p) \/ OrphanFails(p) \/ Crash(p) \/ LoseLock(p)

\* The flush loop and the shutdown go on; trades, signals and faults need not.
Fairness == \A p \in Processes : WF_vars(Flush(p))
Spec == Init /\ [][Next]_vars /\ Fairness
-----------------------------------------------------------------------------
Rows == [trades : SUBSET Trades, last : 0..MaxTrades]

\* Every variable has its type; who waits or has died holds nothing to flush.
TypeOK ==
  /\ emitted \in 0..MaxTrades
  /\ lock \in Processes \cup {None}
  /\ proc \in [Processes -> [pc : Flushing \cup {"waiting", "gone"},
                             bucket : Rows, rows : Rows, orphan : Rows]]
  /\ \A p \in Processes : proc[p].pc \in {"waiting", "gone"} =>
                            proc[p].bucket = NoRows /\ proc[p].rows = NoRows
  /\ row \in [count : [Trades -> Nat], last : 0..MaxTrades]
  /\ captured \subseteq Trades /\ shared \subseteq captured
  /\ again \subseteq captured /\ lost \subseteq captured
  /\ together \in BOOLEAN
  /\ disturbances \in 0..MaxDisturbances

\* How often a trade is counted already or will be when memory is flushed.
Copies(t) == row.count[t]
  + Cardinality({p \in Processes : t \in proc[p].bucket.trades})
  + Cardinality({p \in Processes : t \in proc[p].rows.trades})
  + Cardinality({p \in Processes : t \in proc[p].orphan.trades})

\* A trade is counted once, through failed flushes, crashes and cancelled
\* tasks, unless two processes received it or a commit went unheard.
CountedOnce == \A t \in Trades \ (shared \cup again) : Copies(t) <= 1

\* The stored prices are those of the newest stored trade, as long as the
\* processes of two deployments, or a process and its own cancelled flush, do
\* not write the same second.
NewestPriceStored ==
  together \/ (\E p \in Processes : proc[p].pc \in {"draining", "gone"}) \/
  \A t \in Trades : row.count[t] > 0 => t <= row.last

\* Whatever was received comes to the table, or was dropped as named above.
TradesReachTable == \A t \in Trades :
  t \in captured ~> t \in lost \/ row.count[t] > 0

\* One process at a time reads the feeds: "the singleton prevents duplicate
\* capture", and a process that is told to end stops "capture first, then let[s]
\* the replacement acquire the lock" (crypto_stream_entrypoint).
OneCapturer == Cardinality(Capturing) <= 1
=============================================================================
