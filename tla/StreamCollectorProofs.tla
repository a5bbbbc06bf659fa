----------------------- MODULE StreamCollectorProofs -----------------------
(***************************************************************************)
(* No trade is counted twice in its second: for any number of processes,   *)
(* trades, failed flushes, cancelled flushes and crashes, unless two       *)
(* processes received the trade or a commit went unheard.  And the prices  *)
(* of the second are those of its newest stored trade, as long as one      *)
(* process at a time writes it.                                            *)
(***************************************************************************)
EXTENDS StreamCollector, FiniteSetTheorems, TLAPS

Process == [pc : Flushing \cup {"waiting", "gone"}, bucket : Rows, rows : Rows, orphan : Rows]

\* The types, as far as counting needs them.
Typed ==
  /\ emitted \in 0..MaxTrades
  /\ proc \in [Processes -> Process]
  /\ row \in [count : [Trades -> Nat], last : 0..MaxTrades]

\* A process holds a trade in one of its three places at most.
Apart(p, t) ==
  /\ ~(t \in proc[p].bucket.trades /\ t \in proc[p].rows.trades)
  /\ ~(t \in proc[p].bucket.trades /\ t \in proc[p].orphan.trades)
  /\ ~(t \in proc[p].rows.trades /\ t \in proc[p].orphan.trades)

\* Somebody holds the trade, in one place, and it is not counted; or nobody does, and
\* it is counted once at most.
Once(t) ==
  /\ \A p \in Processes : Apart(p, t)
  /\ \A p, q \in Processes : t \in Held(p) /\ t \in Held(q) => p = q
  /\ row.count[t] \in {0, 1}
  /\ row.count[t] = 1 => \A p \in Processes : t \notin Held(p)

\* What has not been sent is nowhere.
Ahead(t) == row.count[t] = 0 /\ \A p \in Processes : t \notin Held(p)

\* The inductive invariant.
IInv ==
  /\ Typed
  /\ \A t \in Trades \ (shared \cup again) : Once(t)
  /\ \A t \in Trades : t > emitted => Ahead(t)
-----------------------------------------------------------------------------
\* Empty rows are rows.
LEMMA RowsTyped == NoRows \in Rows
BY CollectorAssumption DEF NoRows, Rows

\* Everything is well typed at the start.
LEMMA InitTyped == Init => Typed
<1> SUFFICES ASSUME Init PROVE Typed
  OBVIOUS
<1>1. Fresh \in Process
  BY RowsTyped DEF Fresh, Process
<1>2. row \in [count : [Trades -> Nat], last : 0..MaxTrades]
  BY CollectorAssumption DEF Init
<1> QED BY <1>1, <1>2, CollectorAssumption DEF Init, Typed

\* A step of a process touches its own record only.
StepOf(p, new) == new \in Process /\ proc' = [proc EXCEPT ![p] = new]

\* What a step of one process makes of the table of processes.
LEMMA StepTyped ==
  ASSUME Typed, NEW p \in Processes, NEW new, StepOf(p, new)
  PROVE  /\ proc' \in [Processes -> Process] /\ proc'[p] = new
         /\ \A q \in Processes \ {p} : proc'[q] = proc[q]
BY DEF Typed, StepOf

\* A process that moves its trades between its places, or drops some, keeps the
\* invariant, since it takes up none.
LEMMA MoveKeeps ==
  ASSUME IInv, NEW p \in Processes, NEW new, StepOf(p, new),
         row' = row, emitted' = emitted, shared' = shared, again \subseteq again',
         new.bucket.trades \cup new.rows.trades \cup new.orphan.trades \subseteq Held(p),
         \A t \in Trades \ (shared \cup again) : Apart(p, t) => Apart(p, t)'
  PROVE  IInv'
<1>1. /\ proc' \in [Processes -> Process] /\ proc'[p] = new
      /\ \A q \in Processes \ {p} : proc'[q] = proc[q]
  BY StepTyped DEF IInv
<1>2. \A q \in Processes : Held(q)' \subseteq Held(q)
  BY <1>1 DEF Held
<1>3. Typed'
  BY <1>1 DEF IInv, Typed
<1>4. ASSUME NEW t \in (Trades \ (shared \cup again))' PROVE Once(t)'
  <2>1. t \in Trades \ (shared \cup again) /\ Once(t)
    BY <1>4 DEF IInv, Trades
  <2>2. \A q \in Processes : Apart(q, t)'
    BY <1>1, <2>1 DEF Once, Apart
  <2> QED BY <1>2, <2>1, <2>2 DEF Once
<1>5. ASSUME NEW t \in Trades, t > emitted PROVE Ahead(t)'
  BY <1>2, <1>5 DEF IInv, Ahead
<1> QED BY <1>3, <1>4, <1>5 DEF IInv, Trades

\* A commit moves trades from a place of a process to the row.
LEMMA CommitKeeps ==
  ASSUME IInv, NEW p \in Processes, NEW new, StepOf(p, new), NEW rows \in Rows,
         rows.trades \subseteq Held(p),
         row' = Added(rows), emitted' = emitted, shared' = shared,
         new.bucket.trades \cup new.rows.trades \cup new.orphan.trades \subseteq Held(p),
         again \subseteq again',
         \A t \in Trades \ (shared \cup again') :
           Apart(p, t) => Apart(p, t)' /\ (t \in rows.trades => t \notin Held(p)')
  PROVE  IInv'
<1>1. /\ proc' \in [Processes -> Process] /\ proc'[p] = new
      /\ \A q \in Processes \ {p} : proc'[q] = proc[q]
  BY StepTyped DEF IInv
<1>2. \A q \in Processes : Held(q)' \subseteq Held(q)
  BY <1>1 DEF Held
<1>3. /\ row' \in [count : [Trades -> Nat], last : 0..MaxTrades]
      /\ \A t \in Trades : row'.count[t] = row.count[t] + IF t \in rows.trades THEN 1 ELSE 0
  BY DEF IInv, Typed, Added, Rows
<1>4. Typed'
  BY <1>1, <1>3 DEF IInv, Typed
<1>5. ASSUME NEW t \in (Trades \ (shared \cup again))' PROVE Once(t)'
  <2>1. t \in Trades \ (shared \cup again) /\ Once(t) /\ t \notin again'
    BY <1>5 DEF IInv, Trades
  <2>2. \A q \in Processes : Apart(q, t)'
    BY <1>1, <2>1 DEF Once, Apart
  <2>3. CASE t \in rows.trades
    <3>1. row.count[t] = 0 /\ row'.count[t] = 1
      BY <1>3, <2>1, <2>3 DEF Once
    <3>2. \A q \in Processes : t \notin Held(q)'
      BY <1>2, <2>1, <2>3 DEF Once
    <3> QED BY <2>2, <3>1, <3>2 DEF Once
  <2>4. CASE t \notin rows.trades
    <3>1. row'.count[t] = row.count[t]
      BY <1>3, <2>1, <2>4 DEF Once
    <3> QED BY <1>2, <2>1, <2>2, <3>1 DEF Once
  <2> QED BY <2>3, <2>4
<1>6. ASSUME NEW t \in Trades, t > emitted PROVE Ahead(t)'
  <2>1. Ahead(t) /\ t \notin rows.trades
    BY <1>6 DEF IInv, Ahead
  <2> QED BY <1>2, <1>3, <2>1 DEF Ahead
<1> QED BY <1>4, <1>5, <1>6 DEF IInv, Trades
-----------------------------------------------------------------------------
\* The record of a process and its parts.
LEMMA Parts ==
  ASSUME Typed, NEW p \in Processes
  PROVE  /\ proc[p] \in Process
         /\ {proc[p].bucket, proc[p].rows, proc[p].orphan, NoRows} \subseteq Rows
BY RowsTyped DEF Typed, Process

\* Finitely many processes capture.
LEMMA CapturingFinite == IsFiniteSet(Capturing)
<1>1. Capturing \in SUBSET Processes
  BY DEF Capturing
<1> QED BY <1>1, FS_Subset, CollectorAssumption

\* A finite set with no more than one element has no two.
LEMMA AtMostOne ==
  ASSUME NEW S, IsFiniteSet(S), ~(Cardinality(S) > 1), NEW x \in S, NEW y \in S
  PROVE  x = y
<1> SUFFICES ASSUME x # y PROVE FALSE
  OBVIOUS
<1>1. IsFiniteSet({x}) /\ Cardinality({x}) = 1
  BY FS_Singleton
<1>2. Cardinality({x} \cup {y}) = 2
  BY <1>1, FS_AddElement
<1>3. {x} \cup {y} \in SUBSET S
  OBVIOUS
<1>4. 2 <= Cardinality(S)
  BY <1>2, <1>3, FS_Subset
<1> QED BY <1>4, FS_CardinalityType

\* A new trade is taken up by those who capture: by one, or it is shared.
LEMMA TradeKeeps == ASSUME IInv, Trade PROVE IInv'
<1>0. PICK new \in Trades : new = emitted + 1
  BY CollectorAssumption DEF IInv, Typed, Trade, Trades
<1> DEFINE Taken(p) == [proc[p] EXCEPT !.bucket = [trades |-> @.trades \cup {new}, last |-> new]]
<1>1. new = emitted + 1 /\ emitted' = new /\ row' = row /\ again' = again
  BY <1>0 DEF Trade
<1>2. ASSUME NEW p \in Processes
      PROVE  /\ Taken(p) \in Process
             /\ Taken(p).bucket.trades = proc[p].bucket.trades \cup {new}
             /\ Taken(p).rows = proc[p].rows /\ Taken(p).orphan = proc[p].orphan
  <2>1. proc[p] \in Process
    BY Parts DEF IInv
  <2>2. [trades |-> proc[p].bucket.trades \cup {new}, last |-> new] \in Rows
    BY <1>1, <2>1, CollectorAssumption DEF Process, Rows, Trades
  <2> QED BY <2>1, <2>2 DEF Process
<1>3. /\ proc' \in [Processes -> Process]
      /\ \A p \in Processes : proc'[p] = IF p \in Capturing THEN Taken(p) ELSE proc[p]
  BY <1>1, <1>2, Parts DEF IInv, Trade
<1>4. \A p \in Processes, t \in Trades \ {new} :
        (Apart(p, t)' <=> Apart(p, t)) /\ (t \in Held(p)' <=> t \in Held(p))
  BY <1>2, <1>3 DEF Apart, Held
<1>5. Ahead(new)
  BY <1>1 DEF IInv, Typed
<1>6. \A p \in Processes : new \in Held(p)' => p \in Capturing
  BY <1>3, <1>5 DEF Ahead, Held
<1>7. ASSUME NEW p \in Processes PROVE Apart(p, new)'
  <2>1. new \notin proc[p].rows.trades /\ new \notin proc[p].orphan.trades
    BY <1>5 DEF Ahead, Held
  <2>2. proc'[p].rows = proc[p].rows /\ proc'[p].orphan = proc[p].orphan
    BY <1>2, <1>3
  <2> QED BY <2>1, <2>2 DEF Apart
<1>8. Typed'
  BY <1>1, <1>3, CollectorAssumption DEF IInv, Typed, Trades
<1>9. ASSUME NEW t \in (Trades \ (shared \cup again))' PROVE Once(t)'
  <2>1. CASE t # new
    <3>1. t \in Trades \ (shared \cup again) /\ Once(t) /\ t \in Trades \ {new}
      BY <1>1, <1>9, <2>1 DEF IInv, Trades, Trade
    <3> QED BY <1>1, <1>4, <3>1 DEF Once
  <2>2. CASE t = new
    <3>1. ~(Cardinality(Capturing) > 1)
      BY <1>1, <1>9, <2>2 DEF Trade
    <3>2. \A p, q \in Capturing : p = q
      BY <3>1, CapturingFinite, AtMostOne
    <3>3. row'.count[t] = 0
      BY <1>1, <1>5, <2>2 DEF Ahead
    <3> QED BY <1>6, <1>7, <2>2, <3>2, <3>3 DEF Once
  <2> QED BY <2>1, <2>2
<1>10. ASSUME NEW t \in Trades, t > emitted' PROVE Ahead(t)'
  <2>1. Ahead(t) /\ t \in Trades \ {new}
    BY <1>1, <1>10, CollectorAssumption DEF IInv, Typed, Trades
  <2> QED BY <1>1, <1>4, <2>1 DEF Ahead
<1> QED BY <1>8, <1>9, <1>10 DEF IInv, Trades

\* Steps that leave the trades of a process where they are.
LEMMA PhaseKeeps ==
  ASSUME IInv, NEW p \in Processes, Acquire(p) \/ Signal(p) \/ LoseLock(p) \/ End(p)
  PROVE  IInv'
<1>1. proc[p] \in Process
  BY Parts DEF IInv
<1>2. PICK new : /\ StepOf(p, new)
                 /\ new.bucket = proc[p].bucket /\ new.rows = proc[p].rows
                 /\ new.orphan = proc[p].orphan
  <2>1. CASE LoseLock(p)
    <3>1. StepOf(p, proc[p])
      BY <1>1, <2>1 DEF LoseLock, StepOf, IInv, Typed
    <3> QED BY <3>1
  <2>2. CASE Acquire(p) \/ Signal(p) \/ End(p)
    <3>1. \E c \in {"capturing", "stopping", "gone"} : proc' = [proc EXCEPT ![p].pc = c]
      BY <2>2 DEF Acquire, Signal, End
    <3>2. PICK c \in {"capturing", "stopping", "gone"} : proc' = [proc EXCEPT ![p].pc = c]
      BY <3>1
    <3>3. StepOf(p, [proc[p] EXCEPT !.pc = c])
      BY <1>1, <3>2 DEF StepOf, Process, Flushing
    <3> QED BY <1>1, <3>3 DEF Process
  <2> QED BY <2>1, <2>2
<1>3. /\ row' = row /\ emitted' = emitted /\ shared' = shared /\ again' = again
  BY DEF Acquire, Signal, LoseLock, End, history
<1>4. proc'[p] = new
  BY <1>2, StepTyped DEF IInv
<1> QED BY <1>2, <1>3, <1>4, MoveKeeps DEF Apart, Held
-----------------------------------------------------------------------------
\* What a failed flush leaves in memory was there before.
LEMMA RaiseMoves ==
  ASSUME IInv, NEW p \in Processes, Raise(p)
  PROVE  \E new : /\ StepOf(p, new)
                  /\ new.orphan = proc[p].orphan /\ new.rows.trades = {}
                  /\ new.bucket.trades \subseteq proc[p].bucket.trades \cup proc[p].rows.trades
<1>1. proc[p] \in Process /\ NoRows \in Rows /\ proc[p].bucket \in Rows /\ proc[p].rows \in Rows
  BY Parts, RowsTyped DEF IInv
<1>2. NoRows.trades = {}
  BY DEF NoRows
<1>3. CASE proc[p].pc = "draining"
  <2> DEFINE new == [proc[p] EXCEPT !.pc = "gone", !.bucket = NoRows, !.rows = NoRows]
  <2>1. new \in Process /\ new.orphan = proc[p].orphan /\ new.rows = NoRows /\ new.bucket = NoRows
    BY <1>1 DEF Process
  <2>2. proc' = [proc EXCEPT ![p] = new]
    BY <1>1, <1>3 DEF Raise
  <2> QED BY <1>2, <2>1, <2>2 DEF StepOf
<1>4. CASE proc[p].pc # "draining"
  <2> DEFINE both == Restored(proc[p].bucket, proc[p].rows)
             new == [proc[p] EXCEPT !.rows = NoRows, !.bucket = both]
  <2>1. both \in Rows /\ both.trades = proc[p].bucket.trades \cup proc[p].rows.trades
    BY <1>1 DEF Restored, Rows
  <2>2. new \in Process /\ new.orphan = proc[p].orphan /\ new.rows = NoRows /\ new.bucket = both
    BY <1>1, <2>1 DEF Process
  <2>3. proc' = [proc EXCEPT ![p] = new]
    BY <1>1, <1>4 DEF Raise
  <2> QED BY <1>2, <2>1, <2>2, <2>3 DEF StepOf
<1> QED BY <1>3, <1>4

\* A flush that fails puts its rows back into the bucket: the trades change their place.
LEMMA FlushFailsKeeps == ASSUME IInv, NEW p \in Processes, FlushFails(p) PROVE IInv'
<1>1. PICK new : /\ StepOf(p, new)
                 /\ new.orphan = proc[p].orphan /\ new.rows.trades = {}
                 /\ new.bucket.trades \subseteq proc[p].bucket.trades \cup proc[p].rows.trades
  BY RaiseMoves DEF FlushFails
<1>2. proc'[p] = new
  BY <1>1, StepTyped DEF IInv
<1>3. row' = row /\ emitted' = emitted /\ shared' = shared /\ again' = again
  BY DEF FlushFails
<1> QED BY <1>1, <1>2, <1>3, MoveKeeps DEF Apart, Held

\* The trades of an unheard commit may be counted again: they are named.
LEMMA UnheardKeeps == ASSUME IInv, NEW p \in Processes, CommitUnheard(p) PROVE IInv'
<1>1. PICK new : /\ StepOf(p, new)
                 /\ new.orphan = proc[p].orphan /\ new.rows.trades = {}
                 /\ new.bucket.trades \subseteq proc[p].bucket.trades \cup proc[p].rows.trades
  BY RaiseMoves DEF CommitUnheard
<1>2. proc'[p] = new /\ proc[p].rows \in Rows
  BY <1>1, StepTyped, Parts DEF IInv
<1>3. /\ row' = Added(proc[p].rows) /\ emitted' = emitted /\ shared' = shared
      /\ again' = again \cup proc[p].rows.trades
  BY DEF CommitUnheard
<1>4. ASSUME NEW t \in Trades \ (shared \cup again'), Apart(p, t)
      PROVE  Apart(p, t)' /\ t \notin proc[p].rows.trades
  BY <1>1, <1>2, <1>3, <1>4 DEF Apart
<1>5. /\ proc[p].rows.trades \subseteq Held(p)
      /\ new.bucket.trades \cup new.rows.trades \cup new.orphan.trades \subseteq Held(p)
  BY <1>1 DEF Held
<1> QED BY <1>1, <1>2, <1>3, <1>4, <1>5, CommitKeeps

\* Rows of a flush, or of one that was cancelled, are counted and forgotten.
LEMMA CommitsKeep ==
  ASSUME IInv, NEW p \in Processes, Commit(p) \/ OrphanCommits(p)
  PROVE  IInv'
<1>1. proc[p] \in Process /\ NoRows \in Rows /\ proc[p].rows \in Rows /\ proc[p].orphan \in Rows
  BY Parts, RowsTyped DEF IInv
<1>2. NoRows.trades = {}
  BY DEF NoRows
<1>3. emitted' = emitted /\ shared' = shared /\ again' = again
  BY DEF Commit, OrphanCommits, history
<1>4. CASE Commit(p)
  <2> DEFINE new == [proc[p] EXCEPT !.rows = NoRows]
  <2>1. /\ new \in Process /\ new.rows = NoRows
        /\ new.bucket = proc[p].bucket /\ new.orphan = proc[p].orphan
    BY <1>1 DEF Process
  <2>2. StepOf(p, new) /\ row' = Added(proc[p].rows)
    BY <1>1, <1>4, <2>1 DEF Commit, StepOf
  <2>3. proc'[p] = new
    BY <2>2, StepTyped DEF IInv
  <2>4. \A t : Apart(p, t) => Apart(p, t)' /\ (t \in proc[p].rows.trades => t \notin Held(p)')
    BY <1>2, <2>1, <2>3 DEF Apart, Held
  <2>5. /\ proc[p].rows.trades \subseteq Held(p)
        /\ new.bucket.trades \cup new.rows.trades \cup new.orphan.trades \subseteq Held(p)
    BY <1>2, <2>1 DEF Held
  <2> HIDE DEF new
  <2> QED BY <1>1, <1>3, <2>2, <2>4, <2>5, CommitKeeps
<1>5. CASE OrphanCommits(p)
  <2> DEFINE new == [proc[p] EXCEPT !.orphan = NoRows]
  <2>1. /\ new \in Process /\ new.orphan = NoRows
        /\ new.bucket = proc[p].bucket /\ new.rows = proc[p].rows
    BY <1>1 DEF Process
  <2>2. StepOf(p, new) /\ row' = Added(proc[p].orphan)
    BY <1>1, <1>5, <2>1 DEF OrphanCommits, StepOf
  <2>3. proc'[p] = new
    BY <2>2, StepTyped DEF IInv
  <2>4. \A t : Apart(p, t) => Apart(p, t)' /\ (t \in proc[p].orphan.trades => t \notin Held(p)')
    BY <1>2, <2>1, <2>3 DEF Apart, Held
  <2>5. /\ proc[p].orphan.trades \subseteq Held(p)
        /\ new.bucket.trades \cup new.rows.trades \cup new.orphan.trades \subseteq Held(p)
    BY <1>2, <2>1 DEF Held
  <2> HIDE DEF new
  <2> QED BY <1>1, <1>3, <2>2, <2>4, <2>5, CommitKeeps
<1> QED BY <1>4, <1>5

\* A process takes its bucket to flush, parts with the rows of a cancelled flush,
\* or loses what it has.
LEMMA MovesKeep ==
  ASSUME IInv, NEW p \in Processes, Take(p) \/ Retire(p) \/ OrphanFails(p) \/ Crash(p)
  PROVE  IInv'
<1>1. /\ proc[p] \in Process /\ NoRows \in Rows /\ NoRows.trades = {}
      /\ proc[p].bucket \in Rows /\ proc[p].rows \in Rows /\ proc[p].orphan \in Rows
  BY Parts, RowsTyped DEF IInv, NoRows
<1>2. emitted' = emitted /\ row' = row /\ shared' = shared /\ again' = again
  BY DEF Take, Retire, OrphanFails, Crash, history
<1>3. \E new : /\ StepOf(p, new)
               /\ \/ /\ new.bucket = NoRows /\ new.rows = proc[p].bucket
                     /\ new.orphan = proc[p].orphan
                  \/ /\ new.bucket = proc[p].bucket /\ new.rows = NoRows
                     /\ new.orphan \in {proc[p].rows, NoRows}
                  \/ /\ new.bucket = proc[p].bucket /\ new.rows = proc[p].rows
                     /\ new.orphan = NoRows
                  \/ new.bucket = NoRows /\ new.rows = NoRows /\ new.orphan = NoRows
  <2>1. CASE Take(p)
    <3> DEFINE new == [proc[p] EXCEPT !.rows = proc[p].bucket, !.bucket = NoRows]
    <3>1. new \in Process /\ proc' = [proc EXCEPT ![p] = new]
      BY <1>1, <2>1 DEF Take, Process
    <3>2. new.bucket = NoRows /\ new.rows = proc[p].bucket /\ new.orphan = proc[p].orphan
      BY <1>1 DEF Process
    <3> QED BY <3>1, <3>2 DEF StepOf
  <2>2. CASE Retire(p)
    <3> DEFINE new == [proc[p] EXCEPT !.pc = "draining", !.rows = NoRows, !.orphan = proc[p].rows]
    <3>1. new \in Process /\ proc' = [proc EXCEPT ![p] = new]
      BY <1>1, <2>2 DEF Retire, Process, Flushing
    <3>2. new.bucket = proc[p].bucket /\ new.rows = NoRows /\ new.orphan = proc[p].rows
      BY <1>1 DEF Process
    <3> QED BY <3>1, <3>2 DEF StepOf
  <2>3. CASE OrphanFails(p)
    <3> DEFINE new == [proc[p] EXCEPT !.orphan = NoRows]
    <3>1. new \in Process /\ proc' = [proc EXCEPT ![p] = new]
      BY <1>1, <2>3 DEF OrphanFails, Process
    <3>2. new.bucket = proc[p].bucket /\ new.rows = proc[p].rows /\ new.orphan = NoRows
      BY <1>1 DEF Process
    <3> QED BY <3>1, <3>2 DEF StepOf
  <2>4. CASE Crash(p)
    <3> DEFINE new == [Fresh EXCEPT !.pc = "gone"]
    <3>1. new \in Process /\ proc' = [proc EXCEPT ![p] = new]
      BY <1>1, <2>4 DEF Crash, Process, Fresh
    <3>2. new.bucket = NoRows /\ new.rows = NoRows /\ new.orphan = NoRows
      BY DEF Fresh
    <3> QED BY <3>1, <3>2 DEF StepOf
  <2> QED BY <2>1, <2>2, <2>3, <2>4
<1>4. PICK new : /\ StepOf(p, new)
                 /\ \/ /\ new.bucket = NoRows /\ new.rows = proc[p].bucket
                       /\ new.orphan = proc[p].orphan
                    \/ /\ new.bucket = proc[p].bucket /\ new.rows = NoRows
                       /\ new.orphan \in {proc[p].rows, NoRows}
                    \/ /\ new.bucket = proc[p].bucket /\ new.rows = proc[p].rows
                       /\ new.orphan = NoRows
                    \/ new.bucket = NoRows /\ new.rows = NoRows /\ new.orphan = NoRows
  BY <1>3
<1>5. proc'[p] = new
  BY <1>4, StepTyped DEF IInv
<1>6. \A t : Apart(p, t) => Apart(p, t)'
  BY <1>1, <1>4, <1>5 DEF Apart
<1>7. new.bucket.trades \cup new.rows.trades \cup new.orphan.trades \subseteq Held(p)
  BY <1>1, <1>4 DEF Held
<1> QED BY <1>2, <1>4, <1>6, <1>7, MoveKeeps
-----------------------------------------------------------------------------
\* The inductive invariant of the seconds.
THEOREM SecondsInvariant == Spec => []IInv
<1>1. Init => IInv
  <2> SUFFICES ASSUME Init PROVE IInv
    OBVIOUS
  <2>1. \A p \in Processes : Held(p) = {} /\ \A t : Apart(p, t)
    BY DEF Init, Fresh, NoRows, Held, Apart
  <2>2. \A t \in Trades : row.count[t] = 0
    BY DEF Init
  <2> QED BY <2>1, <2>2, InitTyped DEF IInv, Once, Ahead
<1>2. IInv /\ [Next]_vars => IInv'
  <2> SUFFICES ASSUME IInv, [Next]_vars PROVE IInv'
    OBVIOUS
  <2>1. CASE Trade
    BY <2>1, TradeKeeps
  <2>2. ASSUME NEW p \in Processes,
               Acquire(p) \/ Signal(p) \/ LoseLock(p) \/ End(p)
        PROVE  IInv'
    BY <2>2, PhaseKeeps
  <2>3. ASSUME NEW p \in Processes, Commit(p) \/ OrphanCommits(p) PROVE IInv'
    BY <2>3, CommitsKeep
  <2>4. ASSUME NEW p \in Processes, Take(p) \/ Retire(p) \/ OrphanFails(p) \/ Crash(p) PROVE IInv'
    BY <2>4, MovesKeep
  <2>5. ASSUME NEW p \in Processes, FlushFails(p) PROVE IInv'
    BY <2>5, FlushFailsKeeps
  <2>6. ASSUME NEW p \in Processes, CommitUnheard(p) PROVE IInv'
    BY <2>6, UnheardKeeps
  <2>7. CASE UNCHANGED vars
    BY <2>7 DEF vars, history, IInv, Typed, Once, Apart, Ahead, Held, Trades
  <2> QED BY <2>1, <2>2, <2>3, <2>4, <2>5, <2>6, <2>7 DEF Next, Flush
<1> QED BY <1>1, <1>2, PTL DEF Spec

\* The processes that hold a trade in one place are none, or one.
LEMMA NoneOrOne ==
  ASSUME NEW S, \A p, q \in S : p = q
  PROVE  Cardinality(S) = IF S = {} THEN 0 ELSE 1
<1>1. CASE S = {}
  BY <1>1, FS_EmptySet
<1>2. CASE S # {}
  <2>1. PICK p \in S : S = {p}
    BY <1>2
  <2> QED BY <1>2, <2>1, FS_Singleton
<1> QED BY <1>1, <1>2

\* A trade is in one second's count, in one bucket, or in the rows of one flush, and
\* in one of these only, whatever flushes fail, are cancelled or are cut short by a
\* crash, unless two processes received it or a commit went unheard.
THEOREM TradesCountedOnce == Spec => []CountedOnce
<1>1. IInv => CountedOnce
  <2> SUFFICES ASSUME IInv, NEW t \in Trades \ (shared \cup again) PROVE Copies(t) <= 1
    BY DEF CountedOnce
  <2> DEFINE B == {p \in Processes : t \in proc[p].bucket.trades}
             R == {p \in Processes : t \in proc[p].rows.trades}
             O == {p \in Processes : t \in proc[p].orphan.trades}
  <2>1. Once(t)
    BY DEF IInv
  <2>2. \A p, q \in B \cup R \cup O : p = q
    BY <2>1 DEF Once, Held
  <2>3. \A p \in Processes : ~(p \in B /\ p \in R) /\ ~(p \in B /\ p \in O) /\ ~(p \in R /\ p \in O)
    BY <2>1 DEF Once, Apart
  <2>4. row.count[t] \in {0, 1} /\ (row.count[t] = 1 => B = {} /\ R = {} /\ O = {})
    BY <2>1 DEF Once, Held
  <2>5. (B = {} /\ R = {}) \/ (B = {} /\ O = {}) \/ (R = {} /\ O = {})
    <3>1. B = {} \/ R = {}
      BY <2>2, <2>3
    <3>2. B = {} \/ O = {}
      BY <2>2, <2>3
    <3>3. R = {} \/ O = {}
      BY <2>2, <2>3
    <3> QED BY <3>1, <3>2, <3>3
  <2>6. /\ Cardinality(B) = IF B = {} THEN 0 ELSE 1
        /\ Cardinality(R) = IF R = {} THEN 0 ELSE 1
        /\ Cardinality(O) = IF O = {} THEN 0 ELSE 1
    BY <2>2, NoneOrOne
  <2>7. Copies(t) = row.count[t] + Cardinality(B) + Cardinality(R) + Cardinality(O)
    BY DEF Copies
  <2> HIDE DEF B, R, O
  <2> QED BY <2>4, <2>5, <2>6, <2>7
<1> QED BY <1>1, SecondsInvariant, PTL
-----------------------------------------------------------------------------
\* A step of a process, by what it leaves there.
To(p, c, b, r, o) ==
  proc' = [proc EXCEPT ![p] = [pc |-> c, bucket |-> b, rows |-> r, orphan |-> o]]

\* The new record of a process, part by part.
LEMMA OneRecord ==
  ASSUME Typed, NEW p \in Processes, NEW c \in Flushing \cup {"waiting", "gone"},
         NEW b \in Rows, NEW r \in Rows, NEW o \in Rows, To(p, c, b, r, o)
  PROVE  /\ proc' \in [Processes -> Process]
         /\ proc'[p].pc = c /\ proc'[p].bucket = b /\ proc'[p].rows = r /\ proc'[p].orphan = o
         /\ \A q \in Processes \ {p} : proc'[q] = proc[q]
BY DEF Typed, To, Process

\* A process is the record of its parts.
LEMMA RecordOf ==
  ASSUME Typed, NEW p \in Processes
  PROVE  proc[p] = [pc |-> proc[p].pc, bucket |-> proc[p].bucket, rows |-> proc[p].rows,
                    orphan |-> proc[p].orphan]
BY DEF Typed, Process

\* Where each action of a process leaves its bucket, its rows and its orphan.
LEMMA WhatIsLeft ==
  ASSUME Typed, NEW p \in Processes
  PROVE  /\ Acquire(p) => To(p, "capturing", proc[p].bucket, proc[p].rows, proc[p].orphan)
         /\ Signal(p) => To(p, "stopping", proc[p].bucket, proc[p].rows, proc[p].orphan)
         /\ End(p) => To(p, "gone", proc[p].bucket, proc[p].rows, proc[p].orphan)
         /\ Take(p) => To(p, proc[p].pc, NoRows, proc[p].bucket, proc[p].orphan)
         /\ Commit(p) => To(p, proc[p].pc, proc[p].bucket, NoRows, proc[p].orphan)
         /\ OrphanCommits(p) => To(p, proc[p].pc, proc[p].bucket, proc[p].rows, NoRows)
         /\ OrphanFails(p) => To(p, proc[p].pc, proc[p].bucket, proc[p].rows, NoRows)
         /\ Retire(p) => To(p, "draining", proc[p].bucket, NoRows, proc[p].rows)
         /\ Crash(p) => To(p, "gone", NoRows, NoRows, NoRows)
         /\ Raise(p) => \/ proc[p].pc = "draining" /\ To(p, "gone", NoRows, NoRows, proc[p].orphan)
                        \/ /\ proc[p].pc # "draining"
                           /\ To(p, proc[p].pc, Restored(proc[p].bucket, proc[p].rows),
                                 NoRows, proc[p].orphan)
<1> DEFINE old == [pc |-> proc[p].pc, bucket |-> proc[p].bucket, rows |-> proc[p].rows,
                   orphan |-> proc[p].orphan]
<1>1. proc[p] = old
  BY RecordOf
<1>2. Acquire(p) => To(p, "capturing", proc[p].bucket, proc[p].rows, proc[p].orphan)
  BY <1>1 DEF Acquire, To, Typed
<1>3. Signal(p) => To(p, "stopping", proc[p].bucket, proc[p].rows, proc[p].orphan)
  BY <1>1 DEF Signal, To, Typed
<1>4. End(p) => To(p, "gone", proc[p].bucket, proc[p].rows, proc[p].orphan)
  BY <1>1 DEF End, To, Typed
<1>5. Take(p) => To(p, proc[p].pc, NoRows, proc[p].bucket, proc[p].orphan)
  BY <1>1 DEF Take, To, Typed
<1>6. Commit(p) => To(p, proc[p].pc, proc[p].bucket, NoRows, proc[p].orphan)
  BY <1>1 DEF Commit, To, Typed
<1>7. OrphanCommits(p) => To(p, proc[p].pc, proc[p].bucket, proc[p].rows, NoRows)
  BY <1>1 DEF OrphanCommits, To, Typed
<1>8. OrphanFails(p) => To(p, proc[p].pc, proc[p].bucket, proc[p].rows, NoRows)
  BY <1>1 DEF OrphanFails, To, Typed
<1>9. Retire(p) => To(p, "draining", proc[p].bucket, NoRows, proc[p].rows)
  BY <1>1 DEF Retire, To, Typed
<1>10. Crash(p) => To(p, "gone", NoRows, NoRows, NoRows)
  BY DEF Crash, Fresh, To
<1>11. Raise(p) /\ proc[p].pc = "draining" => To(p, "gone", NoRows, NoRows, proc[p].orphan)
  BY <1>1 DEF Raise, To, Typed
<1>12. Raise(p) /\ proc[p].pc # "draining" =>
         To(p, proc[p].pc, Restored(proc[p].bucket, proc[p].rows), NoRows, proc[p].orphan)
  BY <1>1 DEF Raise, To, Typed
<1> QED BY <1>2, <1>3, <1>4, <1>5, <1>6, <1>7, <1>8, <1>9, <1>10, <1>11, <1>12

\* What a process holds, some process received.
SecondsTyped == TypeOK /\ \A p \in Processes : Held(p) \subseteq captured

ProcTyped ==
  /\ proc \in [Processes -> [pc : Flushing \cup {"waiting", "gone"},
                             bucket : Rows, rows : Rows, orphan : Rows]]
  /\ \A p \in Processes : proc[p].pc \in {"waiting", "gone"} =>
                            proc[p].bucket = NoRows /\ proc[p].rows = NoRows
  /\ \A p \in Processes : Held(p) \subseteq captured

\* The invariant's typing is in the type invariant.
LEMMA TypedOfType == TypeOK => Typed
BY DEF TypeOK, Typed, Process

\* A process whose new rows hold nothing but what it has received stays well typed.
LEMMA ProcKeeps ==
  ASSUME SecondsTyped, NEW p \in Processes, NEW c \in Flushing \cup {"waiting", "gone"},
         NEW b \in Rows, NEW r \in Rows, NEW o \in Rows, To(p, c, b, r, o),
         c \in {"waiting", "gone"} => b = NoRows /\ r = NoRows,
         b.trades \cup r.trades \cup o.trades \subseteq Held(p),
         captured' = captured
  PROVE  ProcTyped'
<1>1. /\ proc' \in [Processes -> Process]
      /\ proc'[p].pc = c /\ proc'[p].bucket = b /\ proc'[p].rows = r /\ proc'[p].orphan = o
      /\ \A q \in Processes \ {p} : proc'[q] = proc[q]
  BY OneRecord, TypedOfType DEF SecondsTyped
<1>2. \A q \in Processes : proc'[q].pc \in {"waiting", "gone"} =>
                            proc'[q].bucket = NoRows /\ proc'[q].rows = NoRows
  BY <1>1 DEF SecondsTyped, TypeOK
<1>3. \A q \in Processes : Held(q)' \subseteq Held(q)
  BY <1>1 DEF Held
<1> QED BY <1>1, <1>2, <1>3 DEF SecondsTyped, ProcTyped, Process

OfProcess(p) ==
  \/ Acquire(p) \/ Signal(p) \/ Flush(p)
  \/ FlushFails(p) \/ CommitUnheard(p) \/ OrphanFails(p) \/ Crash(p) \/ LoseLock(p)

\* Rows put back into a bucket: all trades, and the price of what came later.
LEMMA RestoredTyped ==
  ASSUME NEW bucket \in Rows, NEW rows \in Rows
  PROVE  /\ Restored(bucket, rows) \in Rows
         /\ Restored(bucket, rows).trades = bucket.trades \cup rows.trades
         /\ Restored(bucket, rows).last = IF bucket.last # 0 THEN bucket.last ELSE rows.last
BY DEF Restored, Rows

\* Rows added to the stored second: each trade once more, and their price if they have
\* one.
LEMMA AddedTyped ==
  ASSUME Typed, NEW rows \in Rows
  PROVE  /\ Added(rows) \in [count : [Trades -> Nat], last : 0..MaxTrades]
         /\ \A t \in Trades : Added(rows).count[t] = row.count[t] + IF t \in rows.trades THEN 1 ELSE 0
         /\ Added(rows).last = IF rows.last # 0 THEN rows.last ELSE row.last
BY DEF Typed, Added, Rows

\* The table of processes stays well typed under every action of a process.
LEMMA ProcessProcTyped ==
  ASSUME SecondsTyped, NEW p \in Processes, OfProcess(p)
  PROVE  ProcTyped'
<1>1. Typed /\ TypeOK
  BY TypedOfType DEF SecondsTyped
<1>2. /\ proc[p] \in Process /\ NoRows \in Rows /\ NoRows.trades = {}
      /\ proc[p].bucket \in Rows /\ proc[p].rows \in Rows /\ proc[p].orphan \in Rows
      /\ proc[p].pc \in Flushing \cup {"waiting", "gone"}
      /\ proc[p].bucket.trades \cup proc[p].rows.trades \cup proc[p].orphan.trades = Held(p)
  BY <1>1, Parts, RowsTyped DEF Process, NoRows, Held
<1>3. proc[p].pc \in {"waiting", "gone"} => proc[p].bucket = NoRows /\ proc[p].rows = NoRows
  BY <1>1 DEF TypeOK
<1>4. captured' = captured
  BY DEF OfProcess, Acquire, Signal, Flush, Take, Commit, OrphanCommits, Retire, End,
         FlushFails, CommitUnheard, OrphanFails, Crash, LoseLock, history
<1>5. CASE Acquire(p) \/ Signal(p)
  BY <1>1, <1>2, <1>4, <1>5, ProcKeeps, WhatIsLeft DEF Flushing
<1>6. CASE End(p)
  BY <1>1, <1>2, <1>4, <1>6, ProcKeeps, WhatIsLeft DEF End
<1>7. CASE Take(p) \/ Commit(p)
  BY <1>1, <1>2, <1>3, <1>4, <1>7, ProcKeeps, WhatIsLeft DEF Take, Commit, Flushing
<1>8. CASE OrphanCommits(p) \/ OrphanFails(p)
  BY <1>1, <1>2, <1>3, <1>4, <1>8, ProcKeeps, WhatIsLeft
<1>9. CASE Retire(p) \/ Crash(p)
  BY <1>1, <1>2, <1>4, <1>9, ProcKeeps, WhatIsLeft DEF Flushing
<1>10. CASE FlushFails(p) \/ CommitUnheard(p)
  <2>1. Raise(p) /\ proc[p].rows # NoRows
    BY <1>10 DEF FlushFails, CommitUnheard
  <2>2. CASE proc[p].pc = "draining" /\ To(p, "gone", NoRows, NoRows, proc[p].orphan)
    BY <1>2, <1>4, <2>2, ProcKeeps
  <2>3. CASE To(p, proc[p].pc, Restored(proc[p].bucket, proc[p].rows), NoRows, proc[p].orphan)
    BY <1>2, <1>3, <1>4, <2>1, <2>3, ProcKeeps, RestoredTyped
  <2> QED BY <1>1, <2>1, <2>2, <2>3, WhatIsLeft
<1>11. CASE LoseLock(p)
  <2>1. proc' = proc
    BY <1>11 DEF LoseLock
  <2> QED BY <1>1, <1>4, <2>1 DEF ProcTyped, SecondsTyped, TypeOK, Held
<1> QED BY <1>5, <1>6, <1>7, <1>8, <1>9, <1>10, <1>11 DEF OfProcess, Flush

\* So does everything else.
LEMMA ProcessTyped ==
  ASSUME SecondsTyped, NEW p \in Processes, OfProcess(p)
  PROVE  SecondsTyped'
<1>1. ProcTyped'
  BY ProcessProcTyped
<1>2. /\ proc[p].bucket \in Rows /\ proc[p].rows \in Rows /\ proc[p].orphan \in Rows
      /\ Held(p) \subseteq captured /\ Typed /\ TypeOK
      /\ proc[p].bucket.trades \cup proc[p].rows.trades \cup proc[p].orphan.trades = Held(p)
  BY TypedOfType, Parts DEF SecondsTyped, Held
<1>3. emitted' = emitted /\ captured' = captured /\ shared' = shared
  BY DEF OfProcess, Acquire, Signal, Flush, Take, Commit, OrphanCommits, Retire, End,
         FlushFails, CommitUnheard, OrphanFails, Crash, LoseLock, history
<1>4. lock' \in Processes \cup {None}
  BY <1>2 DEF TypeOK, OfProcess, Acquire, Signal, Flush, Take, Commit, OrphanCommits, Retire, End,
         FlushFails, CommitUnheard, OrphanFails, Crash, LoseLock, Released
<1>5. row' \in [count : [Trades -> Nat], last : 0..MaxTrades]
  <2>1. row' \in {row, Added(proc[p].rows), Added(proc[p].orphan)}
    BY DEF OfProcess, Acquire, Signal, Flush, Take, Commit, OrphanCommits, Retire, End,
         FlushFails, CommitUnheard, OrphanFails, Crash, LoseLock
  <2> QED BY <1>2, <2>1, AddedTyped DEF Typed
<1>6. again' \subseteq captured'
  <2>1. again' \in {again, again \cup proc[p].rows.trades}
    BY DEF OfProcess, Acquire, Signal, Flush, Take, Commit, OrphanCommits, Retire, End,
         FlushFails, CommitUnheard, OrphanFails, Crash, LoseLock, history
  <2> QED BY <1>2, <1>3, <2>1 DEF TypeOK
<1>7. lost' \subseteq captured'
  <2>1. lost' \subseteq lost \cup Held(p)
    BY DEF OfProcess, Acquire, Signal, Flush, Take, Commit, OrphanCommits, Retire, End,
         FlushFails, CommitUnheard, OrphanFails, Crash, LoseLock, history, Raise, Held
  <2> QED BY <1>2, <1>3, <2>1 DEF TypeOK
<1>8. together' \in BOOLEAN
  BY <1>2 DEF TypeOK, OfProcess, Acquire, Signal, Flush, Take, Commit, OrphanCommits, Retire, End,
         FlushFails, CommitUnheard, OrphanFails, Crash, LoseLock, history
<1>9. disturbances' \in 0..MaxDisturbances
  BY <1>2, CollectorAssumption DEF TypeOK, OfProcess, Acquire, Signal, Flush, Take, Commit,
         OrphanCommits, Retire, End, FlushFails, CommitUnheard, OrphanFails, Crash, LoseLock, Disturb
<1> QED BY <1>1, <1>2, <1>3, <1>4, <1>5, <1>6, <1>7, <1>8, <1>9
        DEF ProcTyped, SecondsTyped, TypeOK, Trades, Rows

\* What a trade does to the processes.
LEMMA TradeReceived ==
  ASSUME Typed, Trade
  PROVE  /\ emitted' = emitted + 1 /\ emitted' \in Trades
         /\ proc' \in [Processes -> Process]
         /\ \A p \in Processes :
              /\ p \in Capturing =>
                   /\ proc'[p].bucket.trades = proc[p].bucket.trades \cup {emitted'} /\ proc'[p].bucket.last = emitted'
                   /\ proc'[p].pc = proc[p].pc /\ proc'[p].rows = proc[p].rows
                   /\ proc'[p].orphan = proc[p].orphan
              /\ p \notin Capturing => proc'[p] = proc[p]
<1>1. emitted' = emitted + 1 /\ emitted' \in Trades /\ emitted' \in 0..MaxTrades
  BY CollectorAssumption DEF Typed, Trade, Trades
<1>2. proc' = [p \in Processes |->
                   IF p \in Capturing
                   THEN [proc[p] EXCEPT !.bucket = [trades |-> @.trades \cup {emitted'}, last |-> emitted']]
                   ELSE proc[p]]
  BY DEF Trade
<1>3. ASSUME NEW p \in Processes, p \in Capturing
      PROVE  /\ proc'[p] \in Process
             /\ proc'[p].bucket.trades = proc[p].bucket.trades \cup {emitted'} /\ proc'[p].bucket.last = emitted'
             /\ proc'[p].pc = proc[p].pc /\ proc'[p].rows = proc[p].rows
             /\ proc'[p].orphan = proc[p].orphan
  <2>1. proc[p] \in Process /\ proc[p].bucket \in Rows
    BY DEF Typed, Process
  <2>2. [trades |-> proc[p].bucket.trades \cup {emitted'}, last |-> emitted'] \in Rows
    BY <1>1, <2>1 DEF Rows
  <2>3. proc'[p] = [proc[p] EXCEPT !.bucket = [trades |-> proc[p].bucket.trades \cup {emitted'}, last |-> emitted']]
    BY <1>2, <1>3
  <2> DEFINE b == [trades |-> proc[p].bucket.trades \cup {emitted'}, last |-> emitted']
  <2>4. b.trades = proc[p].bucket.trades \cup {emitted'} /\ b.last = emitted'
    OBVIOUS
  <2> HIDE DEF b
  <2>5. /\ proc'[p] \in Process /\ proc'[p].bucket = b
        /\ proc'[p].pc = proc[p].pc /\ proc'[p].rows = proc[p].rows
        /\ proc'[p].orphan = proc[p].orphan
    BY <2>1, <2>2, <2>3 DEF Process, b
  <2> QED BY <2>4, <2>5
<1>4. ASSUME NEW p \in Processes, p \notin Capturing PROVE proc'[p] = proc[p] /\ proc'[p] \in Process
  BY <1>2, <1>4 DEF Typed
<1> QED BY <1>1, <1>2, <1>3, <1>4

\* A trade that is received keeps the types.
LEMMA TradeTyped == ASSUME SecondsTyped, Trade PROVE SecondsTyped'
<1>1. Typed /\ TypeOK
  BY TypedOfType DEF SecondsTyped
<1>2. /\ emitted' = emitted + 1 /\ emitted' \in Trades
      /\ proc' \in [Processes -> Process]
      /\ \A p \in Processes :
           /\ p \in Capturing =>
                /\ proc'[p].bucket.trades = proc[p].bucket.trades \cup {emitted'} /\ proc'[p].bucket.last = emitted'
                /\ proc'[p].pc = proc[p].pc /\ proc'[p].rows = proc[p].rows
                /\ proc'[p].orphan = proc[p].orphan
           /\ p \notin Capturing => proc'[p] = proc[p]
  BY <1>1, TradeReceived
<1>3. /\ captured' = IF Capturing # {} THEN captured \cup {emitted'} ELSE captured
      /\ shared' \in {shared, shared \cup {emitted'}}
      /\ shared' # shared => Capturing # {}
      /\ UNCHANGED <<lock, row, again, lost, together, disturbances>>
  <2>1. Capturing = {} => ~(Cardinality(Capturing) > 1)
    BY FS_EmptySet
  <2> QED BY <1>2, <2>1 DEF Trade
<1>4. \A p \in Processes : Held(p)' \subseteq captured'
  <2> SUFFICES ASSUME NEW p \in Processes PROVE Held(p)' \subseteq captured'
    OBVIOUS
  <2>1. CASE p \in Capturing
    <3>1. captured' = captured \cup {emitted'}
      BY <1>3, <2>1
    <3>2. Held(p)' = Held(p) \cup {emitted'}
      <4>1. /\ proc'[p].bucket.trades = proc[p].bucket.trades \cup {emitted'}
            /\ proc'[p].rows = proc[p].rows /\ proc'[p].orphan = proc[p].orphan
        BY <1>2, <2>1
      <4> QED BY <4>1 DEF Held
    <3> QED BY <3>1, <3>2 DEF SecondsTyped
  <2>2. CASE p \notin Capturing
    BY <1>2, <1>3, <2>2 DEF SecondsTyped, Held
  <2> QED BY <2>1, <2>2
<1>5. \A p \in Processes : proc'[p].pc \in {"waiting", "gone"} =>
                             proc'[p].bucket = NoRows /\ proc'[p].rows = NoRows
  BY <1>1, <1>2 DEF TypeOK, Capturing
<1>6. captured' \subseteq Trades /\ shared' \subseteq captured'
  BY <1>1, <1>2, <1>3 DEF TypeOK
<1>7. again' \subseteq captured' /\ lost' \subseteq captured'
  BY <1>1, <1>3 DEF TypeOK
<1>8. emitted' \in 0..MaxTrades
  BY <1>2 DEF Trades
<1> QED BY <1>1, <1>2, <1>3, <1>4, <1>5, <1>6, <1>7, <1>8 DEF SecondsTyped, TypeOK, Process, Trades, Rows

\* Every step keeps the types.
LEMMA SecondsTypedStep == ASSUME SecondsTyped, [Next]_vars PROVE SecondsTyped'
<1>1. CASE UNCHANGED vars
  BY <1>1 DEF vars, history, SecondsTyped, TypeOK, Held, Trades, Rows
<1> QED BY <1>1, TradeTyped, ProcessTyped DEF Next, OfProcess

\* The types hold at the start.
LEMMA SecondsTypedInit == Init => SecondsTyped
<1> SUFFICES ASSUME Init PROVE SecondsTyped
  OBVIOUS
<1>1. Typed /\ \A p \in Processes : proc[p] = Fresh
  BY InitTyped DEF Init
<1>2. \A p \in Processes : Held(p) = {} /\ proc[p].bucket = NoRows /\ proc[p].rows = NoRows
  BY <1>1 DEF Held, Fresh, NoRows
<1>3. disturbances \in 0..MaxDisturbances /\ lock \in Processes \cup {None} /\ together \in BOOLEAN
  <2>1. disturbances \in 0..MaxDisturbances
    BY CollectorAssumption DEF Init
  <2>2. together \in BOOLEAN /\ lock \in Processes \cup {None}
    BY DEF Init
  <2> QED BY <2>1, <2>2
<1>4. captured \subseteq Trades /\ shared \subseteq captured /\ again \subseteq captured /\ lost \subseteq captured
  BY DEF Init
<1> QED BY <1>1, <1>2, <1>3, <1>4 DEF SecondsTyped, TypeOK, Typed, Process
-----------------------------------------------------------------------------
\* Who has begun to end.
Ending == \E p \in Processes : proc[p].pc \in {"draining", "gone"}

\* Nothing in these rows is newer than their price, which is as new as any stored.
Covers(rows) ==
  rows = NoRows \/ (rows.last # 0 /\ row.last <= rows.last /\ \A t \in rows.trades : t <= rows.last)

\* One process at a time, whose flushes write its seconds in the order of their trades.
Ordered ==
  /\ \A p, q \in Processes : proc[p].pc \in Flushing /\ proc[q].pc \in Flushing => p = q
  /\ row.last <= emitted
  /\ \A t \in Trades : row.count[t] > 0 => t <= row.last
  /\ \A p \in Processes :
       /\ proc[p].orphan = NoRows
       /\ Covers(proc[p].bucket) /\ Covers(proc[p].rows)
       /\ proc[p].bucket.last <= emitted /\ proc[p].rows.last <= emitted
       /\ proc[p].bucket # NoRows => proc[p].rows.last <= proc[p].bucket.last

\* The inductive invariant.
PricesIInv == SecondsTyped /\ (together \/ Ending \/ Ordered)

\* Who has begun to end does not begin again.
LEMMA EndingStays == ASSUME SecondsTyped, [Next]_vars, Ending PROVE Ending'
<1> PICK p \in Processes : proc[p].pc \in {"draining", "gone"}
  BY DEF Ending
<1>0. Typed
  BY TypedOfType DEF SecondsTyped
<1>1. CASE Trade
  BY <1>0, <1>1, TradeReceived DEF Ending
<1>2. ASSUME NEW q \in Processes, OfProcess(q) PROVE Ending'
  <2>0. /\ proc[q].bucket \in Rows /\ proc[q].rows \in Rows /\ proc[q].orphan \in Rows /\ NoRows \in Rows
        /\ proc[q].pc \in Flushing \cup {"waiting", "gone"}
    BY <1>0, Parts, RowsTyped DEF Typed, Process
  <2>1. CASE \E c \in Flushing \cup {"waiting", "gone"}, b, r, o \in Rows :
               /\ To(q, c, b, r, o)
               /\ proc[q].pc \in {"draining", "gone"} => c \in {"draining", "gone"}
    BY <1>0, <2>1, OneRecord DEF Ending
  <2>2. CASE LoseLock(q)
    BY <2>2 DEF LoseLock, Ending
  <2>3. CASE Acquire(q) \/ Signal(q) \/ Take(q) \/ Commit(q)
    BY <1>0, <2>0, <2>1, <2>3, WhatIsLeft DEF Acquire, Signal, Flushing
  <2>4. CASE OrphanCommits(q) \/ OrphanFails(q) \/ Retire(q) \/ End(q) \/ Crash(q)
    BY <1>0, <2>0, <2>1, <2>4, WhatIsLeft DEF Flushing
  <2>5. CASE FlushFails(q) \/ CommitUnheard(q)
    <3>1. Restored(proc[q].bucket, proc[q].rows) \in Rows
      BY <2>0, RestoredTyped
    <3>2. Raise(q)
      BY <2>5 DEF FlushFails, CommitUnheard
    <3> QED BY <1>0, <2>0, <2>1, <3>1, <3>2, WhatIsLeft
  <2> QED BY <1>2, <2>2, <2>3, <2>4, <2>5 DEF OfProcess, Flush
<1>3. CASE UNCHANGED vars
  BY <1>3 DEF vars, Ending
<1> QED BY <1>1, <1>2, <1>3 DEF Next, OfProcess

\* Empty rows have no price and cover nothing.
LEMMA NothingLast == NoRows.last = 0 /\ NoRows.trades = {} /\ Covers(NoRows)
BY DEF NoRows, Covers

\* Whoever writes to the row does so alone.
LEMMA Alone ==
  ASSUME SecondsTyped, Ordered, ~Ending, NEW p \in Processes, proc[p].pc \in Flushing
  PROVE  \A q \in Processes \ {p} :
           proc[q].pc = "waiting" /\ proc[q].bucket = NoRows /\ proc[q].rows = NoRows
BY DEF SecondsTyped, TypeOK, Ordered, Ending

\* A process that flushes goes on to flush, with its prices in order.
LEMMA OrderedMove ==
  ASSUME SecondsTyped, Ordered, ~Ending, NEW p \in Processes, proc[p].pc \in Flushing,
         NEW c \in Flushing, NEW b \in Rows, NEW r \in Rows, To(p, c, b, r, NoRows),
         emitted' = emitted,
         row' = row \/ (proc[p].rows # NoRows /\ row' = Added(proc[p].rows)),
         Covers(b)', Covers(r)', b.last <= emitted, r.last <= emitted,
         b # NoRows => r.last <= b.last
  PROVE  Ordered'
<1>0. Typed /\ NoRows \in Rows /\ proc[p].rows \in Rows
  BY TypedOfType, RowsTyped, Parts DEF SecondsTyped
<1>1. /\ proc' \in [Processes -> Process]
      /\ proc'[p].pc = c /\ proc'[p].bucket = b /\ proc'[p].rows = r /\ proc'[p].orphan = NoRows
      /\ \A q \in Processes \ {p} : proc'[q] = proc[q]
  BY <1>0, OneRecord
<1>2. \A q \in Processes \ {p} :
        /\ proc'[q].pc = "waiting" /\ proc'[q].bucket = NoRows /\ proc'[q].rows = NoRows
        /\ proc'[q].orphan = NoRows
  BY <1>1, Alone DEF Ordered
<1>3. row'.last <= emitted' /\ \A t \in Trades : row'.count[t] > 0 => t <= row'.last
  <2>1. CASE row' = row
    BY <2>1 DEF Ordered
  <2>2. CASE proc[p].rows # NoRows /\ row' = Added(proc[p].rows)
    <3>1. /\ proc[p].rows.last # 0 /\ row.last <= proc[p].rows.last /\ proc[p].rows.last <= emitted
          /\ \A t \in proc[p].rows.trades : t <= proc[p].rows.last
      BY <2>2 DEF Ordered, Covers
    <3>2. row'.last = proc[p].rows.last
      BY <1>0, <2>2, <3>1, AddedTyped
    <3>3. ASSUME NEW t \in Trades, row'.count[t] > 0 PROVE t <= row'.last
      <4>1. CASE t \in proc[p].rows.trades
        BY <3>1, <3>2, <4>1
      <4>2. CASE t \notin proc[p].rows.trades
        <5>1. row.count[t] > 0 /\ t <= row.last
          BY <1>0, <2>2, <3>3, <4>2, AddedTyped DEF Typed, Ordered
        <5> QED BY <1>0, <3>1, <3>2, <5>1 DEF Typed, Rows, Trades
      <4> QED BY <4>1, <4>2
    <3> QED BY <3>1, <3>2, <3>3
  <2> QED BY <2>1, <2>2
<1>4. \A q, s \in Processes : proc'[q].pc \in Flushing /\ proc'[s].pc \in Flushing => q = s
  BY <1>2 DEF Flushing
<1>5. \A q \in Processes :
       /\ proc'[q].orphan = NoRows
       /\ Covers(proc[q].bucket)' /\ Covers(proc[q].rows)'
       /\ proc'[q].bucket.last <= emitted' /\ proc'[q].rows.last <= emitted'
       /\ proc'[q].bucket # NoRows => proc'[q].rows.last <= proc'[q].bucket.last
  <2> SUFFICES ASSUME NEW q \in Processes
               PROVE  /\ proc'[q].orphan = NoRows
                      /\ Covers(proc[q].bucket)' /\ Covers(proc[q].rows)'
                      /\ proc'[q].bucket.last <= emitted' /\ proc'[q].rows.last <= emitted'
                      /\ proc'[q].bucket # NoRows => proc'[q].rows.last <= proc'[q].bucket.last
    OBVIOUS
  <2>1. CASE q = p
    BY <1>1, <2>1 DEF Covers
  <2>2. CASE q # p
    BY <1>0, <1>2, <2>2, NothingLast DEF Typed, Covers
  <2> QED BY <2>1, <2>2
<1> QED BY <1>3, <1>4, <1>5 DEF Ordered

\* The places of a process stay in order while one process at a time writes the second.
LEMMA OrderedStep ==
  ASSUME SecondsTyped, Ordered, ~Ending, [Next]_vars, ~together', ~Ending'
  PROVE  Ordered'
<1>0. Typed /\ TypeOK /\ NoRows \in Rows
  BY TypedOfType, RowsTyped DEF SecondsTyped
<1>1. CASE Trade
  <2>1. /\ emitted' = emitted + 1 /\ emitted' \in Trades /\ row' = row
        /\ proc' \in [Processes -> Process]
        /\ \A p \in Processes :
             /\ p \in Capturing =>
                  /\ proc'[p].bucket.trades = proc[p].bucket.trades \cup {emitted'} /\ proc'[p].bucket.last = emitted'
                  /\ proc'[p].pc = proc[p].pc /\ proc'[p].rows = proc[p].rows
                  /\ proc'[p].orphan = proc[p].orphan
             /\ p \notin Capturing => proc'[p] = proc[p]
    BY <1>0, <1>1, TradeReceived DEF Trade
  <2>2. emitted \in Nat /\ emitted' \in Nat /\ emitted < emitted' /\ emitted' # 0 /\ row'.last <= emitted'
    BY <1>0, <2>1 DEF Typed, Ordered
  <2>3. ASSUME NEW p \in Processes
        PROVE  /\ proc'[p].pc = proc[p].pc
               /\ proc'[p].orphan = NoRows
               /\ Covers(proc[p].bucket)' /\ Covers(proc[p].rows)'
               /\ proc'[p].bucket.last <= emitted' /\ proc'[p].rows.last <= emitted'
               /\ proc'[p].bucket # NoRows => proc'[p].rows.last <= proc'[p].bucket.last
    <3>0. /\ proc[p].orphan = NoRows /\ proc[p].bucket \in Rows /\ proc[p].rows \in Rows
          /\ Covers(proc[p].bucket) /\ Covers(proc[p].rows)
          /\ proc[p].bucket.last <= emitted /\ proc[p].rows.last <= emitted
          /\ proc[p].bucket # NoRows => proc[p].rows.last <= proc[p].bucket.last
      BY <1>0, Parts DEF Ordered
    <3>1. CASE p \notin Capturing
      <4>1. proc'[p] = proc[p]
        BY <2>1, <3>1
      <4>2. proc[p].bucket.last <= emitted' /\ proc[p].rows.last <= emitted'
        BY <2>2, <3>0 DEF Rows
      <4> QED BY <2>1, <3>0, <4>1, <4>2 DEF Covers
    <3>2. CASE p \in Capturing
      <4>1. /\ proc'[p].bucket.trades = proc[p].bucket.trades \cup {emitted'} /\ proc'[p].bucket.last = emitted'
            /\ proc'[p].pc = proc[p].pc /\ proc'[p].rows = proc[p].rows
            /\ proc'[p].orphan = proc[p].orphan
        BY <2>1, <3>2
      <4>2. \A t \in proc[p].bucket.trades : t <= emitted'
        BY <2>2, <3>0, NothingLast DEF Covers, Rows, Trades
      <4>3. proc[p].rows.last <= emitted'
        BY <2>2, <3>0 DEF Rows
      <4>4. Covers(proc[p].rows)'
        BY <2>1, <3>0, <4>1 DEF Covers
      <4> QED BY <2>1, <2>2, <3>0, <4>1, <4>2, <4>3, <4>4 DEF Covers
    <3> QED BY <3>1, <3>2
  <2> QED BY <2>1, <2>2, <2>3 DEF Ordered, Trades
<1>2. ASSUME NEW p \in Processes, OfProcess(p) PROVE Ordered'
  <2>0. /\ proc[p].bucket \in Rows /\ proc[p].rows \in Rows /\ proc[p].orphan = NoRows
        /\ proc[p].pc \in Flushing \cup {"waiting", "gone"}
        /\ Covers(proc[p].bucket) /\ Covers(proc[p].rows)
        /\ proc[p].bucket.last <= emitted /\ proc[p].rows.last <= emitted
        /\ proc[p].bucket # NoRows => proc[p].rows.last <= proc[p].bucket.last
        /\ emitted \in Nat
    BY <1>0, Parts DEF Typed, Process, Ordered
  <2>1. proc[p].rows # NoRows \/ proc[p].bucket # NoRows => proc[p].pc \in Flushing
    BY <1>0, <2>0 DEF TypeOK
  <2>2. CASE Acquire(p)
    <3>1. /\ proc[p].pc = "waiting" /\ To(p, "capturing", NoRows, NoRows, NoRows)
          /\ emitted' = emitted /\ row' = row /\ \A q \in Processes : proc[q].pc \notin Flushing
      BY <1>0, <2>0, <2>1, <2>2, WhatIsLeft DEF Acquire, Flushing
    <3>2. /\ proc'[p].pc = "capturing" /\ proc'[p].bucket = NoRows /\ proc'[p].rows = NoRows
          /\ proc'[p].orphan = NoRows
          /\ \A q \in Processes \ {p} : proc'[q] = proc[q]
      BY <1>0, <3>1, OneRecord DEF Flushing
    <3> QED BY <2>0, <3>1, <3>2, NothingLast DEF Ordered, Covers
  <2>3. CASE Signal(p)
    BY <1>0, <2>0, <2>3, WhatIsLeft, OrderedMove DEF Signal, Flushing, Covers
  <2>4. CASE Take(p)
    BY <1>0, <2>0, <2>4, WhatIsLeft, OrderedMove, NothingLast DEF Take, history, Covers
  <2>5. CASE Commit(p)
    <3>1. /\ proc[p].rows # NoRows /\ row' = Added(proc[p].rows) /\ emitted' = emitted
          /\ To(p, proc[p].pc, proc[p].bucket, NoRows, NoRows) /\ proc[p].pc \in Flushing
      BY <1>0, <2>0, <2>1, <2>5, WhatIsLeft DEF Commit, history
    <3>2. row'.last = proc[p].rows.last
      BY <1>0, <2>0, <3>1, AddedTyped DEF Covers
    <3>3. Covers(proc[p].bucket) /\ (proc[p].bucket # NoRows => proc[p].rows.last <= proc[p].bucket.last)
      BY <2>0
    <3> DEFINE b == proc[p].bucket
               c == proc[p].pc
    <3>4. b = NoRows \/ (b.last # 0 /\ row'.last <= b.last /\ \A t \in b.trades : t <= b.last)
      BY <3>2, <3>3 DEF Covers
    <3>5. \E e \in Rows, d \in Flushing :
            /\ To(p, d, e, NoRows, NoRows) /\ Covers(e)' /\ e.last <= emitted
            /\ e # NoRows => NoRows.last <= e.last
      <4>1. NoRows.last <= b.last
        BY <2>0, NothingLast DEF Rows
      <4> QED BY <2>0, <3>1, <3>4, <4>1 DEF Covers
    <3>6. NoRows.last <= emitted /\ Covers(NoRows)'
      BY <2>0, NothingLast DEF Covers
    <3> QED BY <1>0, <3>1, <3>5, <3>6, OrderedMove
  <2>6. CASE FlushFails(p) \/ CommitUnheard(p)
    <3> DEFINE both == Restored(proc[p].bucket, proc[p].rows)
    <3>1. /\ proc[p].rows # NoRows /\ emitted' = emitted /\ proc[p].pc \in Flushing
          /\ row' \in {row, Added(proc[p].rows)} /\ Raise(p)
      BY <2>1, <2>6 DEF FlushFails, CommitUnheard
    <3>2. To(p, proc[p].pc, both, NoRows, NoRows) /\ both \in Rows
      BY <1>0, <2>0, <2>6, WhatIsLeft, RestoredTyped DEF Ending, FlushFails, CommitUnheard
    <3>3. /\ both.trades = proc[p].bucket.trades \cup proc[p].rows.trades
          /\ both.last = IF proc[p].bucket.last # 0 THEN proc[p].bucket.last ELSE proc[p].rows.last
      BY <2>0, RestoredTyped
    <3>4. row'.last = row.last \/ row'.last = proc[p].rows.last
      BY <1>0, <2>0, <3>1, AddedTyped DEF Covers
    <3>5. /\ both.last # 0 /\ row'.last <= both.last /\ both.last <= emitted
          /\ \A t \in both.trades : t <= both.last
      <4>1. /\ proc[p].rows.last # 0 /\ row.last <= proc[p].rows.last
            /\ \A t \in proc[p].rows.trades : t <= proc[p].rows.last
        BY <2>0, <3>1 DEF Covers
      <4>2. CASE proc[p].bucket = NoRows
        BY <2>0, <3>3, <3>4, <4>1, <4>2, NothingLast DEF Rows
      <4>3. CASE proc[p].bucket # NoRows
        <5>1. /\ proc[p].bucket.last # 0 /\ row.last <= proc[p].bucket.last
              /\ \A t \in proc[p].bucket.trades : t <= proc[p].bucket.last
              /\ proc[p].rows.last <= proc[p].bucket.last
          BY <2>0, <4>3 DEF Covers
        <5>2. both.last = proc[p].bucket.last
          BY <3>3, <5>1
        <5> QED BY <2>0, <3>3, <3>4, <4>1, <5>1, <5>2 DEF Rows, Trades
      <4> QED BY <4>2, <4>3
    <3> HIDE DEF both
    <3>6. \E e \in Rows, d \in Flushing :
            /\ To(p, d, e, NoRows, NoRows) /\ Covers(e)' /\ e.last <= emitted
            /\ e # NoRows => NoRows.last <= e.last
      <4>1. NoRows.last <= both.last
        BY <3>2, NothingLast DEF Rows
      <4> QED BY <3>1, <3>2, <3>5, <4>1 DEF Covers
    <3>7. NoRows.last <= emitted /\ Covers(NoRows)'
      BY <2>0, NothingLast DEF Covers
    <3> QED BY <1>0, <3>1, <3>6, <3>7, OrderedMove
  <2>7. CASE Retire(p) \/ Crash(p)
    <3>1. proc'[p].pc \in {"draining", "gone"}
      BY <1>0, <2>0, <2>7, WhatIsLeft, OneRecord DEF Flushing
    <3> QED BY <3>1 DEF Ending
  <2>8. CASE LoseLock(p)
    BY <2>8 DEF LoseLock, history, Ordered, Covers
  <2>9. ~End(p) /\ ~OrphanCommits(p) /\ ~OrphanFails(p)
    BY <2>0 DEF End, OrphanCommits, OrphanFails, Ending
  <2> QED BY <1>2, <2>2, <2>3, <2>4, <2>5, <2>6, <2>7, <2>8, <2>9 DEF OfProcess, Flush
<1>3. CASE UNCHANGED vars
  BY <1>3 DEF vars, Ordered, Covers, Trades
<1> QED BY <1>1, <1>2, <1>3 DEF Next, OfProcess

\* The invariant of the prices holds at the start.
LEMMA PricesInit == Init => PricesIInv
<1> SUFFICES ASSUME Init PROVE PricesIInv
  OBVIOUS
<1>1. \A p \in Processes : proc[p] = Fresh
  BY DEF Init
<1>2. Ordered
  <2>1. \A p \in Processes :
          /\ proc[p].pc \notin Flushing /\ proc[p].orphan = NoRows
          /\ proc[p].bucket = NoRows /\ proc[p].rows = NoRows
    BY <1>1 DEF Fresh, Flushing
  <2>2. emitted = 0 /\ row.last = 0 /\ \A t \in Trades : row.count[t] = 0
    BY DEF Init
  <2> QED BY <2>1, <2>2, NothingLast DEF Ordered
<1> QED BY <1>2, SecondsTypedInit DEF PricesIInv

\* A process that takes the lock too early is not forgotten.
LEMMA TogetherStays == ASSUME [Next]_vars, together PROVE together'
BY DEF Next, Trade, Acquire, Signal, Flush, Take, Commit, OrphanCommits, Retire, End, FlushFails,
       CommitUnheard, OrphanFails, Crash, LoseLock, vars, history

\* Every step keeps the invariant of the prices.
LEMMA PricesStep == ASSUME PricesIInv, [Next]_vars PROVE PricesIInv'
<1>1. SecondsTyped'
  BY SecondsTypedStep DEF PricesIInv
<1>2. together' \/ Ending' \/ Ordered'
  BY TogetherStays, EndingStays, OrderedStep DEF PricesIInv
<1> QED BY <1>1, <1>2 DEF PricesIInv

\* The stored prices of a second are those of its newest stored trade: a flush writes its
\* rows in the order in which they came, also when an earlier one has failed, unless
\* two deployments or a cancelled flush write beside it.
THEOREM NewestPrice == Spec => []NewestPriceStored
<1>1. PricesIInv => NewestPriceStored
  BY DEF PricesIInv, Ordered, Ending, NewestPriceStored
<1> QED BY <1>1, PricesInit, PricesStep, PTL DEF Spec
=============================================================================
