------------------------- MODULE PartitionQueueProofs -------------------------
(***************************************************************************)
(* What holds of PartitionQueue for any number of partitions, pages and    *)
(* workers, and any number of faults and operator commands.                *)
(***************************************************************************)
EXTENDS PartitionQueue, TLAPS

-------------------------------------------------------------------------------
(* The run status that refresh computes *)

\* refresh_collection_run_counts always writes a status of the CHECK constraint.
LEMMA RefreshedIsStatus ==
  ASSUME NEW s \in RunStatus, NEW isReady \in BOOLEAN,
         NEW active \in BOOLEAN, NEW failed \in BOOLEAN
  PROVE  RefreshedStatus(s, isReady, active, failed) \in RunStatus
  BY DEF RefreshedStatus, RunStatus, HeldRunStatus

\* It neither cancels a run nor takes a cancelled one out of that status.
LEMMA RefreshedKeepsCancelled ==
  ASSUME NEW s \in RunStatus, NEW isReady \in BOOLEAN,
         NEW active \in BOOLEAN, NEW failed \in BOOLEAN
  PROVE  RefreshedStatus(s, isReady, active, failed) = "cancelled" <=> s = "cancelled"
  BY DEF RefreshedStatus, RunStatus, HeldRunStatus

\* Both facts, for the refresh of this queue.
LEMMA RefreshedType ==
  ASSUME NEW s \in RunStatus, NEW stageNow, NEW rows
  PROVE  /\ Refreshed(s, stageNow, rows) \in RunStatus
         /\ Refreshed(s, stageNow, rows) = "cancelled" <=> s = "cancelled"
  BY RefreshedIsStatus, RefreshedKeepsCancelled DEF Refreshed

-------------------------------------------------------------------------------
(* The inductive invariant, one row and one worker at a time *)

\* What a row may say of partition p when the pages in S are durable.
RowOK(p, r, S) ==
  /\ r.cursor <= Pages[p]
  /\ \A m \in DataPages[p] : m <= r.cursor => m \in S
  /\ r.status \in CollectedStatus => DataPages[p] \subseteq S
  /\ r.status = "completed" => S # {}
  /\ r.counted => S # {}
  /\ r.status = "running" <=> r.owner # None

\* What a worker may carry.  The last clause is what completion needs and no
\* property says: a worker that leaves the page loop has nothing left to store.
JobOK(j) ==
  j.pc # "idle" =>
    /\ j.part \in Partitions
    /\ j.cursor <= Pages[j.part]
    /\ DurableUpTo(j.part, j.cursor)
    /\ j.seen => stored[j.part] # {}
    /\ j.pc \in {"finish", "empty"} => DataPages[j.part] \subseteq stored[j.part]

RunOK ==
  /\ runStatus \in RunStatus
  /\ stage \in Stage
  /\ stored \in [Partitions -> SUBSET Nat]
  /\ budget \in Nat

RowsOK ==
  /\ row \in [Partitions -> Row]
  /\ \A p \in Partitions : RowOK(p, row[p], stored[p])

JobsOK ==
  /\ job \in [Workers -> Job]
  /\ \A w \in Workers : JobOK(job[w])

IInv == RunOK /\ RowsOK /\ JobsOK /\ CancelledRunIsIdle

\* A run as create_collection_run leaves it, with its partitions planned, satisfies
\* the invariant.
LEMMA InitIInv == Init => IInv
<1> SUFFICES ASSUME Init PROVE IInv
  OBVIOUS
<1> USE QueueAssumption
<1>1. RunOK
  BY DEF Init, RunOK, RunStatus, Stage
<1>2. RowsOK
  BY DEF Init, RowsOK, RowOK, NewRow, Row, PartitionStatus, CollectedStatus
<1>3. JobsOK
  BY DEF Init, JobsOK, JobOK, NoJob, Job
<1>4. CancelledRunIsIdle
  BY DEF Init, CancelledRunIsIdle
<1> QED
  BY <1>1, <1>2, <1>3, <1>4 DEF IInv

-------------------------------------------------------------------------------
(* Building blocks *)

\* One row is written and nothing else is stored.
LEMMA RowStep ==
  ASSUME RowsOK, NEW p \in Partitions, NEW r \in Row, RowOK(p, r, stored[p]),
         row' = Updated(p, r), stored' = stored
  PROVE  /\ RowsOK'
         /\ row'[p] = r
         /\ \A q \in Partitions : q # p => row'[q] = row[q]
  BY DEF RowsOK, RowOK, Updated

\* One worker moves and nothing else is stored.
LEMMA JobStep ==
  ASSUME JobsOK, NEW w \in Workers, NEW j \in Job, JobOK(j), Becomes(w, j),
         stored' = stored
  PROVE  JobsOK'
  BY DEF JobsOK, JobOK, Becomes, DurableUpTo

\* A worker that carries on with what it carries.
LEMMA MoveStep ==
  ASSUME JobsOK, NEW w \in Workers, job[w].pc # "idle",
         NEW to \in {"begin", "pages", "save", "failing", "release", "cancel"},
         Becomes(w, [job[w] EXCEPT !.pc = to]), stored' = stored
  PROVE  JobsOK'
<1> DEFINE j == [job[w] EXCEPT !.pc = to]
<1>1. j \in Job
  BY DEF JobsOK, Job
<1>2. JobOK(j)
  BY DEF JobsOK, JobOK, Job
<1> QED
  BY <1>1, <1>2, JobStep

\* A worker that drops what it carries.
LEMMA DropStep ==
  ASSUME JobsOK, NEW w \in Workers, Becomes(w, NoJob), stored' = stored
  PROVE  JobsOK'
<1>1. NoJob \in Job
  BY DEF NoJob, Job
<1>2. JobOK(NoJob)
  BY DEF NoJob, JobOK
<1> QED
  BY <1>1, <1>2, JobStep

\* Nothing runs that did not run before: a cancelled run stays idle.
LEMMA IdleStep ==
  ASSUME CancelledRunIsIdle,
         runStatus' = "cancelled" => runStatus = "cancelled",
         \A p \in Partitions : row'[p].status = "running" => row[p].status = "running"
  PROVE  CancelledRunIsIdle'
  BY DEF CancelledRunIsIdle

\* A worker moves on; the database does not change.
LEMMA MoveOnly ==
  ASSUME IInv, NEW w \in Workers, job[w].pc # "idle",
         NEW to \in {"begin", "pages", "save", "failing", "release", "cancel"},
         Becomes(w, [job[w] EXCEPT !.pc = to]),
         UNCHANGED <<runStatus, stage, row, stored>>, budget' \in Nat
  PROVE  IInv'
<1>1. JobsOK'
  BY MoveStep DEF IInv
<1> QED
  BY <1>1 DEF IInv, RunOK, RowsOK, RowOK, CancelledRunIsIdle

\* The claimed row is written and the worker lets go of it, by way of Leave or
\* without the refresh.
LEMMA LetGo ==
  ASSUME IInv, NEW w \in Workers, job[w].pc # "idle", NEW r \in Row,
         RowOK(job[w].part, r, stored[job[w].part]), r.status # "running",
         row' = Updated(job[w].part, r), Becomes(w, NoJob),
         runStatus' \in RunStatus, runStatus' = "cancelled" => runStatus = "cancelled",
         UNCHANGED <<stage, stored>>, budget' \in Nat
  PROVE  IInv'
<1>1. job[w].part \in Partitions
  BY DEF IInv, JobsOK, JobOK
<1>2. RowsOK' /\ row'[job[w].part] = r
      /\ \A q \in Partitions : q # job[w].part => row'[q] = row[q]
  BY <1>1, RowStep DEF IInv
<1>3. JobsOK'
  BY DropStep DEF IInv
<1>4. CancelledRunIsIdle'
  BY <1>2, IdleStep DEF IInv
<1> QED
  BY <1>2, <1>3, <1>4 DEF IInv, RunOK

\* The worker lets go by way of Leave: complete, retry or fail, skip.
LEMMA LeaveStep ==
  ASSUME IInv, NEW w \in Workers, job[w].pc # "idle", NEW r \in Row,
         RowOK(job[w].part, r, stored[job[w].part]), r.status # "running",
         Leave(w, Updated(job[w].part, r)), budget' \in Nat
  PROVE  IInv'
<1>1. /\ row' = Updated(job[w].part, r)
      /\ Becomes(w, NoJob)
      /\ UNCHANGED <<stage, stored>>
      /\ runStatus' = Refreshed(runStatus, stage, row')
  BY DEF Leave
<1>2. runStatus' \in RunStatus /\ (runStatus' = "cancelled" => runStatus = "cancelled")
  BY <1>1, RefreshedType DEF IInv, RunOK
<1> QED
  BY <1>1, <1>2, LetGo

\* A row of which only status, owner and the clocks change, to a status that
\* claims nothing about the data.
LEMMA ReleasedRowOK ==
  ASSUME RowsOK, NEW p \in Partitions, NEW r \in Row,
         r.cursor = row[p].cursor, r.counted = row[p].counted,
         r.status \notin CollectedStatus \cup {"running"}, r.owner = None
  PROVE  RowOK(p, r, stored[p])
  BY DEF RowsOK, RowOK, CollectedStatus

\* A worker at work has a partition, and the row of it is there.
LEMMA HeldPartition ==
  ASSUME JobsOK, RowsOK, NEW w \in Workers, job[w].pc # "idle"
  PROVE  job[w].part \in Partitions /\ MyRow(w) \in Row /\ job[w] \in Job
  BY DEF JobsOK, JobOK, RowsOK, MyRow

-------------------------------------------------------------------------------
(* The steps of a worker *)

\* claim_collection_partition and claim_urgent_partition: the worker takes over what
\* the row says, which the invariant vouches for.
LEMMA ClaimIInv ==
  ASSUME IInv, NEW w \in Workers, NEW p \in Partitions, Claim(w, p)
  PROVE  IInv'
<1> DEFINE r == [row[p] EXCEPT !.status = "running", !.owner = w,
                               !.fresh = TRUE, !.attempts = @ + 1]
           j == [pc |-> "claimed", part |-> p, cursor |-> row[p].cursor,
                 seen |-> row[p].counted, stamped |-> row[p].stamped,
                 attempts |-> row[p].attempts + 1]
<1>1. row[p] \in Row /\ RowOK(p, row[p], stored[p])
  BY DEF IInv, RowsOK
<1>2. r \in Row
  <2>1. row[p].attempts + 1 \in Nat /\ w \in Workers \cup {None} /\ "running" \in PartitionStatus
    BY <1>1 DEF Row, PartitionStatus
  <2> QED
    BY <1>1, <2>1 DEF Row
<1>3. r.owner = w /\ r.status = "running"
  BY <1>1 DEF Row
<1>4. r.cursor = row[p].cursor
  BY <1>1 DEF Row
<1>5. r.counted = row[p].counted
  BY <1>1 DEF Row
<1>6. RowOK(p, r, stored[p])
  BY <1>1, <1>3, <1>4, <1>5, QueueAssumption DEF RowOK, CollectedStatus
<1>7. j \in Job
  BY <1>1 DEF Row, Job
<1>8. JobOK(j)
  BY <1>1 DEF JobOK, RowOK, DurableUpTo
<1>9. RowsOK'
  BY <1>2, <1>6, RowStep DEF IInv, Claim
<1>10. JobsOK'
  BY <1>7, <1>8, JobStep DEF IInv, Claim
<1>11. CancelledRunIsIdle'
  BY DEF Claim, CancelledRunIsIdle, LiveRunStatus
<1> QED
  BY <1>9, <1>10, <1>11 DEF IInv, RunOK, Claim

\* assert_collection_active sends the worker to one of these places.
LEMMA DirectedType ==
  ASSUME NEW w, NEW proceed \in {"pages", "save"}
  PROVE  Directed(w, proceed) \in {"pages", "save", "release", "cancel"}
  BY DEF Directed

\* The steps that only move the worker on.
LEMMA PagingIInv ==
  ASSUME IInv, NEW w \in Workers,
         KeepCheckpoint(w) \/ Begin(w) \/ FetchPage(w) \/ FetchPageThenShutdown(w)
  PROVE  IInv'
<1>1. CASE KeepCheckpoint(w)
  BY <1>1, MoveOnly DEF KeepCheckpoint, AfterValidation, IInv, RunOK
<1>2. CASE Begin(w)
  <2>1. Directed(w, "pages") \in {"pages", "save", "release", "cancel"}
    BY DirectedType
  <2> QED
    BY <1>2, <2>1, MoveOnly DEF Begin, IInv, RunOK
<1>3. CASE FetchPage(w)
  <2> DEFINE to == IF w \in UrgentWorkers THEN "save" ELSE Directed(w, "save")
  <2>1. to \in {"pages", "save", "release", "cancel"}
    BY DirectedType
  <2>2. Becomes(w, [job[w] EXCEPT !.pc = to])
    BY <1>3 DEF FetchPage
  <2> HIDE DEF to
  <2> QED
    BY <1>3, <2>1, <2>2, MoveOnly DEF FetchPage, IInv, RunOK
<1>4. CASE FetchPageThenShutdown(w)
  <2>1. budget' \in Nat
    BY <1>4 DEF FetchPageThenShutdown, Disturb, IInv, RunOK
  <2> QED
    BY <1>4, <2>1, MoveOnly DEF FetchPageThenShutdown
<1> QED
  BY <1>1, <1>2, <1>3, <1>4

\* validate_claimed_checkpoint resets the row: a cursor of 0 claims no page.
LEMMA ResetIInv ==
  ASSUME IInv, NEW w \in Workers, ResetCheckpoint(w)
  PROVE  IInv'
<1> DEFINE p == job[w].part
           r == [MyRow(w) EXCEPT !.cursor = 0, !.stamped = FALSE, !.counted = FALSE]
           j == [job[w] EXCEPT !.pc = AfterValidation(w), !.cursor = 0,
                               !.seen = FALSE, !.stamped = FALSE]
<1>1. /\ p \in Partitions /\ MyRow(w) \in Row /\ job[w] \in Job
      /\ RowOK(p, MyRow(w), stored[p])
  BY HeldPartition DEF IInv, ResetCheckpoint, RowsOK, MyRow
<1>2. \A m \in DataPages[p] : m > 0
  BY <1>1, QueueAssumption
<1>3. Pages[p] \in Nat
  BY <1>1, QueueAssumption
<1>4. r \in Row /\ r.cursor = 0 /\ r.counted = FALSE
      /\ r.status = MyRow(w).status /\ r.owner = MyRow(w).owner
  BY <1>1 DEF Row
<1>5. RowOK(p, r, stored[p])
  <2>1. \A m \in DataPages[p] : ~(m <= 0)
    BY <1>1, <1>2, QueueAssumption
  <2> QED
    BY <1>1, <1>3, <1>4, <2>1 DEF RowOK
<1>6. j \in Job /\ j.cursor = 0 /\ j.seen = FALSE /\ j.pc \notin {"finish", "empty"} /\ j.part = p
  BY <1>1 DEF Job, AfterValidation
<1>7. JobOK(j)
  <2>1. \A m \in DataPages[p] : ~(m <= 0)
    BY <1>1, <1>2, QueueAssumption
  <2> QED
    BY <1>1, <1>3, <1>6, <2>1 DEF JobOK, DurableUpTo
<1>8. RowsOK' /\ row'[p] = r /\ \A q \in Partitions : q # p => row'[q] = row[q]
  BY <1>1, <1>4, <1>5, RowStep DEF IInv, ResetCheckpoint
<1>9. JobsOK'
  BY <1>6, <1>7, JobStep DEF IInv, ResetCheckpoint
<1>10. CancelledRunIsIdle'
  BY <1>1, <1>4, <1>8, IdleStep DEF IInv, ResetCheckpoint, MyRow
<1> QED
  BY <1>8, <1>9, <1>10 DEF IInv, RunOK, ResetCheckpoint

\* EmptyData: the source has no data page, hence none is missing.
LEMMA FetchNothingIInv ==
  ASSUME IInv, NEW w \in Workers, FetchNothing(w)
  PROVE  IInv'
<1> DEFINE j == [job[w] EXCEPT !.pc = "empty", !.seen = FALSE]
<1>1. job[w] \in Job /\ JobOK(job[w])
  BY DEF IInv, JobsOK
<1>2. j \in Job /\ j.part = job[w].part /\ j.cursor = job[w].cursor /\ j.seen = FALSE
  BY <1>1 DEF Job
<1>3. JobOK(j)
  BY <1>1, <1>2 DEF JobOK, FetchNothing
<1>4. JobsOK'
  BY <1>2, <1>3, JobStep DEF IInv, FetchNothing
<1> QED
  BY <1>4 DEF IInv, RunOK, RowsOK, RowOK, CancelledRunIsIdle, FetchNothing

\* The next page is a page, not behind the cursor and at most one ahead.
LEMMA NextPageBounds ==
  ASSUME IInv, NEW w \in Workers, job[w].pc # "idle"
  PROVE  /\ NextPage(w) \in Nat
         /\ NextPage(w) <= Pages[job[w].part]
         /\ job[w].cursor <= NextPage(w)
         /\ NextPage(w) <= job[w].cursor + 1
<1>1. job[w] \in Job /\ job[w].part \in Partitions /\ job[w].cursor <= Pages[job[w].part]
  BY DEF IInv, JobsOK, JobOK
<1>2. job[w].cursor \in Nat /\ Pages[job[w].part] \in Nat
  BY <1>1, QueueAssumption DEF Job
<1> QED
  BY <1>1, <1>2 DEF NextPage

\* Saving a page makes everything up to it durable, and loses nothing.
LEMMA SavedUpToPage ==
  ASSUME IInv, NEW w \in Workers, SavePage(w)
  PROVE  /\ stored' \in [Partitions -> SUBSET Nat]
         /\ \A q \in Partitions : stored[q] \subseteq stored'[q]
         /\ \A m \in DataPages[job[w].part] :
              m <= NextPage(w) => m \in stored'[job[w].part]
         /\ PageHasRows(w) => stored'[job[w].part] # {}
<1> DEFINE p == job[w].part
           n == NextPage(w)
<1>1. job[w] \in Job /\ p \in Partitions /\ DurableUpTo(p, job[w].cursor)
  BY DEF IInv, JobsOK, JobOK, SavePage
<1>2. n \in Nat /\ job[w].cursor <= n /\ n <= job[w].cursor + 1
  BY NextPageBounds DEF SavePage
<1>3. stored \in [Partitions -> SUBSET Nat]
  BY DEF IInv, RunOK
<1>4. stored' = [stored EXCEPT ![p] = IF PageHasRows(w) THEN stored[p] \cup {n} ELSE stored[p]]
  BY DEF SavePage
<1>5. stored'[p] = IF PageHasRows(w) THEN stored[p] \cup {n} ELSE stored[p]
  BY <1>1, <1>3, <1>4
<1>6. stored' \in [Partitions -> SUBSET Nat] /\ \A q \in Partitions : stored[q] \subseteq stored'[q]
  BY <1>1, <1>2, <1>3, <1>4
<1>7. ASSUME NEW m \in DataPages[p], m <= n
      PROVE  m \in stored'[p]
  <2>1. m \in Nat /\ job[w].cursor \in Nat
    BY <1>1, QueueAssumption DEF Job
  <2>2. CASE m <= job[w].cursor
    BY <1>1, <1>5, <2>2 DEF DurableUpTo
  <2>3. CASE ~(m <= job[w].cursor)
    <3>1. m = n /\ n > job[w].cursor
      BY <1>2, <1>7, <2>1, <2>3
    <3>2. PageHasRows(w)
      BY <1>7, <3>1 DEF PageHasRows
    <3> QED
      BY <1>5, <3>1, <3>2
  <2> QED
    BY <2>2, <2>3
<1> QED
  BY <1>5, <1>6, <1>7

\* More durable pages never make a row or a worker wrong.
LEMMA RowOKMonotone ==
  ASSUME NEW p, NEW r, NEW S, NEW T, S \subseteq T, RowOK(p, r, S)
  PROVE  RowOK(p, r, T)
  BY DEF RowOK

\* The page save, whoever owns the row by now.
LEMMA SavePageIInv ==
  ASSUME IInv, NEW w \in Workers, SavePage(w)
  PROVE  IInv'
<1> DEFINE p == job[w].part
           n == NextPage(w)
           hasRows == PageHasRows(w)
           r == [MyRow(w) EXCEPT !.cursor = n, !.fresh = TRUE,
                                 !.stamped = job[w].stamped \/ hasRows,
                                 !.counted = @ \/ hasRows]
           j == [job[w] EXCEPT !.pc = IF n = Pages[p] THEN "finish" ELSE "pages",
                               !.cursor = n, !.seen = @ \/ hasRows,
                               !.stamped = @ \/ hasRows]
<1>1. /\ job[w].pc # "idle" /\ job[w] \in Job /\ p \in Partitions
      /\ MyRow(w) \in Row /\ RowOK(p, MyRow(w), stored[p]) /\ JobOK(job[w])
  BY HeldPartition DEF IInv, JobsOK, RowsOK, MyRow, SavePage
<1>2. n \in Nat /\ n <= Pages[p] /\ Pages[p] \in Nat
  BY <1>1, NextPageBounds, QueueAssumption
<1>3. /\ stored' \in [Partitions -> SUBSET Nat]
      /\ \A q \in Partitions : stored[q] \subseteq stored'[q]
      /\ \A m \in DataPages[p] : m <= n => m \in stored'[p]
      /\ hasRows => stored'[p] # {}
  BY SavedUpToPage
<1>4. hasRows \in BOOLEAN
  BY DEF PageHasRows
<1>5. r \in Row /\ r.cursor = n /\ r.counted = (MyRow(w).counted \/ hasRows)
  <2>1. job[w].stamped \in BOOLEAN /\ MyRow(w).counted \in BOOLEAN
    BY <1>1 DEF Job, Row
  <2> HIDE DEF n, hasRows
  <2>2. r \in Row
    BY <1>1, <1>2, <1>4, <2>1 DEF Row
  <2> QED
    BY <1>1, <2>2 DEF Row
<1>6. r.status = MyRow(w).status /\ r.owner = MyRow(w).owner
  BY <1>1 DEF Row
<1>7. RowOK(p, r, stored'[p])
  BY <1>1, <1>2, <1>3, <1>5, <1>6 DEF RowOK
<1>8. j \in Job
  <2>1. job[w].seen \in BOOLEAN /\ job[w].stamped \in BOOLEAN
    BY <1>1 DEF Job
  <2> HIDE DEF n, hasRows
  <2> QED
    BY <1>1, <1>2, <1>4, <2>1 DEF Job
<1>9. /\ j.part = p /\ j.cursor = n /\ j.seen = (job[w].seen \/ hasRows)
      /\ j.pc \in {"finish", "empty"} => n = Pages[p]
  BY <1>1 DEF Job
<1>10. row' = [row EXCEPT ![p] = r] /\ job' = [job EXCEPT ![w] = j]
  BY DEF SavePage, SavedRow, Updated, Becomes
<1> HIDE DEF r, j, n, hasRows, p
<1>11. RowsOK'
  <2>1. row' \in [Partitions -> Row]
    BY <1>1, <1>5, <1>10 DEF IInv, RowsOK
  <2>2. ASSUME NEW q \in Partitions
        PROVE  RowOK(q, row'[q], stored'[q])
    <3>1. CASE q = p
      BY <1>1, <1>7, <1>10, <3>1 DEF IInv, RowsOK
    <3>2. CASE q # p
      BY <1>3, <1>10, <3>2, RowOKMonotone DEF IInv, RowsOK
    <3> QED
      BY <3>1, <3>2
  <2> QED
    BY <2>1, <2>2 DEF RowsOK, RowOK
<1>12. JobsOK'
  <2>1. job' \in [Workers -> Job]
    BY <1>8, <1>10 DEF IInv, JobsOK
  <2>2. ASSUME NEW v \in Workers, job'[v].pc # "idle"
        PROVE  /\ job'[v].part \in Partitions
               /\ job'[v].cursor <= Pages[job'[v].part]
               /\ \A m \in DataPages[job'[v].part] :
                    m <= job'[v].cursor => m \in stored'[job'[v].part]
               /\ job'[v].seen => stored'[job'[v].part] # {}
               /\ job'[v].pc \in {"finish", "empty"} =>
                    DataPages[job'[v].part] \subseteq stored'[job'[v].part]
    <3>1. CASE v = w
      <4>1. job'[v] = j
        BY <1>10, <3>1 DEF IInv, JobsOK
      <4>2. job[w].seen => stored'[p] # {}
        BY <1>1, <1>3 DEF JobOK, p
      <4>3. n = Pages[p] => DataPages[p] \subseteq stored'[p]
        BY <1>1, <1>3, QueueAssumption
      <4> QED
        BY <1>1, <1>2, <1>3, <1>9, <4>1, <4>2, <4>3
    <3>2. CASE v # w
      <4>1. job'[v] = job[v] /\ JobOK(job[v])
        BY <1>10, <3>2 DEF IInv, JobsOK
      <4> QED
        BY <1>3, <2>2, <4>1 DEF JobOK, DurableUpTo
    <3> QED
      BY <3>1, <3>2
  <2> QED
    BY <2>1, <2>2 DEF JobsOK, JobOK, DurableUpTo
<1>13. CancelledRunIsIdle'
  <2>1. ASSUME NEW q \in Partitions
        PROVE  row'[q].status = row[q].status
    BY <1>1, <1>6, <1>10 DEF IInv, RowsOK, MyRow, p
  <2> QED
    BY <2>1 DEF IInv, CancelledRunIsIdle, SavePage
<1> QED
  BY <1>3, <1>11, <1>12, <1>13 DEF IInv, RunOK, SavePage

\* complete_partition declares what the last clause of JobOK has established.
LEMMA CompletedRowOK ==
  ASSUME IInv, NEW w \in Workers, job[w].pc \in {"finish", "empty"}
  PROVE  LET r == [MyRow(w) EXCEPT
                     !.status = IF job[w].seen THEN "completed" ELSE "completed_empty",
                     !.owner = None, !.fresh = TRUE]
         IN /\ r \in Row /\ r.status # "running"
            /\ RowOK(job[w].part, r, stored[job[w].part])
<1> DEFINE p == job[w].part
           s == IF job[w].seen THEN "completed" ELSE "completed_empty"
           r == [MyRow(w) EXCEPT !.status = s, !.owner = None, !.fresh = TRUE]
<1>1. /\ p \in Partitions /\ MyRow(w) \in Row
      /\ RowOK(p, MyRow(w), stored[p]) /\ JobOK(job[w])
  BY HeldPartition DEF IInv, JobsOK, RowsOK, MyRow
<1>2. s \in PartitionStatus /\ s # "running" /\ (s = "completed" => job[w].seen)
  BY DEF PartitionStatus
<1> HIDE DEF s
<1>3. r \in Row
  BY <1>1, <1>2 DEF Row
<1>4. r.status = s /\ r.owner = None
  BY <1>1 DEF Row
<1>5. r.cursor = MyRow(w).cursor /\ r.counted = MyRow(w).counted
  BY <1>1 DEF Row
<1>6. DataPages[p] \subseteq stored[p] /\ (job[w].seen => stored[p] # {})
  BY <1>1 DEF JobOK
<1>7. RowOK(p, r, stored[p])
  BY <1>1, <1>2, <1>4, <1>5, <1>6 DEF RowOK
<1> QED
  BY <1>2, <1>3, <1>4, <1>7 DEF s

\* complete_partition, heard by its worker.
LEMMA CompleteIInv ==
  ASSUME IInv, NEW w \in Workers, Complete(w)
  PROVE  IInv'
<1> DEFINE r == [MyRow(w) EXCEPT
                   !.status = IF job[w].seen THEN "completed" ELSE "completed_empty",
                   !.owner = None, !.fresh = TRUE]
<1>1. /\ r \in Row /\ r.status # "running"
      /\ RowOK(job[w].part, r, stored[job[w].part])
  BY CompletedRowOK DEF Complete
<1>2. Leave(w, Updated(job[w].part, r)) /\ budget' \in Nat /\ job[w].pc # "idle"
  BY DEF Complete, CompletedRow, IInv, RunOK
<1> HIDE DEF r
<1> QED
  BY <1>1, <1>2, LeaveStep

\* complete_partition whose acknowledgement is lost.
LEMMA CompleteUnheardIInv ==
  ASSUME IInv, NEW w \in Workers, CompleteUnheard(w)
  PROVE  IInv'
<1> DEFINE p == job[w].part
           r == [MyRow(w) EXCEPT
                   !.status = IF job[w].seen THEN "completed" ELSE "completed_empty",
                   !.owner = None, !.fresh = TRUE]
<1>1. r \in Row /\ r.status # "running" /\ RowOK(p, r, stored[p])
  BY CompletedRowOK DEF CompleteUnheard
<1>2. row' = Updated(p, r) /\ UNCHANGED <<stage, stored>>
      /\ runStatus' = Refreshed(runStatus, stage, row') /\ p \in Partitions
  BY HeldPartition DEF IInv, CompleteUnheard, CompletedRow
<1> HIDE DEF r, p
<1>3. RowsOK' /\ row'[p] = r /\ \A q \in Partitions : q # p => row'[q] = row[q]
  BY <1>1, <1>2, RowStep DEF IInv
<1>4. JobsOK'
  BY <1>2, MoveStep DEF IInv, CompleteUnheard
<1>5. runStatus' \in RunStatus /\ (runStatus' = "cancelled" => runStatus = "cancelled")
  BY <1>2, RefreshedType DEF IInv, RunOK
<1>6. CancelledRunIsIdle'
  BY <1>1, <1>3, <1>5, IdleStep DEF IInv
<1>7. budget' \in Nat
  BY DEF CompleteUnheard, Disturb, IInv, RunOK
<1> QED
  BY <1>2, <1>3, <1>4, <1>5, <1>6, <1>7 DEF IInv, RunOK

\* The three transactions that give a partition up, or back.
LEMMA FailureIInv ==
  ASSUME IInv, NEW w \in Workers,
         \/ FailTransient(w)
         \/ \E retryable \in BOOLEAN : FailOrdinary(w, retryable)
         \/ Skip(w)
  PROVE  IInv'
<1> DEFINE p == job[w].part
<1>1. job[w].pc # "idle"
  BY DEF FailTransient, FailOrdinary, Skip, MayFail
<1>2. /\ p \in Partitions /\ MyRow(w) \in Row
      /\ MyRow(w) = row[p] /\ RowsOK
  BY <1>1, HeldPartition DEF IInv, MyRow
<1>3. CASE FailTransient(w)
  <2> DEFINE n == IF MyRow(w).attempts = 0 THEN 0 ELSE MyRow(w).attempts - 1
             r == [MyRow(w) EXCEPT !.status = "retry_wait", !.deferred = TRUE,
                                   !.attempts = n, !.owner = None, !.fresh = TRUE]
  <2>1. n \in Nat
    BY <1>2 DEF Row
  <2>2. Leave(w, Updated(p, r)) /\ budget' \in Nat
    BY <1>3 DEF FailTransient, Disturb, IInv, RunOK
  <2> HIDE DEF n
  <2>3. r \in Row
    BY <1>2, <2>1 DEF Row, PartitionStatus
  <2>4. /\ r.status = "retry_wait" /\ r.owner = None
        /\ r.cursor = row[p].cursor /\ r.counted = row[p].counted
    BY <1>2 DEF Row
  <2>5. RowOK(p, r, stored[p])
    BY <1>2, <2>3, <2>4, ReleasedRowOK DEF CollectedStatus
  <2> HIDE DEF r
  <2> QED
    BY <1>1, <2>2, <2>3, <2>4, <2>5, LeaveStep
<1>4. ASSUME NEW retryable \in BOOLEAN, FailOrdinary(w, retryable)
      PROVE  IInv'
  <2> DEFINE again == retryable /\ job[w].attempts < MaxAttempts
             s == IF again THEN "retry_wait" ELSE "failed"
             r == [MyRow(w) EXCEPT !.status = s, !.deferred = again,
                                   !.owner = None, !.fresh = TRUE]
  <2>1. again \in BOOLEAN /\ s \in {"retry_wait", "failed"}
    OBVIOUS
  <2>2. Leave(w, Updated(p, r)) /\ budget' \in Nat
    BY <1>4 DEF FailOrdinary, IInv, RunOK
  <2> HIDE DEF again, s
  <2>3. r \in Row
    BY <1>2, <2>1 DEF Row, PartitionStatus
  <2>4. /\ r.status \in {"retry_wait", "failed"} /\ r.owner = None
        /\ r.cursor = row[p].cursor /\ r.counted = row[p].counted
    BY <1>2, <2>1 DEF Row
  <2>5. RowOK(p, r, stored[p])
    BY <1>2, <2>3, <2>4, ReleasedRowOK DEF CollectedStatus
  <2> HIDE DEF r
  <2> QED
    BY <1>1, <2>2, <2>3, <2>4, <2>5, LeaveStep
<1>5. CASE Skip(w)
  <2> DEFINE r == [MyRow(w) EXCEPT !.status = "skipped", !.owner = None, !.fresh = TRUE]
  <2>1. Leave(w, Updated(p, r)) /\ budget' \in Nat
    BY <1>5 DEF Skip, IInv, RunOK
  <2>2. r \in Row
    BY <1>2 DEF Row, PartitionStatus
  <2>3. /\ r.status = "skipped" /\ r.owner = None
        /\ r.cursor = row[p].cursor /\ r.counted = row[p].counted
    BY <1>2 DEF Row
  <2>4. RowOK(p, r, stored[p])
    BY <1>2, <2>2, <2>3, ReleasedRowOK DEF CollectedStatus
  <2> HIDE DEF r
  <2> QED
    BY <1>1, <2>1, <2>2, <2>3, <2>4, LeaveStep
<1> QED
  BY <1>3, <1>4, <1>5

\* release_partition_for_pause and cancel_running_partition.
LEMMA LeaveUnrefreshedIInv ==
  ASSUME IInv, NEW w \in Workers, job[w].pc # "idle",
         NEW s \in {"queued", "cancelled"}, LeaveUnrefreshed(w, s)
  PROVE  IInv'
<1> DEFINE p == job[w].part
           r == [MyRow(w) EXCEPT !.status = s, !.owner = None, !.fresh = TRUE]
<1>1. p \in Partitions /\ MyRow(w) \in Row /\ MyRow(w) = row[p] /\ RowsOK
  BY HeldPartition DEF IInv, MyRow
<1>2. r \in Row
  BY <1>1 DEF Row, PartitionStatus
<1>3. /\ r.status = s /\ r.owner = None
      /\ r.cursor = row[p].cursor /\ r.counted = row[p].counted
  BY <1>1 DEF Row
<1>4. RowOK(p, r, stored[p])
  BY <1>1, <1>2, <1>3, ReleasedRowOK DEF CollectedStatus
<1>5. /\ row' = Updated(p, r) /\ Becomes(w, NoJob)
      /\ UNCHANGED <<runStatus, stage, stored>> /\ budget' \in Nat
  BY DEF LeaveUnrefreshed, IInv, RunOK
<1> HIDE DEF r
<1> QED
  BY <1>2, <1>3, <1>4, <1>5, LetGo DEF IInv, RunOK

\* A crash leaves the database alone.
LEMMA CrashIInv ==
  ASSUME IInv, NEW w \in Workers, Crash(w)
  PROVE  IInv'
<1>1. JobsOK'
  BY DropStep DEF IInv, Crash
<1> QED
  BY <1>1 DEF IInv, RunOK, RowsOK, RowOK, CancelledRunIsIdle, Crash, Disturb

-------------------------------------------------------------------------------
(* Time and the operator *)

\* Rows that stay as they are, and rows put back with no owner and no claim
\* about the data, in one step: reclaim and the operator commands.
LEMMA ManyRowsStep ==
  ASSUME RowsOK, row' \in [Partitions -> Row], stored' = stored,
         \A p \in Partitions :
           \/ row'[p] = row[p]
           \/ /\ row'[p].cursor = row[p].cursor
              /\ row'[p].counted = row[p].counted
              /\ row'[p].status \notin CollectedStatus \cup {"running"}
              /\ row'[p].owner = None
  PROVE  /\ RowsOK'
         /\ \A p \in Partitions : row'[p].status = "running" => row[p].status = "running"
<1>1. ASSUME NEW p \in Partitions
      PROVE  RowOK(p, row'[p], stored[p])
  <2>1. CASE row'[p] = row[p]
    BY <2>1 DEF RowsOK
  <2>2. CASE row'[p] # row[p]
    <3> DEFINE r == row'[p]
    <3>1. /\ r \in Row /\ r.cursor = row[p].cursor /\ r.counted = row[p].counted
          /\ r.status \notin CollectedStatus \cup {"running"} /\ r.owner = None
      BY <2>2
    <3> HIDE DEF r
    <3>2. RowOK(p, r, stored[p])
      BY <3>1, ReleasedRowOK
    <3> QED
      BY <3>2 DEF r
  <2> QED
    BY <2>1, <2>2
<1> QED
  BY <1>1 DEF RowsOK, RowOK

\* What a step that writes rows in this way, and may change the run, preserves.
LEMMA ManyRowsIInv ==
  ASSUME IInv, row' \in [Partitions -> Row],
         \A p \in Partitions :
           \/ row'[p] = row[p]
           \/ /\ row'[p].cursor = row[p].cursor
              /\ row'[p].counted = row[p].counted
              /\ row'[p].status \notin CollectedStatus \cup {"running"}
              /\ row'[p].owner = None,
         UNCHANGED <<stored, job>>, stage' \in Stage, budget' \in Nat,
         runStatus' \in RunStatus,
         runStatus' = "cancelled" =>
           \/ runStatus = "cancelled"
           \/ \A p \in Partitions : row'[p].status # "running"
  PROVE  IInv'
<1>1. /\ RowsOK'
      /\ \A p \in Partitions : row'[p].status = "running" => row[p].status = "running"
  BY ManyRowsStep DEF IInv
<1>2. JobsOK'
  BY DEF IInv, JobsOK, JobOK, DurableUpTo
<1>3. CancelledRunIsIdle'
  BY <1>1 DEF IInv, CancelledRunIsIdle
<1> QED
  BY <1>1, <1>2, <1>3 DEF IInv, RunOK

\* Requeued writes rows in this way.
LEMMA RequeuedRows ==
  ASSUME RowsOK, NEW S, row' = Requeued(S)
  PROVE  /\ row' \in [Partitions -> Row]
         /\ \A p \in Partitions :
              \/ row'[p] = row[p]
              \/ /\ row'[p].cursor = row[p].cursor
                 /\ row'[p].counted = row[p].counted
                 /\ row'[p].status \notin CollectedStatus \cup {"running"}
                 /\ row'[p].owner = None
<1>1. ASSUME NEW p \in Partitions
      PROVE  /\ row'[p] \in Row
             /\ p \in S => /\ row'[p].cursor = row[p].cursor
                           /\ row'[p].counted = row[p].counted
                           /\ row'[p].status = "retry_wait"
                           /\ row'[p].owner = None
  <2> DEFINE r == [row[p] EXCEPT !.status = "retry_wait", !.deferred = FALSE, !.owner = None]
  <2>1. row[p] \in Row /\ "retry_wait" \in PartitionStatus /\ None \in Workers \cup {None}
    BY DEF RowsOK, PartitionStatus
  <2>2. /\ r \in Row /\ r.status = "retry_wait" /\ r.owner = None
        /\ r.cursor = row[p].cursor /\ r.counted = row[p].counted
    BY <2>1 DEF Row
  <2>3. row'[p] = IF p \in S THEN r ELSE row[p]
    BY DEF Requeued
  <2> HIDE DEF r
  <2> QED
    BY <2>1, <2>2, <2>3
<1>2. row' \in [Partitions -> Row] /\ \A p \in Partitions : p \notin S => row'[p] = row[p]
  BY <1>1 DEF Requeued
<1> QED
  BY <1>1, <1>2 DEF CollectedStatus

\* And so does CancelledRows, which leaves no row running.
LEMMA CancelledRowsPutBack ==
  ASSUME RowsOK, row' = CancelledRows
  PROVE  /\ row' \in [Partitions -> Row]
         /\ \A p \in Partitions :
              /\ row'[p].status # "running"
              /\ \/ row'[p] = row[p]
                 \/ /\ row'[p].cursor = row[p].cursor
                    /\ row'[p].counted = row[p].counted
                    /\ row'[p].status \notin CollectedStatus \cup {"running"}
                    /\ row'[p].owner = None
<1>1. ASSUME NEW p \in Partitions
      PROVE  /\ row'[p] \in Row
             /\ row[p].status \in ActiveStatus => /\ row'[p].cursor = row[p].cursor
                                                  /\ row'[p].counted = row[p].counted
                                                  /\ row'[p].status = "cancelled"
                                                  /\ row'[p].owner = None
  <2> DEFINE r == [row[p] EXCEPT !.status = "cancelled", !.owner = None]
  <2>1. row[p] \in Row /\ "cancelled" \in PartitionStatus /\ None \in Workers \cup {None}
    BY DEF RowsOK, PartitionStatus
  <2>2. /\ r \in Row /\ r.status = "cancelled" /\ r.owner = None
        /\ r.cursor = row[p].cursor /\ r.counted = row[p].counted
    BY <2>1 DEF Row
  <2>3. row'[p] = IF row[p].status \in ActiveStatus THEN r ELSE row[p]
    BY DEF CancelledRows
  <2> HIDE DEF r
  <2> QED
    BY <2>1, <2>2, <2>3
<1>2. /\ row' \in [Partitions -> Row]
      /\ \A p \in Partitions : row[p].status \notin ActiveStatus => row'[p] = row[p]
  BY <1>1 DEF CancelledRows
<1> QED
  BY <1>1, <1>2 DEF CollectedStatus, ActiveStatus

\* The clock changes nothing that the invariant speaks of.
LEMMA ClockIInv ==
  ASSUME IInv, NEW p \in Partitions, GoStale(p) \/ BackoffElapses(p)
  PROVE  IInv'
<1> DEFINE r == row'[p]
<1>1. row[p] \in Row /\ RowOK(p, row[p], stored[p])
  BY DEF IInv, RowsOK
<1>2. /\ r \in Row /\ r.status = row[p].status /\ r.owner = row[p].owner
      /\ r.cursor = row[p].cursor /\ r.counted = row[p].counted
      /\ row' = Updated(p, r)
  <2>1. CASE GoStale(p)
    <3> DEFINE s == [row[p] EXCEPT !.fresh = FALSE]
    <3>1. /\ s \in Row /\ s.status = row[p].status /\ s.owner = row[p].owner
          /\ s.cursor = row[p].cursor /\ s.counted = row[p].counted
      BY <1>1 DEF Row
    <3>2. row' = Updated(p, s) /\ r = s
      BY <2>1 DEF GoStale, Updated, IInv, RowsOK
    <3> QED
      BY <3>1, <3>2
  <2>2. CASE BackoffElapses(p)
    <3> DEFINE s == [row[p] EXCEPT !.deferred = FALSE]
    <3>1. /\ s \in Row /\ s.status = row[p].status /\ s.owner = row[p].owner
          /\ s.cursor = row[p].cursor /\ s.counted = row[p].counted
      BY <1>1 DEF Row
    <3>2. row' = Updated(p, s) /\ r = s
      BY <2>2 DEF BackoffElapses, Updated, IInv, RowsOK
    <3> QED
      BY <3>1, <3>2
  <2> QED
    BY <2>1, <2>2
<1> HIDE DEF r
<1>3. RowOK(p, r, stored[p])
  BY <1>1, <1>2 DEF RowOK
<1>4. UNCHANGED <<runStatus, stage, stored, job>> /\ budget' \in Nat
  BY DEF GoStale, BackoffElapses, Disturb, IInv, RunOK
<1>5. RowsOK' /\ row'[p] = r /\ \A q \in Partitions : q # p => row'[q] = row[q]
  BY <1>2, <1>3, <1>4, RowStep DEF IInv
<1>6. JobsOK'
  BY <1>4 DEF IInv, JobsOK, JobOK, DurableUpTo
<1>7. CancelledRunIsIdle'
  BY <1>2, <1>4, <1>5, IdleStep DEF IInv
<1> QED
  BY <1>4, <1>5, <1>6, <1>7 DEF IInv, RunOK

\* Reclaiming, and the run's passage through its stages.
LEMMA AdvanceIInv ==
  ASSUME IInv, ReclaimStale \/ Aggregate \/ BecomeReady
  PROVE  IInv'
<1>1. CASE ReclaimStale
  <2> DEFINE S == {p \in Partitions : row[p].status = "running" /\ ~row[p].fresh}
  <2>1. row' = Requeued(S) /\ UNCHANGED <<runStatus, stage, stored, job, budget>>
    BY <1>1 DEF ReclaimStale
  <2> HIDE DEF S
  <2> QED
    BY <2>1, RequeuedRows, ManyRowsIInv DEF IInv, RunOK
<1>2. CASE Aggregate
  BY <1>2, ManyRowsIInv DEF Aggregate, IInv, RunOK, RowsOK, Stage, RunStatus
<1>3. CASE BecomeReady
  <2>1. runStatus' \in RunStatus /\ (runStatus' = "cancelled" => runStatus = "cancelled")
    BY <1>3, RefreshedType DEF BecomeReady, IInv, RunOK
  <2> QED
    BY <1>3, <2>1, ManyRowsIInv DEF BecomeReady, IInv, RunOK, RowsOK, Stage
<1> QED
  BY <1>1, <1>2, <1>3

\* The operator's commands, on a run in any status.
LEMMA OperatorIInv ==
  ASSUME IInv, Operator
  PROVE  IInv'
<1>0. Disturb /\ budget' \in Nat /\ UNCHANGED <<stored, job>>
  BY DEF Operator, PauseRun, ResumeRun, CancelRun, CancelAllRuns, RetryFailed, EnhanceRun,
         Disturb, IInv, RunOK
<1>1. CASE PauseRun
  BY <1>0, <1>1, ManyRowsIInv DEF PauseRun, IInv, RunOK, RowsOK, RunStatus
<1>2. CASE ResumeRun
  <2> DEFINE S == {p \in Partitions : row[p].status \in {"failed", "cancelled"}
                                      /\ row[p].attempts < MaxAttempts}
             s == IF runStatus \in {"paused", "completed_with_errors"}
                  THEN "running" ELSE runStatus
  <2>1. s \in RunStatus /\ (s = "cancelled" => runStatus = "cancelled")
    BY DEF IInv, RunOK, RunStatus
  <2>2. row' = Requeued(S) /\ runStatus' = Refreshed(s, stage, Requeued(S)) /\ stage' = stage
    BY <1>2 DEF ResumeRun
  <2> HIDE DEF S, s
  <2>3. runStatus' \in RunStatus /\ (runStatus' = "cancelled" => runStatus = "cancelled")
    BY <2>1, <2>2, RefreshedType
  <2> QED
    BY <1>0, <2>2, <2>3, RequeuedRows, ManyRowsIInv DEF IInv, RunOK
<1>3. CASE CancelRun \/ CancelAllRuns
  <2>1. row' = CancelledRows /\ stage' = stage /\ runStatus' \in RunStatus
    BY <1>3 DEF CancelRun, CancelAllRuns, IInv, RunOK, RunStatus
  <2> QED
    BY <1>0, <2>1, CancelledRowsPutBack, ManyRowsIInv DEF IInv, RunOK
<1>4. CASE RetryFailed
  <2> DEFINE S == {p \in Partitions : row[p].status \in {"failed", "cancelled"}}
             s == IF runStatus \in {"cancelled", "failed"} THEN runStatus ELSE "running"
  <2>1. s \in RunStatus /\ (s = "cancelled" => runStatus = "cancelled")
    BY DEF IInv, RunOK, RunStatus
  <2>2. row' = Requeued(S) /\ runStatus' = Refreshed(s, stage, Requeued(S)) /\ stage' = stage
    BY <1>4 DEF RetryFailed
  <2> HIDE DEF S, s
  <2>3. runStatus' \in RunStatus /\ (runStatus' = "cancelled" => runStatus = "cancelled")
    BY <2>1, <2>2, RefreshedType
  <2> QED
    BY <1>0, <2>2, <2>3, RequeuedRows, ManyRowsIInv DEF IInv, RunOK
<1>5. CASE EnhanceRun
  <2> DEFINE S == {p \in Partitions : row[p].status = "running"}
             allowed == runStatus \notin {"cancelled", "failed"}
             s == IF allowed THEN "running" ELSE runStatus
             to == IF allowed THEN "collecting" ELSE stage
  <2>1. s \in RunStatus /\ (s = "cancelled" => runStatus = "cancelled") /\ to \in Stage
    BY DEF IInv, RunOK, RunStatus, Stage
  <2>2. row' = Requeued(S) /\ runStatus' = Refreshed(s, to, Requeued(S)) /\ stage' = to
    BY <1>5 DEF EnhanceRun
  <2> HIDE DEF S, s, to
  <2>3. runStatus' \in RunStatus /\ (runStatus' = "cancelled" => runStatus = "cancelled")
    BY <2>1, <2>2, RefreshedType
  <2> QED
    BY <1>0, <2>1, <2>2, <2>3, RequeuedRows, ManyRowsIInv DEF IInv
<1> QED
  BY <1>1, <1>2, <1>3, <1>4, <1>5 DEF Operator

-------------------------------------------------------------------------------
(* The invariant and what it implies *)

\* No step of a worker, no fault, no tick of the clock and no command breaks IInv.
LEMMA NextIInv ==
  ASSUME IInv, [Next]_vars
  PROVE  IInv'
<1>1. ASSUME NEW w \in Workers, Work(w) PROVE IInv'
  <2>1. CASE Release(w) \/ CancelOwn(w)
    <3>1. job[w].pc # "idle"
      BY <2>1 DEF Release, CancelOwn
    <3>2. LeaveUnrefreshed(w, "queued") \/ LeaveUnrefreshed(w, "cancelled")
      BY <2>1 DEF Release, CancelOwn
    <3> QED
      BY <3>1, <3>2, LeaveUnrefreshedIInv
  <2> QED
    BY <1>1, <2>1, ClaimIInv, PagingIInv, ResetIInv, FetchNothingIInv, SavePageIInv,
       CompleteIInv, FailureIInv DEF Work, Proceed
<1>2. ASSUME NEW w \in Workers,
             FetchPageThenShutdown(w) \/ CompleteUnheard(w) \/ FailTransient(w) \/ Crash(w)
      PROVE  IInv'
  BY <1>2, PagingIInv, CompleteUnheardIInv, FailureIInv, CrashIInv
<1>3. CASE UNCHANGED vars
  BY <1>3 DEF vars, IInv, RunOK, RowsOK, RowOK, JobsOK, JobOK, DurableUpTo, CancelledRunIsIdle
<1> QED
  BY <1>1, <1>2, <1>3, ClockIInv, AdvanceIInv, OperatorIInv DEF Next, Fault, Clock

\* Every safety property of the module is a consequence of IInv.
LEMMA IInvImplies ==
  ASSUME IInv
  PROVE  /\ TypeOK
         /\ CheckpointDurable
         /\ CompletionTruthful
         /\ CountedIsStored
         /\ OwnedWhileRunning
<1>1. TypeOK
  BY DEF IInv, RunOK, RowsOK, RowOK, JobsOK, JobOK, TypeOK, Working
<1>2. CheckpointDurable
  BY DEF IInv, RowsOK, RowOK, JobsOK, JobOK, CheckpointDurable, Working, DurableUpTo
<1>3. CompletionTruthful
  BY DEF IInv, RowsOK, RowOK, CompletionTruthful
<1>4. CountedIsStored
  BY DEF IInv, RowsOK, RowOK, JobsOK, JobOK, CountedIsStored, Working
<1>5. OwnedWhileRunning
  BY DEF IInv, RowsOK, RowOK, OwnedWhileRunning
<1> QED
  BY <1>1, <1>2, <1>3, <1>4, <1>5

\* The queue keeps its inductive invariant for ever.
THEOREM InvariantHolds == Spec => []IInv
  BY InitIInv, NextIInv, PTL DEF Spec

\* TypeOK holds of every behaviour of the queue.
THEOREM TypeCorrect == Spec => []TypeOK
  BY InvariantHolds, IInvImplies, PTL

\* However many workers share a row, no checkpoint (the row's or a worker's) is
\* ever ahead of the durable pages.
THEOREM CheckpointsDurable == Spec => []CheckpointDurable
  BY InvariantHolds, IInvImplies, PTL

\* A collected partition has all the data pages of its source in the market tables.
THEOREM CompletionsTruthful == Spec => []CompletionTruthful
  BY InvariantHolds, IInvImplies, PTL

\* A partition, or a worker, that counts rows has rows in the market table.
THEOREM CountsStored == Spec => []CountedIsStored
  BY InvariantHolds, IInvImplies, PTL

\* A row has an owner exactly while it is running.
THEOREM OwnersWhileRunning == Spec => []OwnedWhileRunning
  BY InvariantHolds, IInvImplies, PTL

\* Nothing of a cancelled run is running or becomes so.
THEOREM CancelledRunsIdle == Spec => []CancelledRunIsIdle
<1>1. IInv => CancelledRunIsIdle
  BY DEF IInv
<1> QED
  BY <1>1, InvariantHolds, PTL
===============================================================================
