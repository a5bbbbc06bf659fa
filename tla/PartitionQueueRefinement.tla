----------------------- MODULE PartitionQueueRefinement -----------------------
(***************************************************************************)
(* PartitionQueue implements BackfillLedger, for every value of the        *)
(* constants; and what the ledger promises of its own accord.              *)
(***************************************************************************)
EXTENDS PartitionQueueProofs

Collected == {p \in Partitions : row[p].status \in CollectedStatus}

-------------------------------------------------------------------------------
(* How steps of the queue look to a reader of the ledger *)

\* At most one row is written: its partition is declared or withdrawn.
LEMMA OneRowIsLedgerStep ==
  ASSUME IInv', stored' = stored, NEW p \in Partitions,
         \A q \in Partitions : q # p => row'[q] = row[q]
  PROVE  Ledger!Next
<1>1. CASE row'[p].status \in CollectedStatus
  <2>1. DataPages[p] \subseteq stored[p]
    BY <1>1 DEF IInv, RowsOK, RowOK
  <2>2. Collected' = Collected \cup {p}
    BY <1>1 DEF Collected
  <2> QED
    BY <2>1, <2>2 DEF Ledger!Next, Ledger!Declare, Collected
<1>2. CASE row'[p].status \notin CollectedStatus
  <2>1. Collected' = Collected \ {p}
    BY <1>2 DEF Collected
  <2> QED
    BY <2>1 DEF Ledger!Next, Ledger!Withdraw, Collected
<1> QED
  BY <1>1, <1>2

\* Rows are written, but no verdict changes: a stutter.
LEMMA SameVerdictsIsStutter ==
  ASSUME stored' = stored,
         \A p \in Partitions :
           row'[p].status \in CollectedStatus <=> row[p].status \in CollectedStatus
  PROVE  UNCHANGED Ledger!ledger
<1>1. Collected' = Collected
  BY DEF Collected
<1> QED
  BY <1>1 DEF Ledger!ledger, Collected

\* Work put back in the queue by reclaim, resume, retry-failed and enhance was
\* not collected.
LEMMA RequeuedKeepsVerdicts ==
  ASSUME RowsOK, NEW S, row' = Requeued(S),
         \A p \in Partitions : p \in S => row[p].status \notin CollectedStatus
  PROVE  \A p \in Partitions :
           row'[p].status \in CollectedStatus <=> row[p].status \in CollectedStatus
<1>1. ASSUME NEW p \in Partitions, p \in S
      PROVE  row'[p].status = "retry_wait"
  BY <1>1 DEF Requeued, RowsOK, Row
<1>2. ASSUME NEW p \in Partitions, p \notin S
      PROVE  row'[p] = row[p]
  BY <1>2 DEF Requeued
<1> QED
  BY <1>1, <1>2 DEF CollectedStatus

\* Nor does a cancel touch what is collected.
LEMMA CancelKeepsVerdicts ==
  ASSUME RowsOK, row' = CancelledRows
  PROVE  \A p \in Partitions :
           row'[p].status \in CollectedStatus <=> row[p].status \in CollectedStatus
<1>1. ASSUME NEW p \in Partitions, row[p].status \in ActiveStatus
      PROVE  row'[p].status = "cancelled"
  BY <1>1 DEF CancelledRows, RowsOK, Row
<1>2. ASSUME NEW p \in Partitions, row[p].status \notin ActiveStatus
      PROVE  row'[p] = row[p]
  BY <1>2 DEF CancelledRows
<1> QED
  BY <1>1, <1>2 DEF CollectedStatus, ActiveStatus

\* A saved page is the next data page of the ledger, or none (a page without
\* rows, or one that another worker had saved before).
LEMMA SavePageIsLedgerStep ==
  ASSUME IInv, NEW w \in Workers, SavePage(w)
  PROVE  Ledger!Next \/ UNCHANGED Ledger!ledger
<1> DEFINE p == job[w].part
           n == NextPage(w)
<1>1. /\ job[w] \in Job /\ p \in Partitions /\ DurableUpTo(p, job[w].cursor)
      /\ n \in Nat /\ n <= job[w].cursor + 1 /\ MyRow(w) \in Row
  BY NextPageBounds, HeldPartition DEF IInv, JobsOK, JobOK, SavePage
<1>2. stored \in [Partitions -> SUBSET Nat] /\ row \in [Partitions -> Row]
  BY DEF IInv, RunOK, RowsOK
<1>3. \A q \in Partitions : row'[q].status = row[q].status
  <2>1. \A q \in Partitions : q # p => row'[q] = row[q]
    BY <1>1, <1>2 DEF SavePage, SavedRow, Updated
  <2>2. row'[p].status = row[p].status
    BY <1>1, <1>2 DEF SavePage, SavedRow, Updated, MyRow, Row
  <2> QED
    BY <2>1, <2>2
<1>4. Collected' = Collected
  BY <1>3 DEF Collected
<1>5. CASE PageHasRows(w) /\ n \notin stored[p]
  <2>1. stored' = [stored EXCEPT ![p] = stored[p] \cup {n}] /\ n \in DataPages[p]
    BY <1>5 DEF SavePage, PageHasRows
  <2>2. ASSUME NEW m \in DataPages[p], m < n
        PROVE  m \in stored[p]
    <3>1. m \in Nat /\ job[w].cursor \in Nat
      BY <1>1, QueueAssumption DEF Job
    <3>2. m <= job[w].cursor
      BY <1>1, <2>2, <3>1
    <3> QED
      BY <1>1, <3>2 DEF DurableUpTo
  <2>3. Ledger!Store(p)
    BY <1>4, <1>5, <2>1, <2>2 DEF Ledger!Store, Collected
  <2> QED
    BY <1>1, <2>3 DEF Ledger!Next
<1>6. CASE ~(PageHasRows(w) /\ n \notin stored[p])
  <2>1. stored' = stored
    BY <1>1, <1>2, <1>6 DEF SavePage
  <2> QED
    BY <1>3, <2>1, SameVerdictsIsStutter
<1> QED
  BY <1>5, <1>6

\* The steps of a worker that write its own row and store nothing.
LEMMA OwnRowIsLedgerStep ==
  ASSUME IInv, IInv', NEW w \in Workers, job[w].pc # "idle", NEW r,
         row' = Updated(job[w].part, r), stored' = stored
  PROVE  Ledger!Next
<1>1. job[w].part \in Partitions
  BY HeldPartition DEF IInv
<1>2. \A q \in Partitions : q # job[w].part => row'[q] = row[q]
  BY <1>1 DEF IInv, RowsOK, Updated
<1> QED
  BY <1>1, <1>2, OneRowIsLedgerStep

\* Every step of a worker's own, faults included.
LEMMA WorkIsLedgerStep ==
  ASSUME IInv, IInv', NEW w \in Workers,
         Work(w) \/ FetchPageThenShutdown(w) \/ CompleteUnheard(w)
                 \/ FailTransient(w) \/ Crash(w)
  PROVE  Ledger!Next \/ UNCHANGED Ledger!ledger
<1>1. ASSUME NEW p \in Partitions, Claim(w, p)
      PROVE  Ledger!Next
  <2>1. stored' = stored /\ \A q \in Partitions : q # p => row'[q] = row[q]
    BY <1>1 DEF Claim, Updated, IInv, RowsOK
  <2> QED
    BY <2>1, OneRowIsLedgerStep
<1>2. CASE \/ KeepCheckpoint(w) \/ Begin(w) \/ FetchPage(w) \/ FetchNothing(w)
           \/ FetchPageThenShutdown(w) \/ Crash(w)
  <2>1. UNCHANGED <<row, stored>>
    BY <1>2 DEF KeepCheckpoint, Begin, FetchPage, FetchNothing, FetchPageThenShutdown, Crash
  <2> QED
    BY <2>1, SameVerdictsIsStutter
<1>3. CASE ResetCheckpoint(w)
  BY <1>3, OwnRowIsLedgerStep DEF ResetCheckpoint
<1>4. CASE SavePage(w)
  BY <1>4, SavePageIsLedgerStep
<1>5. CASE Complete(w)
  BY <1>5, OwnRowIsLedgerStep DEF Complete, Leave, CompletedRow
<1>6. CASE CompleteUnheard(w)
  BY <1>6, OwnRowIsLedgerStep DEF CompleteUnheard, CompletedRow
<1>7. CASE FailTransient(w)
  <2>1. job[w].pc # "idle" /\ stored' = stored
    BY <1>7 DEF FailTransient, MayFail, Leave
  <2> QED
    BY <1>7, <2>1, OwnRowIsLedgerStep DEF FailTransient, Leave
<1>8. ASSUME NEW retryable \in BOOLEAN, FailOrdinary(w, retryable)
      PROVE  Ledger!Next
  <2>1. job[w].pc # "idle" /\ stored' = stored
    BY <1>8 DEF FailOrdinary, MayFail, Leave
  <2> QED
    BY <1>8, <2>1, OwnRowIsLedgerStep DEF FailOrdinary, Leave
<1>9. CASE Skip(w)
  BY <1>9, OwnRowIsLedgerStep DEF Skip, Leave
<1>10. CASE Release(w) \/ CancelOwn(w)
  BY <1>10, OwnRowIsLedgerStep DEF Release, CancelOwn, LeaveUnrefreshed
<1> QED
  BY <1>1, <1>2, <1>3, <1>4, <1>5, <1>6, <1>7, <1>8, <1>9, <1>10 DEF Work, Proceed

\* Time, the run's passage through its stages, and the operator's commands.
LEMMA RestIsLedgerStep ==
  ASSUME IInv, IInv', Clock \/ ReclaimStale \/ Aggregate \/ BecomeReady \/ Operator
  PROVE  Ledger!Next \/ UNCHANGED Ledger!ledger
<1>1. ASSUME NEW p \in Partitions, GoStale(p) \/ BackoffElapses(p)
      PROVE  Ledger!Next
  <2>1. stored' = stored /\ \A q \in Partitions : q # p => row'[q] = row[q]
    BY <1>1 DEF GoStale, BackoffElapses, Updated, IInv, RowsOK
  <2> QED
    BY <2>1, OneRowIsLedgerStep
<1>2. CASE Aggregate \/ BecomeReady \/ PauseRun
  <2>1. UNCHANGED <<row, stored>>
    BY <1>2 DEF Aggregate, BecomeReady, PauseRun
  <2> QED
    BY <2>1, SameVerdictsIsStutter
<1>3. CASE CancelRun \/ CancelAllRuns
  <2>1. row' = CancelledRows /\ stored' = stored
    BY <1>3 DEF CancelRun, CancelAllRuns
  <2> QED
    BY <2>1, CancelKeepsVerdicts, SameVerdictsIsStutter DEF IInv
<1>4. CASE ReclaimStale \/ ResumeRun \/ RetryFailed \/ EnhanceRun
  <2>1. stored' = stored
    BY <1>4 DEF ReclaimStale, ResumeRun, RetryFailed, EnhanceRun
  <2>2. ASSUME NEW S, row' = Requeued(S),
               \A p \in S : row[p].status \in {"running", "failed", "cancelled"}
        PROVE  UNCHANGED Ledger!ledger
    BY <2>1, <2>2, RequeuedKeepsVerdicts, SameVerdictsIsStutter DEF IInv, CollectedStatus
  <2>3. CASE ReclaimStale
    BY <2>2, <2>3 DEF ReclaimStale
  <2>4. CASE ResumeRun
    BY <2>2, <2>4 DEF ResumeRun
  <2>5. CASE RetryFailed
    BY <2>2, <2>5 DEF RetryFailed
  <2>6. CASE EnhanceRun
    BY <2>2, <2>6 DEF EnhanceRun
  <2> QED
    BY <1>4, <2>3, <2>4, <2>5, <2>6
<1> QED
  BY <1>1, <1>2, <1>3, <1>4 DEF Clock, Operator

-------------------------------------------------------------------------------
(* The refinement *)

\* Workers, leases, retries and commands taken away, the queue is the ledger:
\* data pages become durable in source order and are never lost, and a partition
\* is declared collected only when all of them are.
THEOREM QueueImplementsLedger == Spec => ImplementsLedger
<1>1. Init => Ledger!Init
  BY DEF Init, Ledger!Init, NewRow, CollectedStatus
<1>2. IInv /\ IInv' /\ [Next]_vars => [Ledger!Next]_(Ledger!ledger)
  <2> SUFFICES ASSUME IInv, IInv', [Next]_vars
               PROVE  Ledger!Next \/ UNCHANGED Ledger!ledger
    OBVIOUS
  <2>1. CASE UNCHANGED vars
    BY <2>1, SameVerdictsIsStutter DEF vars
  <2>2. CASE Next
    BY <2>2, WorkIsLedgerStep, RestIsLedgerStep DEF Next, Fault
  <2> QED
    BY <2>1, <2>2
<1> QED
  BY <1>1, <1>2, InvariantHolds, PTL DEF Spec, ImplementsLedger, Ledger!Spec

\* What the ledger promises follows from the ledger alone: a collected partition
\* lacks nothing.
THEOREM LedgerKeepsPromise == ImplementsLedger => []Ledger!NothingMissing
<1> DEFINE Inv == /\ stored \in [Partitions -> SUBSET Nat]
                  /\ Collected \subseteq Partitions
                  /\ \A p \in Collected : DataPages[p] \subseteq stored[p]
<1>1. Ledger!Init => Inv
  BY DEF Ledger!Init, Collected
<1>2. Inv /\ [Ledger!Next]_(Ledger!ledger) => Inv'
  <2> SUFFICES ASSUME Inv, [Ledger!Next]_(Ledger!ledger)
               PROVE  Inv'
    OBVIOUS
  <2>1. Collected' \subseteq Partitions
    BY DEF Collected
  <2>2. ASSUME NEW p \in Partitions, Ledger!Store(p)
        PROVE  Inv'
    <3>1. PICK n \in DataPages[p] \ stored[p] :
            /\ stored' = [stored EXCEPT ![p] = stored[p] \cup {n}]
            /\ Collected' = Collected
      BY <2>2 DEF Ledger!Store, Collected
    <3>2. n \in Nat
      BY QueueAssumption
    <3> QED
      BY <2>1, <3>1, <3>2
  <2>3. ASSUME NEW p \in Partitions, Ledger!Declare(p) \/ Ledger!Withdraw(p)
        PROVE  Inv'
    <3>1. /\ stored' = stored
          /\ \/ /\ Collected' = Collected \cup {p}
                /\ DataPages[p] \subseteq stored[p]
             \/ Collected' = Collected \ {p}
      BY <2>3 DEF Ledger!Declare, Ledger!Withdraw, Collected
    <3> QED
      BY <2>1, <3>1
  <2>4. CASE UNCHANGED Ledger!ledger
    <3>1. stored' = stored /\ Collected' = Collected
      BY <2>4 DEF Ledger!ledger, Collected
    <3> QED
      BY <2>1, <3>1
  <2> QED
    BY <2>2, <2>3, <2>4 DEF Ledger!Next
<1>3. Inv => Ledger!NothingMissing
  BY DEF Ledger!NothingMissing, Collected
<1> QED
  BY <1>1, <1>2, <1>3, PTL DEF ImplementsLedger, Ledger!Spec
===============================================================================
