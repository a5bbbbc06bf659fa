---------------------------- MODULE WorkersProofs ----------------------------
(***************************************************************************)
(* What the workers promise for any number of batches, hosts, sessions,    *)
(* monitors, attempts and disturbances: the remediation lease, the XAL-006 *)
(* monitor, the quantile ledger, the mission's segments and the source     *)
(* supervisor, each by an inductive invariant of its own, and then all of  *)
(* them as MCWorkers puts them together.                                   *)
(***************************************************************************)
EXTENDS MCWorkers, FiniteSetTheorems, FunctionTheorems, SequenceTheorems, WellFoundedInduction,
        TLAPS

-----------------------------------------------------------------------------
(* The inductive invariant, one row at a time *)

\* What a row says when the commits s of its attempts are stored.  A running
\* batch is under the token of its last attempt: that is why a call which is
\* fenced by the token can only end that attempt.
RowOK(q, s) ==
  /\ q.status = "RUNNING" => q.token = q.attempts /\ q.attempts > 0
  /\ Len(q.history) = q.attempts - (IF q.status = "RUNNING" THEN 1 ELSE 0)
  /\ q.status \notin {"RUNNING", "QUEUED"} =>
       Len(q.history) > 0 /\ q.history[Len(q.history)] = q.status
  /\ q.status = "COMPLETE" => q.source = q.attempts /\ s[q.source] = 1..Commits

Stored == [Attempts -> SUBSET (1..Commits)]
IInv == TypeOK /\ \A b \in Batches : RowOK(batch[b], stored[b])

Outcomes == {"RETRY"} \cup (Final \ {"COMPLETE"})

\* An attempt that is over leaves a row with one more outcome, and no token.
LEMMA OverRow ==
  ASSUME NEW q \in Rows, NEW s \in Stored, RowOK(q, s), q.status = "RUNNING",
         NEW outcome \in Outcomes
  PROVE  Over(q, outcome) \in Rows /\ RowOK(Over(q, outcome), s)
<1> DEFINE o == Over(q, outcome)
<1>1. /\ o.status = outcome /\ o.token = NoToken /\ o.leased = FALSE
      /\ o.history = Append(q.history, outcome)
      /\ o.attempts = q.attempts /\ o.source = q.source
  BY DEF Over, Rows
<1>2. q.history \in Seq({"RETRY"} \cup Final) /\ outcome \in {"RETRY"} \cup Final
  BY DEF Rows, Outcomes
<1>3. /\ Append(q.history, outcome) \in Seq({"RETRY"} \cup Final)
      /\ Len(Append(q.history, outcome)) = Len(q.history) + 1
      /\ Append(q.history, outcome)[Len(q.history) + 1] = outcome
      /\ Len(q.history) \in Nat
  BY <1>2
<1>4. o \in Rows
  <2>1. NoToken \in 0..MaxAttempts
    BY LeaseAssumption DEF NoToken
  <2> QED
    BY <1>2, <1>3, <2>1 DEF Over, Rows
<1>5. RowOK(o, s)
  <2> HIDE DEF o
  <2>1. outcome # "RUNNING" /\ outcome # "COMPLETE"
    BY DEF Outcomes, Final
  <2>2. q.attempts \in Nat
    BY LeaseAssumption DEF Rows
  <2> QED
    BY <1>1, <1>3, <2>1, <2>2 DEF RowOK
<1> QED
  BY <1>4, <1>5

\* Recovering the lapsed leases keeps the rows, and leaves no batch running
\* without a lease.
LEMMA RecoveredRows ==
  ASSUME IInv
  PROVE  /\ Recovered \in [Batches -> Rows]
         /\ \A b \in Batches : RowOK(Recovered[b], stored[b])
<1> SUFFICES ASSUME NEW b \in Batches
             PROVE  Recovered[b] \in Rows /\ RowOK(Recovered[b], stored[b])
  BY DEF Recovered
<1>0. batch[b] \in Rows /\ stored[b] \in Stored /\ RowOK(batch[b], stored[b])
  BY DEF IInv, TypeOK, Stored
<1>1. CASE b \notin Lapsed
  BY <1>0, <1>1 DEF Recovered
<1>2. CASE b \in Lapsed
  <2>1. batch[b].status = "RUNNING"
    BY <1>2 DEF Lapsed
  <2>2. PICK outcome \in {"FAILED", "RETRY"} : Recovered[b] = Over(batch[b], outcome)
    BY <1>2 DEF Recovered
  <2>3. outcome \in Outcomes
    BY DEF Outcomes, Final
  <2> QED
    BY <1>0, <2>1, <2>2, <2>3, OverRow
<1> QED
  BY <1>1, <1>2

\* The row of a new lease.
LEMMA NewLease ==
  ASSUME NEW r \in Rows, NEW n \in 1..MaxAttempts, NEW s, RowOK(r, s),
         r.status \in {"QUEUED", "RETRY"}, r.attempts = n - 1, NEW q,
         q = [r EXCEPT !.status = "RUNNING", !.attempts = n, !.token = n, !.leased = TRUE,
                       !.source = 0]
  PROVE  q \in Rows /\ q.token = n /\ RowOK(q, s)
<1>1. n \in 0..MaxAttempts /\ 0 \in 0..MaxAttempts /\ n \in Nat \ {0}
  BY LeaseAssumption
<1>2. q \in Rows
  BY <1>1 DEF Rows
<1>3. q.status = "RUNNING" /\ q.attempts = n /\ q.token = n /\ q.history = r.history
  BY <1>1 DEF Rows
<1>4. Len(r.history) = n - 1
  BY DEF RowOK
<1> QED
  BY <1>1, <1>2, <1>3, <1>4 DEF RowOK

\* A lease begins a new attempt of a batch that waits, under a token of its own.
LEMMA LeasedRows ==
  ASSUME IInv, NEW b \in Claimable
  PROVE  /\ Leased(b) \in [Batches -> Rows]
         /\ \A c \in Batches : RowOK(Leased(b)[c], stored[c])
         /\ b \in Batches /\ Leased(b)[b].token \in Attempts
<1>0. /\ b \in Batches /\ Recovered[b].status \in {"QUEUED", "RETRY"}
      /\ Recovered[b].attempts < MaxAttempts
  BY DEF Claimable
<1>1. /\ Recovered \in [Batches -> Rows]
      /\ \A c \in Batches : RowOK(Recovered[c], stored[c])
  BY RecoveredRows
<1> DEFINE r == Recovered[b]
           n == r.attempts + 1
           q == [r EXCEPT !.status = "RUNNING", !.attempts = n, !.token = n, !.leased = TRUE,
                          !.source = 0]
<1>2. r \in Rows /\ r.attempts \in Nat /\ n \in 1..MaxAttempts
  BY <1>0, <1>1, LeaseAssumption DEF Rows
<1>3. Leased(b) = [Recovered EXCEPT ![b] = q]
  BY <1>1 DEF Leased, Rows
<1>4. r.attempts = n - 1
  BY <1>2
<1> HIDE DEF n
<1>5. q \in Rows /\ q.token = n /\ RowOK(q, stored[b])
  BY <1>0, <1>1, <1>2, <1>4, NewLease
<1> HIDE DEF q, r
<1> QED
  BY <1>0, <1>1, <1>2, <1>3, <1>5 DEF Attempts

-----------------------------------------------------------------------------
(* The calls *)

\* What a worker that is at work, or is giving up, carries.
LEMMA WorkersCarry ==
  ASSUME TypeOK, NEW w \in Workers
  PROVE  /\ Busy(w) =>
              /\ worker[w] \in [pc : {"working"}, batch : Batches, token : Attempts,
                                next : 1..Commits, tries : 0..(MaxCallTries - 1), lost : BOOLEAN]
              /\ CommitOf(w) \in CommitCalls
         /\ worker[w].pc = "failing" =>
              /\ worker[w] \in [pc : {"failing"}, batch : Batches, token : Attempts,
                                retryable : BOOLEAN, status : Final \ {"COMPLETE"}]
              /\ FailOf(w) \in FailCalls
<1>1. worker[w] \in WorkerStates
  BY DEF TypeOK
<1>2. Idle.pc = "idle" /\ Retired.pc = "retired"
  BY DEF Idle, Retired
<1> QED
  BY <1>1, <1>2 DEF WorkerStates, Busy, CommitOf, FailOf, CommitCalls, FailCalls

\* What a commit adds to the stored ones.
LEMMA AddedCommit ==
  ASSUME NEW S, stored \in [Batches -> [Attempts -> SUBSET S]],
         NEW c \in Batches, NEW a \in Attempts, NEW commit \in S,
         stored' = [stored EXCEPT ![c][a] = @ \cup {commit}]
  PROVE  /\ stored' \in [Batches -> [Attempts -> SUBSET S]]
         /\ \A b \in Batches \ {c} : stored'[b] = stored[b]
         /\ stored'[c][a] = stored[c][a] \cup {commit}
<1>1. stored[c] \in [Attempts -> SUBSET S] /\ stored[c][a] \cup {commit} \in SUBSET S
  OBVIOUS
<1>2. stored' = [stored EXCEPT ![c] = [stored[c] EXCEPT ![a] = stored[c][a] \cup {commit}]]
  OBVIOUS
<1>3. [stored[c] EXCEPT ![a] = stored[c][a] \cup {commit}] \in [Attempts -> SUBSET S]
  BY <1>1
<1> QED
  BY <1>1, <1>2, <1>3

\* An accepted commit keeps the rows: the last one of an attempt completes the
\* batch with the source of that attempt, all of whose rows are stored.
LEMMA CarryRows ==
  ASSUME IInv, NEW r \in CommitCalls, Accepts(r), Carry(r)
  PROVE  /\ batch' \in [Batches -> Rows]
         /\ stored' \in [Batches -> Stored]
         /\ \A b \in Batches : RowOK(batch'[b], stored'[b])
<1> DEFINE c == r.batch
           a == r.token
           q == batch[c]
<1>1. c \in Batches /\ a \in Attempts /\ r.part \in 1..Commits
  BY DEF CommitCalls
<1>2. /\ q \in Rows /\ stored[c] \in Stored /\ RowOK(q, stored[c])
      /\ q.status = "RUNNING" /\ q.token = a /\ q.attempts = a
  BY <1>1 DEF IInv, TypeOK, Stored, Accepts, Fenced, RowOK
<1>3. stored' = [stored EXCEPT ![c][a] = @ \cup {r.part}]
  BY DEF Carry
<1>4. stored' \in [Batches -> Stored]
  BY <1>1, <1>3, AddedCommit DEF IInv, TypeOK, Stored
<1>5. \A b \in Batches \ {c} : stored'[b] = stored[b]
  BY <1>1, <1>3, AddedCommit DEF IInv, TypeOK
<1>6. stored'[c][a] = stored[c][a] \cup {r.part}
  BY <1>1, <1>3, AddedCommit DEF IInv, TypeOK
<1>7. CASE r.part < Commits
  <2> DEFINE p == [q EXCEPT !.source = a]
  <2>1. batch' = [batch EXCEPT ![c] = p]
    BY <1>7 DEF Carry
  <2>2. p \in Rows
    BY <1>1, <1>2, LeaseAssumption DEF Rows, Attempts
  <2>3. RowOK(p, stored'[c])
    BY <1>2 DEF RowOK, Rows
  <2> HIDE DEF p
  <2> QED
    BY <1>1, <1>4, <1>5, <2>1, <2>2, <2>3 DEF IInv, TypeOK
<1>8. CASE ~(r.part < Commits)
  <2>1. PICK outcome \in Verdicts : batch' =
          [batch EXCEPT ![c].source = a, ![c].status = outcome, ![c].leased = FALSE,
                        ![c].history = Append(@, outcome)]
    BY <1>8 DEF Carry
  <2> DEFINE p == [q EXCEPT !.source = a, !.status = outcome, !.leased = FALSE,
                            !.history = Append(@, outcome)]
  <2>2. batch' = [batch EXCEPT ![c] = p]
    BY <1>1, <1>2, <2>1 DEF IInv, TypeOK, Rows
  <2>3. outcome \in Final /\ outcome # "RUNNING" /\ outcome # "QUEUED"
    BY DEF Verdicts, Final
  <2>4. /\ Append(q.history, outcome) \in Seq({"RETRY"} \cup Final)
        /\ Len(Append(q.history, outcome)) = Len(q.history) + 1
        /\ Append(q.history, outcome)[Len(q.history) + 1] = outcome
        /\ Len(q.history) \in Nat
    BY <1>2, <2>3 DEF Rows
  <2>5. p \in Rows
    BY <1>1, <1>2, <2>3, <2>4, LeaseAssumption DEF Rows, Attempts
  <2>6. /\ p.status = outcome /\ p.source = a /\ p.attempts = a
        /\ p.history = Append(q.history, outcome)
    BY <1>2 DEF Rows
  <2>7. r.part = Commits
    BY <1>1, <1>8, LeaseAssumption
  <2>8. stored'[c][a] = 1..Commits
    <3>1. 1..(Commits - 1) \subseteq stored[c][a] /\ stored[c][a] \subseteq 1..Commits
      BY <1>1, <1>2, <2>7 DEF Accepts, Stored
    <3> QED
      BY <1>6, <2>7, <3>1, LeaseAssumption
  <2>9. Len(q.history) = a - 1 /\ a \in Nat
    BY <1>1, <1>2 DEF RowOK, Attempts
  <2> HIDE DEF p
  <2>10. RowOK(p, stored'[c])
    BY <2>3, <2>4, <2>6, <2>8, <2>9 DEF RowOK
  <2> QED
    BY <1>1, <1>4, <1>5, <2>2, <2>5, <2>10 DEF IInv, TypeOK
<1> QED
  BY <1>7, <1>8

\* A failure ends the attempt that it is of, or changes nothing.
LEMMA RecordedRows ==
  ASSUME IInv, NEW r \in FailCalls
  PROVE  /\ Recorded(r) \in [Batches -> Rows]
         /\ \A b \in Batches : RowOK(Recorded(r)[b], stored[b])
<1> DEFINE c == r.batch
<1>1. c \in Batches /\ r.status \in Final \ {"COMPLETE"}
  BY DEF FailCalls
<1>2. batch[c] \in Rows /\ stored[c] \in Stored /\ RowOK(batch[c], stored[c])
  BY <1>1 DEF IInv, TypeOK, Stored
<1>3. CASE Fenced(r)
  <2>1. PICK outcome \in Outcomes : Recorded(r) = [batch EXCEPT ![c] = Over(batch[c], outcome)]
    <3>1. r.status \in Outcomes /\ "RETRY" \in Outcomes
      BY <1>1 DEF Outcomes
    <3> QED
      BY <1>1, <1>3, <3>1 DEF Recorded, IInv, TypeOK
  <2>2. Over(batch[c], outcome) \in Rows /\ RowOK(Over(batch[c], outcome), stored[c])
    BY <1>2, <1>3, OverRow DEF Fenced
  <2> QED
    BY <1>1, <2>1, <2>2 DEF IInv, TypeOK
<1>4. CASE ~Fenced(r)
  <2>1. Recorded(r) = batch
    BY <1>1, <1>4 DEF Recorded, IInv, TypeOK
  <2> QED
    BY <2>1 DEF IInv, TypeOK
<1> QED
  BY <1>3, <1>4

-----------------------------------------------------------------------------
(* Steps *)

\* The table of batches, well typed and with consistent rows.
TableOK == /\ batch \in [Batches -> Rows]
           /\ stored \in [Batches -> Stored]
           /\ \A b \in Batches : RowOK(batch[b], stored[b])

\* What is not in the table.
CallersOK == /\ worker \in [Workers -> WorkerStates]
             /\ stray \subseteq CommitCalls \cup FailCalls
             /\ ready \in BOOLEAN
             /\ disturbances \in 0..MaxDisturbances

\* The invariant is about the table and its callers.
LEMMA IInvParts == IInv <=> TableOK /\ CallersOK
BY DEF IInv, TableOK, CallersOK, TypeOK, Stored

\* The same of the state that a step leads to.
LEMMA PartsIInv ==
  ASSUME TableOK', CallersOK'
  PROVE  IInv'
BY DEF IInv, TableOK, CallersOK, TypeOK, Stored

\* At the start no attempt has begun.
LEMMA InitIInv == Init => IInv
<1> SUFFICES ASSUME Init PROVE TableOK /\ CallersOK
  BY IInvParts
<1> DEFINE q == [status |-> "QUEUED", attempts |-> 0, token |-> NoToken,
                 leased |-> FALSE, source |-> 0, history |-> <<>>]
           s == [a \in Attempts |-> {}]
<1>1. 0 \in 0..MaxAttempts /\ NoToken \in 0..MaxAttempts
  BY LeaseAssumption DEF NoToken
<1>2. <<>> \in Seq({"RETRY"} \cup Final) /\ Len(<<>>) = 0
  OBVIOUS
<1>3. q \in Rows
  BY <1>1, <1>2 DEF Rows
<1>4. RowOK(q, s)
  BY <1>2 DEF RowOK
<1>5. s \in Stored
  BY DEF Stored
<1>6. batch = [b \in Batches |-> q] /\ stored = [b \in Batches |-> s]
  BY DEF Init
<1> HIDE DEF q, s
<1>7. TableOK
  BY <1>3, <1>4, <1>5, <1>6 DEF TableOK
<1>8. CallersOK
  BY LeaseAssumption DEF Init, CallersOK, WorkerStates
<1> QED
  BY <1>7, <1>8

\* A disturbance is counted within its bound.
LEMMA DisturbTyped ==
  ASSUME disturbances \in 0..MaxDisturbances, Disturb \/ UNCHANGED disturbances
  PROVE  disturbances' \in 0..MaxDisturbances
BY LeaseAssumption DEF Disturb

\* The table after a claim, heard or not.
LEMMA ClaimKeeps ==
  ASSUME IInv, NEW w \in Workers, Claim(w) \/ ClaimUnheard(w) \/ ClaimNothing(w)
  PROVE  IInv'
<1>0. TableOK /\ CallersOK
  BY IInvParts
<1>1. CASE Claim(w)
  <2>1. PICK b \in Claimable :
          /\ batch' = Leased(b)
          /\ worker' = [worker EXCEPT ![w] = [pc |-> "working", batch |-> b,
               token |-> batch'[b].token, next |-> 1, tries |-> 0, lost |-> FALSE]]
    BY <1>1 DEF Claim
  <2>2. TableOK'
    BY <1>0, <1>1, <2>1, LeasedRows DEF TableOK, Claim
  <2>3. [pc |-> "working", batch |-> b, token |-> batch'[b].token, next |-> 1, tries |-> 0,
         lost |-> FALSE] \in WorkerStates
    <3>1. b \in Batches /\ batch'[b].token \in Attempts
      BY <2>1, LeasedRows
    <3>2. 1 \in 1..Commits /\ 0 \in 0..(MaxCallTries - 1)
      BY LeaseAssumption
    <3> QED
      BY <3>1, <3>2 DEF WorkerStates
  <2>4. CallersOK'
    BY <1>0, <1>1, <2>1, <2>3 DEF Claim, CallersOK
  <2> QED
    BY <2>2, <2>4, PartsIInv
<1>2. CASE ClaimUnheard(w)
  <2>1. TableOK'
    BY <1>0, <1>2, LeasedRows DEF TableOK, ClaimUnheard
  <2>2. CallersOK'
    BY <1>0, <1>2, DisturbTyped DEF ClaimUnheard, CallersOK
  <2> QED
    BY <2>1, <2>2, PartsIInv
<1>3. CASE ClaimNothing(w)
  <2>1. TableOK'
    BY <1>0, <1>3, RecoveredRows DEF TableOK, ClaimNothing
  <2>2. CallersOK'
    BY <1>0, <1>3 DEF ClaimNothing, CallersOK
  <2> QED
    BY <2>1, <2>2, PartsIInv
<1> QED
  BY <1>1, <1>2, <1>3

\* A lease that lapses leaves its batch running under the same token.
LEMMA LapseKeeps ==
  ASSUME IInv, NEW b \in Batches, LeaseLapses(b)
  PROVE  IInv'
<1>0. TableOK /\ CallersOK
  BY IInvParts
<1> DEFINE q == [batch[b] EXCEPT !.leased = FALSE]
<1>1. batch' = [batch EXCEPT ![b] = q]
  BY DEF LeaseLapses
<1>2. q \in Rows /\ RowOK(q, stored[b])
  BY <1>0 DEF TableOK, Rows, RowOK
<1> HIDE DEF q
<1>3. TableOK'
  BY <1>0, <1>1, <1>2 DEF TableOK, LeaseLapses
<1>4. CallersOK'
  BY <1>0 DEF LeaseLapses, CallersOK
<1> QED
  BY <1>3, <1>4, PartsIInv

\* A commit whose answer arrives.
LEMMA CommitKeeps ==
  ASSUME IInv, NEW w \in Workers, Commit(w)
  PROVE  IInv'
<1>0. TableOK /\ CallersOK /\ TypeOK
  BY IInvParts DEF IInv
<1>1. Busy(w)
  BY DEF Commit, Calls
<1>2. /\ worker[w] \in [pc : {"working"}, batch : Batches, token : Attempts,
                        next : 1..Commits, tries : 0..(MaxCallTries - 1), lost : BOOLEAN]
      /\ CommitOf(w) \in CommitCalls
  BY <1>0, <1>1, WorkersCarry
<1>3. TableOK'
  <2>1. CASE Accepts(CommitOf(w)) /\ Carry(CommitOf(w))
    BY <1>2, <2>1, CarryRows DEF TableOK
  <2>2. CASE UNCHANGED <<batch, stored>>
    BY <1>0, <2>2 DEF TableOK
  <2> QED
    BY <2>1, <2>2 DEF Commit
<1>4. CASE worker[w].next = Commits
  BY <1>0, <1>3, <1>4, PartsIInv DEF Commit, LetGo, CallersOK, WorkerStates
<1>5. CASE worker[w].next # Commits
  <2> DEFINE j == [worker[w] EXCEPT !.next = @ + 1, !.tries = 0]
  <2>1. worker' = [worker EXCEPT ![w] = j]
    BY <1>5 DEF Commit
  <2>2. worker[w].next + 1 \in 1..Commits /\ 0 \in 0..(MaxCallTries - 1)
    BY <1>2, <1>5, LeaseAssumption
  <2>3. j \in WorkerStates
    BY <1>2, <2>2 DEF WorkerStates
  <2> HIDE DEF j
  <2>4. CallersOK'
    BY <1>0, <2>1, <2>3 DEF Commit, CallersOK
  <2> QED
    BY <1>3, <2>4, PartsIInv
<1> QED
  BY <1>4, <1>5

\* A worker that gives up, for whatever reason, goes on to report a failure.
LEMMA FailingTyped ==
  ASSUME TypeOK, NEW w \in Workers, Busy(w), NEW retryable \in BOOLEAN,
         NEW status \in Final \ {"COMPLETE"}
  PROVE  Failing(w, retryable, status) \in WorkerStates
<1>1. worker[w].batch \in Batches /\ worker[w].token \in Attempts
  BY WorkersCarry
<1> QED
  BY <1>1 DEF Failing, WorkerStates

\* What else a worker does between two answers leaves the table alone.
LEMMA WorkerKeeps ==
  ASSUME IInv, NEW w \in Workers,
         CommitRefused(w) \/ CommitTimesOut(w) \/ SourceFails(w) \/ HeartbeatFails(w)
           \/ GiveUp(w) \/ FailTimesOut(w) \/ Crash(w)
  PROVE  IInv'
<1>0. TableOK /\ CallersOK /\ TypeOK
  BY IInvParts DEF IInv
<1>1. UNCHANGED <<batch, stored, ready>>
  BY DEF CommitRefused, CommitTimesOut, SourceFails, HeartbeatFails, GiveUp, FailTimesOut, Crash
<1>2. disturbances' \in 0..MaxDisturbances
  BY <1>0, DisturbTyped DEF CommitRefused, CommitTimesOut, SourceFails, HeartbeatFails, GiveUp,
     FailTimesOut, Crash, CallersOK
<1>3. stray' \subseteq CommitCalls \cup FailCalls
  <2>1. CASE CommitTimesOut(w)
    BY <1>0, <2>1, WorkersCarry DEF CommitTimesOut, CallersOK, Calls
  <2>2. CASE FailTimesOut(w)
    BY <1>0, <2>2, WorkersCarry DEF FailTimesOut, CallersOK
  <2>3. CASE UNCHANGED stray
    BY <1>0, <2>3 DEF CallersOK
  <2> QED
    BY <2>1, <2>2, <2>3 DEF CommitRefused, SourceFails, HeartbeatFails, GiveUp, Crash
<1>4. "FAILED" \in Final \ {"COMPLETE"} /\ TRUE \in BOOLEAN /\ FALSE \in BOOLEAN
  BY DEF Final
<1>5. PICK j \in WorkerStates : worker' = [worker EXCEPT ![w] = j]
  <2>1. CASE CommitRefused(w) \/ SourceFails(w) \/ GiveUp(w)
    BY <1>0, <1>4, <2>1, FailingTyped DEF CommitRefused, SourceFails, GiveUp, Calls
  <2>2. CASE CommitTimesOut(w)
    <3>1. Busy(w) /\ worker[w] \in [pc : {"working"}, batch : Batches, token : Attempts,
             next : 1..Commits, tries : 0..(MaxCallTries - 1), lost : BOOLEAN]
      BY <1>0, <2>2, WorkersCarry DEF CommitTimesOut, Calls
    <3>2. CASE TriesLeft(w)
      <4>1. worker' = [worker EXCEPT ![w] = [worker[w] EXCEPT !.tries = @ + 1]]
        BY <2>2, <3>2 DEF CommitTimesOut
      <4>2. worker[w].tries + 1 \in 0..(MaxCallTries - 1)
        BY <3>1, <3>2, LeaseAssumption DEF TriesLeft
      <4>3. [worker[w] EXCEPT !.tries = @ + 1] \in WorkerStates
        BY <3>1, <4>2 DEF WorkerStates
      <4> QED
        BY <4>1, <4>3
    <3>3. CASE ~TriesLeft(w)
      BY <1>0, <1>4, <2>2, <3>1, <3>3, FailingTyped DEF CommitTimesOut
    <3> QED
      BY <3>2, <3>3
  <2>3. CASE HeartbeatFails(w)
    <3>1. worker[w] \in [pc : {"working"}, batch : Batches, token : Attempts,
             next : 1..Commits, tries : 0..(MaxCallTries - 1), lost : BOOLEAN]
      BY <1>0, <2>3, WorkersCarry DEF HeartbeatFails
    <3>2. [worker[w] EXCEPT !.lost = TRUE] \in WorkerStates
      BY <3>1 DEF WorkerStates
    <3> QED
      BY <2>3, <3>2 DEF HeartbeatFails
  <2>4. CASE FailTimesOut(w) \/ Crash(w)
    BY <2>4 DEF FailTimesOut, Crash, LetGo, WorkerStates
  <2> QED
    BY <2>1, <2>2, <2>3, <2>4
<1>6. TableOK'
  BY <1>0, <1>1 DEF TableOK
<1>7. CallersOK'
  BY <1>0, <1>1, <1>2, <1>3, <1>5 DEF CallersOK
<1> QED
  BY <1>6, <1>7, PartsIInv

\* A failure that is reported, and calls that are carried out late.
LEMMA FailKeeps ==
  ASSUME IInv, NEW w \in Workers, Fail(w)
  PROVE  IInv'
<1>0. TableOK /\ CallersOK /\ TypeOK
  BY IInvParts DEF IInv
<1>1. FailOf(w) \in FailCalls
  BY <1>0, WorkersCarry DEF Fail
<1>2. TableOK'
  BY <1>0, <1>1, RecordedRows DEF Fail, TableOK
<1>3. CallersOK'
  BY <1>0 DEF Fail, LetGo, CallersOK, WorkerStates
<1> QED
  BY <1>2, <1>3, PartsIInv

\* A late call is fenced like one in time.
LEMMA StrayKeeps ==
  ASSUME IInv, NEW r \in stray, StrayCommit(r) \/ StrayFail(r)
  PROVE  IInv'
<1>0. TableOK /\ CallersOK
  BY IInvParts
<1>1. r \in CommitCalls \cup FailCalls
  BY <1>0 DEF CallersOK
<1>2. CallersOK'
  BY <1>0 DEF StrayCommit, StrayFail, CallersOK
<1>3. CASE StrayCommit(r)
  <2>1. r \in CommitCalls
    BY <1>1, <1>3 DEF StrayCommit, CommitCalls, FailCalls
  <2>2. TableOK'
    BY <1>0, <1>3, <2>1, CarryRows DEF StrayCommit, TableOK
  <2> QED
    BY <1>2, <2>2, PartsIInv
<1>4. CASE StrayFail(r)
  <2>1. r \in FailCalls
    BY <1>1, <1>4 DEF StrayFail, CommitCalls, FailCalls
  <2>2. TableOK'
    BY <1>0, <1>4, <2>1, RecordedRows DEF StrayFail, TableOK
  <2> QED
    BY <1>2, <2>2, PartsIInv
<1> QED
  BY <1>3, <1>4

\* No call, heard, lost or late, no crash and no closing of the gate breaks it.
LEMMA NextIInv ==
  ASSUME IInv, [Next]_vars
  PROVE  IInv'
<1>1. ASSUME NEW w \in Workers, Work(w)
      PROVE  IInv'
  BY <1>1, ClaimKeeps, CommitKeeps, WorkerKeeps, FailKeeps DEF Work
<1>2. ASSUME NEW w \in Workers, ClaimUnheard(w) \/ CommitTimesOut(w) \/ SourceFails(w)
               \/ HeartbeatFails(w) \/ FailTimesOut(w) \/ Crash(w)
      PROVE  IInv'
  BY <1>2, ClaimKeeps, WorkerKeeps
<1>3. CASE GateMoves
  <2>1. TableOK /\ CallersOK
    BY IInvParts
  <2>2. TableOK' /\ CallersOK'
    BY <1>3, <2>1, DisturbTyped DEF GateMoves, TableOK, CallersOK
  <2> QED
    BY <2>2, PartsIInv
<1>4. CASE UNCHANGED vars
  BY <1>4 DEF vars, IInv, TypeOK, RowOK
<1> QED
  BY <1>1, <1>2, <1>3, <1>4, LapseKeeps, StrayKeeps DEF Next

-----------------------------------------------------------------------------
(* The theorems *)

\* The rows, the workers and the calls on their way are as IInv says, always.
THEOREM LeaseInvariant == Spec => []IInv
BY InitIInv, NextIInv, PTL DEF Spec

\* Batches, workers and calls are well typed, tries of a call within their bound.
THEOREM LeaseTypeCorrect == Spec => []TypeOK
<1>1. IInv => TypeOK
  BY DEF IInv
<1> QED
  BY <1>1, LeaseInvariant, PTL

\* Every attempt that is over has one outcome: no late, repeated or unheard call
\* of remediation_source_worker_schema ends an attempt that is not its own.
THEOREM EveryAttemptAccounted == Spec => []AttemptsAccounted
<1>1. IInv => AttemptsAccounted
  BY DEF IInv, RowOK, AttemptsAccounted
<1> QED
  BY <1>1, LeaseInvariant, PTL

\* A completed batch has the rows of the source of its last attempt, all of them.
THEOREM ResultsOfLastAttempt == Spec => []ResultOfLastAttempt
<1>1. IInv => ResultOfLastAttempt
  BY DEF IInv, RowOK, ResultOfLastAttempt
<1> QED
  BY <1>1, LeaseInvariant, PTL

-----------------------------------------------------------------------------
(***************************************************************************)
(* The XAL-006 monitor                                                     *)
(***************************************************************************)
SignalStatuses == {"TRIGGERED", "ENTRY_CAPTURED", "COMPLETE", "MISSED_SOURCE_CAPTURE",
                   "MISSED_ENTRY_CAPTURE", "MISSED_EXIT_CAPTURE"}
Outcomes3 == {"open", "filled", "unfilled"}
SignalRows ==
  [status : SignalStatuses, boundary : Signal!Boundaries, entry : Nat, passive : Outcomes3,
   exit : Nat, basis : Nat, cross : BOOLEAN]
SignalCopies == SignalRows \cup {Signal!NoSignal}
OfRow == {"entry", "entered", "passive", "passed", "exit", "exited"}
OfSource == {"source", "prior", "evaluated", "signal"}
MonitorStates ==
  [pc : OfRow \cup OfSource \cup {"idle", "reread", "list"}, now : Nat, row : SignalCopies,
   todo : SUBSET Signal!Boundaries, tail : BOOLEAN, book : Nat]

SignalTyped ==
  /\ clock \in 0..Signal!DayOver
  /\ bars \in [Signal!Boundaries -> {"none", "plain", "tail"}] /\ fills \in Outcomes3
  /\ DOMAIN evaluations \subseteq Signal!Boundaries
  /\ evaluations \in [DOMAIN evaluations -> BOOLEAN]
  /\ signal \in SignalCopies /\ monitor \in [Monitors -> MonitorStates] /\ lost \in BOOLEAN
  /\ \A w \in Monitors : monitor[w].pc = "idle"
                         \/ clock \in monitor[w].now..(monitor[w].now + LongestTick)

Evaluated == DOMAIN evaluations
FirstTail(b) == bars[b] = "tail" /\ \A c \in 1..(b - 1) : bars[c] = "plain"
EventBy(b) == \E c \in Evaluated : c <= b /\ evaluations[c]

\* Boundaries are evaluated in their order; the first tail entry is the event, the
\* others come after it.
EvaluationsOK ==
  \A b \in Evaluated :
    /\ bars[b] # "none" /\ \A c \in 1..(b - 1) : c \in Evaluated
    /\ evaluations[b] => FirstTail(b)
    /\ bars[b] = "tail" => EventBy(b)

\* What a monitor knows of the boundary that it is at.
SourceOK(m) ==
  /\ m.todo # {} /\ \A b \in m.todo : \A c \in 1..(b - 1) : c \in m.todo \cup Evaluated
  /\ LET b == Signal!First(m.todo) IN
     /\ m.pc \in {"prior", "evaluated"} => bars[b] # "none"
     /\ m.pc = "evaluated" => IF m.tail THEN FirstTail(b) ELSE bars[b] = "tail" => EventBy(b)
     /\ m.pc = "signal" => b \in Evaluated /\ evaluations[b]

\* The row of the signal.  An exit is due when no entry can be written any more.
Captured(s) == s.entry >= Signal!EntryAt(s)
RowFaithful(s) ==
  /\ s.boundary \in Evaluated /\ evaluations[s.boundary]
  /\ s.passive \in {"open", fills}
  /\ s.status = "ENTRY_CAPTURED" => Captured(s)
  /\ s.status = "COMPLETE" => /\ clock >= Signal!ExitAt(s) /\ s.basis = s.entry /\ Captured(s)
                              /\ s.exit >= Signal!ExitAt(s) /\ s.passive # "open"
                              /\ s.cross = (s.passive = "filled")

\* What a copy of it that a monitor has taken says still.
CopyOK(m) ==
  /\ m.pc \in OfRow \cup {"reread"} => signal # Signal!NoSignal
  /\ m.pc \in OfRow => /\ m.row # Signal!NoSignal /\ m.row.boundary = signal.boundary
                       /\ m.row.passive # "open" => m.row.passive = signal.passive
  /\ m.pc = "entered" => /\ m.now <= Signal!EntryAt(m.row) + 1
                         /\ m.book >= Signal!EntryAt(m.row)
  /\ m.pc \in {"passive", "passed", "exit", "exited"} => Captured(signal)
  /\ m.pc = "passed" => signal.passive # "open"
  /\ m.pc \in {"exit", "exited"} => /\ m.now >= Signal!ExitAt(m.row) /\ m.row.entry = signal.entry
                                    /\ m.row.passive # "open"
  /\ m.pc = "exited" => m.book >= Signal!ExitAt(m.row)

Owed ==
  signal = Signal!NoSignal /\ ~lost /\ (\E b \in Evaluated : evaluations[b])
    => \E w \in Monitors : monitor[w].pc = "signal"

SignalIInv ==
  /\ SignalTyped /\ EvaluationsOK /\ Owed
  /\ signal # Signal!NoSignal => RowFaithful(signal)
  /\ \A w \in Monitors : /\ monitor[w].pc \in OfSource => SourceOK(monitor[w])
                         /\ CopyOK(monitor[w])

\* Times are numbers, and later boundaries come later.
LEMMA SignalTimes ==
  /\ LastBoundary \in Nat /\ Spacing \in Nat /\ Lead \in Nat /\ Hold \in Nat /\ LongestTick \in Nat
  /\ 1 <= Spacing /\ 1 <= Hold
  /\ \A b \in Nat : b * Spacing \in Nat
  /\ \A b, c \in Nat : c <= b => c * Spacing <= b * Spacing
  /\ Signal!DayOver \in Nat
<1>1. /\ LastBoundary \in Nat /\ Spacing \in Nat /\ Lead \in Nat /\ Hold \in Nat /\ LongestTick \in Nat
      /\ 1 <= Spacing /\ 1 <= Hold
  BY WorkerBounds
<1>2. \A b \in Nat : b * Spacing \in Nat
  BY <1>1
<1>3. ASSUME NEW b \in Nat, NEW c \in Nat, c <= b PROVE c * Spacing <= b * Spacing
  <2>1. PICK d \in Nat : b = c + d
    <3>1. b - c \in Nat /\ b = c + (b - c)
      BY <1>3
    <3> QED BY <3>1
  <2>2. b * Spacing = c * Spacing + d * Spacing
    BY <1>1, <2>1
  <2> QED BY <1>2, <2>2
<1>4. Signal!DayOver \in Nat
  BY <1>1, <1>2 DEF Signal!DayOver
<1> QED BY <1>1, <1>2, <1>3, <1>4

\* The times of a row.
LEMMA RowTimes ==
  ASSUME NEW s \in SignalRows
  PROVE  /\ s.boundary * Spacing \in Nat /\ Signal!EntryAt(s) \in Nat /\ Signal!ExitAt(s) \in Nat
         /\ Signal!EntryAt(s) = s.boundary * Spacing + Lead
         /\ Signal!ExitAt(s) = Signal!EntryAt(s) + Hold
         /\ s.status # "none" /\ s # Signal!NoSignal
         /\ \A r \in SignalRows : r.boundary = s.boundary =>
              Signal!EntryAt(r) = Signal!EntryAt(s) /\ Signal!ExitAt(r) = Signal!ExitAt(s)
<1>1. s.boundary \in Nat /\ s.status \in SignalStatuses
  BY SignalTimes DEF SignalRows, Signal!Boundaries
<1>2. Signal!NoSignal.status = "none" /\ "none" \notin SignalStatuses
  BY DEF Signal!NoSignal, SignalStatuses
<1> QED BY <1>1, <1>2, SignalTimes DEF Signal!EntryAt, Signal!ExitAt

\* The first of some boundaries.
LEMMA FirstBoundary ==
  ASSUME NEW todo \in SUBSET Signal!Boundaries, todo # {}
  PROVE  /\ Signal!First(todo) \in todo /\ Signal!First(todo) \in Nat
         /\ \A c \in todo : Signal!First(todo) <= c
<1>1. todo \subseteq Nat
  BY SignalTimes DEF Signal!Boundaries
<1>2. PICK d \in todo : \A e \in todo : ~(<<e, d>> \in OpToRel(<, Nat))
  BY <1>1, NatLessThanWellFounded, WFMin
<1>3. ASSUME NEW k \in Nat, NEW m \in Nat, k < m PROVE <<k, m>> \in OpToRel(<, Nat)
  BY <1>3 DEF OpToRel
<1>4. \A e \in todo : ~(e < d)
  BY <1>1, <1>2, <1>3
<1>5. \A e \in todo : e \in Nat /\ d \in Nat
  BY <1>1
<1>6. \A e \in todo : d <= e
  BY <1>4, <1>5
<1> QED BY <1>1, <1>6, Zenon DEF Signal!First

\* The monitors' invariant holds at the start.
LEMMA SignalInit == Signal!Init => SignalIInv
<1> SUFFICES ASSUME Signal!Init PROVE SignalIInv
  OBVIOUS
<1>1. Signal!Idle \in MonitorStates
  BY DEF Signal!Idle, MonitorStates, SignalCopies
<1>2. DOMAIN evaluations = {} /\ signal = Signal!NoSignal
  BY DEF Signal!Init
<1>3. \A w \in Monitors : monitor[w] = Signal!Idle /\ monitor[w].pc = "idle"
  BY DEF Signal!Init, Signal!Idle
<1>4. SignalTyped
  <2>1. bars \in [Signal!Boundaries -> {"none", "plain", "tail"}]
    BY DEF Signal!Init
  <2>2. evaluations \in [DOMAIN evaluations -> BOOLEAN] /\ DOMAIN evaluations \subseteq Signal!Boundaries
    BY <1>2 DEF Signal!Init
  <2>3. monitor \in [Monitors -> MonitorStates]
    BY <1>1 DEF Signal!Init
  <2>4. clock \in 0..Signal!DayOver /\ fills \in Outcomes3 /\ lost \in BOOLEAN /\ signal \in SignalCopies
    <3>1. Signal!DayOver \in Nat
      BY SignalTimes
    <3>2. clock = 0 /\ fills = "open" /\ lost = FALSE /\ signal = Signal!NoSignal
      BY DEF Signal!Init
    <3>3. 0 \in 0..Signal!DayOver
      BY <3>1
    <3>4. "open" \in Outcomes3 /\ Signal!NoSignal \in SignalCopies /\ FALSE \in BOOLEAN
      BY DEF Outcomes3, SignalCopies
    <3> QED BY <3>2, <3>3, <3>4
  <2> QED BY <1>3, <2>1, <2>2, <2>3, <2>4 DEF SignalTyped
<1> QED BY <1>2, <1>3, <1>4 DEF SignalIInv, EvaluationsOK, Evaluated, Owed, OfSource, OfRow, CopyOK

(* A step that only moves a monitor. *)
LEMMA MonitorMoves ==
  ASSUME SignalIInv, NEW w \in Monitors, NEW st \in MonitorStates,
         UNCHANGED <<clock, bars, fills, evaluations, signal, lost>>,
         monitor' = [monitor EXCEPT ![w] = st],
         st.pc # "idle" => clock \in st.now..(st.now + LongestTick),
         st.pc \in OfSource => SourceOK(st), CopyOK(st),
         monitor[w].pc = "signal" => signal # Signal!NoSignal \/ lost
  PROVE  SignalIInv'
<1>0. monitor \in [Monitors -> MonitorStates]
  BY DEF SignalIInv, SignalTyped
<1>1. \A v \in Monitors : monitor'[v] = IF v = w THEN st ELSE monitor[v]
  BY <1>0
<1>2. SignalTyped'
  BY <1>0, <1>1 DEF SignalIInv, SignalTyped
<1>3. EvaluationsOK'
  BY DEF SignalIInv, EvaluationsOK, Evaluated, FirstTail, EventBy
<1>4. Owed'
  BY <1>1 DEF SignalIInv, Owed, Evaluated
<1>5. signal # Signal!NoSignal => RowFaithful(signal)'
  BY DEF SignalIInv, RowFaithful, Evaluated, Captured
<1>6. ASSUME NEW v \in Monitors
      PROVE ((monitor[v].pc \in OfSource => SourceOK(monitor[v])) /\ CopyOK(monitor[v]))'
  <2>1. PICK m \in MonitorStates : m = monitor'[v] /\ (m.pc \in OfSource => SourceOK(m)) /\ CopyOK(m)
    <3>1. CASE v = w
      BY <1>1, <3>1
    <3>2. CASE v # w
      BY <1>0, <1>1, <3>2 DEF SignalIInv
    <3> QED BY <3>1, <3>2
  <2>2. (m.pc \in OfSource => SourceOK(m)') /\ CopyOK(m)'
    BY <2>1 DEF SourceOK, CopyOK, Captured, Evaluated, FirstTail, EventBy
  <2> QED
    BY <2>1, <2>2 DEF SourceOK, CopyOK, Captured, Evaluated, FirstTail, EventBy
<1>7. (signal # Signal!NoSignal => RowFaithful(signal))'
  BY <1>5 DEF RowFaithful, Evaluated, Captured
<1> QED BY <1>2, <1>3, <1>4, <1>6, <1>7 DEF SignalIInv

\* A tick takes less time than there is between an entry and its exit.
Patient == Hold > LongestTick + 1

Taken(now, go) ==
  [Signal!Idle EXCEPT !.now = now, !.pc = go,
                      !.row = IF go = "list" THEN Signal!NoSignal ELSE signal]
Leading(now, go) ==
  \/ go = "entry" /\ signal.status = "TRIGGERED"
  \/ go = Signal!Leads(signal, now)
  \/ /\ signal # Signal!NoSignal /\ signal.passive # "open" /\ Captured(signal)
     /\ go = IF now < Signal!ExitAt(signal) THEN "list" ELSE "exit"

\* A monitor takes a copy of the signal and goes where that leads.
LEMMA CopyTaken ==
  ASSUME SignalIInv, Patient, NEW now \in Nat, now <= clock, NEW go, Leading(now, go)
  PROVE  /\ Taken(now, go) \in MonitorStates /\ CopyOK(Taken(now, go))
         /\ Taken(now, go).pc \notin OfSource \cup {"idle"} /\ Taken(now, go).now = now
<1> DEFINE st == Taken(now, go)
<1>1. signal \in SignalCopies /\ clock \in Nat
  BY SignalTimes DEF SignalIInv, SignalTyped
<1>2. go \in {"entry", "passive", "exit", "list"}
  BY DEF Leading, Signal!Leads
<1>3. /\ st \in MonitorStates /\ st.pc = go /\ st.now = now
      /\ st.row = IF go = "list" THEN Signal!NoSignal ELSE signal
  BY <1>1, <1>2 DEF Taken, Signal!Idle, MonitorStates, OfRow, OfSource, SignalCopies
<1> HIDE DEF st
<1>4. go \notin OfSource \cup {"idle"}
  BY <1>2 DEF OfSource
<1>5. CASE signal = Signal!NoSignal
  <2>1. signal.status = "none"
    BY <1>5 DEF Signal!NoSignal
  <2>2. go = "list"
    BY <1>5, <2>1 DEF Leading, Signal!Leads
  <2> QED BY <1>3, <1>4, <2>2 DEF st, CopyOK, OfRow
<1>6. CASE signal # Signal!NoSignal
  <2>1. signal \in SignalRows
    BY <1>1, <1>6 DEF SignalCopies
  <2>2. RowFaithful(signal)
    BY <1>6 DEF SignalIInv
  <2>3. /\ Signal!EntryAt(signal) \in Nat /\ Signal!ExitAt(signal) = Signal!EntryAt(signal) + Hold
        /\ Hold \in Nat /\ LongestTick \in Nat /\ 1 <= LongestTick
    BY <2>1, RowTimes, SignalTimes, WorkerBounds
  <2>4. go \in {"passive", "exit"} => Captured(signal)
    BY <2>2 DEF RowFaithful, Leading, Signal!Leads
  <2>5. go = "exit" => now >= Signal!ExitAt(signal) /\ signal.passive # "open"
    BY <2>3 DEF Leading, Signal!Leads, Signal!PassiveDue, Patient
  <2>6. go # "list" => st.row = signal
    BY <1>3
  <2>7. CopyOK(st)
    BY <1>2, <1>3, <1>6, <2>4, <2>5, <2>6 DEF CopyOK, OfRow
  <2> QED BY <1>3, <1>4, <2>7 DEF st
<1> QED BY <1>5, <1>6

\* What a monitor is doing is in its states, at a time that is near.
LEMMA MonitorFacts ==
  ASSUME SignalIInv, NEW w \in Monitors
  PROVE  /\ monitor[w] \in MonitorStates /\ clock \in Nat /\ LongestTick \in Nat
         /\ monitor[w].now \in Nat
         /\ monitor[w].pc # "idle" => /\ clock \in monitor[w].now..(monitor[w].now + LongestTick)
                                      /\ monitor[w].now <= clock
                                      /\ clock <= monitor[w].now + LongestTick
         /\ monitor[w].pc \in OfSource => SourceOK(monitor[w])
         /\ CopyOK(monitor[w])
         /\ signal \in SignalCopies
         /\ signal # Signal!NoSignal => signal \in SignalRows /\ RowFaithful(signal)
         /\ monitor[w].row # Signal!NoSignal => monitor[w].row \in SignalRows
<1>1. monitor[w] \in MonitorStates /\ clock \in Nat /\ LongestTick \in Nat /\ signal \in SignalCopies
  BY SignalTimes DEF SignalIInv, SignalTyped
<1>2. monitor[w].now \in Nat /\ monitor[w].row \in SignalCopies
  BY <1>1 DEF MonitorStates
<1>3. monitor[w].pc # "idle" => clock \in monitor[w].now..(monitor[w].now + LongestTick)
  BY DEF SignalIInv, SignalTyped
<1>4. monitor[w].pc # "idle" => /\ monitor[w].now <= clock
                                /\ clock <= monitor[w].now + LongestTick
  BY <1>1, <1>2, <1>3
<1> QED BY <1>1, <1>2, <1>3, <1>4 DEF SignalIInv, SignalCopies

\* A tick begins, or goes on after a write, with a new copy of the row.
LEMMA TickKeeps ==
  ASSUME SignalIInv, Patient, NEW w \in Monitors,
         Signal!Tick(w) \/ Signal!Reread(w) \/ Signal!RereadAfterPassive(w)
  PROVE  SignalIInv'
<1> DEFINE m == monitor[w]
<1>0. /\ m \in MonitorStates /\ clock \in Nat /\ LongestTick \in Nat /\ CopyOK(m) /\ m.now \in Nat
      /\ m.pc # "idle" => m.now <= clock /\ clock <= m.now + LongestTick
  BY MonitorFacts
<1>1. ASSUME NEW now \in Nat, now <= clock, clock <= now + LongestTick, NEW go, Leading(now, go),
         Signal!GoesWith(w, now, go, signal), m.pc # "signal",
         UNCHANGED <<clock, bars, fills, evaluations, signal, lost>>
      PROVE SignalIInv'
  <2>1. /\ Taken(now, go) \in MonitorStates /\ CopyOK(Taken(now, go))
        /\ Taken(now, go).pc \notin OfSource \cup {"idle"} /\ Taken(now, go).now = now
    BY <1>1, CopyTaken
  <2>2. monitor' = [monitor EXCEPT ![w] = Taken(now, go)]
    BY <1>1 DEF Taken, Signal!GoesWith, Signal!Set
  <2>3. clock \in now..(now + LongestTick)
    BY <1>0, <1>1
  <2> QED BY <1>1, <2>1, <2>2, <2>3, MonitorMoves
<1>2. CASE Signal!Tick(w)
  <2>1. m.pc = "idle" /\ clock <= clock + LongestTick
    BY <1>0, <1>2 DEF Signal!Tick, Signal!At
  <2>2. PICK go : Leading(clock, go) /\ Signal!GoesWith(w, clock, go, signal)
    BY <1>2 DEF Leading, Signal!Tick
  <2>3. UNCHANGED <<clock, bars, fills, evaluations, signal, lost>>
    BY <1>2 DEF Signal!Tick, Signal!market
  <2> QED BY <1>0, <1>1, <2>1, <2>2, <2>3
<1>3. CASE Signal!Reread(w)
  <2>1. m.pc \in {"reread", "entry"}
    BY <1>3 DEF Signal!Reread, Signal!At
  <2>2. PICK go : Leading(m.now, go) /\ Signal!GoesWith(w, m.now, go, signal)
    BY <1>3 DEF Leading, Signal!Reread, Signal!Now
  <2>3. UNCHANGED <<clock, bars, fills, evaluations, signal, lost>>
    BY <1>3 DEF Signal!Reread, Signal!market
  <2> QED BY <1>0, <1>1, <2>1, <2>2, <2>3
<1>4. CASE Signal!RereadAfterPassive(w)
  <2>1. m.pc = "passed" /\ signal # Signal!NoSignal /\ signal.passive # "open" /\ Captured(signal)
        /\ m.row.boundary = signal.boundary /\ m.row \in SignalRows /\ signal \in SignalRows
    BY <1>0, <1>4, MonitorFacts DEF Signal!RereadAfterPassive, Signal!At, CopyOK, OfRow
  <2>2. Signal!ExitAt(m.row) = Signal!ExitAt(signal)
    BY <2>1, RowTimes
  <2>3. PICK go : Leading(m.now, go) /\ Signal!GoesWith(w, m.now, go, signal)
    BY <1>4, <2>1, <2>2 DEF Leading, Signal!RereadAfterPassive, Signal!ExitOr, Signal!Now,
       Signal!Row
  <2>4. UNCHANGED <<clock, bars, fills, evaluations, signal, lost>>
    BY <1>4 DEF Signal!RereadAfterPassive, Signal!market
  <2> QED BY <1>0, <1>1, <2>1, <2>3, <2>4
<1> QED BY <1>2, <1>3, <1>4

\* A book is fetched in time, and not before its time.
LEMMA BookKeeps ==
  ASSUME SignalIInv, NEW w \in Monitors, Signal!EntryBook(w) \/ Signal!ExitBook(w)
  PROVE  SignalIInv'
<1> DEFINE m == monitor[w]
           go == IF m.pc = "entry" THEN "entered" ELSE "exited"
           st == [m EXCEPT !.pc = go, !.book = clock]
<1>1. /\ m \in MonitorStates /\ clock \in Nat /\ LongestTick \in Nat /\ CopyOK(m) /\ m.now \in Nat
      /\ m.pc \in {"entry", "exit"} /\ m.now <= clock
      /\ clock \in m.now..(m.now + LongestTick)
      /\ m.row # Signal!NoSignal /\ m.row \in SignalRows
  <2>1. m.pc \in {"entry", "exit"}
    BY DEF Signal!EntryBook, Signal!ExitBook, Signal!At
  <2> QED BY <2>1, MonitorFacts DEF CopyOK, OfRow
<1>2. /\ st \in MonitorStates /\ st.pc = go /\ st.book = clock /\ st.now = m.now /\ st.row = m.row
  BY <1>1 DEF MonitorStates, OfRow
<1>3. monitor' = [monitor EXCEPT ![w] = st] /\ UNCHANGED <<clock, bars, fills, evaluations, signal, lost>>
  BY DEF Signal!EntryBook, Signal!ExitBook, Signal!At, Signal!Set, Signal!market
<1>4. Signal!EntryAt(m.row) \in Nat /\ Signal!ExitAt(m.row) \in Nat
  BY <1>1, RowTimes
<1>5. m.pc = "entry" => m.now >= Signal!EntryAt(m.row) /\ m.now <= Signal!EntryAt(m.row) + 1
  BY <1>1, <1>4 DEF Signal!EntryBook, Signal!ExitBook, Signal!At, Signal!Now, Signal!Row
<1>6. CopyOK(st)
  BY <1>1, <1>2, <1>4, <1>5 DEF CopyOK, OfRow
<1>7. st.pc \notin OfSource /\ m.pc # "signal"
  BY <1>1, <1>2 DEF OfSource
<1> HIDE DEF st, go
<1> QED BY <1>1, <1>2, <1>3, <1>6, <1>7, MonitorMoves

\* The tick goes on to the boundaries that are left.
Going(m, todo) ==
  IF todo = {} THEN Signal!Idle ELSE [m EXCEPT !.pc = "source", !.todo = todo]

\* A monitor that goes on in its tick keeps its time.
LEMMA GoingState ==
  ASSUME SignalIInv, NEW w \in Monitors, monitor[w].pc # "idle",
         NEW todo \in SUBSET Signal!Boundaries
  PROVE  LET st == Going(monitor[w], todo) IN
         /\ st \in MonitorStates /\ st.pc \in {"idle", "source"}
         /\ st.pc # "idle" => clock \in st.now..(st.now + LongestTick)
         /\ st.pc = "source" => st.todo = todo /\ todo # {}
<1> DEFINE m == monitor[w]
           st == Going(m, todo)
<1>1. m \in MonitorStates /\ clock \in m.now..(m.now + LongestTick)
  BY MonitorFacts
<1>2. CASE todo = {}
  <2>1. st = Signal!Idle
    BY <1>2 DEF Going
  <2>2. Signal!Idle \in MonitorStates /\ Signal!Idle.pc = "idle"
    BY DEF Signal!Idle, MonitorStates, SignalCopies
  <2> QED BY <2>1, <2>2
<1>3. CASE todo # {}
  <2>1. st = [m EXCEPT !.pc = "source", !.todo = todo]
    BY <1>3 DEF Going
  <2>2. st \in MonitorStates /\ st.pc = "source" /\ st.todo = todo /\ st.now = m.now
    BY <1>1, <2>1 DEF MonitorStates, OfSource
  <2> QED BY <1>1, <1>3, <2>2
<1> QED BY <1>2, <1>3

\* A step of a monitor that writes nothing keeps the invariant if what it knows is
\* right.
LEMMA GoingKeeps ==
  ASSUME SignalIInv, NEW w \in Monitors, monitor[w].pc \notin {"idle", "signal"},
         NEW todo \in SUBSET Signal!Boundaries,
         \A b \in todo : \A c \in 1..(b - 1) : c \in todo \cup Evaluated,
         Signal!Sources(w, todo), UNCHANGED <<clock, bars, fills, evaluations, signal, lost>>
  PROVE  SignalIInv'
<1> DEFINE m == monitor[w]
           st == Going(m, todo)
<1>1. /\ st \in MonitorStates /\ st.pc \in {"idle", "source"}
      /\ st.pc # "idle" => clock \in st.now..(st.now + LongestTick)
      /\ st.pc = "source" => st.todo = todo /\ todo # {}
  BY GoingState
<1>2. monitor' = [monitor EXCEPT ![w] = st]
  BY DEF Going, Signal!Sources, Signal!Set
<1> HIDE DEF st
<1>3. CopyOK(st) /\ (st.pc \in OfSource => st.pc = "source")
  BY <1>1 DEF OfSource, CopyOK, OfRow
<1>4. st.pc = "source" => SourceOK(st)
  BY <1>1 DEF SourceOK
<1>5. m.pc # "signal"
  OBVIOUS
<1> QED BY <1>1, <1>2, <1>3, <1>4, <1>5, MonitorMoves

\* At a boundary all the earlier ones are evaluated.
LEMMA BoundaryFacts ==
  ASSUME SignalIInv, NEW w \in Monitors, monitor[w].pc \in OfSource
  PROVE  LET b == Signal!Boundary(w) IN
         /\ b = Signal!First(monitor[w].todo) /\ b \in monitor[w].todo /\ b \in Signal!Boundaries
         /\ b \in Nat /\ \A c \in monitor[w].todo : b <= c
         /\ \A c \in 1..(b - 1) : c \in Evaluated
<1> DEFINE m == monitor[w]
           b == Signal!First(m.todo)
<1>1. m \in MonitorStates /\ SourceOK(m)
  BY MonitorFacts
<1>2. m.todo \in SUBSET Signal!Boundaries /\ m.todo # {}
  BY <1>1 DEF MonitorStates, SourceOK
<1>3. b \in m.todo /\ b \in Nat /\ \A c \in m.todo : b <= c
  BY <1>2, FirstBoundary
<1>4. \A c \in 1..(b - 1) : c \in m.todo \cup Evaluated
  BY <1>1, <1>3 DEF SourceOK
<1>5. \A c \in 1..(b - 1) : c \in Nat /\ ~(b <= c)
  BY <1>3
<1> QED BY <1>2, <1>3, <1>4, <1>5 DEF Signal!Boundary

\* Sources are listed, bars are fetched and judged, and a prior tail is looked for.
LEMMA SourceKeeps ==
  ASSUME SignalIInv, NEW w \in Monitors,
         \/ Signal!ListSources(w) \/ Signal!AlreadyRecorded(w) \/ Signal!MinutesMissing(w)
         \/ Signal!FetchReturns(w) \/ Signal!LookForPrior(w)
  PROVE  SignalIInv'
<1> DEFINE m == monitor[w]
           b == Signal!Boundary(w)
<1>0. m \in MonitorStates /\ Signal!At(w, m.pc)
  BY MonitorFacts DEF Signal!At
<1>1. UNCHANGED <<clock, bars, fills, evaluations, signal, lost>>
  BY DEF Signal!ListSources, Signal!AlreadyRecorded, Signal!MinutesMissing, Signal!FetchReturns,
         Signal!LookForPrior, Signal!market
<1>2. CASE Signal!ListSources(w)
  <2> DEFINE todo == Signal!Passed(m.now) \ Evaluated
  <2>1. m.pc = "list" /\ Signal!Sources(w, todo) /\ m.now \in Nat
    BY <1>0, <1>2 DEF Signal!ListSources, Signal!At, Signal!Now, Evaluated, MonitorStates
  <2>2. todo \in SUBSET Signal!Boundaries
    BY DEF Signal!Passed
  <2>3. ASSUME NEW d \in todo, NEW c \in 1..(d - 1) PROVE c \in todo \cup Evaluated
    <3>1. d \in Nat /\ d <= LastBoundary /\ c \in Nat /\ 1 <= c /\ c <= d /\ d * Spacing <= m.now
      BY <2>3, SignalTimes DEF Signal!Passed, Signal!Boundaries
    <3>2. c * Spacing <= d * Spacing /\ c * Spacing \in Nat /\ d * Spacing \in Nat
      BY <3>1, SignalTimes
    <3>3. c \in Signal!Boundaries /\ c * Spacing <= m.now
      BY <2>1, <3>1, <3>2, SignalTimes DEF Signal!Boundaries
    <3> QED BY <3>3 DEF Signal!Passed
  <2> HIDE DEF todo
  <2> QED BY <1>1, <2>1, <2>2, <2>3, GoingKeeps
<1>3. CASE Signal!AlreadyRecorded(w)
  <2> DEFINE todo == m.todo \ {b}
  <2>1. m.pc = "source" /\ b \in Evaluated /\ Signal!Sources(w, todo)
    BY <1>0, <1>3 DEF Signal!AlreadyRecorded, Signal!At, Signal!Skip, Evaluated
  <2>2. todo \in SUBSET Signal!Boundaries
    BY <1>0 DEF MonitorStates
  <2>3. SourceOK(m)
    BY <2>1, MonitorFacts DEF OfSource
  <2>4. \A d \in todo : \A c \in 1..(d - 1) : c \in todo \cup Evaluated
    BY <2>1, <2>3 DEF SourceOK
  <2> HIDE DEF todo
  <2> QED BY <1>1, <2>1, <2>2, <2>4, GoingKeeps
<1>4. CASE Signal!MinutesMissing(w)
  <2>1. monitor' = [monitor EXCEPT ![w] = Signal!Idle] /\ m.pc = "source"
    BY <1>4 DEF Signal!MinutesMissing, Signal!Set, Signal!At
  <2>2. Signal!Idle \in MonitorStates /\ Signal!Idle.pc = "idle"
    BY DEF Signal!Idle, MonitorStates, SignalCopies
  <2>3. CopyOK(Signal!Idle) /\ "idle" \notin OfSource
    BY <2>2 DEF CopyOK, OfRow, OfSource
  <2> QED BY <1>1, <2>1, <2>2, <2>3, MonitorMoves
<1>5. CASE Signal!FetchReturns(w)
  <2> DEFINE st == [m EXCEPT !.pc = "prior"]
  <2>1. m.pc = "source" /\ monitor' = [monitor EXCEPT ![w] = st] /\ bars[b] # "none"
    BY <1>5 DEF Signal!FetchReturns, Signal!Goes, Signal!Set, Signal!At, Signal!Unknown
  <2>2. st \in MonitorStates /\ st.pc = "prior" /\ st.todo = m.todo /\ st.now = m.now
    BY <1>0 DEF MonitorStates, OfSource
  <2>3. SourceOK(m) /\ clock \in m.now..(m.now + LongestTick)
    BY <2>1, MonitorFacts DEF OfSource
  <2> HIDE DEF st
  <2>4. SourceOK(st) /\ CopyOK(st)
    BY <2>1, <2>2, <2>3 DEF SourceOK, CopyOK, OfRow, Signal!Boundary
  <2> QED BY <1>1, <2>1, <2>2, <2>3, <2>4, MonitorMoves
<1>6. CASE Signal!LookForPrior(w)
  <2> DEFINE tail == bars[b] = "tail" /\ \A c \in Evaluated : ~evaluations[c]
             st == [m EXCEPT !.pc = "evaluated", !.tail = tail]
  <2>1. m.pc = "prior" /\ monitor' = [monitor EXCEPT ![w] = st]
    BY <1>6 DEF Signal!LookForPrior, Signal!Set, Signal!At, Evaluated
  <2>2. /\ st \in MonitorStates /\ st.pc = "evaluated" /\ st.todo = m.todo /\ st.now = m.now
        /\ st.tail = tail
    BY <1>0 DEF MonitorStates, OfSource
  <2>3. SourceOK(m) /\ clock \in m.now..(m.now + LongestTick)
    BY <2>1, MonitorFacts DEF OfSource
  <2>4. b = Signal!First(m.todo) /\ b \in Nat /\ b \in Signal!Boundaries /\ \A c \in 1..(b - 1) : c \in Evaluated
    BY <2>1, BoundaryFacts DEF OfSource
  <2>5. bars[b] # "none"
    BY <2>1, <2>3, <2>4 DEF SourceOK
  <2>6. EvaluationsOK /\ Evaluated \subseteq Nat
        /\ bars \in [Signal!Boundaries -> {"none", "plain", "tail"}] /\ Evaluated \subseteq Signal!Boundaries
    <3>1. EvaluationsOK /\ Evaluated \subseteq Signal!Boundaries
          /\ bars \in [Signal!Boundaries -> {"none", "plain", "tail"}]
      BY DEF SignalIInv, SignalTyped, Evaluated
    <3>2. Signal!Boundaries \subseteq Nat
      BY DEF Signal!Boundaries
    <3> QED BY <3>1, <3>2
  <2>7. tail => FirstTail(b)
    <3>1. SUFFICES ASSUME tail, NEW c \in 1..(b - 1) PROVE bars[c] = "plain"
      BY DEF FirstTail
    <3>2. c \in Evaluated
      BY <2>4, <3>1
    <3>3. bars[c] # "tail"
      <4>1. SUFFICES ASSUME bars[c] = "tail" PROVE EventBy(c)
        BY <3>1 DEF EventBy
      <4> QED BY <2>6, <3>2, <4>1 DEF EvaluationsOK
    <3> QED BY <2>6, <3>2, <3>3 DEF EvaluationsOK
  <2>8. ~tail /\ bars[b] = "tail" => EventBy(b)
    <3>1. SUFFICES ASSUME bars[b] = "tail", NEW c \in Evaluated, evaluations[c] PROVE EventBy(b)
      OBVIOUS
    <3>2. FirstTail(c) /\ c \in Nat
      BY <2>6, <3>1 DEF EvaluationsOK
    <3>3. c <= b
      <4>1. SUFFICES ASSUME b < c PROVE FALSE
        BY <2>4, <3>2
      <4>2. 1 <= b
        BY <2>4, SignalTimes DEF Signal!Boundaries
      <4>3. b \in 1..(c - 1)
        BY <2>4, <3>2, <4>1, <4>2
      <4>4. bars[b] = "plain"
        BY <3>2, <4>3 DEF FirstTail
      <4> QED BY <3>1, <4>4
    <3> QED BY <3>1, <3>3 DEF EventBy
  <2> HIDE DEF st, tail
  <2>9. SourceOK(st)
    <3>1. st.todo # {} /\ \A d \in st.todo : \A c \in 1..(d - 1) : c \in st.todo \cup Evaluated
      BY <2>2, <2>3 DEF SourceOK
    <3>2. Signal!First(st.todo) = b
      BY <2>2, <2>4
    <3> QED BY <2>2, <2>5, <2>7, <2>8, <3>1, <3>2 DEF SourceOK
  <2>10. CopyOK(st)
    BY <2>2 DEF CopyOK, OfRow
  <2> QED BY <1>1, <2>1, <2>2, <2>3, <2>9, <2>10, MonitorMoves
<1> QED BY <1>2, <1>3, <1>4, <1>5, <1>6

\* A step that writes the row of the signal.  What another monitor has copied of it stays
\* true: its boundary, a passive outcome that is known, and an entry that is due for exit.
LEMMA RowWritten ==
  ASSUME SignalIInv, NEW w \in Monitors, NEW st \in MonitorStates, NEW r \in SignalRows,
         signal # Signal!NoSignal, signal' = r, monitor' = [monitor EXCEPT ![w] = st],
         UNCHANGED <<clock, bars, evaluations, lost>>,
         fills' \in Outcomes3, fills' = fills \/ fills = "open",
         r.boundary = signal.boundary,
         r.passive = signal.passive \/ (signal.passive = "open" /\ r.passive = fills'),
         \/ r.entry = signal.entry
         \/ Captured(r) /\ \A v \in Monitors : monitor[v].pc \notin {"exit", "exited"},
         r.status = "ENTRY_CAPTURED" => Captured(r),
         r.status = "COMPLETE" => /\ clock >= Signal!ExitAt(r) /\ r.basis = r.entry /\ Captured(r)
                                  /\ r.exit >= Signal!ExitAt(r) /\ r.passive # "open"
                                  /\ r.cross = (r.passive = "filled"),
         st.pc \in {"reread", "list", "passed"}, clock \in st.now..(st.now + LongestTick),
         st.pc = "passed" => /\ st.row # Signal!NoSignal /\ st.row.boundary = r.boundary
                             /\ st.row.passive # "open" => st.row.passive = r.passive
                             /\ Captured(r) /\ r.passive # "open",
         monitor[w].pc # "signal"
  PROVE  SignalIInv'
<1>0. monitor \in [Monitors -> MonitorStates] /\ signal \in SignalRows /\ r # Signal!NoSignal
  BY RowTimes DEF SignalIInv, SignalTyped, SignalCopies
<1>1. \A v \in Monitors : monitor'[v] = IF v = w THEN st ELSE monitor[v]
  BY <1>0
<1>2. SignalTyped'
  BY <1>0, <1>1 DEF SignalIInv, SignalTyped, SignalCopies
<1>3. EvaluationsOK' /\ Owed'
  BY <1>0 DEF SignalIInv, EvaluationsOK, Evaluated, FirstTail, EventBy, Owed
<1>4. RowFaithful(signal)
  BY <1>0, RowTimes DEF SignalIInv
<1>5. Evaluated' = Evaluated /\ r.boundary \in Evaluated /\ evaluations'[r.boundary]
  BY <1>4 DEF RowFaithful, Evaluated
<1>6. r.passive \in {"open", fills'}
  BY <1>4 DEF RowFaithful
<1>7. RowFaithful(signal)'
  BY <1>5, <1>6 DEF RowFaithful, Captured
<1>8. Captured(signal) => Captured(r)
  BY <1>0, RowTimes DEF Captured
<1>9. ASSUME NEW v \in Monitors
      PROVE ((monitor[v].pc \in OfSource => SourceOK(monitor[v])) /\ CopyOK(monitor[v]))'
  <2>1. PICK m \in MonitorStates : m = monitor'[v]
    BY <1>0, <1>1
  <2>2. CASE v = w
    <3>1. m = st /\ m.pc \notin OfSource /\ m.pc # "entered" /\ m.pc # "exited" /\ m.pc # "exit"
          /\ m.pc # "passive" /\ (m.pc \in OfRow => m.pc = "passed")
      BY <1>1, <2>1, <2>2 DEF OfSource, OfRow
    <3>2. CopyOK(m)'
      BY <1>0, <3>1 DEF CopyOK, Captured
    <3> QED BY <2>1, <3>1, <3>2 DEF CopyOK, Captured
  <2>3. CASE v # w
    <3>1. m = monitor[v] /\ CopyOK(m) /\ (m.pc \in OfSource => SourceOK(m))
      BY <1>0, <1>1, <2>1, <2>3 DEF SignalIInv
    <3>2. m.pc \in OfSource => SourceOK(m)'
      BY <3>1 DEF SourceOK, Evaluated, FirstTail, EventBy
    <3>3. m.pc \in {"exit", "exited"} => r.entry = signal.entry
      BY <3>1
    <3>4. m.pc \in OfRow /\ m.row.passive # "open" => m.row.passive = r.passive
      BY <3>1 DEF CopyOK
    <3>5. CopyOK(m)'
      BY <1>0, <1>8, <3>1, <3>3, <3>4 DEF CopyOK, Captured
    <3> QED BY <2>1, <3>2, <3>5 DEF CopyOK, Captured, SourceOK, Evaluated, FirstTail, EventBy
  <2> QED BY <2>2, <2>3
<1> QED BY <1>2, <1>3, <1>7, <1>9 DEF SignalIInv

\* What a monitor is when it has written, and goes on.
LEMMA LeavesState ==
  ASSUME SignalIInv, NEW w \in Monitors, NEW go \in {"reread", "list"}, Signal!Leaves(w, go)
  PROVE  \E st \in MonitorStates : /\ monitor' = [monitor EXCEPT ![w] = st]
                                   /\ st.pc = go /\ st.now = monitor[w].now
<1> DEFINE st == [Signal!Idle EXCEPT !.now = monitor[w].now, !.pc = go, !.row = Signal!NoSignal]
<1>1. st \in MonitorStates /\ st.pc = go /\ st.now = monitor[w].now
  BY MonitorFacts DEF Signal!Idle, MonitorStates, SignalCopies
<1>2. monitor' = [monitor EXCEPT ![w] = st]
  BY DEF Signal!Leaves, Signal!GoesWith, Signal!Set, Signal!Now
<1> QED BY <1>1, <1>2

\* A missed capture, which changes nothing but the status.
LEMMA MissedKeeps ==
  ASSUME SignalIInv, NEW w \in Monitors, Signal!EntryMissed(w) \/ Signal!ExitMissed(w)
  PROVE  SignalIInv'
<1> DEFINE m == monitor[w]
<1>1. /\ m.pc \in {"entry", "exit"} /\ UNCHANGED <<clock, bars, fills, evaluations, lost>>
      /\ m.pc = "entry" => Signal!Leaves(w, "reread")
      /\ m.pc = "exit" => Signal!Leaves(w, "list")
  BY DEF Signal!EntryMissed, Signal!ExitMissed, Signal!At, Signal!market
<1>2. signal # Signal!NoSignal
  BY <1>1, MonitorFacts DEF CopyOK, OfRow
<1>3. signal \in SignalRows /\ RowFaithful(signal) /\ clock \in m.now..(m.now + LongestTick)
      /\ fills \in Outcomes3
  BY <1>1, <1>2, MonitorFacts DEF SignalIInv, SignalTyped
<1>4. PICK status \in {"MISSED_ENTRY_CAPTURE", "MISSED_EXIT_CAPTURE"} :
        signal' = [signal EXCEPT !.status = status]
  BY DEF Signal!EntryMissed, Signal!ExitMissed
<1> DEFINE r == [signal EXCEPT !.status = status]
<1>5. /\ r \in SignalRows /\ r.boundary = signal.boundary /\ r.passive = signal.passive
      /\ r.entry = signal.entry /\ r.status = status
  BY <1>3 DEF SignalRows, SignalStatuses
<1>6. PICK st \in MonitorStates : /\ monitor' = [monitor EXCEPT ![w] = st]
                                  /\ st.pc \in {"reread", "list"} /\ st.now = m.now
  BY <1>1, LeavesState
<1>7. signal' = r
  BY <1>4
<1> HIDE DEF r
<1> QED BY <1>1, <1>2, <1>3, <1>5, <1>6, <1>7, RowWritten

\* An entry is captured, which is too early for any exit.
LEMMA EntryKeeps ==
  ASSUME SignalIInv, Patient, NEW w \in Monitors, Signal!EntryCaptured(w)
  PROVE  SignalIInv'
<1> DEFINE m == monitor[w]
           r == [signal EXCEPT !.status = "ENTRY_CAPTURED", !.entry = m.book]
<1>1. /\ m.pc = "entered" /\ UNCHANGED <<clock, bars, fills, evaluations, lost>>
      /\ signal' = r /\ Signal!Leaves(w, "reread")
  BY DEF Signal!EntryCaptured, Signal!At, Signal!market
<1>2. /\ signal # Signal!NoSignal /\ signal \in SignalRows /\ RowFaithful(signal)
      /\ clock \in m.now..(m.now + LongestTick) /\ fills \in Outcomes3
      /\ m.row \in SignalRows /\ m.row.boundary = signal.boundary /\ m.book \in Nat /\ m.now \in Nat
      /\ m.now <= Signal!EntryAt(m.row) + 1 /\ m.book >= Signal!EntryAt(m.row)
  <2>1. CopyOK(m) /\ m \in MonitorStates
    BY MonitorFacts
  <2>2. m.book \in Nat
    BY <2>1 DEF MonitorStates
  <2> QED BY <1>1, <2>1, <2>2, MonitorFacts DEF CopyOK, OfRow, SignalIInv, SignalTyped
<1>3. /\ r \in SignalRows /\ r.boundary = signal.boundary /\ r.passive = signal.passive
      /\ r.entry = m.book /\ r.status = "ENTRY_CAPTURED"
  BY <1>2 DEF SignalRows, SignalStatuses
<1> HIDE DEF r
<1>4. /\ Signal!EntryAt(m.row) = Signal!EntryAt(signal) /\ Signal!EntryAt(r) = Signal!EntryAt(signal)
      /\ Signal!EntryAt(signal) \in Nat
      /\ Signal!ExitAt(signal) = Signal!EntryAt(signal) + Hold
  BY <1>2, <1>3, RowTimes
<1>5. Captured(r)
  BY <1>2, <1>3, <1>4 DEF Captured
<1>6. ASSUME NEW v \in Monitors, monitor[v].pc \in {"exit", "exited"} PROVE FALSE
  <2>1. /\ CopyOK(monitor[v]) /\ monitor[v].now <= clock /\ monitor[v].now \in Nat
        /\ monitor[v].row \in SignalRows /\ monitor[v].row.boundary = signal.boundary
        /\ monitor[v].now >= Signal!ExitAt(monitor[v].row)
    BY <1>6, MonitorFacts DEF CopyOK, OfRow
  <2>2. Signal!ExitAt(monitor[v].row) = Signal!ExitAt(signal)
    BY <1>2, <2>1, RowTimes
  <2> QED BY <1>2, <1>4, <2>1, <2>2, SignalTimes DEF Patient
<1>7. PICK st \in MonitorStates : /\ monitor' = [monitor EXCEPT ![w] = st]
                                  /\ st.pc = "reread" /\ st.now = m.now
  BY <1>1, LeavesState
<1> QED BY <1>1, <1>2, <1>3, <1>5, <1>6, <1>7, RowWritten

\* The passive order is judged once.
LEMMA PassiveKeeps ==
  ASSUME SignalIInv, NEW w \in Monitors, Signal!EvaluatePassive(w)
  PROVE  SignalIInv'
<1> DEFINE m == monitor[w]
           st == [m EXCEPT !.pc = "passed"]
<1>1. /\ m.pc = "passive" /\ UNCHANGED <<clock, bars, evaluations, lost>>
      /\ signal' = [signal EXCEPT !.passive = fills'] /\ monitor' = [monitor EXCEPT ![w] = st]
      /\ fills' \in IF fills = "open" THEN {"filled", "unfilled"} ELSE {fills}
  BY DEF Signal!EvaluatePassive, Signal!At, Signal!Goes, Signal!Set
<1>2. /\ signal # Signal!NoSignal /\ signal \in SignalRows /\ RowFaithful(signal)
      /\ clock \in m.now..(m.now + LongestTick) /\ fills \in Outcomes3
      /\ m \in MonitorStates /\ m.row # Signal!NoSignal /\ m.row.boundary = signal.boundary
      /\ m.row.passive # "open" => m.row.passive = signal.passive
      /\ Captured(signal)
  BY <1>1, MonitorFacts DEF CopyOK, OfRow, SignalIInv, SignalTyped
<1>3. fills' \in Outcomes3 /\ fills' # "open" /\ (fills' = fills \/ fills = "open")
  BY <1>1, <1>2 DEF Outcomes3
<1>4. signal.passive = fills' \/ signal.passive = "open"
  BY <1>1, <1>2 DEF RowFaithful
<1>5. PICK r \in SignalRows :
      /\ signal' = r /\ r.boundary = signal.boundary /\ r.passive = fills'
      /\ r.entry = signal.entry /\ r.status = signal.status /\ r.basis = signal.basis
      /\ r.exit = signal.exit /\ r.cross = signal.cross
  BY <1>1, <1>2, <1>3 DEF SignalRows
<1>6. st \in MonitorStates /\ st.pc = "passed" /\ st.now = m.now /\ st.row = m.row
  BY <1>2 DEF MonitorStates, OfRow
<1> HIDE DEF st
<1>7. Signal!EntryAt(r) = Signal!EntryAt(signal) /\ Signal!ExitAt(r) = Signal!ExitAt(signal)
  BY <1>2, <1>5, RowTimes
<1>8. Captured(r)
  BY <1>2, <1>5, <1>7 DEF Captured
<1>9. r.status = "COMPLETE" => /\ clock >= Signal!ExitAt(r) /\ r.basis = r.entry /\ Captured(r)
                               /\ r.exit >= Signal!ExitAt(r) /\ r.passive # "open"
                               /\ r.cross = (r.passive = "filled")
  BY <1>2, <1>3, <1>4, <1>5, <1>7, <1>8 DEF RowFaithful
<1>10. st.row.passive # "open" => st.row.passive = r.passive
  BY <1>2, <1>4, <1>5, <1>6
<1> QED BY <1>1, <1>2, <1>3, <1>4, <1>5, <1>6, <1>8, <1>9, <1>10, RowWritten

\* An exit is computed from the entry that still stands.
LEMMA ExitKeeps ==
  ASSUME SignalIInv, NEW w \in Monitors, Signal!ExitCaptured(w)
  PROVE  SignalIInv'
<1> DEFINE m == monitor[w]
           r == [signal EXCEPT !.status = "COMPLETE", !.exit = m.book, !.basis = m.row.entry,
                               !.cross = (m.row.passive = "filled")]
<1>1. /\ m.pc = "exited" /\ UNCHANGED <<clock, bars, fills, evaluations, lost>>
      /\ signal' = r /\ Signal!Leaves(w, "list")
  BY DEF Signal!ExitCaptured, Signal!At, Signal!Row, Signal!market
<1>2. /\ signal # Signal!NoSignal /\ signal \in SignalRows /\ RowFaithful(signal)
      /\ clock \in m.now..(m.now + LongestTick) /\ fills \in Outcomes3 /\ m.now <= clock
      /\ m \in MonitorStates /\ m.row \in SignalRows /\ m.row.boundary = signal.boundary
      /\ m.row.passive # "open" /\ m.row.passive = signal.passive
      /\ m.now >= Signal!ExitAt(m.row) /\ m.row.entry = signal.entry
      /\ m.book >= Signal!ExitAt(m.row) /\ Captured(signal) /\ clock \in Nat /\ m.now \in Nat
  BY <1>1, MonitorFacts DEF CopyOK, OfRow, SignalIInv, SignalTyped
<1>3. m.book \in Nat /\ m.row.entry \in Nat
  BY <1>2 DEF MonitorStates, SignalRows
<1>4. /\ r \in SignalRows /\ r.boundary = signal.boundary /\ r.passive = signal.passive
      /\ r.entry = signal.entry /\ r.status = "COMPLETE" /\ r.basis = m.row.entry
      /\ r.exit = m.book /\ r.cross = (m.row.passive = "filled")
  BY <1>2, <1>3 DEF SignalRows, SignalStatuses
<1> HIDE DEF r
<1>5. /\ Signal!EntryAt(r) = Signal!EntryAt(signal) /\ Signal!ExitAt(r) = Signal!ExitAt(signal)
      /\ Signal!ExitAt(m.row) = Signal!ExitAt(signal) /\ Signal!ExitAt(signal) \in Nat
  BY <1>2, <1>4, RowTimes
<1>6. Captured(r) /\ clock >= Signal!ExitAt(r) /\ r.exit >= Signal!ExitAt(r)
  BY <1>2, <1>3, <1>4, <1>5 DEF Captured
<1>7. r.basis = r.entry /\ r.passive # "open" /\ r.cross = (r.passive = "filled")
  BY <1>2, <1>4
<1>8. PICK st \in MonitorStates : /\ monitor' = [monitor EXCEPT ![w] = st]
                                  /\ st.pc = "list" /\ st.now = m.now
  BY <1>1, LeavesState
<1> QED BY <1>1, <1>2, <1>4, <1>6, <1>7, <1>8, RowWritten

\* An evaluation is stored, under the boundary whose predecessors all have theirs.
LEMMA EvaluationKeeps ==
  ASSUME SignalIInv, NEW w \in Monitors, Signal!StoreEvaluation(w)
  PROVE  SignalIInv'
<1> DEFINE m == monitor[w]
           b == Signal!Boundary(w)
<1>1. /\ m.pc = "evaluated" /\ UNCHANGED <<clock, bars, fills, signal, lost>>
      /\ evaluations' = Signal!Store(w)
      /\ IF m.tail THEN Signal!Goes(w, "signal") ELSE Signal!Sources(w, m.todo \ {b})
  BY DEF Signal!StoreEvaluation, Signal!At, Signal!market, Signal!Skip
<1>2. /\ m \in MonitorStates /\ SourceOK(m) /\ clock \in m.now..(m.now + LongestTick)
      /\ signal \in SignalCopies
  BY <1>1, MonitorFacts DEF OfSource
<1>3. /\ b = Signal!First(m.todo) /\ b \in m.todo /\ b \in Signal!Boundaries /\ b \in Nat
      /\ \A c \in 1..(b - 1) : c \in Evaluated
  BY <1>1, BoundaryFacts DEF OfSource
<1>4. bars[b] # "none" /\ IF m.tail THEN FirstTail(b) ELSE bars[b] = "tail" => EventBy(b)
  BY <1>1, <1>2, <1>3 DEF SourceOK
<1>5. /\ EvaluationsOK /\ monitor \in [Monitors -> MonitorStates] /\ Evaluated \subseteq Signal!Boundaries
      /\ evaluations \in [Evaluated -> BOOLEAN] /\ m.tail \in BOOLEAN
  BY <1>2 DEF SignalIInv, SignalTyped, Evaluated, MonitorStates
<1>6. /\ Evaluated' = Evaluated \cup {b}
      /\ evaluations' \in [Evaluated \cup {b} -> BOOLEAN]
      /\ \A c \in Evaluated : evaluations'[c] = evaluations[c]
      /\ b \notin Evaluated => evaluations'[b] = m.tail
  BY <1>1, <1>5 DEF Signal!Store, Evaluated
<1>7. Evaluated' \subseteq Nat /\ Evaluated \subseteq Nat /\ Evaluated' \subseteq Signal!Boundaries
  <2>1. Evaluated' \subseteq Signal!Boundaries /\ Evaluated \subseteq Signal!Boundaries
    BY <1>3, <1>5, <1>6
  <2>2. Signal!Boundaries \subseteq Nat
    BY DEF Signal!Boundaries
  <2> QED BY <2>1, <2>2
<1>8. \A c \in Nat : EventBy(c) => EventBy(c)'
  BY <1>6 DEF EventBy
<1>9. \A c \in Nat : FirstTail(c)' = FirstTail(c)
  BY <1>1 DEF FirstTail
<1>10. m.tail => evaluations'[b]
  <2>1. SUFFICES ASSUME m.tail, b \in Evaluated PROVE evaluations[b]
    BY <1>6
  <2>2. bars[b] = "tail" /\ \A c \in 1..(b - 1) : bars[c] = "plain"
    BY <1>4, <2>1 DEF FirstTail
  <2>3. PICK c \in Evaluated : c <= b /\ evaluations[c]
    BY <1>5, <2>1, <2>2 DEF EvaluationsOK, EventBy
  <2>4. bars[c] = "tail" /\ c \in Nat /\ 1 <= c
    BY <1>5, <1>7, <2>3 DEF EvaluationsOK, FirstTail, Signal!Boundaries
  <2>5. c = b
    BY <1>3, <2>2, <2>3, <2>4
  <2> QED BY <2>3, <2>5
<1>11. EvaluationsOK'
  <2>1. SUFFICES ASSUME NEW d \in Evaluated'
        PROVE /\ bars[d] # "none" /\ \A c \in 1..(d - 1) : c \in Evaluated'
              /\ evaluations'[d] => FirstTail(d)'
              /\ bars[d] = "tail" => EventBy(d)'
    BY <1>1 DEF EvaluationsOK
  <2>2. CASE d \in Evaluated
    BY <1>5, <1>6, <1>7, <1>8, <1>9, <2>2 DEF EvaluationsOK
  <2>3. CASE d = b /\ b \notin Evaluated
    <3>1. bars[d] # "none" /\ \A c \in 1..(d - 1) : c \in Evaluated'
      BY <1>3, <1>4, <1>6, <2>3
    <3>2. evaluations'[d] => FirstTail(d)'
      BY <1>3, <1>4, <1>6, <1>9, <2>3
    <3>3. bars[d] = "tail" => EventBy(d)'
      <4>1. CASE m.tail
        BY <1>3, <1>6, <1>10, <2>3, <4>1 DEF EventBy
      <4>2. CASE ~m.tail
        BY <1>3, <1>4, <1>8, <2>3, <4>2
      <4> QED BY <4>1, <4>2
    <3> QED BY <3>1, <3>2, <3>3
  <2> QED BY <1>6, <2>2, <2>3
<1>12. PICK st \in MonitorStates :
         /\ monitor' = [monitor EXCEPT ![w] = st] /\ st.pc \in {"idle", "source", "signal"}
         /\ st.pc # "idle" => clock \in st.now..(st.now + LongestTick)
         /\ st.pc = "source" => st.todo = m.todo \ {b} /\ st.todo # {}
         /\ st.pc = "signal" => st.todo = m.todo /\ m.tail
         /\ m.tail => st.pc = "signal"
  <2>1. CASE m.tail
    <3> DEFINE st == [m EXCEPT !.pc = "signal"]
    <3>1. monitor' = [monitor EXCEPT ![w] = st]
      BY <1>1, <2>1 DEF Signal!Goes, Signal!Set
    <3>2. st \in MonitorStates /\ st.pc = "signal" /\ st.now = m.now /\ st.todo = m.todo
      BY <1>2 DEF MonitorStates, OfSource
    <3> HIDE DEF st
    <3> QED BY <1>2, <2>1, <3>1, <3>2
  <2>2. CASE ~m.tail
    <3> DEFINE st == Going(m, m.todo \ {b})
    <3>1. monitor' = [monitor EXCEPT ![w] = st]
      BY <1>1, <2>2 DEF Going, Signal!Sources, Signal!Set
    <3>2. m.todo \ {b} \in SUBSET Signal!Boundaries /\ m.pc # "idle"
      BY <1>1, <1>2 DEF MonitorStates
    <3>3. /\ st \in MonitorStates /\ st.pc \in {"idle", "source"}
          /\ st.pc # "idle" => clock \in st.now..(st.now + LongestTick)
          /\ st.pc = "source" => st.todo = m.todo \ {b} /\ m.todo \ {b} # {}
      BY <3>2, GoingState
    <3> HIDE DEF st
    <3> QED BY <2>2, <3>1, <3>3
  <2> QED BY <2>1, <2>2
<1>13. \A v \in Monitors : monitor'[v] = IF v = w THEN st ELSE monitor[v]
  BY <1>5, <1>12
<1>14. SignalTyped'
  BY <1>1, <1>5, <1>6, <1>7, <1>12, <1>13 DEF SignalIInv, SignalTyped, Evaluated
<1>15. (signal # Signal!NoSignal => RowFaithful(signal))'
  <2>1. signal # Signal!NoSignal => RowFaithful(signal) /\ signal' = signal /\ fills' = fills /\ clock' = clock
    BY <1>1 DEF SignalIInv
  <2>2. CASE signal = Signal!NoSignal
    BY <1>1, <2>2
  <2>3. CASE signal # Signal!NoSignal
    <3>1. signal.boundary \in Evaluated' /\ evaluations'[signal.boundary]
      BY <1>6, <2>1, <2>3 DEF RowFaithful
    <3> QED BY <2>1, <2>3, <3>1 DEF RowFaithful, Captured
  <2> QED BY <2>2, <2>3
<1>16. Owed'
  <2>1. SUFFICES ASSUME signal = Signal!NoSignal, ~lost, NEW c \in Evaluated', evaluations'[c]
        PROVE \E v \in Monitors : monitor'[v].pc = "signal"
    BY <1>1 DEF Owed
  <2>2. CASE m.tail
    BY <1>12, <1>13, <2>2
  <2>3. CASE ~m.tail
    <3>1. c \in Evaluated /\ evaluations[c]
      BY <1>6, <2>1, <2>3
    <3>2. PICK v \in Monitors : monitor[v].pc = "signal"
      BY <2>1, <3>1 DEF SignalIInv, Owed
    <3> QED BY <1>1, <1>13, <3>2
  <2> QED BY <2>2, <2>3
<1>17. ASSUME NEW v \in Monitors
       PROVE ((monitor[v].pc \in OfSource => SourceOK(monitor[v])) /\ CopyOK(monitor[v]))'
  <2>1. PICK n \in MonitorStates : n = monitor'[v]
    BY <1>13, MonitorFacts
  <2>2. (n.pc \in OfSource => SourceOK(n)') /\ CopyOK(n)'
    <3>1. CASE v = w
      <4>1. n = st /\ CopyOK(n)'
        BY <1>12, <1>13, <2>1, <3>1 DEF CopyOK, OfRow
      <4>2. n.pc \in OfSource => SourceOK(n)'
        <5>1. CASE n.pc = "source"
          BY <1>2, <1>6, <1>12, <4>1, <5>1 DEF SourceOK
        <5>2. CASE n.pc = "signal"
          BY <1>2, <1>3, <1>6, <1>10, <1>12, <4>1, <5>2 DEF SourceOK
        <5> QED BY <1>12, <4>1, <5>1, <5>2 DEF OfSource
      <4> QED BY <4>1, <4>2
    <3>2. CASE v # w
      <4>1. n = monitor[v] /\ CopyOK(n) /\ (n.pc \in OfSource => SourceOK(n))
        BY <1>13, <2>1, <3>2, MonitorFacts
      <4>2. CopyOK(n)'
        BY <1>1, <4>1 DEF CopyOK, Captured
      <4>3. ASSUME n.pc \in OfSource PROVE SourceOK(n)'
        <5> DEFINE d == Signal!First(n.todo)
        <5>1. d \in Nat
          BY <2>1, <4>1, <4>3, FirstBoundary DEF SourceOK, MonitorStates
        <5> HIDE DEF d
        <5>2. /\ n.pc \in {"prior", "evaluated"} => bars[d] # "none"
              /\ n.pc = "evaluated" => IF n.tail THEN FirstTail(d)' ELSE bars[d] = "tail" => EventBy(d)'
              /\ n.pc = "signal" => d \in Evaluated' /\ evaluations'[d]
          BY <1>6, <1>8, <1>9, <4>1, <4>3, <5>1 DEF SourceOK, d
        <5>3. n.todo # {} /\ \A k \in n.todo : \A c \in 1..(k - 1) : c \in n.todo \cup Evaluated'
          BY <1>6, <4>1, <4>3 DEF SourceOK
        <5> QED BY <1>1, <5>2, <5>3 DEF SourceOK, d
      <4> QED BY <4>2, <4>3
    <3> QED BY <3>1, <3>2
  <2> QED BY <2>1, <2>2 DEF CopyOK, Captured, SourceOK, Evaluated, FirstTail, EventBy
<1> QED BY <1>11, <1>14, <1>15, <1>16, <1>17 DEF SignalIInv

\* The signal of the day is stored once.
LEMMA SignalStored ==
  ASSUME SignalIInv, NEW w \in Monitors, Signal!StoreSignal(w)
  PROVE  SignalIInv'
<1> DEFINE m == monitor[w]
           b == Signal!Boundary(w)
           st == Going(m, m.todo \ {b})
<1>1. /\ m.pc = "signal" /\ UNCHANGED <<clock, bars, fills, evaluations, lost>>
      /\ Signal!Sources(w, m.todo \ {b})
  BY DEF Signal!StoreSignal, Signal!At, Signal!market, Signal!Skip
<1>2. /\ m \in MonitorStates /\ SourceOK(m) /\ signal \in SignalCopies
  BY <1>1, MonitorFacts DEF OfSource
<1>3. b = Signal!First(m.todo) /\ b \in m.todo /\ b \in Signal!Boundaries
  BY <1>1, BoundaryFacts DEF OfSource
<1>4. b \in Evaluated /\ evaluations[b]
  BY <1>1, <1>2, <1>3 DEF SourceOK
<1>5. monitor' = [monitor EXCEPT ![w] = st]
  BY <1>1 DEF Going, Signal!Sources, Signal!Set
<1>6. m.todo \ {b} \in SUBSET Signal!Boundaries /\ m.pc # "idle"
  BY <1>1, <1>2 DEF MonitorStates
<1>7. /\ st \in MonitorStates /\ st.pc \in {"idle", "source"}
      /\ st.pc # "idle" => clock \in st.now..(st.now + LongestTick)
      /\ st.pc = "source" => st.todo = m.todo \ {b} /\ m.todo \ {b} # {}
  BY <1>6, GoingState
<1> HIDE DEF st
<1>8. st.pc \in OfSource => SourceOK(st)
  BY <1>2, <1>4, <1>7 DEF SourceOK, OfSource
<1>9. monitor \in [Monitors -> MonitorStates]
  BY DEF SignalIInv, SignalTyped
<1>10. \A v \in Monitors : monitor'[v] = IF v = w THEN st ELSE monitor[v]
  BY <1>5, <1>9
<1>11. PICK r \in SignalRows :
         /\ signal' = r
         /\ signal # Signal!NoSignal => r = signal
         /\ signal = Signal!NoSignal => /\ r.status \in {"TRIGGERED", "MISSED_SOURCE_CAPTURE"}
                                        /\ r.boundary = b /\ r.passive = "open"
  <2>1. CASE signal # Signal!NoSignal
    BY <1>2, <2>1 DEF Signal!StoreSignal, SignalCopies
  <2>2. CASE signal = Signal!NoSignal
    <3>1. PICK status \in {"TRIGGERED", "MISSED_SOURCE_CAPTURE"} : signal' =
            [status |-> status, boundary |-> b, entry |-> 0, passive |-> "open", exit |-> 0,
             basis |-> 0, cross |-> FALSE]
      BY <2>2 DEF Signal!StoreSignal
    <3>2. signal' \in SignalRows
      BY <1>3, <3>1 DEF SignalRows, SignalStatuses, Outcomes3
    <3> QED BY <2>2, <3>1, <3>2
  <2> QED BY <2>1, <2>2
<1>12. r # Signal!NoSignal
  BY RowTimes
<1>13. SignalTyped'
  BY <1>1, <1>5, <1>7, <1>9, <1>10, <1>11 DEF SignalIInv, SignalTyped, SignalCopies
<1>14. EvaluationsOK' /\ Owed'
  BY <1>1, <1>11, <1>12 DEF SignalIInv, EvaluationsOK, Evaluated, FirstTail, EventBy, Owed
<1>15. RowFaithful(r)
  <2>1. CASE signal # Signal!NoSignal
    BY <1>11, <2>1 DEF SignalIInv
  <2>2. CASE signal = Signal!NoSignal
    BY <1>4, <1>11, <2>2 DEF RowFaithful
  <2> QED BY <2>1, <2>2
<1>16. RowFaithful(signal)'
  BY <1>1, <1>11, <1>15 DEF RowFaithful, Captured, Evaluated
<1>17. ASSUME NEW v \in Monitors
       PROVE ((monitor[v].pc \in OfSource => SourceOK(monitor[v])) /\ CopyOK(monitor[v]))'
  <2>1. PICK n \in MonitorStates : n = monitor'[v]
    BY <1>9, <1>10, <1>7
  <2>2. (n.pc \in OfSource => SourceOK(n)) /\ CopyOK(n)'
    <3>1. CASE v = w
      <4>1. n = st
        BY <1>10, <2>1, <3>1
      <4> QED BY <1>7, <1>8, <4>1 DEF CopyOK, OfRow
    <3>2. CASE v # w
      <4>1. n = monitor[v] /\ CopyOK(n) /\ (n.pc \in OfSource => SourceOK(n))
        BY <1>10, <2>1, <3>2, MonitorFacts
      <4>2. CASE signal # Signal!NoSignal
        BY <1>11, <4>1, <4>2 DEF CopyOK, Captured
      <4>3. CASE signal = Signal!NoSignal
        BY <1>12, <4>1, <4>3 DEF CopyOK, OfRow
      <4> QED BY <4>1, <4>2, <4>3
    <3> QED BY <3>1, <3>2
  <2>3. n.pc \in OfSource => SourceOK(n)'
    BY <1>1, <2>2 DEF SourceOK, Evaluated, FirstTail, EventBy
  <2> QED BY <2>1, <2>2, <2>3 DEF CopyOK, Captured, SourceOK, Evaluated, FirstTail, EventBy
<1> QED BY <1>11, <1>12, <1>13, <1>14, <1>16, <1>17 DEF SignalIInv

\* A tick that ends where it is owes a signal at worst, which is noted.
LEMMA TickEndsKeeps ==
  ASSUME SignalIInv, NEW w \in Monitors, Signal!TickEnds(w)
  PROVE  SignalIInv'
<1> DEFINE m == monitor[w]
<1>1. /\ UNCHANGED <<clock, bars, fills, evaluations, signal>>
      /\ monitor' = [monitor EXCEPT ![w] = Signal!Idle]
      /\ lost' = (lost \/ (m.pc = "signal" /\ signal = Signal!NoSignal))
  BY DEF Signal!TickEnds, Signal!Set, Signal!At, Signal!market
<1>2. Signal!Idle \in MonitorStates /\ Signal!Idle.pc = "idle"
  BY DEF Signal!Idle, MonitorStates, SignalCopies
<1>3. monitor \in [Monitors -> MonitorStates]
  BY DEF SignalIInv, SignalTyped
<1>4. \A v \in Monitors : monitor'[v] = IF v = w THEN Signal!Idle ELSE monitor[v]
  BY <1>1, <1>3
<1>5. SignalTyped'
  BY <1>1, <1>2, <1>3, <1>4 DEF SignalIInv, SignalTyped
<1>6. EvaluationsOK' /\ (signal # Signal!NoSignal => RowFaithful(signal))'
  BY <1>1 DEF SignalIInv, EvaluationsOK, RowFaithful, Captured, Evaluated, FirstTail, EventBy
<1>7. Owed'
  BY <1>1, <1>4 DEF SignalIInv, Owed, Evaluated
<1>8. ASSUME NEW v \in Monitors
       PROVE ((monitor[v].pc \in OfSource => SourceOK(monitor[v])) /\ CopyOK(monitor[v]))'
  <2>1. PICK n \in MonitorStates : n = monitor'[v] /\ (n.pc \in OfSource => SourceOK(n)) /\ CopyOK(n)
    <3>1. CASE v = w
      BY <1>2, <1>4, <3>1 DEF CopyOK, OfRow, OfSource
    <3>2. CASE v # w
      BY <1>4, <3>2, MonitorFacts
    <3> QED BY <3>1, <3>2
  <2> QED BY <1>1, <2>1 DEF CopyOK, Captured, SourceOK, Evaluated, FirstTail, EventBy
<1> QED BY <1>5, <1>6, <1>7, <1>8 DEF SignalIInv

\* Time goes on, and the provider has the minutes of one more boundary: of no boundary
\* that was evaluated, or is about to be.
LEMMA WorldKeeps ==
  ASSUME SignalIInv, Signal!TimePasses \/ \E b \in Signal!Boundaries : Signal!BarsArrive(b)
  PROVE  SignalIInv'
<1>1. UNCHANGED <<fills, evaluations, signal, monitor, lost>>
  BY DEF Signal!TimePasses, Signal!BarsArrive, Signal!market
<1>2. /\ clock \in 0..Signal!DayOver /\ Signal!DayOver \in Nat /\ clock \in Nat /\ LongestTick \in Nat
      /\ bars \in [Signal!Boundaries -> {"none", "plain", "tail"}]
      /\ monitor \in [Monitors -> MonitorStates]
      /\ \A w \in Monitors : monitor[w].now \in Nat /\ (monitor[w].pc = "idle"
                         \/ clock \in monitor[w].now..(monitor[w].now + LongestTick))
  BY SignalTimes, MonitorFacts DEF SignalIInv, SignalTyped
<1>3. /\ clock' \in 0..Signal!DayOver /\ clock' \in Nat /\ clock <= clock'
      /\ \A w \in Monitors : monitor[w].pc = "idle"
                         \/ clock' \in monitor[w].now..(monitor[w].now + LongestTick)
  BY <1>2 DEF Signal!TimePasses, Signal!BarsArrive, Signal!At, Signal!Now
<1>4. /\ bars' \in [Signal!Boundaries -> {"none", "plain", "tail"}]
      /\ \A b \in Signal!Boundaries : bars[b] # "none" => bars'[b] = bars[b]
  BY <1>2 DEF Signal!TimePasses, Signal!BarsArrive, Signal!market
<1>5. Evaluated \subseteq Signal!Boundaries /\ Evaluated \subseteq Nat /\ EvaluationsOK
  <2>1. Evaluated \subseteq Signal!Boundaries /\ EvaluationsOK
    BY DEF SignalIInv, SignalTyped, Evaluated
  <2> QED BY <2>1 DEF Signal!Boundaries
<1>6. SignalTyped'
  BY <1>1, <1>3, <1>4 DEF SignalIInv, SignalTyped
<1>7. ASSUME NEW b \in Signal!Boundaries, FirstTail(b) PROVE FirstTail(b)'
  <2>1. ASSUME NEW c \in 1..(b - 1) PROVE bars'[c] = "plain"
    <3>1. c \in Signal!Boundaries /\ bars[c] = "plain"
      BY <1>7, <2>1, SignalTimes DEF FirstTail, Signal!Boundaries
    <3> QED BY <1>4, <3>1
  <2>2. bars'[b] = "tail"
    BY <1>4, <1>7 DEF FirstTail
  <2> QED BY <2>1, <2>2 DEF FirstTail
<1>8. \A b : EventBy(b)' = EventBy(b)
  BY <1>1 DEF EventBy, Evaluated
<1>9. EvaluationsOK'
  <2>1. ASSUME NEW b \in Evaluated
        PROVE /\ bars'[b] # "none" /\ \A c \in 1..(b - 1) : c \in Evaluated
              /\ evaluations[b] => FirstTail(b)'
              /\ bars'[b] = "tail" => EventBy(b)'
    BY <1>4, <1>5, <1>7, <1>8, <2>1 DEF EvaluationsOK
  <2> QED BY <1>1, <2>1 DEF EvaluationsOK, Evaluated
<1>10. Owed'
  BY <1>1 DEF SignalIInv, Owed, Evaluated
<1>11. (signal # Signal!NoSignal => RowFaithful(signal))'
  <2>1. CASE signal = Signal!NoSignal
    BY <1>1, <2>1
  <2>2. CASE signal # Signal!NoSignal
    <3>1. RowFaithful(signal) /\ signal \in SignalRows
      BY <2>2 DEF SignalIInv, SignalTyped, SignalCopies
    <3>2. clock >= Signal!ExitAt(signal) => clock' >= Signal!ExitAt(signal)
      BY <1>2, <1>3, <3>1, RowTimes
    <3> QED BY <1>1, <3>1, <3>2 DEF RowFaithful, Captured, Evaluated
  <2> QED BY <2>1, <2>2
<1>12. ASSUME NEW v \in Monitors
       PROVE ((monitor[v].pc \in OfSource => SourceOK(monitor[v])) /\ CopyOK(monitor[v]))'
  <2>1. PICK n \in MonitorStates : /\ n = monitor[v] /\ n = monitor'[v] /\ CopyOK(n)
                                   /\ n.pc \in OfSource => SourceOK(n)
    BY <1>1, MonitorFacts
  <2>2. CopyOK(n)'
    BY <1>1, <2>1 DEF CopyOK, Captured
  <2>3. ASSUME n.pc \in OfSource PROVE SourceOK(n)'
    <3> DEFINE d == Signal!First(n.todo)
    <3>1. d \in Signal!Boundaries
      BY <2>1, <2>3, FirstBoundary DEF SourceOK, MonitorStates
    <3> HIDE DEF d
    <3>2. /\ n.pc \in {"prior", "evaluated"} => bars[d] # "none"
          /\ n.pc = "evaluated" => IF n.tail THEN FirstTail(d) ELSE bars[d] = "tail" => EventBy(d)
          /\ n.pc = "signal" => d \in Evaluated /\ evaluations[d]
          /\ n.todo # {} /\ \A k \in n.todo : \A c \in 1..(k - 1) : c \in n.todo \cup Evaluated
      BY <2>1, <2>3 DEF SourceOK, d
    <3>3. bars[d] # "none" => bars'[d] = bars[d]
      BY <1>4, <3>1
    <3>4. Evaluated' = Evaluated /\ evaluations' = evaluations
      BY <1>1 DEF Evaluated
    <3>5. /\ n.pc \in {"prior", "evaluated"} => bars'[d] # "none"
          /\ n.pc = "evaluated" => IF n.tail THEN FirstTail(d)' ELSE bars'[d] = "tail" => EventBy(d)'
          /\ n.pc = "signal" => d \in Evaluated' /\ evaluations'[d]
          /\ n.todo # {} /\ \A k \in n.todo : \A c \in 1..(k - 1) : c \in n.todo \cup Evaluated'
      BY <1>7, <1>8, <3>1, <3>2, <3>3, <3>4
    <3> QED BY <3>5 DEF SourceOK, d
  <2> QED BY <2>1, <2>2, <2>3 DEF CopyOK, Captured, SourceOK, Evaluated, FirstTail, EventBy
<1> QED BY <1>6, <1>9, <1>10, <1>11, <1>12 DEF SignalIInv

\* Every step keeps the monitors' invariant.
LEMMA SignalNext == ASSUME SignalIInv, Patient, [Signal!Next]_evidence PROVE SignalIInv'
<1>1. ASSUME NEW w \in Monitors, Signal!Work(w) PROVE SignalIInv'
  BY <1>1, TickKeeps, BookKeeps, SourceKeeps, MissedKeeps, EntryKeeps, PassiveKeeps, ExitKeeps,
     EvaluationKeeps, SignalStored DEF Signal!Work
<1>2. CASE UNCHANGED evidence
  <2>1. UNCHANGED <<clock, bars, fills, evaluations, signal, monitor, lost>>
    BY <1>2 DEF evidence
  <2> QED BY <2>1 DEF SignalIInv, SignalTyped, EvaluationsOK, Owed, RowFaithful, CopyOK, Captured,
                      SourceOK, Evaluated, FirstTail, EventBy
<1> QED BY <1>1, <1>2, TickEndsKeeps, WorldKeeps DEF Signal!Next

\* The invariant says what the run checks.
LEMMA SignalTold == SignalIInv => SignalFaithful /\ Signal!TypeOK
<1> SUFFICES ASSUME SignalIInv PROVE SignalFaithful /\ Signal!TypeOK
  OBVIOUS
<1>1. /\ SignalTyped /\ EvaluationsOK /\ Owed /\ Evaluated = DOMAIN evaluations
      /\ Signal!NoSignal.status = "none"
  BY DEF SignalIInv, Evaluated, Signal!NoSignal
<1>2. signal # Signal!NoSignal => signal \in SignalRows /\ RowFaithful(signal)
  BY <1>1 DEF SignalIInv, SignalTyped, SignalCopies
<1>3. Signal!FirstTailOnly
  <2>1. \A b \in DOMAIN evaluations : evaluations[b] =>
          bars[b] = "tail" /\ \A c \in 1..(b - 1) : bars[c] = "plain"
    BY <1>1 DEF EvaluationsOK, FirstTail
  <2>2. signal # Signal!NoSignal => signal.boundary \in DOMAIN evaluations /\ evaluations[signal.boundary]
    BY <1>1, <1>2 DEF RowFaithful
  <2>3. (\A w \in Monitors : monitor[w].pc = "idle") /\ signal = Signal!NoSignal =>
          lost \/ \A b \in DOMAIN evaluations : ~evaluations[b]
    BY <1>1 DEF Owed
  <2> QED BY <2>1, <2>2, <2>3 DEF Signal!FirstTailOnly, Signal!At
<1>4. Signal!CompleteCoherent
  BY <1>1, <1>2 DEF Signal!CompleteCoherent, RowFaithful, Captured
<1>5. Signal!TypeOK
  BY <1>1, <1>2 DEF Signal!TypeOK, SignalTyped, SignalRows, SignalStatuses, Outcomes3,
                    Signal!Pending, Signal!At, Signal!Now
<1> QED BY <1>3, <1>4, <1>5 DEF SignalFaithful

-----------------------------------------------------------------------------
(***************************************************************************)
(* The ledger of a fit stage                                               *)
(***************************************************************************)
Finals == {s \in Seq(Ledger!Results) : Len(s) <= Fields}
Mains ==
  [there : BOOLEAN, seq : 0..Sessions, encounters : 0..Sessions, valid : 0..1,
   finalizing : BOOLEAN, final : Finals, finalized : BOOLEAN]
FileSets ==
  [cp : Ledger!Checkpoints, main : Mains,
   shard : [1..Shards -> [there : BOOLEAN, seq : 0..Sessions, unit : Ledger!Results]]]
OnFiles == {"next", "session", "save", "field", "compact", "replace", "unlink", "evidence", "prepare"}
LedgerPcs ==
  OnFiles \cup {"dead", "restore", "databases", "release", "engine", "name", "seal", "publish"}
LedgerChildren ==
  [pc : LedgerPcs, seq : 0..Sessions, prior : Ledger!Checkpoints, replay : BOOLEAN,
   field : 0..Fields, cached : BOOLEAN]

LedgerDisks == [files : FileSets, seal : FileSets, compact : BOOLEAN]
Preparations == [state : {"none", "begun", "sealed"}, files : FileSets]

LedgerTyped ==
  /\ content \in [1..Sessions -> Values \cup {"nothing"}]
  /\ server \in FileSets
  /\ ledgerDisk \in LedgerDisks /\ prepared \in Preparations
  /\ ledgerChild \in LedgerChildren

\* Files that a segment may go on with: exact, whole, the ledger at most one session ahead
\* of the checkpoint, and results only of a ledger that takes no session any more.
Sound(f) ==
  /\ Ledger!Exact(f) /\ Ledger!Whole(f) /\ f.main.there
  /\ f.cp.seq <= f.main.seq /\ f.main.seq <= f.cp.seq + 1
  /\ f.cp.fields <= Len(f.main.final) /\ Len(f.main.final) <= Fields
  /\ f.main.finalizing => f.cp.seq = Sessions /\ f.main.seq = Sessions
  /\ Len(f.main.final) > 0 \/ f.main.finalized => f.main.finalizing
  /\ f.main.finalized => Len(f.main.final) = Fields
  /\ f.cp.stage = "done" => f.main.finalized
Ready(f) == Sound(f) /\ f.cp.stage \in {"active", "done"}
Saved(f) == f = Ledger!NoFiles \/ Ready(f)

\* Where the segment c is, in the files f of its host.
SegmentOK(c, f) ==
  /\ c.pc \in {"restore", "databases", "release", "engine", "name"} => c.seq = 0
  /\ c.pc = "name" => Sound(f) /\ f.cp = Ledger!NoCheckpoint /\ ~f.main.finalizing
  /\ c.pc \in OnFiles => Ready(f)
  /\ c.pc \in OnFiles \ {"prepare"} => f.cp.stage = "active"
  /\ c.pc \in {"next", "session", "field", "compact", "replace", "unlink", "evidence"} => c.seq = f.cp.seq
  /\ c.pc = "session" => c.seq < Sessions /\ ~f.main.finalizing /\ c.replay = (f.main.seq > c.seq)
  /\ c.pc = "save" => c.seq = f.cp.seq + 1 /\ c.seq = f.main.seq /\ ~f.main.finalizing
  /\ c.pc \in {"field", "compact", "replace", "unlink", "evidence"} => f.main.finalizing
  /\ c.pc = "field" => c.field <= Len(f.main.final) /\ c.cached = f.main.finalized
  /\ c.pc \in {"compact", "replace"} => Len(f.main.final) = Fields /\ ~f.main.finalized
  /\ c.pc \in {"unlink", "evidence"} => f.main.finalized

\* What the segment c, the output directory d and the prepared snapshot p are together.
Fits(c, d, p) ==
  /\ p.state = "none" => p = Ledger!Unprepared
  /\ p.state = "begun" => /\ c.pc \in {"dead", "restore", "seal"}
                          /\ p.files = Ledger!NoFiles /\ Ready(d.files)
  /\ p.state = "sealed" => /\ c.pc \in {"dead", "restore", "publish"}
                           /\ Ready(p.files) /\ d.files = p.files
  /\ c.pc = "seal" => p.state = "begun"
  /\ c.pc = "publish" => p.state = "sealed"
  /\ c.pc \in {"databases", "release"} => d.seal = server /\ server # Ledger!NoFiles
  /\ c.pc = "release" => d.files = server
  /\ c.pc = "engine" => Saved(d.files)
  /\ c.pc \in OnFiles \cup {"engine", "name"} => d.seal = Ledger!Unsealed
  /\ SegmentOK(c, d.files)

\* The inductive invariant.
LedgerIInv ==
  LedgerTyped /\ refused = FALSE /\ Saved(server) /\ Fits(ledgerChild, ledgerDisk, prepared)

\* The constants are numbers, and no value is a word for having none.
LEMMA LedgerNumbers ==
  /\ Sessions \in Nat /\ 1 <= Sessions /\ Fields \in Nat /\ 1 <= Fields
  /\ Shards \in Nat /\ 1 <= Shards /\ 1 \in 1..Shards
  /\ "nothing" \notin Values /\ "none" \notin Values /\ "conflict" \notin Values
<1>1. /\ Sessions \in Nat /\ 1 <= Sessions /\ Fields \in Nat /\ 1 <= Fields
      /\ Shards \in Nat /\ 1 <= Shards
  BY WorkerBounds
<1> QED BY <1>1, WorkerBounds

\* Counting is the same in a module that is instantiated.
LEMMA LedgerCounts == \A S : Ledger!Cardinality(S) = Cardinality(S)
BY Zenon DEF Ledger!Cardinality, Cardinality

Seen(k) == {content[s] : s \in 1..k} \ {"nothing"}
Counted(k) == {s \in 1..k : content[s] # "nothing"}

\* What the sessions up to one tell: nothing, one value, or that they disagree.
LEMMA ToldIs ==
  ASSUME NEW k \in Nat
  PROVE  /\ Seen(k) = {} => Ledger!Told(k) = "none"
         /\ \A v : Seen(k) = {v} => Ledger!Told(k) = v
         /\ Seen(k) # {} /\ (\A v : Seen(k) # {v}) => Ledger!Told(k) = "conflict"
<1>1. Ledger!Told(k) = CASE Seen(k) = {} -> "none"
                         [] Cardinality(Seen(k)) = 1 -> CHOOSE v \in Seen(k) : TRUE
                         [] OTHER -> "conflict"
  BY LedgerCounts DEF Ledger!Told, Seen
<1>2. IsFiniteSet(Seen(k))
  <2>1. IsFiniteSet({content[s] : s \in 1..k})
    <3> DEFINE f == [s \in 1..k |-> content[s]]
               T == {content[s] : s \in 1..k}
    <3>1. f \in [1..k -> T] /\ \A t \in T : \E s \in 1..k : f[s] = t
      OBVIOUS
    <3>2. f \in Surjection(1..k, T)
      BY <3>1, Fun_IsSurj
    <3>3. IsFiniteSet(1..k)
      BY FS_Interval
    <3> QED BY <3>2, <3>3, FS_Surjection
  <2> QED BY <2>1, FS_Difference DEF Seen
<1>3. Cardinality(Seen(k)) = 1 <=> \E v : Seen(k) = {v}
  BY <1>2, FS_Singleton
<1>4. Cardinality({}) = 0
  BY FS_EmptySet
<1>5. ASSUME NEW v, Seen(k) = {v} PROVE Ledger!Told(k) = v
  <2>1. Seen(k) # {} /\ Cardinality(Seen(k)) = 1
    BY <1>3, <1>5
  <2>2. (CHOOSE x \in Seen(k) : TRUE) = v
    BY <1>5
  <2> QED BY <1>1, <2>1, <2>2
<1> QED BY <1>1, <1>3, <1>5

\* What one more session adds.
LEMMA ToldNext ==
  ASSUME NEW k \in 0..(Sessions - 1), content \in [1..Sessions -> Values \cup {"nothing"}]
  PROVE  /\ Ledger!Told(k) \in Ledger!Results /\ Ledger!Told(k + 1) \in Ledger!Results
         /\ content[k + 1] = "nothing" => Ledger!Told(k + 1) = Ledger!Told(k)
         /\ content[k + 1] # "nothing" => Ledger!Told(k + 1) = Ledger!Kept(Ledger!Told(k), content[k + 1])
<1> DEFINE v == content[k + 1]
<1>1. k \in Nat /\ k + 1 \in Nat /\ k + 1 \in 1..Sessions /\ 1..(k + 1) = (1..k) \cup {k + 1}
      /\ 1..k \subseteq 1..Sessions
  BY LedgerNumbers
<1>2. v \in Values \cup {"nothing"} /\ Seen(k) \subseteq Values
  BY <1>1 DEF Seen
<1>3. Seen(k + 1) = IF v = "nothing" THEN Seen(k) ELSE Seen(k) \cup {v}
  BY <1>1 DEF Seen
<1>4. CASE Seen(k) = {}
  <2>1. Ledger!Told(k) = "none"
    BY <1>1, <1>4, ToldIs
  <2>2. CASE v = "nothing"
    BY <1>1, <1>3, <1>4, <2>1, <2>2, ToldIs DEF Ledger!Results
  <2>3. CASE v # "nothing"
    <3>1. Seen(k + 1) = {v}
      BY <1>3, <1>4, <2>3
    <3>2. Ledger!Told(k + 1) = v
      BY <1>1, <3>1, ToldIs
    <3>3. Ledger!Kept("none", v) = v
      BY DEF Ledger!Kept
    <3> QED BY <1>2, <2>1, <2>3, <3>2, <3>3 DEF Ledger!Results
  <2> QED BY <2>2, <2>3
<1>5. ASSUME NEW u, Seen(k) = {u}
      PROVE  /\ Ledger!Told(k) \in Ledger!Results /\ Ledger!Told(k + 1) \in Ledger!Results
             /\ v = "nothing" => Ledger!Told(k + 1) = Ledger!Told(k)
             /\ v # "nothing" => Ledger!Told(k + 1) = Ledger!Kept(Ledger!Told(k), v)
  <2>1. Ledger!Told(k) = u /\ u \in Values /\ u # "none" /\ u # "conflict"
    BY <1>1, <1>2, <1>5, ToldIs, LedgerNumbers
  <2>2. CASE v = "nothing" \/ v = u
    <3>1. Ledger!Told(k + 1) = u
      BY <1>1, <1>3, <1>5, <2>2, ToldIs
    <3>2. v = u => Ledger!Kept(u, v) = u
      BY <2>1 DEF Ledger!Kept
    <3> QED BY <2>1, <2>2, <3>1, <3>2 DEF Ledger!Results
  <2>3. CASE v # "nothing" /\ v # u
    <3>1. Seen(k + 1) = {u, v}
      BY <1>3, <1>5, <2>3
    <3>2. Ledger!Told(k + 1) = "conflict"
      BY <1>1, <2>3, <3>1, ToldIs
    <3>3. Ledger!Kept(u, v) = "conflict"
      BY <2>1, <2>3 DEF Ledger!Kept
    <3> QED BY <2>1, <2>3, <3>2, <3>3 DEF Ledger!Results
  <2> QED BY <2>2, <2>3
<1>6. CASE Seen(k) # {} /\ \A u : Seen(k) # {u}
  <2>1. Ledger!Told(k) = "conflict"
    BY <1>1, <1>6, ToldIs
  <2>2. Seen(k + 1) # {} /\ \A u : Seen(k + 1) # {u}
    <3>1. Seen(k) \subseteq Seen(k + 1)
      BY <1>3
    <3>2. ASSUME NEW u, Seen(k + 1) = {u} PROVE FALSE
      <4>1. Seen(k) = {u}
        BY <1>6, <3>1, <3>2
      <4> QED BY <1>6, <4>1
    <3> QED BY <1>6, <3>1, <3>2
  <2>3. Ledger!Told(k + 1) = "conflict"
    BY <1>1, <2>2, ToldIs
  <2>4. v # "nothing" => Ledger!Kept("conflict", v) = "conflict"
    BY <1>2, LedgerNumbers DEF Ledger!Kept
  <2> QED BY <2>1, <2>3, <2>4 DEF Ledger!Results
<1> QED BY <1>4, <1>5, <1>6

\* One session more counts once more, if it has anything.
LEMMA CountedNext ==
  ASSUME NEW k \in 0..(Sessions - 1), content \in [1..Sessions -> Values \cup {"nothing"}]
  PROVE  /\ Cardinality(Counted(k)) \in 0..k
         /\ Cardinality(Counted(k + 1)) =
              IF content[k + 1] = "nothing" THEN Cardinality(Counted(k)) ELSE Cardinality(Counted(k)) + 1
<1>1. k \in Nat /\ 1..(k + 1) = (1..k) \cup {k + 1} /\ k + 1 \notin 1..k
  BY LedgerNumbers
<1>2. IsFiniteSet(1..k) /\ Cardinality(1..k) = k
  BY <1>1, FS_Interval
<1>3. Counted(k) \in SUBSET (1..k)
  BY DEF Counted
<1>4. IsFiniteSet(Counted(k)) /\ Cardinality(Counted(k)) <= k
  BY <1>2, <1>3, FS_Subset
<1>5. Cardinality(Counted(k)) \in 0..k
  BY <1>1, <1>4, FS_CardinalityType
<1>6. Counted(k + 1) = IF content[k + 1] = "nothing" THEN Counted(k) ELSE Counted(k) \cup {k + 1}
  BY <1>1 DEF Counted
<1>7. k + 1 \notin Counted(k)
  BY <1>1, <1>3
<1> QED BY <1>4, <1>5, <1>6, <1>7, FS_AddElement

\* No session has told anything yet.
LEMMA ToldNone == Ledger!Told(0) = "none" /\ Cardinality(Counted(0)) = 0 /\ "none" \in Ledger!Results
<1>1. Seen(0) = {} /\ Counted(0) = {}
  BY DEF Seen, Counted
<1> QED BY <1>1, ToldIs, FS_EmptySet DEF Ledger!Results

\* What the files of a snapshot are made of.
LEMMA FileFacts ==
  ASSUME NEW f \in FileSets
  PROVE  /\ f.cp \in Ledger!Checkpoints /\ f.main \in Mains
         /\ f.shard \in [1..Shards -> [there : BOOLEAN, seq : 0..Sessions, unit : Ledger!Results]]
         /\ f.cp.stage \in {"none", "active", "done"} /\ f.cp.seq \in Nat /\ f.cp.seq \in 0..Sessions
         /\ f.cp.fields \in Nat /\ f.cp.fields \in 0..Fields
         /\ f.main.seq \in Nat /\ f.main.seq \in 0..Sessions /\ f.main.encounters \in 0..Sessions
         /\ f.main.final \in Seq(Ledger!Results) /\ Len(f.main.final) \in Nat
         /\ Len(f.main.final) <= Fields
         /\ f.main.finalized \in BOOLEAN /\ f.main.finalizing \in BOOLEAN
         /\ f.shard[1].unit \in Ledger!Results
<1>1. /\ f.cp \in Ledger!Checkpoints /\ f.main \in Mains
      /\ f.shard \in [1..Shards -> [there : BOOLEAN, seq : 0..Sessions, unit : Ledger!Results]]
  BY DEF FileSets
<1>2. f.main.final \in Seq(Ledger!Results) /\ Len(f.main.final) <= Fields
  BY <1>1 DEF Mains, Finals
<1>3. Len(f.main.final) \in Nat
  BY <1>2
<1>4. f.shard[1].unit \in Ledger!Results
  BY <1>1, LedgerNumbers
<1>5. 0..Sessions \subseteq Nat /\ 0..Fields \subseteq Nat
  OBVIOUS
<1> QED BY <1>1, <1>2, <1>3, <1>4, <1>5 DEF Mains, Ledger!Checkpoints

\* What it is for the files to be exact.
LEMMA ExactIs ==
  ASSUME NEW f
  PROVE  Ledger!Exact(f) <=>
           /\ f.main.encounters = Cardinality(Counted(f.main.seq))
           /\ ~f.main.finalized => f.shard[1].unit = Ledger!Told(f.main.seq)
           /\ f.main.valid = 1 <=> Ledger!Told(f.main.seq) \in Values
           /\ \A k \in 1..Len(f.main.final) : f.main.final[k] = Ledger!Told(Sessions)
BY LedgerCounts DEF Ledger!Exact, Counted

\* A directory without files is a state of them, too.
LEMMA NoFilesOK ==
  /\ Ledger!NoFiles \in FileSets /\ Ledger!Exact(Ledger!NoFiles)
  /\ Ledger!Empty \in LedgerDisks /\ Ledger!Unprepared \in Preparations /\ Ledger!Dead \in LedgerChildren
  /\ Ledger!NoFiles.cp = Ledger!NoCheckpoint /\ Ledger!NoCheckpoint.stage = "none"
  /\ Ledger!NoCheckpoint \in Ledger!Checkpoints
  /\ Ledger!Empty.files = Ledger!NoFiles /\ Ledger!Empty.seal = Ledger!Unsealed
  /\ Ledger!Unprepared.state = "none" /\ Ledger!Unprepared.files = Ledger!NoFiles
  /\ Ledger!Dead.pc = "dead"
<1> DEFINE f == Ledger!NoFiles
<1>1. 0 \in 0..Sessions /\ 0 \in 0..Fields /\ 0 \in 0..1 /\ "none" \in Ledger!Results
  BY LedgerNumbers, ToldNone
<1>2. Ledger!NoCheckpoint \in Ledger!Checkpoints
  BY <1>1 DEF Ledger!NoCheckpoint, Ledger!Checkpoints
<1>3. Ledger!NoMain \in Mains
  <2>1. <<>> \in Finals
    BY LedgerNumbers DEF Finals
  <2> QED BY <1>1, <2>1 DEF Ledger!NoMain, Mains
<1>4. Ledger!Gone \in [there : BOOLEAN, seq : 0..Sessions, unit : Ledger!Results]
  BY <1>1 DEF Ledger!Gone
<1>5. f \in FileSets
  BY <1>2, <1>3, <1>4 DEF Ledger!NoFiles, FileSets
<1>6. /\ f.main.encounters = 0 /\ f.main.seq = 0 /\ f.main.valid = 0 /\ f.main.final = <<>>
      /\ f.shard[1].unit = "none"
  BY LedgerNumbers DEF Ledger!NoFiles, Ledger!NoMain, Ledger!Gone
<1>7. Ledger!Exact(f)
  BY <1>6, ToldNone, ExactIs, LedgerNumbers
<1>8. Ledger!Dead \in LedgerChildren /\ Ledger!Dead.pc = "dead"
  BY <1>1, <1>2 DEF Ledger!Dead, LedgerChildren, LedgerPcs
<1>9. Ledger!Empty \in LedgerDisks /\ Ledger!Unprepared \in Preparations
  BY <1>5 DEF Ledger!Empty, Ledger!Unprepared, LedgerDisks, Preparations, Ledger!Unsealed
<1> QED BY <1>2, <1>5, <1>7, <1>8, <1>9
        DEF Ledger!NoFiles, Ledger!NoCheckpoint, Ledger!Empty, Ledger!Unprepared, Ledger!Unsealed

\* While the sessions hold what they hold, sound files stay sound.
LEMMA SoundStays ==
  ASSUME content' = content, NEW f
  PROVE  (Ledger!Exact(f)' <=> Ledger!Exact(f)) /\ (Ready(f)' <=> Ready(f)) /\ (Sound(f)' <=> Sound(f))
<1>1. \A k : Ledger!Told(k)' = Ledger!Told(k)
  BY DEF Ledger!Told
<1>2. Ledger!Exact(f)' <=> Ledger!Exact(f)
  BY <1>1 DEF Ledger!Exact
<1> QED BY <1>2 DEF Ready, Sound, Ledger!Whole

\* So does what a segment, its output and its preparation are together.
LEMMA FitsStays ==
  ASSUME content' = content, server' = server, NEW c, NEW d, NEW p, Fits(c, d, p)
  PROVE  Fits(c, d, p)'
<1>1. \A f : (Ready(f)' <=> Ready(f)) /\ (Sound(f)' <=> Sound(f))
  BY SoundStays
<1> QED BY <1>1 DEF Fits, SegmentOK, Saved

\* The invariant of the state that a step leads to.
LEMMA FitsThere ==
  ASSUME NEW c, NEW d, NEW p, ledgerChild' = c, ledgerDisk' = d, prepared' = p, Fits(c, d, p)'
  PROVE  Fits(ledgerChild, ledgerDisk, prepared)'
<1>1. (Ready(prepared.files) <=> Ready(p.files))' /\ (Ready(ledgerDisk.files) <=> Ready(d.files))'
      /\ (Sound(ledgerDisk.files) <=> Sound(d.files))'
  BY DEF Ready, Sound, Ledger!Exact, Ledger!Told, Ledger!Whole
<1>2. (Saved(ledgerDisk.files) <=> Saved(d.files))'
  BY <1>1 DEF Saved
<1>3. (SegmentOK(ledgerChild, ledgerDisk.files) <=> SegmentOK(c, d.files))'
  BY <1>1 DEF SegmentOK
<1> QED BY <1>1, <1>2, <1>3 DEF Fits

\* A step that leaves the server alone.
LEMMA LedgerMoves ==
  ASSUME LedgerIInv, NEW c \in LedgerChildren, NEW d \in LedgerDisks, NEW p \in Preparations,
         UNCHANGED <<content, server, refused>>,
         ledgerChild' = c, ledgerDisk' = d, prepared' = p, Fits(c, d, p)
  PROVE  LedgerIInv'
<1>1. LedgerTyped' /\ ~refused'
  BY DEF LedgerIInv, LedgerTyped
<1>2. Saved(server)'
  BY SoundStays DEF LedgerIInv, Saved
<1>3. Fits(c, d, p)'
  BY FitsStays
<1>4. Fits(ledgerChild, ledgerDisk, prepared)'
  BY <1>3, FitsThere
<1> QED BY <1>1, <1>2, <1>4 DEF LedgerIInv

\* The ledger's invariant holds at the start.
LEMMA LedgerInit == Ledger!Init => LedgerIInv
<1> SUFFICES ASSUME Ledger!Init PROVE LedgerIInv
  OBVIOUS
<1>1. LedgerTyped /\ refused = FALSE /\ Saved(server)
  BY NoFilesOK DEF Ledger!Init, LedgerTyped, Saved
<1>2. Fits(ledgerChild, ledgerDisk, prepared)
  BY NoFilesOK DEF Ledger!Init, Fits, SegmentOK, OnFiles
<1> QED BY <1>1, <1>2 DEF LedgerIInv

\* A segment that works on its files: the prepared snapshot is none, the seal is off.
Working == OnFiles \cup {"engine", "name"}

\* What the parts of a segment's state are.
LEMMA WorkFacts ==
  ASSUME LedgerIInv
  PROVE  /\ ledgerChild \in LedgerChildren /\ ledgerDisk \in LedgerDisks /\ prepared \in Preparations
         /\ ledgerDisk.files \in FileSets /\ ledgerDisk.seal \in FileSets /\ ledgerDisk.compact \in BOOLEAN
         /\ prepared.files \in FileSets /\ server \in FileSets /\ Saved(server)
         /\ content \in [1..Sessions -> Values \cup {"nothing"}]
         /\ Fits(ledgerChild, ledgerDisk, prepared) /\ SegmentOK(ledgerChild, ledgerDisk.files)
         /\ ledgerChild.pc \in Working =>
              prepared = Ledger!Unprepared /\ ledgerDisk.seal = Ledger!Unsealed
<1>1. LedgerTyped /\ Saved(server) /\ Fits(ledgerChild, ledgerDisk, prepared)
  BY DEF LedgerIInv
<1>2. /\ ledgerChild \in LedgerChildren /\ ledgerDisk \in LedgerDisks /\ prepared \in Preparations
      /\ server \in FileSets /\ content \in [1..Sessions -> Values \cup {"nothing"}]
  BY <1>1 DEF LedgerTyped
<1>3. prepared.state \in {"none", "begun", "sealed"}
  BY <1>2 DEF Preparations
<1>4. ledgerChild.pc \in Working =>
        prepared = Ledger!Unprepared /\ ledgerDisk.seal = Ledger!Unsealed
  BY <1>1, <1>3 DEF Fits, Working, OnFiles
<1> QED BY <1>1, <1>2, <1>4 DEF Fits, LedgerDisks, Preparations

\* The segment goes on in its files.
LEMMA SegmentMoves ==
  ASSUME LedgerIInv, ledgerChild.pc \in Working, NEW c \in LedgerChildren, NEW f \in FileSets,
         NEW compact \in BOOLEAN,
         UNCHANGED <<content, server, prepared, refused>>, c.pc \in OnFiles \cup {"name"},
         ledgerChild' = c, ledgerDisk' = [ledgerDisk EXCEPT !.files = f, !.compact = compact],
         SegmentOK(c, f)
  PROVE  LedgerIInv'
<1> DEFINE d == [ledgerDisk EXCEPT !.files = f, !.compact = compact]
<1>1. /\ ledgerDisk \in LedgerDisks /\ prepared = Ledger!Unprepared
      /\ ledgerDisk.seal = Ledger!Unsealed
  BY WorkFacts
<1>2. d \in LedgerDisks /\ d.files = f /\ d.seal = Ledger!Unsealed
  BY <1>1 DEF LedgerDisks
<1> HIDE DEF d
<1>3. Fits(c, d, prepared)
  BY <1>1, <1>2, NoFilesOK DEF Fits, OnFiles
<1> QED BY <1>1, <1>2, <1>3, LedgerMoves, NoFilesOK DEF d

\* What the parts of its process are.
LEMMA ChildFacts ==
  ASSUME NEW c \in LedgerChildren
  PROVE  /\ \A go \in LedgerPcs : LET n == [c EXCEPT !.pc = go] IN
              /\ n \in LedgerChildren /\ n.pc = go /\ n.seq = c.seq /\ n.replay = c.replay
              /\ n.field = c.field /\ n.cached = c.cached
         /\ c.seq \in Nat /\ c.seq \in 0..Sessions /\ c.field \in Nat /\ c.field \in 0..Fields
         /\ c.prior \in Ledger!Checkpoints /\ c.pc \in LedgerPcs
         /\ OnFiles \subseteq LedgerPcs
<1>1. 0..Sessions \subseteq Nat /\ 0..Fields \subseteq Nat
  OBVIOUS
<1> QED BY <1>1 DEF LedgerChildren, LedgerPcs

\* A segment begins, and takes up what was prepared before.
LEMMA StartKeeps ==
  ASSUME LedgerIInv, Ledger!Start \/ Ledger!RestorePrepared
  PROVE  LedgerIInv'
<1>0. UNCHANGED <<content, server, refused, ledgerDisk>>
  BY DEF Ledger!Start, Ledger!RestorePrepared
<1>1. CASE Ledger!Start
  <2> DEFINE c == [Ledger!Dead EXCEPT !.pc = "restore", !.prior = server.cp]
  <2>1. c \in LedgerChildren /\ c.pc = "restore" /\ c.seq = 0
    BY WorkFacts, FileFacts, NoFilesOK DEF Ledger!Dead, LedgerChildren, LedgerPcs
  <2>2. ledgerChild' = c /\ prepared' = prepared /\ ledgerChild.pc = "dead"
    BY <1>1 DEF Ledger!Start, Ledger!At
  <2> HIDE DEF c
  <2>3. Fits(c, ledgerDisk, prepared)
    BY <2>1, <2>2, WorkFacts DEF Fits, SegmentOK, OnFiles
  <2> QED BY <1>0, <2>1, <2>2, <2>3, LedgerMoves, WorkFacts
<1>2. CASE Ledger!RestorePrepared
  <2>0. /\ ledgerChild.pc = "restore" /\ prepared # Ledger!Unprepared
        /\ prepared.state \in {"begun", "sealed"}
    BY <1>2, WorkFacts DEF Ledger!RestorePrepared, Ledger!At, Fits, Preparations
  <2>1. CASE prepared.state = "begun"
    <3> DEFINE c == [ledgerChild EXCEPT !.pc = "seal"]
    <3>1. c \in LedgerChildren /\ c.pc = "seal"
      BY ChildFacts, WorkFacts DEF LedgerPcs
    <3>2. ledgerChild' = c /\ prepared' = prepared
      BY <1>2, <2>1 DEF Ledger!RestorePrepared, Ledger!Goes
    <3> HIDE DEF c
    <3>3. Fits(c, ledgerDisk, prepared)
      BY <2>1, <3>1, WorkFacts DEF Fits, SegmentOK, OnFiles
    <3> QED BY <1>0, <3>1, <3>2, <3>3, LedgerMoves, WorkFacts
  <2>2. CASE prepared.state = "sealed" /\ prepared.files = server
    <3>1. ledgerChild' = ledgerChild /\ prepared' = Ledger!Unprepared
      BY <1>2, <2>2 DEF Ledger!RestorePrepared
    <3>2. Fits(ledgerChild, ledgerDisk, Ledger!Unprepared)
      BY <2>0, WorkFacts, NoFilesOK DEF Fits, SegmentOK, OnFiles
    <3> QED BY <1>0, <3>1, <3>2, LedgerMoves, WorkFacts, NoFilesOK
  <2>3. CASE prepared.state = "sealed" /\ prepared.files # server
    <3> DEFINE c == [ledgerChild EXCEPT !.pc = "publish"]
    <3>1. c \in LedgerChildren /\ c.pc = "publish"
      BY ChildFacts, WorkFacts DEF LedgerPcs
    <3>2. ledgerChild' = c /\ prepared' = prepared
      BY <1>2, <2>3 DEF Ledger!RestorePrepared, Ledger!Goes
    <3> HIDE DEF c
    <3>3. Fits(c, ledgerDisk, prepared)
      BY <2>3, <3>1, WorkFacts DEF Fits, SegmentOK, OnFiles
    <3> QED BY <1>0, <3>1, <3>2, <3>3, LedgerMoves, WorkFacts
  <2> QED BY <2>0, <2>1, <2>2, <2>3
<1> QED BY <1>1, <1>2

\* The server's snapshot is brought to the disk.
LEMMA RestoreKeeps ==
  ASSUME LedgerIInv,
         \/ Ledger!RestoreNothing \/ Ledger!RestoreFiles \/ Ledger!RestoreDatabase
         \/ Ledger!Restored \/ Ledger!ReleaseSeal
  PROVE  LedgerIInv'
<1>0. /\ UNCHANGED <<content, server>>
      /\ ledgerChild \in LedgerChildren /\ ledgerDisk \in LedgerDisks /\ server \in FileSets
      /\ ledgerDisk.files \in FileSets /\ Saved(server)
  BY WorkFacts DEF Ledger!RestoreNothing, Ledger!RestoreFiles, Ledger!RestoreDatabase,
                   Ledger!Restored, Ledger!ReleaseSeal, Ledger!Refuse
<1>1. ASSUME NEW go \in {"engine", "databases", "release"}, NEW d \in LedgerDisks,
             ledgerChild.pc \in {"restore", "databases", "release"},
             prepared = Ledger!Unprepared, UNCHANGED <<prepared, refused>>, ledgerDisk' = d,
             ledgerChild' = [ledgerChild EXCEPT !.pc = go],
             go \in {"databases", "release"} => d.seal = server /\ server # Ledger!NoFiles,
             go = "release" => d.files = server,
             go = "engine" => Saved(d.files) /\ d.seal = Ledger!Unsealed
      PROVE  LedgerIInv'
  <2>0. ledgerChild.seq = 0
    BY <1>1, WorkFacts DEF SegmentOK
  <2>1. PICK c \in LedgerChildren : c = ledgerChild' /\ c.pc = go /\ c.seq = 0
    <3>1. go \in LedgerPcs
      BY <1>1 DEF LedgerPcs
    <3>2. PICK n : n = [ledgerChild EXCEPT !.pc = go]
      OBVIOUS
    <3>3. n \in LedgerChildren /\ n.pc = go /\ n.seq = ledgerChild.seq
      BY <1>0, <3>1, <3>2, ChildFacts
    <3> QED BY <1>1, <2>0, <3>2, <3>3
  <2>2. Fits(c, d, Ledger!Unprepared)
    BY <1>1, <2>1, NoFilesOK DEF Fits, SegmentOK, OnFiles
  <2> QED BY <1>0, <1>1, <2>1, <2>2, LedgerMoves, NoFilesOK
<1>2. CASE Ledger!RestoreNothing
  <2>1. Saved(Ledger!NoFiles)
    BY DEF Saved
  <2> QED BY <1>1, <1>2, <2>1, NoFilesOK DEF Ledger!RestoreNothing, Ledger!Goes, Ledger!At
<1>3. CASE Ledger!RestoreFiles
  <2> DEFINE d == [ledgerDisk EXCEPT !.files.cp = server.cp, !.seal = server]
  <2>1. d \in LedgerDisks /\ d.seal = server
    <3>1. [ledgerDisk.files EXCEPT !.cp = server.cp] \in FileSets
      BY <1>0, FileFacts DEF FileSets
    <3> QED BY <1>0, <3>1 DEF LedgerDisks
  <2>2. /\ ledgerDisk' = d /\ prepared = Ledger!Unprepared /\ UNCHANGED <<prepared, refused>>
        /\ server # Ledger!NoFiles /\ ledgerChild' = [ledgerChild EXCEPT !.pc = "databases"]
    BY <1>3 DEF Ledger!RestoreFiles, Ledger!Goes
  <2>3. ledgerChild.pc = "restore"
    BY <1>3 DEF Ledger!RestoreFiles, Ledger!At
  <2> HIDE DEF d
  <2> QED BY <1>1, <2>1, <2>2, <2>3
<1>4. CASE Ledger!RestoreDatabase
  <2>1. /\ ledgerChild.pc = "databases" /\ ledgerChild' = ledgerChild /\ UNCHANGED <<prepared, refused>>
        /\ Fits(ledgerChild, ledgerDisk, prepared) /\ prepared \in Preparations
    BY <1>4, WorkFacts DEF Ledger!RestoreDatabase, Ledger!At
  <2>2. prepared = Ledger!Unprepared /\ ledgerDisk.seal = server /\ server # Ledger!NoFiles
    BY <2>1 DEF Fits, Preparations
  <2>3. PICK f \in FileSets : ledgerDisk' = [ledgerDisk EXCEPT !.files = f]
    <3>1. [ledgerDisk.files EXCEPT !.main = server.main] \in FileSets
      BY <1>0, FileFacts DEF FileSets
    <3>2. \A n \in 1..Shards : [ledgerDisk.files EXCEPT !.shard[n] = server.shard[n]] \in FileSets
      BY <1>0, FileFacts DEF FileSets
    <3> QED BY <1>4, <3>1, <3>2 DEF Ledger!RestoreDatabase, Ledger!Write
  <2> DEFINE d == [ledgerDisk EXCEPT !.files = f]
  <2>4. d \in LedgerDisks /\ d.seal = server
    BY <1>0, <2>2 DEF LedgerDisks
  <2> HIDE DEF d
  <2>5. Fits(ledgerChild, d, prepared)
    BY <2>1, <2>2, <2>4, NoFilesOK, WorkFacts DEF Fits, SegmentOK, OnFiles
  <2> QED BY <1>0, <2>1, <2>3, <2>4, <2>5, LedgerMoves DEF d
<1>5. CASE Ledger!Restored
  <2> DEFINE d == [ledgerDisk EXCEPT !.files = server, !.compact = FALSE]
  <2>1. /\ ledgerChild.pc = "databases" /\ UNCHANGED <<prepared, refused>> /\ ledgerDisk' = d
        /\ ledgerChild' = [ledgerChild EXCEPT !.pc = "release"]
    BY <1>5 DEF Ledger!Restored, Ledger!At, Ledger!Goes
  <2>2. prepared = Ledger!Unprepared /\ ledgerDisk.seal = server /\ server # Ledger!NoFiles
    BY <2>1, WorkFacts DEF Fits, Preparations
  <2>3. d \in LedgerDisks /\ d.seal = server /\ d.files = server
    BY <1>0, <2>2 DEF LedgerDisks
  <2> HIDE DEF d
  <2> QED BY <1>1, <2>1, <2>2, <2>3
<1>6. CASE Ledger!ReleaseSeal
  <2> DEFINE d == [ledgerDisk EXCEPT !.seal = Ledger!Unsealed]
  <2>1. ledgerChild.pc = "release"
    BY <1>6 DEF Ledger!ReleaseSeal, Ledger!At
  <2>2. prepared = Ledger!Unprepared /\ ledgerDisk.seal = server /\ ledgerDisk.files = server
    BY <2>1, WorkFacts DEF Fits, Preparations
  <2>3. /\ UNCHANGED <<prepared, refused>> /\ ledgerDisk' = d
        /\ ledgerChild' = [ledgerChild EXCEPT !.pc = "engine"]
    BY <1>6, <2>2 DEF Ledger!ReleaseSeal, Ledger!Goes
  <2>4. d \in LedgerDisks /\ d.seal = Ledger!Unsealed /\ d.files = server
    BY <1>0, <2>2, NoFilesOK DEF LedgerDisks, Ledger!Unsealed
  <2> HIDE DEF d
  <2> QED BY <1>0, <1>1, <2>1, <2>2, <2>3, <2>4
<1> QED BY <1>2, <1>3, <1>4, <1>5, <1>6

\* The ledger is created, named in the checkpoint, and opened by a later segment.
LEMMA OpenKeeps ==
  ASSUME LedgerIInv, Ledger!CreateLedger \/ Ledger!NameStage \/ Ledger!OpenLedger
  PROVE  LedgerIInv'
<1> DEFINE f == ledgerDisk.files
<1>0. /\ UNCHANGED <<content, server>> /\ f \in FileSets /\ ledgerDisk.compact \in BOOLEAN
      /\ ledgerChild \in LedgerChildren /\ SegmentOK(ledgerChild, f) /\ ledgerDisk \in LedgerDisks
  BY WorkFacts DEF Ledger!CreateLedger, Ledger!NameStage, Ledger!OpenLedger, Ledger!Refuse
<1>1. \A g : [ledgerDisk EXCEPT !.files = g] =
             [ledgerDisk EXCEPT !.files = g, !.compact = ledgerDisk.compact]
  BY <1>0 DEF LedgerDisks
<1>2. CASE Ledger!CreateLedger
  <2> DEFINE shard == [n \in 1..Shards |-> [Ledger!Gone EXCEPT !.there = TRUE]]
             main == [Ledger!NoMain EXCEPT !.there = TRUE]
             g == [f EXCEPT !.main = main, !.shard = shard]
             c == [ledgerChild EXCEPT !.pc = "name"]
  <2>1. /\ ledgerChild.pc = "engine" /\ f.cp.stage = "none" /\ UNCHANGED <<prepared, refused>>
        /\ ledgerChild' = c /\ ledgerDisk' = [ledgerDisk EXCEPT !.files = g]
    BY <1>2 DEF Ledger!CreateLedger, Ledger!At, Ledger!Goes, Ledger!Write
  <2>2. f = Ledger!NoFiles
    BY <2>1, WorkFacts DEF Fits, Saved, Ready
  <2>3. prepared = Ledger!Unprepared /\ ledgerDisk.seal = Ledger!Unsealed
    BY <2>1, WorkFacts DEF Working
  <2>4. 0 \in 0..Sessions /\ 0 \in 0..Fields /\ 0 \in 0..1 /\ "none" \in Ledger!Results
    BY LedgerNumbers, ToldNone
  <2>5. main \in Mains /\ shard \in [1..Shards -> [there : BOOLEAN, seq : 0..Sessions, unit : Ledger!Results]]
    <3>0. Ledger!NoMain \in Mains
      BY NoFilesOK DEF Ledger!NoFiles, FileSets
    <3>1. main \in Mains
      BY <3>0 DEF Mains
    <3>2. [Ledger!Gone EXCEPT !.there = TRUE] \in [there : BOOLEAN, seq : 0..Sessions, unit : Ledger!Results]
      BY <2>4 DEF Ledger!Gone
    <3> QED BY <3>1, <3>2
  <2>6. main.there /\ main.seq = 0 /\ main.encounters = 0 /\ main.valid = 0 /\ main.final = <<>>
        /\ main.finalizing = FALSE /\ main.finalized = FALSE
    BY DEF Ledger!NoMain
  <2>7. \A n \in 1..Shards : shard[n].there /\ shard[n].seq = 0 /\ shard[n].unit = "none"
    BY DEF Ledger!Gone
  <2> HIDE DEF main, shard
  <2>8. g \in FileSets /\ g.main = main /\ g.shard = shard /\ g.cp = Ledger!NoCheckpoint
    BY <1>0, <2>2, <2>5, NoFilesOK DEF FileSets
  <2> HIDE DEF g
  <2>9. Ledger!Exact(g)
    <3>1. g.main.encounters = Cardinality(Counted(0)) /\ g.main.seq = 0 /\ g.main.valid # 1
          /\ g.shard[1].unit = Ledger!Told(0) /\ Len(g.main.final) = 0
      BY <2>6, <2>7, <2>8, ToldNone, LedgerNumbers
    <3> QED BY <3>1, ExactIs, ToldNone, LedgerNumbers
  <2>10. Sound(g)
    <3>1. g.cp.seq = 0 /\ g.cp.fields = 0 /\ g.cp.stage = "none" /\ Len(g.main.final) = 0
      BY <2>6, <2>8 DEF Ledger!NoCheckpoint
    <3>2. Ledger!Whole(g)
      BY <2>6, <2>7, <2>8 DEF Ledger!Whole
    <3> QED BY <2>6, <2>8, <2>9, <3>1, <3>2, LedgerNumbers DEF Sound
  <2>11. c \in LedgerChildren /\ c.pc = "name" /\ c.seq = 0
    <3>1. ledgerChild.seq = 0
      BY <1>0, <2>1 DEF SegmentOK
    <3> QED BY <1>0, <3>1, ChildFacts DEF LedgerPcs
  <2> HIDE DEF c
  <2>12. SegmentOK(c, g)
    BY <2>6, <2>8, <2>10, <2>11 DEF SegmentOK, OnFiles
  <2> QED BY <1>0, <1>1, <2>1, <2>8, <2>11, <2>12, SegmentMoves DEF Working
<1>3. CASE Ledger!NameStage
  <2> DEFINE g == [f EXCEPT !.cp.stage = "active"]
             c == [ledgerChild EXCEPT !.pc = "next"]
  <2>1. /\ ledgerChild.pc = "name" /\ UNCHANGED <<prepared, refused>>
        /\ ledgerChild' = c /\ ledgerDisk' = [ledgerDisk EXCEPT !.files = g]
    BY <1>3 DEF Ledger!NameStage, Ledger!At, Ledger!Goes, Ledger!Write
  <2>2. Sound(f) /\ f.cp = Ledger!NoCheckpoint /\ ledgerChild.seq = 0 /\ ~f.main.finalizing
    BY <1>0, <2>1 DEF SegmentOK
  <2>3. /\ g \in FileSets /\ g.main = f.main /\ g.shard = f.shard
        /\ g.cp.stage = "active" /\ g.cp.seq = f.cp.seq /\ g.cp.fields = f.cp.fields
    BY <1>0, FileFacts DEF FileSets, Ledger!Checkpoints
  <2>4. c \in LedgerChildren /\ c.pc = "next" /\ c.seq = 0
    BY <1>0, <2>2, ChildFacts DEF LedgerPcs, OnFiles
  <2> HIDE DEF g, c
  <2>5. Ready(g)
    BY <2>2, <2>3 DEF Sound, Ready, Ledger!Exact, Ledger!Whole
  <2>6. SegmentOK(c, g)
    BY <2>2, <2>3, <2>4, <2>5 DEF SegmentOK, OnFiles, Ledger!NoCheckpoint
  <2> QED BY <1>0, <1>1, <2>1, <2>3, <2>4, <2>6, SegmentMoves DEF Working, OnFiles
<1>4. CASE Ledger!OpenLedger
  <2> DEFINE c == [ledgerChild EXCEPT !.pc = "next", !.seq = f.cp.seq]
  <2>1. ledgerChild.pc = "engine" /\ f.cp.stage = "active"
    BY <1>4 DEF Ledger!OpenLedger, Ledger!At
  <2>2. Ready(f)
    BY <2>1, WorkFacts, NoFilesOK DEF Fits, Saved
  <2>3. UNCHANGED <<ledgerDisk, prepared, refused>> /\ ledgerChild' = c
    BY <1>4, <2>2 DEF Ledger!OpenLedger, Ledger!Main, Ready, Sound
  <2>4. c \in LedgerChildren /\ c.pc = "next" /\ c.seq = f.cp.seq
    BY <1>0, FileFacts DEF LedgerChildren, LedgerPcs, OnFiles
  <2> HIDE DEF c
  <2>5. SegmentOK(c, f)
    BY <2>1, <2>2, <2>4 DEF SegmentOK, OnFiles
  <2>6. ledgerDisk' = [ledgerDisk EXCEPT !.files = f, !.compact = ledgerDisk.compact]
    BY <1>0, <2>3 DEF LedgerDisks
  <2> QED BY <1>0, <2>1, <2>3, <2>4, <2>5, <2>6, SegmentMoves DEF Working, OnFiles
<1> QED BY <1>2, <1>3, <1>4

\* What a segment on its files is.
LEMMA OnFilesFacts ==
  ASSUME LedgerIInv, ledgerChild.pc \in OnFiles
  PROVE  LET f == ledgerDisk.files IN
         /\ f \in FileSets /\ Sound(f) /\ Ready(f) /\ ledgerChild \in LedgerChildren
         /\ SegmentOK(ledgerChild, f) /\ ledgerDisk \in LedgerDisks /\ ledgerDisk.compact \in BOOLEAN
         /\ ledgerDisk = [ledgerDisk EXCEPT !.files = f, !.compact = ledgerDisk.compact]
         /\ \A g : [ledgerDisk EXCEPT !.files = g] =
                   [ledgerDisk EXCEPT !.files = g, !.compact = ledgerDisk.compact]
         /\ ledgerDisk.seal = Ledger!Unsealed /\ prepared = Ledger!Unprepared
         /\ ledgerChild.pc \in Working
<1>1. ledgerDisk \in LedgerDisks /\ ledgerChild.pc \in Working
  BY WorkFacts DEF Working
<1>2. Ready(ledgerDisk.files)
  BY WorkFacts DEF SegmentOK
<1> QED BY <1>1, <1>2, WorkFacts DEF LedgerDisks, Ready

\* A step of the segment that writes no file.
LEMMA SegmentStays ==
  ASSUME LedgerIInv, ledgerChild.pc \in OnFiles, NEW c \in LedgerChildren, c.pc \in OnFiles,
         UNCHANGED <<content, server, prepared, refused, ledgerDisk>>, ledgerChild' = c,
         SegmentOK(c, ledgerDisk.files)
  PROVE  LedgerIInv'
BY OnFilesFacts, SegmentMoves

\* Sessions.
LEMMA SessionKeeps ==
  ASSUME LedgerIInv, Ledger!BeginSession \/ Ledger!FinishSession \/ Ledger!SaveCheckpoint
  PROVE  LedgerIInv'
<1> DEFINE f == ledgerDisk.files
<1>0. /\ UNCHANGED <<content, server>> /\ ledgerChild.pc \in {"next", "session", "save"}
      /\ ledgerChild.pc \in OnFiles /\ f.cp.stage = "active"
      /\ f \in FileSets /\ Sound(f) /\ Ready(f) /\ ledgerChild \in LedgerChildren
      /\ SegmentOK(ledgerChild, f) /\ ledgerDisk.seal = Ledger!Unsealed
  <2>1. ledgerChild.pc \in {"next", "session", "save"} /\ UNCHANGED <<content, server>>
    BY DEF Ledger!BeginSession, Ledger!FinishSession, Ledger!SaveCheckpoint, Ledger!At,
       Ledger!Refuse
  <2>2. ledgerChild.pc \in OnFiles \ {"prepare"}
    BY <2>1 DEF OnFiles
  <2> QED BY <2>1, <2>2, OnFilesFacts DEF SegmentOK
<1>1. /\ f.cp.seq \in Nat /\ f.main.seq \in Nat /\ f.cp.seq <= f.main.seq /\ f.main.seq <= f.cp.seq + 1
      /\ f.main.seq \in 0..Sessions /\ Sessions \in Nat
  BY <1>0, FileFacts, LedgerNumbers DEF Sound
<1>2. CASE Ledger!BeginSession
  <2> DEFINE replay == f.main.seq > ledgerChild.seq
             c == [ledgerChild EXCEPT !.pc = "session", !.replay = replay]
  <2>1. ledgerChild.pc = "next" /\ ledgerChild.seq < Sessions /\ ledgerChild.seq = f.cp.seq
    BY <1>0, <1>2 DEF Ledger!BeginSession, Ledger!At, SegmentOK
  <2>2. Ledger!Writable /\ ~f.main.finalizing /\ f.main.seq >= ledgerChild.seq
    BY <1>0, <1>1, <2>1 DEF Ledger!Writable, Sound
  <2>3. ledgerChild' = c /\ UNCHANGED <<ledgerDisk, prepared, refused>>
    BY <1>2, <2>2 DEF Ledger!BeginSession, Ledger!Main
  <2>4. c \in LedgerChildren /\ c.pc = "session" /\ c.seq = ledgerChild.seq
        /\ c.replay = replay
    <3>1. replay \in BOOLEAN /\ "session" \in LedgerPcs
      BY DEF LedgerPcs, OnFiles
    <3> HIDE DEF replay
    <3> QED BY <1>0, <3>1 DEF LedgerChildren
  <2> HIDE DEF c
  <2>5. SegmentOK(c, f)
    BY <1>0, <2>1, <2>2, <2>4 DEF SegmentOK, OnFiles
  <2> QED BY <1>0, <2>3, <2>4, <2>5, SegmentStays DEF OnFiles
<1>3. CASE Ledger!FinishSession
  <2> DEFINE k == ledgerChild.seq
             c == [ledgerChild EXCEPT !.pc = "save", !.seq = @ + 1]
  <2>1. /\ ledgerChild.pc = "session" /\ k = f.cp.seq /\ k < Sessions /\ ~f.main.finalizing
        /\ ledgerChild.replay = (f.main.seq > k)
    BY <1>0, <1>3 DEF Ledger!FinishSession, Ledger!At, SegmentOK
  <2>2. ledgerChild' = c /\ UNCHANGED <<prepared, refused>>
    BY <1>3 DEF Ledger!FinishSession
  <2>3. c \in LedgerChildren /\ c.pc = "save" /\ c.seq = k + 1 /\ k \in 0..(Sessions - 1) /\ k \in Nat
        /\ k + 1 \in 0..Sessions
    <3>1. k \in Nat /\ k \in 0..(Sessions - 1) /\ k + 1 \in 0..Sessions
      BY <1>0, <1>1, <2>1, ChildFacts
    <3>2. "save" \in LedgerPcs
      BY DEF LedgerPcs, OnFiles
    <3> QED BY <1>0, <3>1, <3>2 DEF LedgerChildren
  <2> HIDE DEF c
  <2>4. CASE ledgerChild.replay
    <3>1. f.main.seq = k + 1
      <4>1. f.main.seq > k
        BY <2>1, <2>4
      <4> QED BY <1>1, <2>1, <2>3, <4>1
    <3>2. SegmentOK(c, f)
      BY <1>0, <2>1, <2>3, <3>1 DEF SegmentOK, OnFiles
    <3>3. UNCHANGED ledgerDisk
      BY <1>3, <2>4 DEF Ledger!FinishSession
    <3> QED BY <1>0, <2>2, <2>3, <3>2, <3>3, SegmentStays DEF OnFiles
  <2>5. CASE ~ledgerChild.replay
    <3> DEFINE h == Ledger!Added(f, content[k + 1])
               shard == [n \in 1..Shards |-> [h.shard[n] EXCEPT !.seq = k + 1]]
               g == [h EXCEPT !.main.seq = k + 1, !.shard = shard]
    <3>0. f.main.seq = k /\ content \in [1..Sessions -> Values \cup {"nothing"}]
          /\ content[k + 1] \in Values \cup {"nothing"}
      <4>1. ~(f.main.seq > k)
        BY <2>1, <2>5
      <4>2. content \in [1..Sessions -> Values \cup {"nothing"}] /\ k + 1 \in 1..Sessions
        BY <1>1, <2>3, WorkFacts
      <4> QED BY <1>1, <2>1, <2>3, <4>1, <4>2
    <3>1. ledgerDisk' = [ledgerDisk EXCEPT !.files = g]
      BY <1>3, <2>5 DEF Ledger!FinishSession, Ledger!Write
    <3>2. /\ ~f.main.finalized /\ Len(f.main.final) = 0 /\ Ledger!Whole(f) /\ f.main.there
          /\ f.shard[1].unit = Ledger!Told(k) /\ f.main.encounters = Cardinality(Counted(k))
          /\ f.main.valid = 1 <=> Ledger!Told(k) \in Values
      BY <1>0, <2>1, <3>0, ExactIs, FileFacts DEF Sound
    <3>3. /\ f.main \in Mains /\ f.cp \in Ledger!Checkpoints
          /\ f.shard \in [1..Shards -> [there : BOOLEAN, seq : 0..Sessions, unit : Ledger!Results]]
          /\ 1 \in 1..Shards
      BY <1>0, FileFacts, LedgerNumbers
    <3>4. /\ Ledger!Told(k) \in Ledger!Results /\ Ledger!Told(k + 1) \in Ledger!Results
          /\ content[k + 1] = "nothing" => Ledger!Told(k + 1) = Ledger!Told(k)
          /\ content[k + 1] # "nothing" => Ledger!Told(k + 1) = Ledger!Kept(Ledger!Told(k), content[k + 1])
          /\ Cardinality(Counted(k)) \in 0..k
          /\ Cardinality(Counted(k + 1)) =
               IF content[k + 1] = "nothing" THEN Cardinality(Counted(k)) ELSE Cardinality(Counted(k)) + 1
      BY <2>3, <3>0, ToldNext, CountedNext
    <3>5. /\ h \in FileSets /\ h.cp = f.cp /\ h.main.final = f.main.final /\ h.main.there
          /\ h.main.finalizing = f.main.finalizing /\ h.main.finalized = f.main.finalized
          /\ h.shard[1].unit = Ledger!Told(k + 1)
          /\ h.main.encounters = Cardinality(Counted(k + 1))
          /\ h.main.valid = 1 <=> Ledger!Told(k + 1) \in Values
          /\ \A n \in 1..Shards : h.shard[n].there
      <4>1. \A n \in 1..Shards : f.shard[n].there
        BY <3>2 DEF Ledger!Whole
      <4>2. CASE content[k + 1] = "nothing"
        BY <1>0, <3>2, <3>3, <3>4, <4>1, <4>2 DEF Ledger!Added
      <4>3. CASE content[k + 1] # "nothing"
        <5> DEFINE unit == Ledger!Kept(f.shard[1].unit, content[k + 1])
                   count == f.main.encounters + 1
                   valid == IF unit = "conflict" THEN 0 ELSE 1
        <5>1. h = [f EXCEPT !.main.encounters = count, !.main.valid = valid, !.shard[1].unit = unit]
          BY <4>3 DEF Ledger!Added
        <5>2. unit = Ledger!Told(k + 1) /\ unit \in Ledger!Results
          BY <3>2, <3>4, <4>3
        <5>3. count \in 0..Sessions /\ count = Cardinality(Counted(k + 1))
          <6>1. PICK m \in 0..k : m = Cardinality(Counted(k))
            BY <3>4
          <6>2. count = m + 1 /\ Cardinality(Counted(k + 1)) = m + 1
            BY <3>2, <3>4, <4>3, <6>1
          <6>3. m + 1 \in 0..Sessions
            BY <1>1, <2>3, <6>1
          <6> QED BY <6>2, <6>3
        <5>4. unit # "none"
          BY <3>0, <4>3, LedgerNumbers DEF Ledger!Kept
        <5>5. valid \in 0..1 /\ (valid = 1 <=> unit \in Values)
          BY <5>2, <5>4, LedgerNumbers DEF Ledger!Results
        <5> HIDE DEF unit, count, valid, h
        <5>6. /\ h.cp = f.cp
              /\ h.main = [f.main EXCEPT !.encounters = count, !.valid = valid]
              /\ h.shard = [f.shard EXCEPT ![1].unit = unit]
              /\ h = [f EXCEPT !.main = h.main, !.shard = h.shard]
          BY <1>0, <5>1 DEF FileSets
        <5>7. /\ h.main \in Mains /\ h.main.encounters = count /\ h.main.valid = valid
              /\ h.main.final = f.main.final /\ h.main.there = f.main.there
              /\ h.main.finalizing = f.main.finalizing /\ h.main.finalized = f.main.finalized
          BY <3>3, <5>3, <5>5, <5>6 DEF Mains
        <5>8. /\ h.shard \in [1..Shards -> [there : BOOLEAN, seq : 0..Sessions, unit : Ledger!Results]]
              /\ h.shard[1].unit = unit /\ \A n \in 1..Shards : h.shard[n].there
          <6> DEFINE first == [f.shard[1] EXCEPT !.unit = unit]
          <6>1. /\ first \in [there : BOOLEAN, seq : 0..Sessions, unit : Ledger!Results]
                /\ first.unit = unit /\ first.there
            BY <3>3, <4>1, <5>2
          <6>2. h.shard = [f.shard EXCEPT ![1] = first]
            BY <5>6
          <6> HIDE DEF first
          <6> QED BY <3>3, <4>1, <6>1, <6>2
        <5>9. h \in FileSets
          BY <1>0, <5>6, <5>7, <5>8 DEF FileSets
        <5> QED BY <3>2, <5>2, <5>3, <5>5, <5>6, <5>7, <5>8, <5>9
      <4> QED BY <4>2, <4>3
    <3> HIDE DEF h
    <3>6. /\ shard \in [1..Shards -> [there : BOOLEAN, seq : 0..Sessions, unit : Ledger!Results]]
          /\ \A n \in 1..Shards : shard[n].there /\ shard[n].seq = k + 1 /\ shard[n].unit = h.shard[n].unit
      BY <2>3, <3>5 DEF FileSets
    <3> HIDE DEF shard
    <3>7. /\ g \in FileSets /\ g.cp = f.cp /\ g.shard = shard
          /\ g.main.seq = k + 1 /\ g.main.final = h.main.final /\ g.main.there = h.main.there
          /\ g.main.finalizing = h.main.finalizing /\ g.main.finalized = h.main.finalized
          /\ g.main.encounters = h.main.encounters /\ g.main.valid = h.main.valid
      BY <2>3, <3>5, <3>6 DEF FileSets, Mains
    <3> HIDE DEF g
    <3>8. Ledger!Exact(g)
      <4>1. Len(g.main.final) = 0
        BY <3>2, <3>5, <3>7
      <4>2. g.main.encounters = Cardinality(Counted(g.main.seq))
        BY <3>5, <3>7
      <4>3. g.shard[1].unit = Ledger!Told(g.main.seq)
        BY <3>3, <3>5, <3>6, <3>7
      <4>4. g.main.valid = 1 <=> Ledger!Told(g.main.seq) \in Values
        BY <3>5, <3>7
      <4> QED BY <4>1, <4>2, <4>3, <4>4, ExactIs
    <3>9. Ledger!Whole(g)
      BY <3>6, <3>7 DEF Ledger!Whole
    <3>10. Ready(g)
      <4>1. g.cp.fields <= Len(g.main.final) /\ Len(g.main.final) <= Fields /\ Len(g.main.final) = 0
        BY <1>0, <3>2, <3>5, <3>7 DEF Sound
      <4> QED BY <1>0, <1>1, <2>1, <3>0, <3>2, <3>5, <3>7, <3>8, <3>9, <4>1 DEF Sound, Ready
    <3>11. SegmentOK(c, g)
      BY <1>0, <2>1, <2>3, <3>5, <3>7, <3>10 DEF SegmentOK, OnFiles
    <3> QED BY <1>0, <2>2, <2>3, <3>1, <3>7, <3>11, OnFilesFacts, SegmentMoves DEF OnFiles
  <2> QED BY <2>4, <2>5
<1>4. CASE Ledger!SaveCheckpoint
  <2> DEFINE g == [f EXCEPT !.cp.seq = ledgerChild.seq]
  <2>1. /\ ledgerChild.pc = "save" /\ UNCHANGED <<prepared, refused>>
        /\ ledgerDisk' = [ledgerDisk EXCEPT !.files = g]
    BY <1>4 DEF Ledger!SaveCheckpoint, Ledger!At, Ledger!Write
  <2>2. PICK go \in {"next", "prepare"} : ledgerChild' = [ledgerChild EXCEPT !.pc = go]
    BY <1>4 DEF Ledger!SaveCheckpoint, Ledger!Goes
  <2>3. ledgerChild.seq = f.main.seq /\ ledgerChild.seq \in 0..Sessions /\ ~f.main.finalizing
    BY <1>0, <2>1, ChildFacts DEF SegmentOK
  <2>4. /\ g \in FileSets /\ g.main = f.main /\ g.shard = f.shard
        /\ g.cp.stage = "active" /\ g.cp.seq = ledgerChild.seq /\ g.cp.fields = f.cp.fields
    BY <1>0, <2>3, FileFacts DEF FileSets, Ledger!Checkpoints
  <2> HIDE DEF g
  <2>5. Ready(g)
    BY <1>0, <1>1, <2>3, <2>4 DEF Sound, Ready, Ledger!Exact, Ledger!Whole
  <2>6. PICK c \in LedgerChildren : c = ledgerChild' /\ c.pc = go /\ c.seq = ledgerChild.seq
    <3>1. go \in LedgerPcs
      BY <2>2 DEF LedgerPcs, OnFiles
    <3>2. PICK n : n = [ledgerChild EXCEPT !.pc = go]
      OBVIOUS
    <3> QED BY <1>0, <2>2, <3>1, <3>2, ChildFacts
  <2>7. SegmentOK(c, g)
    BY <2>2, <2>3, <2>4, <2>5, <2>6 DEF SegmentOK, OnFiles
  <2> QED BY <1>0, <2>1, <2>2, <2>4, <2>6, <2>7, OnFilesFacts, SegmentMoves DEF OnFiles
<1> QED BY <1>2, <1>3, <1>4

\* The files of a segment are changed, and it goes on.
LEMMA SegmentWrites ==
  ASSUME LedgerIInv, ledgerChild.pc \in OnFiles, NEW c \in LedgerChildren, c.pc \in OnFiles,
         NEW g \in FileSets, NEW compact \in BOOLEAN,
         UNCHANGED <<content, server, prepared, refused>>, ledgerChild' = c,
         \/ ledgerDisk' = [ledgerDisk EXCEPT !.files = g]
         \/ ledgerDisk' = [ledgerDisk EXCEPT !.files = g, !.compact = compact],
         SegmentOK(c, g)
  PROVE  LedgerIInv'
<1>1. ledgerDisk.compact \in BOOLEAN /\ ledgerChild.pc \in Working
      /\ [ledgerDisk EXCEPT !.files = g] = [ledgerDisk EXCEPT !.files = g, !.compact = ledgerDisk.compact]
  BY OnFilesFacts
<1>2. CASE ledgerDisk' = [ledgerDisk EXCEPT !.files = g]
  BY <1>1, <1>2, SegmentMoves
<1>3. CASE ledgerDisk' = [ledgerDisk EXCEPT !.files = g, !.compact = compact]
  BY <1>1, <1>3, SegmentMoves
<1> QED BY <1>2, <1>3

\* The results, field by field, of a ledger that takes no session any more.
LEMMA FinalizeKeeps ==
  ASSUME LedgerIInv, Ledger!Finalize \/ Ledger!StoreField \/ Ledger!Finalized
  PROVE  LedgerIInv'
<1> DEFINE f == ledgerDisk.files
<1>0. /\ UNCHANGED <<content, server>> /\ ledgerChild.pc \in {"next", "field"}
      /\ ledgerChild.pc \in OnFiles /\ f.cp.stage = "active"
      /\ f \in FileSets /\ Sound(f) /\ Ready(f) /\ ledgerChild \in LedgerChildren
      /\ SegmentOK(ledgerChild, f) /\ ledgerDisk.seal = Ledger!Unsealed
  <2>1. ledgerChild.pc \in {"next", "field"} /\ UNCHANGED <<content, server>>
    BY DEF Ledger!Finalize, Ledger!StoreField, Ledger!Finalized, Ledger!At, Ledger!Refuse
  <2>2. ledgerChild.pc \in OnFiles \ {"prepare"}
    BY <2>1 DEF OnFiles
  <2> QED BY <2>1, <2>2, OnFilesFacts DEF SegmentOK
<1>1. /\ f.cp.seq \in Nat /\ f.main.seq \in Nat /\ f.cp.seq <= f.main.seq /\ f.main.seq <= f.cp.seq + 1
      /\ f.main.seq \in 0..Sessions /\ Sessions \in Nat /\ Fields \in Nat /\ 1 <= Fields
      /\ ledgerChild.seq \in Nat /\ ledgerChild.field \in 0..Fields /\ ledgerChild.field \in Nat
      /\ f.main.final \in Seq(Ledger!Results) /\ Len(f.main.final) \in Nat
      /\ Len(f.main.final) <= Fields /\ f.cp.fields \in Nat /\ f.main \in Mains
      /\ f.cp.fields <= Len(f.main.final)
  BY <1>0, FileFacts, ChildFacts, LedgerNumbers DEF Sound
<1>2. CASE Ledger!Finalize
  <2> DEFINE c == [ledgerChild EXCEPT !.pc = "field", !.field = 0, !.cached = f.main.finalized]
             g == [f EXCEPT !.main.finalizing = TRUE]
  <2>1. ledgerChild.pc = "next" /\ ledgerChild.seq = Sessions /\ ledgerChild.seq = f.cp.seq
    BY <1>0, <1>2 DEF Ledger!Finalize, Ledger!At, SegmentOK
  <2>2. f.main.seq = Sessions
    BY <1>1, <2>1
  <2>3. ledgerChild' = c /\ ledgerDisk' = [ledgerDisk EXCEPT !.files = g] /\ UNCHANGED <<prepared, refused>>
    BY <1>0, <1>2, <2>1, <2>2 DEF Ledger!Finalize, Ledger!Main, Ledger!Writable, Ledger!Write
  <2>4. c \in LedgerChildren /\ c.pc = "field" /\ c.seq = ledgerChild.seq /\ c.field = 0
        /\ c.cached = f.main.finalized
    <3>1. "field" \in LedgerPcs /\ 0 \in 0..Fields /\ f.main.finalized \in BOOLEAN
      BY <1>0, <1>1, FileFacts DEF LedgerPcs, OnFiles
    <3> QED BY <1>0, <3>1 DEF LedgerChildren
  <2>5. g.main = [f.main EXCEPT !.finalizing = TRUE] /\ g.cp = f.cp /\ g.shard = f.shard
        /\ g = [f EXCEPT !.main = g.main]
    BY <1>0 DEF FileSets
  <2>6. /\ g.main \in Mains /\ g.main.finalizing /\ g.main.there = f.main.there
        /\ g.main.seq = f.main.seq /\ g.main.encounters = f.main.encounters
        /\ g.main.valid = f.main.valid /\ g.main.final = f.main.final
        /\ g.main.finalized = f.main.finalized
    <3>1. PICK m : m = f.main
      OBVIOUS
    <3>2. PICK n : n = [m EXCEPT !.finalizing = TRUE]
      OBVIOUS
    <3>3. /\ n \in Mains /\ n.finalizing = TRUE /\ n.there = m.there /\ n.seq = m.seq
          /\ n.encounters = m.encounters /\ n.valid = m.valid /\ n.final = m.final
          /\ n.finalized = m.finalized
      BY <1>1, <3>1, <3>2 DEF Mains
    <3> QED BY <2>5, <3>1, <3>2, <3>3
  <2>7. g \in FileSets
    BY <1>0, <2>5, <2>6 DEF FileSets
  <2> HIDE DEF g, c
  <2>8. Ledger!Exact(g) /\ Ledger!Whole(g)
    BY <1>0, <2>5, <2>6 DEF Sound, Ledger!Exact, Ledger!Whole
  <2>9. Ready(g)
    BY <1>0, <2>1, <2>2, <2>5, <2>6, <2>8 DEF Sound, Ready
  <2>10. SegmentOK(c, g)
    BY <1>0, <1>1, <2>1, <2>4, <2>5, <2>6, <2>9 DEF SegmentOK, OnFiles
  <2> QED BY <1>0, <2>3, <2>4, <2>7, <2>10, SegmentWrites DEF OnFiles
<1>3. CASE Ledger!StoreField
  <2> DEFINE k == ledgerChild.field
             c == [ledgerChild EXCEPT !.field = @ + 1]
  <2>1. /\ ledgerChild.pc = "field" /\ k < Fields /\ ledgerChild' = c /\ UNCHANGED <<prepared, refused>>
        /\ f.main.finalizing /\ k <= Len(f.main.final) /\ ledgerChild.seq = f.cp.seq
        /\ ledgerChild.cached = f.main.finalized
    BY <1>0, <1>3 DEF Ledger!StoreField, Ledger!At, SegmentOK
  <2>2. c \in LedgerChildren /\ c.pc = "field" /\ c.seq = ledgerChild.seq /\ c.field = k + 1
        /\ c.cached = ledgerChild.cached
    <3>1. k + 1 \in 0..Fields
      BY <1>1, <2>1
    <3> QED BY <1>0, <2>1, <3>1 DEF LedgerChildren
  <2> HIDE DEF c
  <2>3. CASE k < Len(f.main.final)
    <3>1. UNCHANGED ledgerDisk
      BY <1>3, <2>3 DEF Ledger!StoreField, Ledger!Main
    <3>2. SegmentOK(c, f)
      BY <1>0, <1>1, <2>1, <2>2, <2>3 DEF SegmentOK, OnFiles
    <3> QED BY <1>0, <2>1, <2>2, <3>1, <3>2, SegmentStays DEF OnFiles
  <2>4. CASE ~(k < Len(f.main.final))
    <3> DEFINE r == Ledger!FieldResult(f)
               final == Append(f.main.final, r)
               g == [f EXCEPT !.main.final = final]
    <3>1. ledgerDisk' = [ledgerDisk EXCEPT !.files = g]
      BY <1>3, <2>4 DEF Ledger!StoreField, Ledger!Main, Ledger!Write
    <3>2. Len(f.main.final) = k /\ ~f.main.finalized /\ f.cp.seq = Sessions /\ f.main.seq = Sessions
      BY <1>0, <1>1, <2>1, <2>4 DEF Sound
    <3>3. r = Ledger!Told(Sessions) /\ r \in Ledger!Results
      BY <1>0, <3>2, ExactIs, FileFacts DEF Sound, Ledger!FieldResult
    <3> HIDE DEF r
    <3>4. /\ final \in Seq(Ledger!Results) /\ Len(final) = k + 1 /\ Len(final) <= Fields
          /\ \A n \in 1..Len(final) : final[n] = Ledger!Told(Sessions)
      <4>1. \A n \in 1..Len(f.main.final) : f.main.final[n] = Ledger!Told(Sessions)
        BY <1>0, ExactIs DEF Sound
      <4>2. final \in Seq(Ledger!Results) /\ Len(final) = k + 1 /\ final[k + 1] = r
            /\ \A n \in 1..k : final[n] = f.main.final[n]
        BY <1>1, <3>2, <3>3
      <4> QED BY <1>1, <2>1, <3>2, <3>3, <4>1, <4>2
    <3> HIDE DEF final
    <3>5. g.main = [f.main EXCEPT !.final = final] /\ g.cp = f.cp /\ g.shard = f.shard
          /\ g = [f EXCEPT !.main = g.main]
      BY <1>0 DEF FileSets
    <3>6. /\ g.main \in Mains /\ g.main.finalizing /\ g.main.there = f.main.there
          /\ g.main.seq = f.main.seq /\ g.main.encounters = f.main.encounters
          /\ g.main.valid = f.main.valid /\ g.main.final = final /\ ~g.main.finalized
      <4>1. final \in Finals
        BY <3>4 DEF Finals
      <4> QED BY <1>1, <2>1, <3>2, <3>5, <4>1 DEF Mains
    <3>7. g \in FileSets
      BY <1>0, <3>5, <3>6 DEF FileSets
    <3> HIDE DEF g
    <3>8. Ledger!Exact(g) /\ Ledger!Whole(g)
      <4>1. Ledger!Whole(g)
        BY <1>0, <3>2, <3>5, <3>6 DEF Sound, Ledger!Whole
      <4>2. Ledger!Exact(g)
        BY <1>0, <3>2, <3>4, <3>5, <3>6, ExactIs DEF Sound
      <4> QED BY <4>1, <4>2
    <3>9. Ready(g)
      BY <1>0, <1>1, <2>1, <3>2, <3>4, <3>5, <3>6, <3>8 DEF Sound, Ready
    <3>10. SegmentOK(c, g)
      BY <1>0, <1>1, <2>1, <2>2, <3>2, <3>4, <3>5, <3>6, <3>9 DEF SegmentOK, OnFiles
    <3> QED BY <1>0, <2>1, <2>2, <3>1, <3>7, <3>10, SegmentWrites DEF OnFiles
  <2> QED BY <2>3, <2>4
<1>4. CASE Ledger!Finalized
  <2>1. /\ ledgerChild.pc = "field" /\ ledgerChild.field = Fields /\ f.main.finalizing
        /\ ledgerChild.field <= Len(f.main.final) /\ ledgerChild.seq = f.cp.seq
        /\ ledgerChild.cached = f.main.finalized /\ UNCHANGED <<ledgerDisk, prepared, refused>>
    BY <1>0, <1>4 DEF Ledger!Finalized, Ledger!At, SegmentOK
  <2>2. PICK go \in {"evidence", "compact"} : /\ ledgerChild' = [ledgerChild EXCEPT !.pc = go]
                                            /\ go = IF f.main.finalized THEN "evidence" ELSE "compact"
    BY <1>4, <2>1 DEF Ledger!Finalized, Ledger!Goes
  <2>3. PICK c \in LedgerChildren : c = ledgerChild' /\ c.pc = go /\ c.seq = ledgerChild.seq
    <3>1. go \in LedgerPcs
      BY <2>2 DEF LedgerPcs, OnFiles
    <3>2. PICK n : n = [ledgerChild EXCEPT !.pc = go]
      OBVIOUS
    <3> QED BY <1>0, <2>2, <3>1, <3>2, ChildFacts
  <2>4. SegmentOK(c, f)
    BY <1>0, <1>1, <2>1, <2>2, <2>3 DEF SegmentOK, OnFiles
  <2> QED BY <1>0, <2>1, <2>2, <2>3, <2>4, SegmentStays DEF OnFiles
<1> QED BY <1>2, <1>3, <1>4

\* The coordinator without units takes the place of the old one, the shards go, and the
\* engine commits the stage.
LEMMA CompactKeeps ==
  ASSUME LedgerIInv,
         \/ Ledger!WriteCompact \/ Ledger!ReplaceMain \/ Ledger!UnlinkShard
         \/ Ledger!Unlinked \/ Ledger!CommitStage
  PROVE  LedgerIInv'
<1> DEFINE f == ledgerDisk.files
<1>0. /\ UNCHANGED <<content, server, prepared, refused>>
      /\ ledgerChild.pc \in {"compact", "replace", "unlink", "evidence"}
      /\ ledgerChild.pc \in OnFiles /\ f.cp.stage = "active"
      /\ f \in FileSets /\ Sound(f) /\ Ready(f) /\ ledgerChild \in LedgerChildren
      /\ SegmentOK(ledgerChild, f) /\ ledgerDisk \in LedgerDisks
      /\ ledgerChild.seq = f.cp.seq /\ f.main.finalizing
  <2>1. ledgerChild.pc \in {"compact", "replace", "unlink", "evidence"}
        /\ UNCHANGED <<content, server, prepared, refused>>
    BY DEF Ledger!WriteCompact, Ledger!ReplaceMain, Ledger!UnlinkShard, Ledger!Unlinked,
           Ledger!CommitStage, Ledger!At
  <2>2. ledgerChild.pc \in OnFiles \ {"prepare"}
    BY <2>1 DEF OnFiles
  <2> QED BY <2>1, <2>2, OnFilesFacts DEF SegmentOK
<1>1. f.main \in Mains /\ f.cp.seq = Sessions /\ Sessions \in Nat /\ f.main.final \in Finals
      /\ Len(f.main.final) \in 0..Fields /\ f.main.seq = Sessions /\ f.main.there
      /\ f.shard \in [1..Shards -> [there : BOOLEAN, seq : 0..Sessions, unit : Ledger!Results]]
  BY <1>0, FileFacts, LedgerNumbers DEF Sound, Mains
<1>2. ASSUME NEW go \in OnFiles, ledgerChild' = [ledgerChild EXCEPT !.pc = go]
      PROVE  \E c \in LedgerChildren : c = ledgerChild' /\ c.pc = go /\ c.seq = f.cp.seq
  <2>1. go \in LedgerPcs
    BY DEF LedgerPcs
  <2>2. PICK n : n = [ledgerChild EXCEPT !.pc = go]
    OBVIOUS
  <2>3. n \in LedgerChildren /\ n.pc = go /\ n.seq = ledgerChild.seq
    BY <1>0, <2>1, <2>2, ChildFacts
  <2> QED BY <1>0, <1>2, <2>2, <2>3
<1>3. CASE Ledger!WriteCompact
  <2>1. /\ ledgerChild.pc = "compact" /\ ledgerChild' = [ledgerChild EXCEPT !.pc = "replace"]
        /\ ledgerDisk' = [ledgerDisk EXCEPT !.compact = TRUE]
        /\ Len(f.main.final) = Fields /\ ~f.main.finalized
    BY <1>0, <1>3 DEF Ledger!WriteCompact, Ledger!At, Ledger!Goes, SegmentOK
  <2>2. PICK c \in LedgerChildren : c = ledgerChild' /\ c.pc = "replace" /\ c.seq = f.cp.seq
    BY <1>2, <2>1 DEF OnFiles
  <2>3. ledgerDisk' = [ledgerDisk EXCEPT !.files = f, !.compact = TRUE]
    BY <1>0, <2>1 DEF LedgerDisks
  <2>4. SegmentOK(c, f)
    BY <1>0, <2>1, <2>2 DEF SegmentOK, OnFiles
  <2> QED BY <1>0, <2>2, <2>3, <2>4, SegmentWrites DEF OnFiles
<1>4. CASE Ledger!ReplaceMain
  <2> DEFINE main == [f.main EXCEPT !.finalized = TRUE]
             g == [f EXCEPT !.main = main]
  <2>1. /\ ledgerChild.pc = "replace" /\ ledgerChild' = [ledgerChild EXCEPT !.pc = "unlink"]
        /\ ledgerDisk' = [ledgerDisk EXCEPT !.files.main.finalized = TRUE, !.compact = FALSE]
        /\ Len(f.main.final) = Fields
    BY <1>0, <1>4 DEF Ledger!ReplaceMain, Ledger!At, Ledger!Goes, SegmentOK
  <2>2. PICK c \in LedgerChildren : c = ledgerChild' /\ c.pc = "unlink" /\ c.seq = f.cp.seq
    BY <1>2, <2>1 DEF OnFiles
  <2>3. ledgerDisk' = [ledgerDisk EXCEPT !.files = g, !.compact = FALSE]
    BY <1>0, <2>1 DEF LedgerDisks, FileSets
  <2>4. /\ main \in Mains /\ main.finalized = TRUE /\ main.there = f.main.there
        /\ main.seq = f.main.seq /\ main.encounters = f.main.encounters /\ main.valid = f.main.valid
        /\ main.final = f.main.final /\ main.finalizing = f.main.finalizing
    <3>1. PICK m : m = f.main
      OBVIOUS
    <3>2. PICK n : n = [m EXCEPT !.finalized = TRUE]
      OBVIOUS
    <3>3. /\ n \in Mains /\ n.finalized = TRUE /\ n.there = m.there
          /\ n.seq = m.seq /\ n.encounters = m.encounters /\ n.valid = m.valid
          /\ n.final = m.final /\ n.finalizing = m.finalizing
      BY <1>1, <3>1, <3>2 DEF Mains
    <3> QED BY <3>1, <3>2, <3>3
  <2> HIDE DEF main
  <2>5. g \in FileSets /\ g.main = main /\ g.cp = f.cp /\ g.shard = f.shard
    BY <1>0, <2>4 DEF FileSets
  <2> HIDE DEF g
  <2>6. Ready(g)
    BY <1>0, <2>1, <2>4, <2>5 DEF Ready, Sound, Ledger!Exact, Ledger!Whole
  <2>7. SegmentOK(c, g)
    BY <1>0, <2>2, <2>4, <2>5, <2>6 DEF SegmentOK, OnFiles
  <2> QED BY <1>0, <2>2, <2>3, <2>5, <2>7, SegmentWrites DEF OnFiles
<1>5. CASE Ledger!UnlinkShard
  <2>1. ledgerChild.pc = "unlink" /\ ledgerChild' = ledgerChild /\ f.main.finalized
    BY <1>0, <1>5 DEF Ledger!UnlinkShard, Ledger!At, SegmentOK
  <2>2. PICK n \in 1..Shards : ledgerDisk' = [ledgerDisk EXCEPT !.files = [f EXCEPT !.shard[n] = Ledger!Gone]]
    BY <1>5 DEF Ledger!UnlinkShard, Ledger!Write
  <2> DEFINE g == [f EXCEPT !.shard[n] = Ledger!Gone]
  <2>3. g \in FileSets /\ g.main = f.main /\ g.cp = f.cp
    <3>1. Ledger!Gone \in [there : BOOLEAN, seq : 0..Sessions, unit : Ledger!Results]
      BY NoFilesOK, LedgerNumbers DEF Ledger!NoFiles, FileSets
    <3> QED BY <1>0, <1>1, <3>1 DEF FileSets
  <2> HIDE DEF g
  <2>4. Ready(g)
    BY <1>0, <2>1, <2>3 DEF Ready, Sound, Ledger!Exact, Ledger!Whole
  <2>5. SegmentOK(ledgerChild, g)
    BY <1>0, <2>1, <2>3, <2>4 DEF SegmentOK, OnFiles
  <2>6. ledgerDisk' = [ledgerDisk EXCEPT !.files = g]
    BY <2>2 DEF g
  <2> QED BY <1>0, <2>1, <2>3, <2>5, <2>6, SegmentWrites
<1>6. CASE Ledger!Unlinked
  <2>0. 1 \in 1..Shards
    BY LedgerNumbers
  <2>1. ledgerChild.pc = "unlink" /\ ledgerChild' = [ledgerChild EXCEPT !.pc = "evidence"]
        /\ f.main.finalized /\ UNCHANGED ledgerDisk
    BY <1>0, <1>6, <2>0 DEF Ledger!Unlinked, Ledger!At, Ledger!Goes, SegmentOK
  <2>2. PICK c \in LedgerChildren : c = ledgerChild' /\ c.pc = "evidence" /\ c.seq = f.cp.seq
    BY <1>2, <2>1 DEF OnFiles
  <2>3. SegmentOK(c, f)
    BY <1>0, <2>1, <2>2 DEF SegmentOK, OnFiles
  <2> QED BY <1>0, <2>1, <2>2, <2>3, SegmentStays DEF OnFiles
<1>7. CASE Ledger!CommitStage
  <2> DEFINE cp == [stage |-> "done", seq |-> ledgerChild.seq, fields |-> Len(f.main.final)]
             g == [f EXCEPT !.cp = cp]
  <2>1. /\ ledgerChild.pc = "evidence" /\ ledgerChild' = [ledgerChild EXCEPT !.pc = "prepare"]
        /\ ledgerDisk' = [ledgerDisk EXCEPT !.files = g] /\ f.main.finalized
    BY <1>0, <1>7 DEF Ledger!CommitStage, Ledger!At, Ledger!Goes, Ledger!Write, Ledger!Main,
       SegmentOK
  <2>2. PICK c \in LedgerChildren : c = ledgerChild' /\ c.pc = "prepare" /\ c.seq = f.cp.seq
    BY <1>2, <2>1 DEF OnFiles
  <2>3. cp \in Ledger!Checkpoints /\ cp.stage = "done" /\ cp.seq = f.cp.seq
        /\ cp.fields = Len(f.main.final)
    BY <1>0, <1>1 DEF Ledger!Checkpoints
  <2> HIDE DEF cp
  <2>4. g \in FileSets /\ g.main = f.main /\ g.cp = cp /\ g.shard = f.shard
    BY <1>0, <2>3 DEF FileSets
  <2> HIDE DEF g
  <2>5. Ready(g)
    BY <1>0, <1>1, <2>1, <2>3, <2>4 DEF Ready, Sound, Ledger!Exact, Ledger!Whole
  <2>6. SegmentOK(c, g)
    BY <2>2, <2>5 DEF SegmentOK, OnFiles
  <2> QED BY <1>0, <2>1, <2>2, <2>4, <2>6, SegmentWrites DEF OnFiles
<1> QED BY <1>3, <1>4, <1>5, <1>6, <1>7

\* A segment is over before its work is done: the checkpoint says how many fields there are.
LEMMA StopKeeps ==
  ASSUME LedgerIInv, Ledger!YieldAtField \/ Ledger!BudgetExceeded
  PROVE  LedgerIInv'
<1> DEFINE f == ledgerDisk.files
           cp == Ledger!Refreshed
           g == [f EXCEPT !.cp = cp]
<1>0. /\ UNCHANGED <<content, server, prepared, refused>>
      /\ ledgerChild.pc \in {"session", "save", "field", "evidence"}
      /\ ledgerDisk' = [ledgerDisk EXCEPT !.files = g]
      /\ ledgerChild' = Ledger!Dead \/ ledgerChild' = [ledgerChild EXCEPT !.pc = "prepare"]
  BY DEF Ledger!YieldAtField, Ledger!BudgetExceeded, Ledger!At, Ledger!Goes, Ledger!Write
<1>1. /\ ledgerChild.pc \in OnFiles /\ f \in FileSets /\ Ready(f) /\ Sound(f)
      /\ ledgerChild \in LedgerChildren /\ ledgerDisk \in LedgerDisks
      /\ prepared = Ledger!Unprepared
  BY <1>0, OnFilesFacts DEF OnFiles
<1>2. /\ f.cp \in Ledger!Checkpoints /\ f.main \in Mains
      /\ Len(f.main.final) \in 0..Fields /\ f.main.final \in Seq(Ledger!Results)
  BY <1>1, FileFacts, LedgerNumbers
<1>3. /\ cp \in Ledger!Checkpoints /\ cp.stage = f.cp.stage /\ cp.seq = f.cp.seq
      /\ cp.fields = f.cp.fields \/ cp.fields = Len(f.main.final)
  BY <1>2 DEF Ledger!Refreshed, Ledger!Main, Ledger!Checkpoints
<1> HIDE DEF cp
<1>4. g \in FileSets /\ g.main = f.main /\ g.cp = cp /\ g.shard = f.shard
  BY <1>1, <1>3 DEF FileSets
<1> HIDE DEF g
<1>5. Ready(g)
  BY <1>1, <1>2, <1>3, <1>4 DEF Ready, Sound, Ledger!Exact, Ledger!Whole
<1>6. CASE ledgerChild' = [ledgerChild EXCEPT !.pc = "prepare"]
  <2>1. PICK c \in LedgerChildren : c = ledgerChild' /\ c.pc = "prepare"
    <3>1. "prepare" \in LedgerPcs
      BY DEF LedgerPcs, OnFiles
    <3>2. PICK n : n = [ledgerChild EXCEPT !.pc = "prepare"]
      OBVIOUS
    <3> QED BY <1>1, <1>6, <3>1, <3>2, ChildFacts
  <2>2. SegmentOK(c, g)
    BY <1>5, <2>1 DEF SegmentOK, OnFiles
  <2> QED BY <1>0, <1>1, <1>4, <2>1, <2>2, SegmentWrites DEF OnFiles
<1>7. CASE ledgerChild' = Ledger!Dead
  <2> DEFINE d == [ledgerDisk EXCEPT !.files = g]
  <2>1. d \in LedgerDisks /\ d.files = g
    BY <1>1, <1>4 DEF LedgerDisks
  <2> HIDE DEF d
  <2>2. Fits(Ledger!Dead, d, Ledger!Unprepared)
    BY NoFilesOK DEF Fits, SegmentOK, OnFiles
  <2>3. ledgerDisk' = d /\ prepared' = Ledger!Unprepared
    BY <1>0, <1>1 DEF d
  <2> QED BY <1>0, <1>7, <2>1, <2>2, <2>3, LedgerMoves, NoFilesOK
<1> QED BY <1>0, <1>6, <1>7

\* A segment is over, in whatever way: what was prepared stays with its files.
LEMMA SegmentOver ==
  ASSUME LedgerIInv, UNCHANGED <<content, refused>>, ledgerChild' = Ledger!Dead,
         NEW s \in FileSets, server' = s, Saved(s), NEW d \in LedgerDisks, ledgerDisk' = d,
         \/ prepared' = Ledger!Unprepared
         \/ prepared' = prepared /\ d = ledgerDisk
  PROVE  LedgerIInv'
<1>1. LedgerTyped' /\ ~refused'
  BY NoFilesOK, WorkFacts DEF LedgerIInv, LedgerTyped
<1>2. \A f : Ready(f)' <=> Ready(f)
  BY SoundStays
<1>3. Saved(server)'
  BY <1>2 DEF Saved
<1> DEFINE c == Ledger!Dead
<1>4. ASSUME NEW p, prepared' = p, p = Ledger!Unprepared \/ (p = prepared /\ d = ledgerDisk)
      PROVE  Fits(ledgerChild, ledgerDisk, prepared)'
  <2>1. c.pc = "dead" /\ "dead" \notin OnFiles \cup {"release", "engine", "name"}
    BY NoFilesOK DEF OnFiles
  <2>2. Fits(ledgerChild, ledgerDisk, prepared)
    BY WorkFacts
  <2>3. /\ p.state = "none" => p = Ledger!Unprepared
        /\ p.state = "begun" => p.files = Ledger!NoFiles /\ Ready(d.files)
        /\ p.state = "sealed" => Ready(p.files) /\ d.files = p.files
    BY <1>4, <2>2, NoFilesOK DEF Fits
  <2>4. SegmentOK(c, d.files)'
    BY <2>1 DEF SegmentOK, OnFiles
  <2> HIDE DEF c
  <2>5. (Ready(d.files) <=> Ready(d.files)') /\ (Ready(p.files) <=> Ready(p.files)')
    BY <1>2
  <2>6. Fits(c, d, p)'
    BY <2>1, <2>3, <2>4, <2>5 DEF Fits, OnFiles
  <2> QED BY <1>4, <2>6, FitsThere DEF c
<1>5. PICK p : prepared' = p
  OBVIOUS
<1>6. Fits(ledgerChild, ledgerDisk, prepared)'
  <2>1. p = Ledger!Unprepared \/ (p = prepared /\ d = ledgerDisk)
    BY <1>5
  <2> QED BY <1>4, <1>5, <2>1
<1> QED BY <1>1, <1>3, <1>6 DEF LedgerIInv

\* The snapshot is prepared, sealed and published.
LEMMA SnapshotKeeps ==
  ASSUME LedgerIInv, Ledger!Prepare \/ Ledger!Seal \/ Ledger!Publish
  PROVE  LedgerIInv'
<1> DEFINE f == ledgerDisk.files
<1>0. /\ ledgerChild \in LedgerChildren /\ ledgerDisk \in LedgerDisks /\ f \in FileSets
      /\ Fits(ledgerChild, ledgerDisk, prepared) /\ SegmentOK(ledgerChild, f)
      /\ prepared \in Preparations /\ content' = content
  BY WorkFacts DEF Ledger!Prepare, Ledger!Seal, Ledger!Publish
<1>1. CASE Ledger!Prepare
  <2> DEFINE c == [ledgerChild EXCEPT !.pc = "seal"]
             p == [Ledger!Unprepared EXCEPT !.state = "begun"]
  <2>1. /\ ledgerChild.pc = "prepare" /\ ledgerChild' = c /\ prepared' = p
        /\ ledgerDisk' = ledgerDisk /\ UNCHANGED <<server, refused>>
    BY <1>1 DEF Ledger!Prepare, Ledger!At, Ledger!Goes
  <2>2. c \in LedgerChildren /\ c.pc = "seal"
    BY <1>0, ChildFacts DEF LedgerPcs
  <2>3. p \in Preparations /\ p.state = "begun" /\ p.files = Ledger!NoFiles
    BY NoFilesOK DEF Ledger!Unprepared, Preparations
  <2>4. Ready(f)
    BY <1>0, <2>1 DEF SegmentOK, OnFiles
  <2> HIDE DEF c, p
  <2>5. Fits(c, ledgerDisk, p)
    BY <2>2, <2>3, <2>4 DEF Fits, SegmentOK, OnFiles
  <2> QED BY <1>0, <2>1, <2>2, <2>3, <2>5, LedgerMoves
<1>2. CASE Ledger!Seal
  <2> DEFINE g == Ledger!Sealed
             d == [ledgerDisk EXCEPT !.files = g, !.seal = g]
             p == [state |-> "sealed", files |-> g]
             c == [ledgerChild EXCEPT !.pc = "publish"]
  <2>1. ledgerChild.pc = "seal" /\ Ready(f)
    BY <1>0, <1>2 DEF Ledger!Seal, Ledger!At, Fits
  <2>2. /\ f.main \in Mains /\ f.cp \in Ledger!Checkpoints
        /\ f.shard \in [1..Shards -> [there : BOOLEAN, seq : 0..Sessions, unit : Ledger!Results]]
        /\ Ledger!Gone \in [there : BOOLEAN, seq : 0..Sessions, unit : Ledger!Results]
        /\ Len(f.main.final) \in Nat /\ f.main.finalized \in BOOLEAN /\ f.main.seq \in Nat
        /\ f.cp.seq \in Nat /\ Sessions \in Nat /\ 1 \in 1..Shards
    <3>1. Ledger!Gone \in [there : BOOLEAN, seq : 0..Sessions, unit : Ledger!Results]
      BY NoFilesOK, LedgerNumbers DEF Ledger!NoFiles, FileSets
    <3> QED BY <1>0, <3>1, FileFacts, LedgerNumbers
  <2>3. /\ g \in FileSets /\ g.main = f.main /\ g.cp = f.cp
        /\ ~f.main.finalized => g.shard = f.shard
    BY <1>0, <2>2 DEF Ledger!Sealed, Ledger!Main, FileSets
  <2> HIDE DEF g
  <2>4. Ready(g)
    BY <2>1, <2>3 DEF Ready, Sound, Ledger!Exact, Ledger!Whole
  <2>5. Ledger!Verified(g)
    <3>1. f.cp.stage = "done" =>
            f.main.finalized /\ f.main.seq = f.cp.seq /\ Len(f.main.final) = Fields
      BY <2>1, <2>2 DEF Ready, Sound
    <3> QED BY <2>3, <2>4, <3>1 DEF Ledger!Verified, Ready, Sound
  <2>6. ledgerDisk' = d /\ prepared' = p /\ ledgerChild' = c /\ UNCHANGED <<server, refused>>
    BY <1>2, <2>5 DEF Ledger!Seal, Ledger!Goes, g
  <2>7. d \in LedgerDisks /\ d.files = g
    BY <1>0, <2>3 DEF LedgerDisks
  <2>8. p \in Preparations /\ p.state = "sealed" /\ p.files = g
    BY <2>3 DEF Preparations
  <2>9. c \in LedgerChildren /\ c.pc = "publish"
    BY <1>0, ChildFacts DEF LedgerPcs
  <2> HIDE DEF d, p, c
  <2>10. Fits(c, d, p)
    BY <2>4, <2>7, <2>8, <2>9 DEF Fits, SegmentOK, OnFiles
  <2> QED BY <1>0, <2>6, <2>7, <2>8, <2>9, <2>10, LedgerMoves
<1>3. CASE Ledger!Publish
  <2>1. prepared.files \in FileSets /\ Saved(prepared.files)
    BY <1>0, <1>3 DEF Ledger!Publish, Ledger!At, Fits, Saved, Preparations
  <2> QED BY <1>0, <1>3, <2>1, SegmentOver DEF Ledger!Publish
<1> QED BY <1>1, <1>2, <1>3

\* Kills, lost answers and new hosts.
LEMMA LedgerDisturbed ==
  ASSUME LedgerIInv, Ledger!PublishFails \/ Ledger!Crash \/ Ledger!HostGoes
  PROVE  LedgerIInv'
<1>0. /\ ledgerDisk \in LedgerDisks /\ server \in FileSets /\ Saved(server)
      /\ Fits(ledgerChild, ledgerDisk, prepared) /\ prepared \in Preparations
  BY WorkFacts
<1>1. CASE Ledger!PublishFails
  <2>1. prepared.files \in FileSets /\ Saved(prepared.files)
    BY <1>0, <1>1 DEF Ledger!PublishFails, Ledger!At, Fits, Saved, Preparations
  <2>2. PICK s \in {server, prepared.files} : server' = s
    BY <1>1 DEF Ledger!PublishFails
  <2>3. s \in FileSets /\ Saved(s)
    BY <1>0, <2>1, <2>2
  <2> QED BY <1>0, <1>1, <2>2, <2>3, SegmentOver DEF Ledger!PublishFails
<1>2. CASE Ledger!Crash
  BY <1>0, <1>2, SegmentOver DEF Ledger!Crash
<1>3. CASE Ledger!HostGoes
  BY <1>0, <1>3, SegmentOver, NoFilesOK DEF Ledger!HostGoes
<1> QED BY <1>1, <1>2, <1>3

\* Every step of the stage keeps the invariant.
LEMMA LedgerNext == LedgerIInv /\ [Ledger!Next]_ledger => LedgerIInv'
<1> SUFFICES ASSUME LedgerIInv, [Ledger!Next]_ledger PROVE LedgerIInv'
  OBVIOUS
<1>1. CASE UNCHANGED ledger
  <2>1. UNCHANGED <<content, server, refused, ledgerChild, ledgerDisk, prepared>>
    BY <1>1 DEF ledger
  <2> QED BY <2>1, LedgerMoves, WorkFacts
<1>2. CASE Ledger!Next
  BY <1>2, StartKeeps, RestoreKeeps, OpenKeeps, SessionKeeps, FinalizeKeeps, CompactKeeps,
     StopKeeps, SnapshotKeeps, LedgerDisturbed
  DEF Ledger!Next, Ledger!Work
<1> QED BY <1>1, <1>2

\* The invariant says what the runs check.
LEMMA LedgerTold == LedgerIInv => LedgerExact /\ Ledger!TypeOK
<1> SUFFICES ASSUME LedgerIInv PROVE LedgerExact /\ Ledger!TypeOK
  OBVIOUS
<1>1. /\ ledgerChild \in LedgerChildren /\ ledgerDisk \in LedgerDisks /\ prepared \in Preparations
      /\ ledgerDisk.files \in FileSets /\ ledgerDisk.seal \in FileSets /\ ledgerDisk.compact \in BOOLEAN
      /\ prepared.files \in FileSets /\ server \in FileSets /\ Saved(server)
      /\ Fits(ledgerChild, ledgerDisk, prepared) /\ SegmentOK(ledgerChild, ledgerDisk.files)
      /\ ~refused
  BY WorkFacts DEF LedgerIInv
<1>2. \A f : Saved(f) => Ledger!Exact(f)
  BY NoFilesOK DEF Saved, Ready, Sound
<1>3. Ledger!Exact(server) /\ Ledger!Exact(prepared.files)
  <2>1. Saved(prepared.files)
    BY <1>1, NoFilesOK DEF Preparations, Fits, Saved
  <2> QED BY <1>1, <1>2, <2>1
<1>4. ledgerChild.pc \notin {"dead", "restore", "databases"} => Ledger!Exact(ledgerDisk.files)
  <2>1. ledgerChild.pc \in OnFiles \cup {"dead", "restore", "databases", "release", "engine", "name", "seal", "publish"}
    BY <1>1 DEF LedgerChildren, LedgerPcs
  <2>2. ledgerChild.pc \in {"release", "engine"} => Saved(ledgerDisk.files)
    BY <1>1 DEF Fits
  <2>3. ledgerChild.pc \in OnFiles \cup {"name"} => Sound(ledgerDisk.files)
    BY <1>1 DEF SegmentOK, Ready
  <2>4. ledgerChild.pc \in {"seal", "publish"} => Ready(ledgerDisk.files)
    BY <1>1 DEF Fits
  <2> QED BY <1>2, <2>1, <2>2, <2>3, <2>4 DEF Ready, Sound
<1>5. ASSUME NEW f \in FileSets PROVE Ledger!FilesOK(f)
  <2>1. f.main.final \in [1..Len(f.main.final) -> Ledger!Results] /\ Len(f.main.final) \in 0..Fields
    BY FileFacts, LedgerNumbers
  <2>2. f.main.valid \in 0..1
    BY FileFacts DEF Mains
  <2> QED BY <2>1, <2>2, FileFacts DEF Ledger!FilesOK
<1>6. ledgerChild.seq \in 0..Sessions /\ ledgerChild.field \in 0..Fields
      /\ ledgerChild.prior \in Ledger!Checkpoints
  BY <1>1, ChildFacts
<1>7. Ledger!TypeOK
  <2>1. refused \in BOOLEAN
    BY DEF LedgerIInv
  <2> QED BY <1>1, <1>5, <1>6, <2>1 DEF Ledger!TypeOK
<1> QED BY <1>1, <1>3, <1>4, <1>7 DEF LedgerExact, Ledger!LedgerExact, Ledger!NeverRefused

-----------------------------------------------------------------------------
(***************************************************************************)
(* The segments of the mission                                             *)
(***************************************************************************)
\* Checkpoints of the first k attempts, and what is based on one: it adds to its base.
KnownTo(k) ==
  {c \in [by : 0..LastAttempt, done : Seq(1..LastAttempt), complete : BOOLEAN] :
     c.by <= k /\ Len(c.done) <= Units}
Adds(c, base) == base.done = SubSeq(c.done, 1, Len(base.done))
Additions(k) == {p \in [cp : KnownTo(k), base : KnownTo(k)] : Adds(p.cp, p.base)}
Operations == Mission!Verdicts \cup {"none"}
Early == {"restore", "work", "commit", "seal", "upload"}
ChildStates == Early \cup {"dead", "sent", "told", "clear"}
AtWork == {"launch", "record", "watch", "settle", "send"}
MissionDisks(k) == [output : KnownTo(k), preparing : Additions(k), pending : Additions(k)]
MissionChildren(k) ==
  [at : ChildStates, known : BOOLEAN, prev : KnownTo(k), receipt : {"none", "VERIFIED", "RUNNING", "BLOCKED"}]

MissionTyped ==
  /\ missionHeld \in {0, attempts} /\ attempts \in 0..LastAttempt
  /\ missionVerdict \in [1..LastAttempt -> Operations]
  /\ snapshot \in KnownTo(attempts) /\ runner \in Hosts
  /\ files \in [identity : BOOLEAN, terminal : Operations]
  /\ missionChild \in MissionChildren(attempts) /\ commitCall \in Additions(attempts)
  /\ late \in [attempt : 0..LastAttempt, operation : Operations]
  /\ disk \in [Hosts -> MissionDisks(attempts)]
  /\ controller \in [Hosts -> AtWork \cup {"idle", "recover", "gone"}]

\* Nothing runs for the mission, here or at the server.
Rests == missionChild.at = "dead" /\ commitCall = Mission!Unwritten
\* The server's snapshot is the one that the child has begun with.
Unmoved == commitCall = Mission!Unwritten /\ snapshot = missionChild.prev

\* What a controller at work has in hand.
WorkOK(h) ==
  /\ missionHeld # 0 /\ runner = h /\ late = Mission!NoCall
  /\ controller[h] = "launch" => /\ files = Mission!NoFiles /\ missionChild.at = "dead"
                                 /\ missionChild.receipt = "none" /\ Unmoved
  /\ controller[h] \in {"record", "watch", "settle"} => files.terminal = "none"
  /\ controller[h] = "settle" => missionChild.at = "dead"
  /\ controller[h] = "send" => files.terminal # "none"

\* The reserved attempt, while it is reserved and when it is settled.
AttemptOK ==
  /\ missionHeld # 0 => missionChild.prev.by < attempts
  /\ missionHeld = 0 \/ files.terminal # "none" => Rests
  /\ late # Mission!NoCall => /\ missionHeld # 0 /\ late.attempt = attempts
                              /\ late.operation = files.terminal /\ files.terminal # "none"
  /\ missionHeld # 0 /\ files.terminal = "terminal_commit" =>
       snapshot.complete /\ snapshot.by < attempts
  /\ missionHeld = 0 /\ files.terminal # "none" => missionVerdict[attempts] = files.terminal
  /\ \A k \in 1..LastAttempt : missionVerdict[k] = "terminal_commit" =>
       missionHeld = 0 /\ k <= attempts /\ snapshot.complete /\ snapshot.by < k

\* The child, its host's disk and the statement that it has sent.
ChildOK ==
  /\ missionChild.at # "dead" => missionChild.receipt = "none"
  /\ missionChild.at \in Early => Unmoved
  /\ missionChild.at = "commit" => Adds(disk[runner].output, missionChild.prev)
  /\ missionChild.at = "seal" => disk[runner].preparing.base = missionChild.prev
  /\ missionChild.at = "upload" => disk[runner].pending.base = missionChild.prev
  /\ commitCall # Mission!Unwritten => commitCall.base = snapshot
  /\ missionChild.receipt = "VERIFIED" => missionChild.prev.complete /\ (missionHeld # 0 => Unmoved)

MissionIInv ==
  /\ MissionTyped /\ AttemptOK /\ ChildOK
  /\ \A h \in Hosts : controller[h] \in AtWork => WorkOK(h)

\* The bounds are numbers.
LEMMA MissionNumbers == LastAttempt \in Nat /\ 1 <= LastAttempt /\ Units \in Nat /\ 1 <= Units
BY WorkerBounds

\* What a later attempt knows.
LEMMA KnownGrows ==
  ASSUME NEW k \in Nat, NEW m \in Nat, k <= m
  PROVE  /\ KnownTo(k) \subseteq KnownTo(m) /\ Additions(k) \subseteq Additions(m)
         /\ MissionDisks(k) \subseteq MissionDisks(m) /\ MissionChildren(k) \subseteq MissionChildren(m)
<1>1. KnownTo(k) \subseteq KnownTo(m)
  <2>1. \A c \in KnownTo(k) : c.by \in Nat
    BY MissionNumbers DEF KnownTo
  <2> QED BY <2>1 DEF KnownTo
<1>2. Additions(k) \subseteq Additions(m)
  BY <1>1 DEF Additions
<1> QED BY <1>1, <1>2 DEF MissionDisks, MissionChildren

\* Where the mission begins, nothing is known, written or called.
LEMMA UnwrittenOK ==
  /\ Mission!Nothing \in KnownTo(0) /\ Mission!Unwritten \in Additions(0)
  /\ Mission!NoFiles \in [identity : BOOLEAN, terminal : Operations] /\ Mission!NoFiles.terminal = "none"
  /\ Mission!NoCall \in [attempt : 0..LastAttempt, operation : Operations]
  /\ Mission!NoChild \in MissionChildren(0) /\ Mission!NoChild.at = "dead"
  /\ Mission!NoChild.receipt = "none"
<1>1. 0 \in 0..LastAttempt /\ Len(<<>>) = 0 /\ 0 <= Units /\ <<>> \in Seq(1..LastAttempt)
  BY MissionNumbers
<1>2. Mission!Nothing \in KnownTo(0)
  BY <1>1 DEF Mission!Nothing, KnownTo
<1>3. Adds(Mission!Nothing, Mission!Nothing)
  <2>1. SubSeq(<<>>, 1, 0) = <<>>
    OBVIOUS
  <2> QED BY <1>1, <2>1 DEF Adds, Mission!Nothing
<1>4. Mission!Unwritten \in Additions(0)
  BY <1>2, <1>3 DEF Mission!Unwritten, Additions
<1>5. "none" \in Operations
  BY DEF Operations
<1>6. Mission!NoFiles \in [identity : BOOLEAN, terminal : Operations] /\ Mission!NoFiles.terminal = "none"
  BY <1>5 DEF Mission!NoFiles
<1>7. Mission!NoCall \in [attempt : 0..LastAttempt, operation : Operations]
  BY <1>1, <1>5 DEF Mission!NoCall
<1>8. /\ Mission!NoChild \in MissionChildren(0) /\ Mission!NoChild.at = "dead"
      /\ Mission!NoChild.receipt = "none"
  BY <1>2 DEF Mission!NoChild, MissionChildren, ChildStates
<1> QED BY <1>2, <1>4, <1>6, <1>7, <1>8

\* The mission's invariant holds at the start.
LEMMA MissionInit == Mission!Init => MissionIInv
<1> SUFFICES ASSUME Mission!Init PROVE MissionIInv
  OBVIOUS
<1>1. /\ missionHeld = 0 /\ attempts = 0 /\ snapshot = Mission!Nothing
      /\ missionVerdict = [k \in 1..LastAttempt |-> "none"] /\ runner \in Hosts
      /\ files = Mission!NoFiles /\ missionChild = Mission!NoChild /\ commitCall = Mission!Unwritten
      /\ late = Mission!NoCall /\ controller = [h \in Hosts |-> "idle"]
      /\ disk = [h \in Hosts |-> [output |-> Mission!Nothing, preparing |-> Mission!Unwritten,
                                  pending |-> Mission!Unwritten]]
  BY DEF Mission!Init
<1>2. MissionTyped
  <2>1. "none" \in Operations
    BY DEF Operations
  <2> QED BY <1>1, <2>1, UnwrittenOK, MissionNumbers DEF MissionTyped, MissionDisks
<1>3. AttemptOK
  BY <1>1, UnwrittenOK DEF AttemptOK, Rests
<1>4. ChildOK
  BY <1>1, UnwrittenOK DEF ChildOK, Early
<1> QED BY <1>1, <1>2, <1>3, <1>4 DEF MissionIInv, AtWork

\* What the parts of the mission's state are.
LEMMA MissionFacts ==
  ASSUME MissionIInv
  PROVE  /\ missionHeld \in {0, attempts} /\ attempts \in 0..LastAttempt /\ attempts \in Nat
         /\ missionVerdict \in [1..LastAttempt -> Operations]
         /\ snapshot \in KnownTo(attempts) /\ runner \in Hosts
         /\ files \in [identity : BOOLEAN, terminal : Operations]
         /\ missionChild \in MissionChildren(attempts) /\ commitCall \in Additions(attempts)
         /\ late \in [attempt : 0..LastAttempt, operation : Operations]
         /\ disk \in [Hosts -> MissionDisks(attempts)] /\ disk[runner] \in MissionDisks(attempts)
         /\ controller \in [Hosts -> AtWork \cup {"idle", "recover", "gone"}]
         /\ missionChild.prev \in KnownTo(attempts) /\ missionChild.at \in ChildStates
         /\ AttemptOK /\ ChildOK
         /\ \A h \in Hosts : controller[h] \in AtWork => WorkOK(h)
BY MissionNumbers DEF MissionIInv, MissionTyped, MissionChildren

\* A step of the child, in the directory of its host.
LEMMA ChildMoves ==
  ASSUME MissionIInv, missionChild.at # "dead",
         UNCHANGED <<missionHeld, attempts, missionVerdict, snapshot, runner, files, commitCall, late,
                     controller>>,
         NEW c \in MissionChildren(attempts), missionChild' = c, c.prev = missionChild.prev,
         NEW d \in MissionDisks(attempts), disk' = [disk EXCEPT ![runner] = d],
         c.at # "dead" => c.receipt = "none",
         c.at \in Early => missionChild.at \in Early,
         c.at = "commit" => Adds(d.output, c.prev),
         c.at = "seal" => d.preparing.base = c.prev,
         c.at = "upload" => d.pending.base = c.prev,
         c.receipt = "VERIFIED" => c.prev.complete /\ missionChild.at \in Early
  PROVE  MissionIInv'
<1>1. MissionTyped'
  BY MissionFacts DEF MissionTyped
<1>2. disk'[runner] = d
  BY MissionFacts
<1>3. missionHeld # 0 /\ files.terminal = "none"
  BY MissionFacts DEF AttemptOK, Rests
<1>4. AttemptOK'
  BY <1>3, MissionFacts DEF AttemptOK, Rests
<1>5. ChildOK'
  BY <1>2, MissionFacts DEF ChildOK, Unmoved
<1>6. \A h \in Hosts : controller'[h] \in AtWork => WorkOK(h)'
  BY <1>3, MissionFacts DEF WorkOK
<1> QED BY <1>1, <1>4, <1>5, <1>6 DEF MissionIInv

\* A step of a controller that changes nothing but what it does next.
LEMMA ControlMoves ==
  ASSUME MissionIInv, NEW h \in Hosts, NEW go \in AtWork \cup {"idle", "recover", "gone"},
         controller' = [controller EXCEPT ![h] = go],
         UNCHANGED <<missionHeld, attempts, missionVerdict, snapshot, runner, files, missionChild,
                     commitCall, late, disk>>,
         go \in AtWork => /\ missionHeld # 0 /\ runner = h /\ late = Mission!NoCall
                          /\ go # "launch" /\ (go # "send" => files.terminal = "none")
                          /\ go = "settle" => missionChild.at = "dead"
                          /\ go = "send" => files.terminal # "none"
  PROVE  MissionIInv'
<1>1. MissionTyped'
  BY MissionFacts DEF MissionTyped
<1>2. AttemptOK'
  BY MissionFacts DEF AttemptOK, Rests
<1>3. ChildOK'
  BY MissionFacts DEF ChildOK, Unmoved
<1>4. \A g \in Hosts : controller'[g] \in AtWork => WorkOK(g)'
  BY MissionFacts DEF WorkOK, Unmoved
<1> QED BY <1>1, <1>2, <1>3, <1>4 DEF MissionIInv

\* Where the child goes, and how it ends.
LEMMA ChildGoes ==
  ASSUME MissionIInv
  PROVE  /\ \A go \in ChildStates : LET c == [missionChild EXCEPT !.at = go] IN
              /\ c \in MissionChildren(attempts) /\ c.at = go
              /\ c.prev = missionChild.prev /\ c.receipt = missionChild.receipt
         /\ \A r \in {"none", "VERIFIED", "RUNNING", "BLOCKED"} :
              LET c == [missionChild EXCEPT !.at = "dead", !.receipt = r] IN
              /\ c \in MissionChildren(attempts) /\ c.at = "dead"
              /\ c.prev = missionChild.prev /\ c.receipt = r
         /\ missionChild.at # "dead" => missionChild.receipt = "none"
         /\ [disk EXCEPT ![runner] = disk[runner]] = disk
         /\ disk[runner].output \in KnownTo(attempts) /\ disk[runner].preparing \in Additions(attempts)
         /\ disk[runner].pending \in Additions(attempts)
<1>1. /\ missionChild \in MissionChildren(attempts) /\ disk \in [Hosts -> MissionDisks(attempts)]
      /\ disk[runner] \in MissionDisks(attempts) /\ runner \in Hosts /\ ChildOK
  BY MissionFacts
<1>2. missionChild.at # "dead" => missionChild.receipt = "none"
  BY <1>1 DEF ChildOK
<1>3. [disk EXCEPT ![runner] = disk[runner]] = disk
  BY <1>1
<1> QED BY <1>1, <1>2, <1>3 DEF MissionChildren, ChildStates, MissionDisks

\* The child ends, and leaves its disk as it is.
LEMMA ChildEnds ==
  ASSUME MissionIInv, missionChild.at # "dead",
         UNCHANGED <<missionHeld, attempts, missionVerdict, snapshot, runner, files, commitCall, late,
                     disk, controller>>,
         NEW r \in {"none", "VERIFIED", "RUNNING", "BLOCKED"},
         missionChild' = [missionChild EXCEPT !.at = "dead", !.receipt = r],
         r = "VERIFIED" => missionChild.prev.complete /\ missionChild.at \in Early
  PROVE  MissionIInv'
<1>1. PICK c \in MissionChildren(attempts) :
        missionChild' = c /\ c.at = "dead" /\ c.prev = missionChild.prev /\ c.receipt = r
  BY ChildGoes
<1>2. "dead" \notin Early
  BY DEF Early
<1>3. disk' = [disk EXCEPT ![runner] = disk[runner]] /\ disk[runner] \in MissionDisks(attempts)
  BY ChildGoes, MissionFacts
<1> QED BY <1>1, <1>2, <1>3, ChildMoves

\* The child goes on, and writes its disk.
LEMMA ChildWrites ==
  ASSUME MissionIInv, missionChild.at # "dead",
         UNCHANGED <<missionHeld, attempts, missionVerdict, snapshot, runner, files, commitCall, late,
                     controller>>,
         NEW d \in MissionDisks(attempts), disk' = [disk EXCEPT ![runner] = d],
         NEW go \in ChildStates, go # "dead",
         missionChild' = [missionChild EXCEPT !.at = go],
         go \in Early => missionChild.at \in Early,
         go = "commit" => Adds(d.output, missionChild.prev),
         go = "seal" => d.preparing.base = missionChild.prev,
         go = "upload" => d.pending.base = missionChild.prev
  PROVE  MissionIInv'
<1>1. PICK c \in MissionChildren(attempts) :
        missionChild' = c /\ c.at = go /\ c.prev = missionChild.prev /\ c.receipt = "none"
  BY ChildGoes
<1> QED BY <1>1, ChildMoves

\* What was prepared or waits is taken up, or the segment ends.
LEMMA RestoreSteps ==
  ASSUME MissionIInv, Mission!RestorePreparing \/ Mission!RestorePending \/ Mission!RestoreNothing
  PROVE  MissionIInv'
<1> DEFINE d == disk[runner]
<1>0. /\ UNCHANGED <<missionHeld, attempts, missionVerdict, snapshot, runner, files, commitCall, late,
                     controller>>
      /\ missionChild.at = "restore" /\ missionChild.at \in Early /\ missionChild.at # "dead"
      /\ "restore" \in ChildStates /\ "work" \in ChildStates /\ "upload" \in ChildStates
      /\ [missionChild EXCEPT !.at = "restore"] = missionChild
      /\ d \in MissionDisks(attempts) /\ disk = [disk EXCEPT ![runner] = d]
  <2>1. missionChild.at = "restore" /\ UNCHANGED <<missionHeld, attempts, missionVerdict, snapshot, runner, files, commitCall, late,
                     controller>>
    BY DEF Mission!RestorePreparing, Mission!RestorePending, Mission!RestoreNothing,
           Mission!ChildAt, Mission!server
  <2>2. d \in MissionDisks(attempts) /\ disk = [disk EXCEPT ![runner] = d]
        /\ missionChild \in MissionChildren(attempts)
    BY ChildGoes, MissionFacts
  <2> QED BY <2>1, <2>2 DEF Early, ChildStates, MissionChildren
<1>1. \A p \in Additions(attempts) :
        /\ [d EXCEPT !.preparing = p] \in MissionDisks(attempts)
        /\ [d EXCEPT !.pending = p] \in MissionDisks(attempts)
        /\ [d EXCEPT !.pending = p].pending = p
  BY <1>0 DEF MissionDisks
<1>2. Mission!Unwritten \in Additions(attempts)
  BY UnwrittenOK, KnownGrows, MissionFacts
<1>3. ASSUME missionChild' = [missionChild EXCEPT !.at = "dead", !.receipt = "BLOCKED"], disk' = disk
      PROVE  MissionIInv'
  BY <1>0, <1>3, ChildEnds
<1>4. ASSUME NEW e \in MissionDisks(attempts), disk' = [disk EXCEPT ![runner] = e],
             missionChild' = missionChild
      PROVE  MissionIInv'
  BY <1>0, <1>4, ChildWrites
<1>5. CASE Mission!RestorePreparing
  <2>1. \/ disk' = [disk EXCEPT ![runner] = [d EXCEPT !.preparing = Mission!Unwritten]]
           /\ missionChild' = missionChild
        \/ disk' = [disk EXCEPT ![runner] = [d EXCEPT !.pending = d.preparing]]
           /\ missionChild' = missionChild
        \/ missionChild' = [missionChild EXCEPT !.at = "dead", !.receipt = "BLOCKED"] /\ disk' = disk
    BY <1>5 DEF Mission!RestorePreparing, Mission!Write, Mission!Mine, Mission!Ends
  <2>2. d.preparing \in Additions(attempts)
    BY ChildGoes
  <2> QED BY <1>1, <1>2, <1>3, <1>4, <2>1, <2>2
<1>6. CASE Mission!RestorePending
  <2>1. \/ /\ disk' = [disk EXCEPT ![runner] = [d EXCEPT !.pending = Mission!Unwritten]]
           /\ missionChild' = [missionChild EXCEPT !.at = "work"]
        \/ /\ disk' = disk /\ d.pending.base = missionChild.prev
           /\ missionChild' = [missionChild EXCEPT !.at = "upload"]
        \/ missionChild' = [missionChild EXCEPT !.at = "dead", !.receipt = "BLOCKED"] /\ disk' = disk
    BY <1>6 DEF Mission!RestorePending, Mission!Write, Mission!Mine, Mission!Ends, Mission!ChildGoes
  <2>2. ASSUME NEW e \in MissionDisks(attempts), disk' = [disk EXCEPT ![runner] = e],
               missionChild' = [missionChild EXCEPT !.at = "work"]
        PROVE  MissionIInv'
    BY <1>0, <2>2, ChildWrites
  <2>3. ASSUME disk' = disk, d.pending.base = missionChild.prev,
               missionChild' = [missionChild EXCEPT !.at = "upload"]
        PROVE  MissionIInv'
    BY <1>0, <2>3, ChildWrites
  <2> QED BY <1>1, <1>2, <1>3, <2>1, <2>2, <2>3
<1>7. CASE Mission!RestoreNothing
  <2>1. disk' = disk /\ missionChild' = [missionChild EXCEPT !.at = "work"]
    BY <1>7 DEF Mission!RestoreNothing, Mission!ChildGoes
  <2> QED BY <1>0, <2>1, ChildWrites
<1> QED BY <1>5, <1>6, <1>7

\* The child works on what it has begun with.
LEMMA WorkSteps ==
  ASSUME MissionIInv, Mission!Work \/ Mission!Account
  PROVE  MissionIInv'
<1> DEFINE d == disk[runner]
<1>0. /\ UNCHANGED <<missionHeld, attempts, missionVerdict, snapshot, runner, files, commitCall, late,
                     controller>>
      /\ missionChild.at = "work" /\ missionChild.at \in Early /\ missionChild.at # "dead"
      /\ d \in MissionDisks(attempts) /\ "commit" \in ChildStates
  <2>1. missionChild.at = "work" /\ UNCHANGED <<missionHeld, attempts, missionVerdict, snapshot, runner, files, commitCall, late,
                     controller>>
    BY DEF Mission!Work, Mission!Account, Mission!ChildAt, Mission!server
  <2> QED BY <2>1, MissionFacts DEF Early, ChildStates
<1>1. CASE Mission!Account
  BY <1>0, <1>1, ChildEnds DEF Mission!Account, Mission!Ends
<1>2. CASE Mission!Work
  <2> DEFINE prev == missionChild.prev
  <2>1. PICK n \in 0..(Units - Len(prev.done)), complete \in BOOLEAN :
          disk' = [disk EXCEPT ![runner] = [d EXCEPT !.output =
            [by |-> attempts, complete |-> complete,
             done |-> prev.done \o [i \in 1..n |-> attempts]]]]
    BY <1>2 DEF Mission!Work, Mission!Write, Mission!Mine, Mission!Restored
  <2> DEFINE more == [i \in 1..n |-> attempts]
             done == prev.done \o more
             out == [by |-> attempts, complete |-> complete, done |-> done]
  <2>2. missionHeld # 0 /\ prev.by < attempts /\ prev \in KnownTo(attempts)
    BY <1>0, MissionFacts DEF AttemptOK, Rests
  <2>3. /\ prev.done \in Seq(1..LastAttempt) /\ Len(prev.done) \in Nat /\ Len(prev.done) <= Units
        /\ prev.by \in Nat /\ attempts \in 1..LastAttempt /\ attempts \in Nat
    BY <2>2, MissionFacts, MissionNumbers DEF KnownTo
  <2>4. n \in Nat /\ Len(prev.done) + n <= Units
    BY <2>3, MissionNumbers
  <2>5. more \in Seq(1..LastAttempt) /\ Len(more) = n
    <3>1. more \in [1..n -> 1..LastAttempt]
      BY <2>3
    <3> QED BY <2>4, <3>1
  <2>6. done \in Seq(1..LastAttempt) /\ Len(done) = Len(prev.done) + n
        /\ \A i \in 1..Len(prev.done) : done[i] = prev.done[i]
    BY <2>3, <2>5, ConcatProperties
  <2> HIDE DEF more, done
  <2>7. SubSeq(done, 1, Len(prev.done)) = prev.done
    BY <2>3, <2>4, <2>6
  <2>8. out \in KnownTo(attempts) /\ Adds(out, prev)
    <3>1. /\ out \in [by : 0..LastAttempt, done : Seq(1..LastAttempt), complete : BOOLEAN]
          /\ out.by = attempts /\ out.done = done
      BY <2>3, <2>6, MissionFacts
    <3> HIDE DEF out
    <3>2. out.by <= attempts /\ Len(out.done) <= Units
      <4>1. out.by <= attempts
        BY <2>3, <3>1
      <4>2. Len(done) <= Units
        BY <2>4, <2>6
      <4> QED BY <3>1, <4>1, <4>2
    <3>3. Adds(out, prev)
      BY <2>7, <3>1 DEF Adds
    <3> QED BY <3>1, <3>2, <3>3 DEF KnownTo
  <2> HIDE DEF out
  <2> DEFINE e == [d EXCEPT !.output = out]
  <2>9. e \in MissionDisks(attempts) /\ e.output = out
    BY <1>0, <2>8 DEF MissionDisks
  <2>10. disk' = [disk EXCEPT ![runner] = e]
    BY <2>1 DEF out, done, more
  <2>11. missionChild' = [missionChild EXCEPT !.at = "commit"]
    BY <1>2 DEF Mission!Work, Mission!ChildGoes
  <2> HIDE DEF e
  <2> QED BY <1>0, <2>8, <2>9, <2>10, <2>11, ChildWrites
<1> QED BY <1>1, <1>2

\* The snapshot is prepared and sealed, and what is published leaves the disk.
LEMMA PublishSteps ==
  ASSUME MissionIInv, Mission!Prepare \/ Mission!Seal \/ Mission!Unpend \/ Mission!Clear
  PROVE  MissionIInv'
<1> DEFINE d == disk[runner]
<1>0. /\ UNCHANGED <<missionHeld, attempts, missionVerdict, snapshot, runner, files, commitCall, late,
                     controller>>
      /\ missionChild.at \in {"commit", "seal", "told", "clear"} /\ missionChild.at # "dead"
      /\ {"seal", "upload", "clear"} \subseteq ChildStates
  BY DEF Mission!Prepare, Mission!Seal, Mission!Unpend, Mission!Clear,
         Mission!ChildAt, Mission!server, Early, ChildStates
<1>1. \A p \in Additions(attempts) :
        /\ [d EXCEPT !.preparing = p] \in MissionDisks(attempts)
        /\ [d EXCEPT !.preparing = p].preparing = p
        /\ [d EXCEPT !.pending = p] \in MissionDisks(attempts)
        /\ [d EXCEPT !.pending = p].pending = p
  BY MissionFacts DEF MissionDisks
<1>2. /\ Mission!Unwritten \in Additions(attempts) /\ d \in MissionDisks(attempts)
      /\ d.preparing \in Additions(attempts) /\ d.output \in KnownTo(attempts)
      /\ missionChild.prev \in KnownTo(attempts) /\ ChildOK
      /\ disk = [disk EXCEPT ![runner] = d]
  BY UnwrittenOK, KnownGrows, MissionFacts, ChildGoes
<1>3. CASE Mission!Prepare
  <2> DEFINE p == [cp |-> d.output, base |-> missionChild.prev]
  <2>1. missionChild.at = "commit" /\ missionChild.at \in Early
    BY <1>3 DEF Mission!Prepare, Mission!ChildAt, Early
  <2>2. p \in Additions(attempts) /\ p.base = missionChild.prev
    BY <1>2, <2>1 DEF ChildOK, Additions
  <2>3. \/ missionChild' = [missionChild EXCEPT !.at = "dead", !.receipt = "BLOCKED"] /\ disk' = disk
        \/ /\ missionChild' = [missionChild EXCEPT !.at = "seal"]
           /\ disk' = [disk EXCEPT ![runner] = [d EXCEPT !.preparing = p]]
    BY <1>3 DEF Mission!Prepare, Mission!Ends, Mission!Write, Mission!Mine, Mission!ChildGoes
  <2> HIDE DEF p
  <2>4. ASSUME missionChild' = [missionChild EXCEPT !.at = "dead", !.receipt = "BLOCKED"], disk' = disk
        PROVE  MissionIInv'
    BY <1>0, <2>4, ChildEnds
  <2>5. ASSUME NEW e \in MissionDisks(attempts), disk' = [disk EXCEPT ![runner] = e],
               e.preparing.base = missionChild.prev,
               missionChild' = [missionChild EXCEPT !.at = "seal"]
        PROVE  MissionIInv'
    BY <1>0, <2>1, <2>5, ChildWrites
  <2> QED BY <1>1, <2>2, <2>3, <2>4, <2>5
<1>4. CASE Mission!Seal
  <2> DEFINE e == [d EXCEPT !.pending = d.preparing]
  <2>1. /\ missionChild.at = "seal" /\ missionChild.at \in Early
        /\ disk' = [disk EXCEPT ![runner] = e]
        /\ missionChild' = [missionChild EXCEPT !.at = "upload"]
    BY <1>4 DEF Mission!Seal, Mission!ChildAt, Mission!Write, Mission!Mine, Mission!ChildGoes, Early
  <2>2. e \in MissionDisks(attempts) /\ e.pending.base = missionChild.prev
    BY <1>1, <1>2, <2>1 DEF ChildOK
  <2> HIDE DEF e
  <2> QED BY <1>0, <2>1, <2>2, ChildWrites
<1>5. CASE Mission!Unpend
  <2> DEFINE e == [d EXCEPT !.pending = Mission!Unwritten]
  <2>1. /\ disk' = [disk EXCEPT ![runner] = e]
        /\ missionChild' = [missionChild EXCEPT !.at = "clear"] /\ "clear" \notin Early
    BY <1>5 DEF Mission!Unpend, Mission!Write, Mission!Mine, Mission!ChildGoes, Early
  <2>2. e \in MissionDisks(attempts)
    BY <1>1, <1>2
  <2> HIDE DEF e
  <2> QED BY <1>0, <2>1, <2>2, ChildWrites
<1>6. CASE Mission!Clear
  <2> DEFINE e == [d EXCEPT !.preparing = Mission!Unwritten]
  <2>1. /\ disk' = [disk EXCEPT ![runner] = e]
        /\ missionChild' = [missionChild EXCEPT !.at = "dead", !.receipt = "RUNNING"]
    BY <1>6 DEF Mission!Clear, Mission!Write, Mission!Mine, Mission!Ends
  <2>2. e \in MissionDisks(attempts) /\ "dead" \notin Early
    BY <1>1, <1>2 DEF Early
  <2> HIDE DEF e
  <2>3. PICK c \in MissionChildren(attempts) :
          missionChild' = c /\ c.at = "dead" /\ c.prev = missionChild.prev /\ c.receipt = "RUNNING"
    BY <2>1, ChildGoes
  <2> QED BY <1>0, <2>1, <2>2, <2>3, ChildMoves
<1> QED BY <1>3, <1>4, <1>5, <1>6

\* It yields, or dies.
LEMMA ChildStops ==
  ASSUME MissionIInv, Mission!PreparationYields \/ Mission!ChildDies
  PROVE  MissionIInv'
<1>1. /\ UNCHANGED <<missionHeld, attempts, missionVerdict, snapshot, runner, files, commitCall, late,
                     disk, controller>>
      /\ missionChild.at # "dead"
  BY DEF Mission!PreparationYields, Mission!ChildDies, Mission!ChildAt, Mission!Alive,
     Mission!server
<1>2. PICK r \in {"RUNNING", "BLOCKED"} : missionChild' = [missionChild EXCEPT !.at = "dead", !.receipt = r]
  BY DEF Mission!PreparationYields, Mission!ChildDies, Mission!Ends
<1> QED BY <1>1, <1>2, ChildEnds

\* The statement is sent, and carried out at the server or not.
LEMMA StatementSteps ==
  ASSUME MissionIInv, Mission!Publish \/ Mission!Commit \/ Mission!CommitFails
  PROVE  /\ MissionIInv'
         /\ snapshot' # snapshot => Adds(snapshot', snapshot)
<1>0. UNCHANGED <<missionHeld, attempts, missionVerdict, runner, files, late, disk, controller>>
  BY DEF Mission!Publish, Mission!Commit, Mission!CommitFails, Mission!server
<1>1. CASE Mission!Publish
  <2>1. /\ missionChild.at = "upload" /\ missionChild.at \in Early /\ UNCHANGED snapshot
        /\ commitCall' = disk[runner].pending
        /\ missionChild' = [missionChild EXCEPT !.at = "sent"]
    BY <1>1 DEF Mission!Publish, Mission!ChildAt, Mission!ChildGoes, Mission!Mine, Mission!server,
       Early
  <2>2. PICK c \in MissionChildren(attempts) :
          missionChild' = c /\ c.at = "sent" /\ c.prev = missionChild.prev /\ c.receipt = "none"
    <3>1. "sent" \in ChildStates
      BY DEF ChildStates
    <3> QED BY <2>1, <3>1, ChildGoes
  <2>3. commitCall' \in Additions(attempts) /\ commitCall'.base = snapshot /\ "sent" \notin Early
    BY <2>1, MissionFacts, ChildGoes DEF ChildOK, Unmoved, Early
  <2>4. missionHeld # 0 /\ files.terminal = "none"
    BY <2>1, MissionFacts DEF AttemptOK, Rests
  <2>5. MissionTyped'
    BY <1>0, <2>1, <2>2, <2>3, MissionFacts DEF MissionTyped
  <2>6. AttemptOK'
    BY <1>0, <2>1, <2>2, <2>4, MissionFacts DEF AttemptOK, Rests
  <2>7. ChildOK'
    BY <1>0, <2>1, <2>2, <2>3, MissionFacts DEF ChildOK
  <2>8. \A h \in Hosts : controller'[h] \in AtWork => WorkOK(h)'
    BY <1>0, <2>1, <2>4, MissionFacts DEF WorkOK
  <2> QED BY <2>1, <2>5, <2>6, <2>7, <2>8 DEF MissionIInv
<1>2. CASE Mission!Commit \/ Mission!CommitFails
  <2>1. /\ commitCall # Mission!Unwritten /\ commitCall' = Mission!Unwritten
        /\ snapshot' = snapshot \/ snapshot' = commitCall.cp
        /\ \/ missionChild' = missionChild
           \/ missionChild.at = "sent" /\ missionChild' = [missionChild EXCEPT !.at = "told"]
           \/ /\ missionChild.at = "sent"
              /\ missionChild' = [missionChild EXCEPT !.at = "dead", !.receipt = "BLOCKED"]
    BY <1>2 DEF Mission!Commit, Mission!CommitFails, Mission!ChildAt, Mission!ChildGoes,
       Mission!Ends
  <2>2. PICK c \in MissionChildren(attempts) :
          /\ missionChild' = c /\ c.prev = missionChild.prev
          /\ c.at = missionChild.at \/ c.at \notin Early \cup {"commit", "seal", "upload"}
          /\ c.receipt = missionChild.receipt \/ c.receipt # "VERIFIED"
          /\ c.at # "dead" => c.receipt = "none"
          /\ missionChild.at = "dead" => c.at = "dead"
    <3>1. {"told", "dead"} \subseteq ChildStates \ Early /\ {"commit", "seal", "upload"} \subseteq Early
      BY DEF ChildStates, Early
    <3>2. missionChild.at # "dead" => missionChild.receipt = "none"
      BY ChildGoes
    <3>3. CASE missionChild' = missionChild
      BY <3>2, <3>3, MissionFacts
    <3>4. CASE missionChild.at = "sent" /\ missionChild' = [missionChild EXCEPT !.at = "told"]
      BY <3>1, <3>2, <3>4, ChildGoes
    <3>5. CASE /\ missionChild.at = "sent"
               /\ missionChild' = [missionChild EXCEPT !.at = "dead", !.receipt = "BLOCKED"]
      BY <3>1, <3>5, ChildGoes
    <3> QED BY <2>1, <3>3, <3>4, <3>5
  <2>3. /\ commitCall \in Additions(attempts) /\ commitCall.cp \in KnownTo(attempts)
        /\ Adds(commitCall.cp, commitCall.base) /\ commitCall.base = snapshot
        /\ Mission!Unwritten \in Additions(attempts)
    BY <2>1, UnwrittenOK, KnownGrows, MissionFacts DEF ChildOK, Additions
  <2>4. /\ missionHeld # 0 /\ files.terminal = "none" /\ missionChild.at \notin Early
        /\ missionChild.receipt # "VERIFIED" /\ "commit" \in Early /\ "seal" \in Early
        /\ "upload" \in Early
    BY <2>1, MissionFacts DEF AttemptOK, Rests, ChildOK, Unmoved, Early
  <2>5. MissionTyped'
    BY <1>0, <2>1, <2>2, <2>3, MissionFacts DEF MissionTyped
  <2>6. AttemptOK'
    BY <1>0, <2>1, <2>2, <2>4, MissionFacts DEF AttemptOK, Rests
  <2>7. ChildOK'
    BY <1>0, <2>1, <2>2, <2>4 DEF ChildOK
  <2>8. \A h \in Hosts : controller'[h] \in AtWork => WorkOK(h)'
    BY <1>0, <2>1, <2>2, <2>4, MissionFacts DEF WorkOK, Unmoved
  <2> QED BY <2>1, <2>3, <2>5, <2>6, <2>7, <2>8 DEF MissionIInv
<1> QED BY <1>1, <1>2

\* A controller goes on, and the mission stays as it is.
LEMMA ControlSteps ==
  ASSUME MissionIInv, NEW h \in Hosts,
         \/ Mission!TickRecover(h) \/ Mission!LaunchFails(h) \/ Mission!Reap(h)
         \/ Mission!SendFails(h) \/ Mission!Unrecoverable(h)
  PROVE  MissionIInv'
<1>0. UNCHANGED <<missionHeld, attempts, missionVerdict, snapshot, runner, files, missionChild,
                  commitCall, late, disk>>
  BY DEF Mission!TickRecover, Mission!LaunchFails, Mission!Reap, Mission!SendFails,
         Mission!Unrecoverable, Mission!server
<1>1. CASE Mission!Reap(h)
  <2>1. controller[h] = "watch" /\ missionChild.at = "dead"
        /\ controller' = [controller EXCEPT ![h] = "settle"]
    BY <1>1 DEF Mission!Reap, Mission!At, Mission!GoTo, Mission!Alive
  <2>2. missionHeld # 0 /\ runner = h /\ late = Mission!NoCall /\ files.terminal = "none"
    BY <2>1, MissionFacts DEF AtWork, WorkOK
  <2>3. "settle" \in AtWork
    BY DEF AtWork
  <2> QED BY <1>0, <2>1, <2>2, <2>3, ControlMoves
<1>2. CASE ~Mission!Reap(h)
  <2>1. PICK go \in {"idle", "recover"} : controller' = [controller EXCEPT ![h] = go]
    BY <1>2 DEF Mission!TickRecover, Mission!LaunchFails, Mission!SendFails, Mission!Unrecoverable,
                Mission!GoTo
  <2>2. go \notin AtWork
    BY DEF AtWork
  <2> QED BY <1>0, <2>1, <2>2, ControlMoves
<1> QED BY <1>1, <1>2

\* The server reserves an attempt, whether it is heard or not.
LEMMA ReserveKeeps ==
  ASSUME MissionIInv, NEW h \in Hosts, Mission!Tick(h) \/ Mission!TickUnheard(h)
  PROVE  MissionIInv'
<1> DEFINE k == attempts + 1
           c == [Mission!NoChild EXCEPT !.prev = snapshot]
<1>0. /\ missionHeld = 0 /\ attempts < LastAttempt /\ ~Mission!Verified
      /\ attempts' = k /\ missionHeld' = k /\ runner' = h /\ files' = Mission!NoFiles
      /\ missionChild' = c
      /\ UNCHANGED <<missionVerdict, snapshot, commitCall, late, disk>>
      /\ controller' = [controller EXCEPT ![h] = "launch"] \/ controller' = controller
  <2>1. Mission!Reserve(h)
        /\ (controller' = [controller EXCEPT ![h] = "launch"] \/ controller' = controller)
    BY DEF Mission!Tick, Mission!TickUnheard, Mission!GoTo
  <2>2. attempts < LastAttempt - 0 \/ attempts < LastAttempt - Spare
    BY <2>1 DEF Mission!Reserve
  <2>3. attempts < LastAttempt
    <3>1. Spare \in Nat
      BY WorkerBounds, MissionNumbers
    <3> QED BY <2>2, <3>1, MissionFacts, MissionNumbers
  <2> QED BY <2>1, <2>3 DEF Mission!Reserve
<1>1. k \in Nat /\ k \in 1..LastAttempt /\ attempts \in Nat /\ attempts <= k
  BY <1>0, MissionFacts, MissionNumbers
<1>2. /\ KnownTo(attempts) \subseteq KnownTo(k) /\ Additions(attempts) \subseteq Additions(k)
      /\ MissionDisks(attempts) \subseteq MissionDisks(k) /\ snapshot \in KnownTo(attempts)
      /\ MissionChildren(0) \subseteq MissionChildren(k)
  BY <1>1, KnownGrows, MissionFacts
<1>3. c \in MissionChildren(k) /\ c.at = "dead" /\ c.receipt = "none" /\ c.prev = snapshot
  BY <1>2, UnwrittenOK DEF MissionChildren
<1> HIDE DEF c
<1>4. late = Mission!NoCall /\ Rests /\ \A g \in Hosts : controller[g] \notin AtWork
  BY <1>0, MissionFacts DEF AttemptOK, WorkOK
<1>5. MissionTyped'
  <2>1. controller' \in [Hosts -> AtWork \cup {"idle", "recover", "gone"}]
    BY <1>0, MissionFacts DEF AtWork
  <2>2. disk \in [Hosts -> MissionDisks(k)]
    BY <1>2, MissionFacts
  <2> QED BY <1>0, <1>1, <1>2, <1>3, <2>1, <2>2, MissionFacts, UnwrittenOK DEF MissionTyped
<1>6. \A i \in 1..LastAttempt : missionVerdict[i] # "terminal_commit"
  <2>1. \A i \in 1..attempts : missionVerdict[i] # "terminal_commit"
    BY <1>0 DEF Mission!Verified
  <2> QED BY <2>1, MissionFacts, MissionNumbers DEF AttemptOK
<1>7. snapshot.by < k
  BY <1>1, <1>2 DEF KnownTo
<1>8. AttemptOK'
  BY <1>0, <1>1, <1>3, <1>4, <1>6, <1>7, UnwrittenOK DEF AttemptOK
<1>9. ChildOK'
  BY <1>0, <1>3, <1>4 DEF ChildOK, Early, Rests
<1>10. \A g \in Hosts : controller'[g] \in AtWork => WorkOK(g)'
  BY <1>0, <1>1, <1>3, <1>4, MissionFacts DEF WorkOK, Unmoved, Rests
<1> QED BY <1>5, <1>8, <1>9, <1>10 DEF MissionIInv

\* The child is started and its identity recorded, or not; and the request written down.
LEMMA LaunchKeeps ==
  ASSUME MissionIInv, NEW h \in Hosts,
         Mission!Launch(h) \/ Mission!Record(h) \/ Mission!RecordFails(h) \/ Mission!WriteTerminal(h)
  PROVE  MissionIInv'
<1>0. /\ UNCHANGED <<missionHeld, attempts, missionVerdict, snapshot, runner, commitCall, late, disk>>
      /\ controller[h] \in AtWork /\ WorkOK(h) /\ missionHeld # 0 /\ runner = h
      /\ late = Mission!NoCall /\ controller[h] # "send" /\ files.terminal = "none"
      /\ \A g \in Hosts : controller[g] \in AtWork => g = h
  <2>1. /\ UNCHANGED <<missionHeld, attempts, missionVerdict, snapshot, runner, commitCall, late, disk>>
        /\ controller[h] \in {"launch", "record", "settle"}
    BY DEF Mission!Launch, Mission!Record, Mission!RecordFails, Mission!WriteTerminal,
           Mission!At, Mission!server
  <2>2. controller[h] \in AtWork /\ WorkOK(h)
    BY <2>1, MissionFacts DEF AtWork
  <2> QED BY <2>1, <2>2, MissionFacts, UnwrittenOK DEF WorkOK
<1>1. CASE Mission!Launch(h)
  <2>1. /\ controller[h] = "launch" /\ controller' = [controller EXCEPT ![h] = "record"]
        /\ files' = files /\ missionChild' = [missionChild EXCEPT !.at = "restore"]
    BY <1>1 DEF Mission!Launch, Mission!At, Mission!GoTo
  <2>2. missionChild.receipt = "none" /\ Unmoved
    BY <1>0, <2>1 DEF WorkOK
  <2>3. PICK c \in MissionChildren(attempts) : /\ missionChild' = c /\ c.at = "restore"
                                              /\ c.prev = missionChild.prev /\ c.receipt = "none"
    <3>1. "restore" \in ChildStates
      BY DEF ChildStates, Early
    <3> QED BY <2>1, <2>2, <3>1, ChildGoes
  <2>4. MissionTyped'
    BY <1>0, <2>1, <2>3, MissionFacts DEF MissionTyped, AtWork
  <2>5. AttemptOK'
    BY <1>0, <2>1, <2>3, MissionFacts DEF AttemptOK
  <2>6. ChildOK'
    BY <1>0, <2>2, <2>3, MissionFacts DEF ChildOK, Unmoved
  <2>7. \A g \in Hosts : controller'[g] \in AtWork => WorkOK(g)'
    BY <1>0, <2>1, MissionFacts DEF WorkOK
  <2> QED BY <2>4, <2>5, <2>6, <2>7 DEF MissionIInv
<1>2. CASE Mission!Record(h)
  <2>1. /\ controller[h] = "record" /\ controller' = [controller EXCEPT ![h] = "watch"]
        /\ files' = [files EXCEPT !.identity = TRUE] /\ missionChild' = missionChild
    BY <1>2 DEF Mission!Record, Mission!At, Mission!GoTo
  <2>2. files' \in [identity : BOOLEAN, terminal : Operations] /\ files'.terminal = "none"
    BY <1>0, <2>1, MissionFacts
  <2>4. MissionTyped'
    BY <1>0, <2>1, <2>2, MissionFacts DEF MissionTyped, AtWork
  <2>5. AttemptOK'
    BY <1>0, <2>1, <2>2, MissionFacts DEF AttemptOK
  <2>6. ChildOK'
    BY <1>0, <2>1, MissionFacts DEF ChildOK, Unmoved
  <2>7. \A g \in Hosts : controller'[g] \in AtWork => WorkOK(g)'
    BY <1>0, <2>1, <2>2, MissionFacts DEF WorkOK
  <2> QED BY <2>4, <2>5, <2>6, <2>7 DEF MissionIInv
<1>3. CASE Mission!RecordFails(h)
  <2>0. files' = files /\ controller[h] = "record"
    BY <1>3 DEF Mission!RecordFails, Mission!At
  <2>1. CASE /\ missionChild' = [missionChild EXCEPT !.known = FALSE]
             /\ controller' = [controller EXCEPT ![h] = "watch"]
    <3>1. PICK c \in MissionChildren(attempts) :
            missionChild' = c /\ c.at = missionChild.at /\ c.prev = missionChild.prev
            /\ c.receipt = missionChild.receipt
      <4>1. missionChild \in MissionChildren(attempts)
        BY MissionFacts
      <4>2. FALSE \in BOOLEAN
        OBVIOUS
      <4>3. LET c == [missionChild EXCEPT !.known = FALSE] IN
              /\ c \in MissionChildren(attempts) /\ c.at = missionChild.at
              /\ c.prev = missionChild.prev /\ c.receipt = missionChild.receipt
        BY <4>1, <4>2 DEF MissionChildren
      <4> QED BY <2>1, <4>3
    <3>4. MissionTyped'
      BY <1>0, <2>0, <2>1, <3>1, MissionFacts DEF MissionTyped, AtWork
    <3>5. AttemptOK'
      BY <1>0, <2>0, <3>1, MissionFacts DEF AttemptOK
    <3>6. ChildOK'
      BY <1>0, <3>1, MissionFacts DEF ChildOK, Unmoved
    <3>7. \A g \in Hosts : controller'[g] \in AtWork => WorkOK(g)'
      BY <1>0, <2>0, <2>1, <3>1, MissionFacts DEF WorkOK
    <3> QED BY <3>4, <3>5, <3>6, <3>7 DEF MissionIInv
  <2>2. CASE /\ missionChild' = [missionChild EXCEPT !.at = "dead", !.receipt = "none"]
             /\ controller' = [controller EXCEPT ![h] = "settle"]
    <3>1. PICK c \in MissionChildren(attempts) : /\ missionChild' = c /\ c.at = "dead"
                                                /\ c.prev = missionChild.prev /\ c.receipt = "none"
      BY <2>2, ChildGoes
    <3>4. MissionTyped'
      BY <1>0, <2>0, <2>2, <3>1, MissionFacts DEF MissionTyped, AtWork
    <3>5. AttemptOK'
      BY <1>0, <2>0, <3>1, MissionFacts DEF AttemptOK
    <3>6. ChildOK'
      BY <1>0, <3>1, MissionFacts DEF ChildOK, Early
    <3>7. \A g \in Hosts : controller'[g] \in AtWork => WorkOK(g)'
      BY <1>0, <2>0, <2>2, <3>1, MissionFacts DEF WorkOK
    <3> QED BY <3>4, <3>5, <3>6, <3>7 DEF MissionIInv
  <2> QED BY <1>3, <2>1, <2>2 DEF Mission!RecordFails, Mission!GoTo
<1>4. CASE Mission!WriteTerminal(h)
  <2> DEFINE o == Mission!Operation
  <2>1. /\ controller[h] = "settle" /\ controller' = [controller EXCEPT ![h] = "send"]
        /\ commitCall = Mission!Unwritten /\ missionChild' = missionChild
        /\ files' = [files EXCEPT !.terminal = o]
    BY <1>4 DEF Mission!WriteTerminal, Mission!At, Mission!GoTo
  <2>2. o \in Operations /\ o # "none" /\ (o = "terminal_commit" => missionChild.receipt = "VERIFIED")
    BY DEF Mission!Operation, Operations, Mission!Verdicts
  <2> HIDE DEF o
  <2>3. Rests
    BY <1>0, <2>1 DEF WorkOK, Rests
  <2>4. o = "terminal_commit" => snapshot.complete /\ snapshot.by < attempts
    BY <1>0, <2>2, MissionFacts DEF ChildOK, AttemptOK, Unmoved
  <2>5. files' \in [identity : BOOLEAN, terminal : Operations] /\ files'.terminal = o
    BY <2>1, <2>2, MissionFacts
  <2>6. MissionTyped'
    BY <1>0, <2>1, <2>5, MissionFacts DEF MissionTyped, AtWork
  <2>7. AttemptOK'
    BY <1>0, <2>1, <2>3, <2>4, <2>5, MissionFacts DEF AttemptOK, Rests
  <2>8. ChildOK'
    BY <1>0, <2>1, MissionFacts DEF ChildOK, Unmoved
  <2>9. \A g \in Hosts : controller'[g] \in AtWork => WorkOK(g)'
    BY <1>0, <2>1, <2>2, <2>5, MissionFacts DEF WorkOK
  <2> QED BY <2>6, <2>7, <2>8, <2>9 DEF MissionIInv
<1> QED BY <1>1, <1>2, <1>3, <1>4

\* The server settles the attempt: as its terminal file says, if there is one.
LEMMA SettleKeeps ==
  ASSUME MissionIInv, NEW h \in Hosts, Mission!Send(h) \/ Mission!Recover(h) \/ Mission!LateCall
  PROVE  MissionIInv'
<1>0. UNCHANGED <<attempts, snapshot, runner, files, missionChild, commitCall, disk>>
  BY DEF Mission!Send, Mission!Recover, Mission!LateCall
<1>1. ASSUME NEW o \in Operations, o # "none", missionHeld # 0, Rests,
             files.terminal = o \/ (files.terminal = "none" /\ o # "terminal_commit"),
             missionHeld' = 0, missionVerdict' = [missionVerdict EXCEPT ![attempts] = o],
             late' = Mission!NoCall,
             controller' \in [Hosts -> AtWork \cup {"idle", "recover", "gone"}],
             \A g \in Hosts : controller'[g] \notin AtWork
      PROVE  MissionIInv'
  <2>1. attempts \in 1..LastAttempt /\ missionHeld = attempts
    BY <1>1, MissionFacts, MissionNumbers
  <2>2. /\ missionVerdict' \in [1..LastAttempt -> Operations] /\ missionVerdict'[attempts] = o
        /\ \A k \in 1..LastAttempt : k # attempts => missionVerdict'[k] = missionVerdict[k]
    BY <1>1, <2>1, MissionFacts
  <2>3. MissionTyped'
    BY <1>0, <1>1, <2>2, MissionFacts, UnwrittenOK DEF MissionTyped
  <2>4. o = "terminal_commit" => snapshot.complete /\ snapshot.by < attempts
    BY <1>1, MissionFacts DEF AttemptOK
  <2>5. \A k \in 1..LastAttempt : missionVerdict[k] # "terminal_commit"
    BY <1>1, MissionFacts DEF AttemptOK
  <2>6. AttemptOK'
    BY <1>0, <1>1, <2>1, <2>2, <2>4, <2>5, MissionFacts DEF AttemptOK, Rests
  <2>7. ChildOK'
    BY <1>0, <1>1, MissionFacts DEF ChildOK, Unmoved
  <2> QED BY <1>1, <2>3, <2>6, <2>7 DEF MissionIInv
<1>2. CASE Mission!Send(h)
  <2>1. /\ controller[h] = "send" /\ controller' = [controller EXCEPT ![h] = "idle"]
        /\ Mission!Settle(attempts, files.terminal) /\ late' = late
    BY <1>2 DEF Mission!Send, Mission!At, Mission!GoTo
  <2>2. missionHeld # 0 /\ runner = h /\ late = Mission!NoCall /\ files.terminal # "none"
    BY <2>1, MissionFacts DEF AtWork, WorkOK
  <2>3. Rests /\ missionHeld = attempts /\ files.terminal \in Operations
    BY <2>2, MissionFacts DEF AttemptOK
  <2>4. missionHeld' = 0 /\ missionVerdict' = [missionVerdict EXCEPT ![attempts] = files.terminal]
    BY <2>1, <2>3 DEF Mission!Settle
  <2>5. /\ controller' \in [Hosts -> AtWork \cup {"idle", "recover", "gone"}]
        /\ \A g \in Hosts : controller'[g] \notin AtWork
    BY <2>1, <2>2, MissionFacts DEF WorkOK, AtWork
  <2> QED BY <1>1, <2>1, <2>2, <2>3, <2>4, <2>5
<1>3. CASE Mission!Recover(h)
  <2> DEFINE o == IF files.terminal = "none" THEN "terminal_fail" ELSE files.terminal
  <2>1. /\ controller[h] = "recover" /\ controller' = [controller EXCEPT ![h] = "idle"]
        /\ missionHeld # 0 /\ runner = h /\ Rests /\ late = Mission!NoCall /\ late' = late
        /\ Mission!Settle(attempts, o)
    BY <1>3 DEF Mission!Recover, Mission!ToRecover, Mission!At, Mission!GoTo, Mission!Alive, Rests
  <2>2. missionHeld = attempts /\ o \in Operations /\ o # "none"
        /\ (files.terminal = o \/ (files.terminal = "none" /\ o # "terminal_commit"))
    BY <2>1, MissionFacts DEF Operations, Mission!Verdicts
  <2> HIDE DEF o
  <2>3. missionHeld' = 0 /\ missionVerdict' = [missionVerdict EXCEPT ![attempts] = o]
    BY <2>1, <2>2 DEF Mission!Settle
  <2>4. /\ controller' \in [Hosts -> AtWork \cup {"idle", "recover", "gone"}]
        /\ \A g \in Hosts : controller'[g] \notin AtWork
    BY <2>1, MissionFacts DEF WorkOK, AtWork
  <2> QED BY <1>1, <2>1, <2>2, <2>3, <2>4
<1>4. CASE Mission!LateCall
  <2>1. /\ late # Mission!NoCall /\ late' = Mission!NoCall /\ controller' = controller
        /\ Mission!Settle(late.attempt, late.operation) \/ UNCHANGED <<missionHeld, missionVerdict>>
    BY <1>4 DEF Mission!LateCall
  <2>2. /\ missionHeld # 0 /\ missionHeld = attempts /\ late.attempt = attempts
        /\ late.operation = files.terminal /\ files.terminal # "none" /\ Rests
        /\ files.terminal \in Operations
    BY <2>1, MissionFacts DEF AttemptOK
  <2>3. \A g \in Hosts : controller[g] \notin AtWork
    BY <2>1, MissionFacts DEF WorkOK
  <2>4. CASE Mission!Settle(late.attempt, late.operation)
    <3>1. missionHeld' = 0 /\ missionVerdict' = [missionVerdict EXCEPT ![attempts] = files.terminal]
      BY <2>2, <2>4 DEF Mission!Settle
    <3> QED BY <1>1, <2>1, <2>2, <2>3, <3>1, MissionFacts
  <2>5. CASE UNCHANGED <<missionHeld, missionVerdict>>
    <3>1. MissionTyped'
      BY <1>0, <2>1, <2>5, MissionFacts, UnwrittenOK DEF MissionTyped
    <3>2. AttemptOK'
      BY <1>0, <2>1, <2>5, MissionFacts DEF AttemptOK, Rests
    <3>3. ChildOK'
      BY <1>0, <2>5, MissionFacts DEF ChildOK, Unmoved
    <3> QED BY <2>1, <2>3, <3>1, <3>2, <3>3 DEF MissionIInv
  <2> QED BY <2>1, <2>4, <2>5
<1> QED BY <1>2, <1>3, <1>4

\* A child is killed in a recovery or with its host, and a controller dies.
LEMMA KillKeeps ==
  ASSUME MissionIInv, NEW h \in Hosts,
         Mission!RecoverKills(h) \/ Mission!Crash(h) \/ Mission!HostGoes(h)
  PROVE  MissionIInv'
<1>0. UNCHANGED <<missionHeld, attempts, missionVerdict, snapshot, runner, files, commitCall, disk>>
  BY DEF Mission!RecoverKills, Mission!Crash, Mission!HostGoes, Mission!server
<1>1. PICK c \in MissionChildren(attempts) :
        /\ c = [missionChild EXCEPT !.at = "dead"] /\ c.at = "dead" /\ c.prev = missionChild.prev
        /\ c.receipt = missionChild.receipt
  <2>1. "dead" \in ChildStates
    BY DEF ChildStates
  <2> QED BY <2>1, ChildGoes
<1>2. CASE Mission!RecoverKills(h)
  <2>1. /\ controller[h] = "recover" /\ runner = h /\ missionHeld # 0 /\ missionChild' = c
        /\ late' = late /\ controller' = controller
    BY <1>1, <1>2 DEF Mission!RecoverKills, Mission!ToRecover, Mission!At
  <2>2. \A g \in Hosts : controller[g] \notin AtWork
    BY <2>1, MissionFacts DEF WorkOK, AtWork
  <2>3. MissionTyped'
    BY <1>0, <1>1, <2>1, MissionFacts DEF MissionTyped
  <2>4. AttemptOK'
    BY <1>0, <1>1, <2>1, MissionFacts DEF AttemptOK, Rests
  <2>5. ChildOK'
    BY <1>0, <1>1, <2>1, MissionFacts DEF ChildOK, Unmoved, Early
  <2> QED BY <2>1, <2>2, <2>3, <2>4, <2>5 DEF MissionIInv
<1>3. CASE Mission!Crash(h)
  <2>1. /\ controller' = [controller EXCEPT ![h] = "idle"] /\ missionChild' = missionChild
        /\ late' = late \/ (/\ controller[h] = "send"
                            /\ late' = [attempt |-> attempts, operation |-> files.terminal])
    BY <1>3 DEF Mission!Crash, Mission!At, Mission!GoTo
  <2>2. "idle" \notin AtWork
    BY DEF AtWork
  <2>3. CASE late' = late
    BY <1>0, <2>1, <2>2, <2>3, ControlMoves
  <2>4. CASE controller[h] = "send" /\ late' = [attempt |-> attempts, operation |-> files.terminal]
    <3>1. missionHeld # 0 /\ runner = h /\ files.terminal # "none" /\ files.terminal \in Operations
      BY <2>4, MissionFacts DEF AtWork, WorkOK
    <3>2. \A g \in Hosts : controller'[g] \notin AtWork
      BY <2>1, <2>2, <3>1, MissionFacts DEF WorkOK
    <3>3. /\ late' \in [attempt : 0..LastAttempt, operation : Operations]
          /\ late'.attempt = attempts /\ late'.operation = files.terminal
      BY <2>4, <3>1, MissionFacts
    <3>4. MissionTyped'
      BY <1>0, <2>1, <3>3, MissionFacts DEF MissionTyped
    <3>5. AttemptOK'
      BY <1>0, <2>1, <3>1, <3>3, MissionFacts DEF AttemptOK, Rests
    <3>6. ChildOK'
      BY <1>0, <2>1, MissionFacts DEF ChildOK, Unmoved
    <3> QED BY <3>2, <3>4, <3>5, <3>6 DEF MissionIInv
  <2> QED BY <2>1, <2>3, <2>4
<1>4. CASE Mission!HostGoes(h)
  <2>1. /\ controller' = [controller EXCEPT ![h] = "gone"] /\ late' = late
        /\ missionChild' = IF runner = h THEN c ELSE missionChild
    BY <1>1, <1>4 DEF Mission!HostGoes, Mission!GoTo
  <2>2. "gone" \notin AtWork
    BY DEF AtWork
  <2>3. CASE missionChild' = missionChild
    BY <1>0, <2>1, <2>2, <2>3, ControlMoves
  <2>4. CASE runner = h /\ missionChild' = c
    <3>1. \A g \in Hosts : controller'[g] \notin AtWork
      BY <2>1, <2>2, <2>4, MissionFacts DEF WorkOK
    <3>2. MissionTyped'
      BY <1>0, <1>1, <2>1, <2>4, MissionFacts DEF MissionTyped
    <3>3. AttemptOK'
      BY <1>0, <1>1, <2>1, <2>4, MissionFacts DEF AttemptOK, Rests
    <3>4. ChildOK'
      BY <1>0, <1>1, <2>4, MissionFacts DEF ChildOK, Unmoved, Early
    <3> QED BY <3>1, <3>2, <3>3, <3>4 DEF MissionIInv
  <2> QED BY <2>1, <2>3, <2>4
<1> QED BY <1>2, <1>3, <1>4

\* Every step of the mission keeps the invariant, and the snapshot only grows.
LEMMA MissionNext ==
  ASSUME MissionIInv, [Mission!Next]_mission
  PROVE  MissionIInv' /\ (snapshot' # snapshot => Adds(snapshot', snapshot))
<1>1. CASE UNCHANGED mission
  <2>1. UNCHANGED <<missionHeld, attempts, missionVerdict, snapshot, runner, files, missionChild,
                    commitCall, late, disk, controller>>
    BY <1>1 DEF mission
  <2>2. MissionTyped' /\ AttemptOK' /\ ChildOK'
    BY <2>1, MissionFacts DEF MissionTyped, AttemptOK, ChildOK, Rests, Unmoved, MissionIInv
  <2>3. \A g \in Hosts : controller'[g] \in AtWork => WorkOK(g)'
    BY <2>1, MissionFacts DEF WorkOK, Unmoved
  <2> QED BY <2>1, <2>2, <2>3 DEF MissionIInv
<1>2. ASSUME NEW h \in Hosts,
             \/ Mission!Control(h) \/ Mission!TickUnheard(h) \/ Mission!LaunchFails(h)
             \/ Mission!RecordFails(h) \/ Mission!SendFails(h) \/ Mission!Crash(h) \/ Mission!HostGoes(h)
      PROVE  MissionIInv' /\ snapshot' = snapshot
  <2>1. snapshot' = snapshot
    BY <1>2 DEF Mission!Control, Mission!TickUnheard, Mission!LaunchFails, Mission!RecordFails,
                Mission!SendFails, Mission!Crash, Mission!HostGoes, Mission!Tick, Mission!Reserve,
                Mission!TickRecover, Mission!Launch, Mission!Record, Mission!Reap,
                Mission!WriteTerminal, Mission!Send, Mission!RecoverKills, Mission!Unrecoverable,
                Mission!Recover, Mission!server
  <2>2. MissionIInv'
    BY <1>2, ControlSteps, ReserveKeeps, LaunchKeeps, SettleKeeps, KillKeeps DEF Mission!Control
  <2> QED BY <2>1, <2>2
<1>3. CASE Mission!Child \/ Mission!PreparationYields \/ Mission!ChildDies
  <2>1. CASE Mission!Publish
    BY <2>1, StatementSteps
  <2>2. CASE ~Mission!Publish
    <3>1. MissionIInv'
      BY <1>3, <2>2, RestoreSteps, WorkSteps, PublishSteps, ChildStops DEF Mission!Child
    <3>2. snapshot' = snapshot
      BY <1>3, <2>2 DEF Mission!Child, Mission!RestorePreparing, Mission!RestorePending,
         Mission!RestoreNothing, Mission!Work, Mission!Account, Mission!Prepare, Mission!Seal,
         Mission!Unpend, Mission!Clear, Mission!PreparationYields, Mission!ChildDies, Mission!server
    <3> QED BY <3>1, <3>2
  <2> QED BY <2>1, <2>2
<1>4. CASE Mission!Commit \/ Mission!CommitFails
  BY <1>4, StatementSteps
<1>5. CASE Mission!LateCall
  <2>1. \E h \in Hosts : TRUE
    BY MissionFacts
  <2>2. snapshot' = snapshot
    BY <1>5 DEF Mission!LateCall
  <2> QED BY <1>5, <2>1, <2>2, SettleKeeps
<1> QED BY <1>1, <1>2, <1>3, <1>4, <1>5 DEF Mission!Next

\* The invariant says what the runs check.
LEMMA MissionTold == MissionIInv => SegmentsSettled /\ Mission!TypeOK
<1> SUFFICES ASSUME MissionIInv PROVE SegmentsSettled /\ Mission!TypeOK
  OBVIOUS
<1>1. SegmentsSettled
  <2>1. Mission!SettledIdle
    BY MissionFacts DEF Mission!SettledIdle, Mission!Alive, AttemptOK, Rests
  <2>2. Mission!TerminalAsWritten
    BY MissionFacts DEF Mission!TerminalAsWritten, AttemptOK
  <2>3. 1..attempts \subseteq 1..LastAttempt
    BY MissionFacts, MissionNumbers
  <2>4. Mission!VerifiedFromServer
    BY <2>3, MissionFacts DEF Mission!VerifiedFromServer, AttemptOK
  <2> QED BY <2>1, <2>2, <2>4 DEF SegmentsSettled
<1>2. Mission!TypeOK
  <2>1. \A k \in KnownTo(attempts) : k \in Mission!Checkpoints /\ Len(k.done) <= Units
    BY DEF KnownTo, Mission!Checkpoints
  <2>2. \A h \in Hosts : /\ disk[h].output \in KnownTo(attempts)
                         /\ disk[h].preparing.cp \in KnownTo(attempts)
                         /\ disk[h].pending.cp \in KnownTo(attempts)
    BY MissionFacts DEF MissionDisks, Additions
  <2>3. files.identity \in BOOLEAN /\ files.terminal \in Operations /\ late.operation \in Operations
    BY MissionFacts
  <2> QED BY <2>1, <2>2, <2>3, MissionFacts DEF Mission!TypeOK, Operations, ChildStates, Early
<1> QED BY <1>1, <1>2

-----------------------------------------------------------------------------
(***************************************************************************)
(* The source supervisor                                                   *)
(***************************************************************************)
LaunchPcs == {"writing", "clearing", "launch", "spawn", "record", "watch", "settle"}
FinishPcs == {"finish", "terminal", "repair", "reserve", "commit", "drain"}
IdlePcs == {"control", "poll", "start", "ask"}
SupervisorPcs == LaunchPcs \cup FinishPcs \cup IdlePcs \cup {"top", "acked"}
Requests == Supervisor!Terminal \cup {"none"}
ControlActions == {"POLL", "START", "STATUS"}
RepairActions == {"RESERVE", "COMMIT", "DRAIN"}

AttemptFiles ==
  [id : 0..MaxCycles, files : {"none", "made", "job", "acked", "emptied"},
   launched : BOOLEAN, recorded : BOOLEAN, request : Requests, tried : BOOLEAN,
   reserves : 0..2, drained : BOOLEAN, acks : SUBSET {"attempt", "maintenance"}]
ServerCalls ==
  [at : {"none", "request", "recorded", "dispatched", "carried", "answered"},
   dir : {"control", "attempt", "maintenance"},
   action : ControlActions \cup RepairActions \cup Supervisor!Terminal \cup {"HEARTBEAT"},
   reply : {"none", "acquired", "closed", "ack", "held", "other"},
   alive : BOOLEAN, heard : BOOLEAN]
Sources ==
  [at : {"none", "spawned", "running", "dead"}, journal : BOOLEAN,
   receipt : {"none", "success", "failure"}, guarded : BOOLEAN]

SupervisorTyped ==
  /\ pc \in SupervisorPcs /\ after \in {"top", "launch"} /\ cycle \in 0..MaxCycles
  /\ control \in {"none", "open", "intent", "asked", "sealed"}
  /\ attempt \in AttemptFiles /\ call \in ServerCalls /\ child \in Sources
  /\ statement \in BOOLEAN /\ held \in 0..MaxCycles
  /\ verdict \in [1..MaxCycles -> Requests] /\ sent \in {0, 1}

\* The server has settled the attempt.
Settled == attempt.id # 0 /\ verdict[attempt.id] # "none"

\* What the attempt's files say of it, the server and the child.
FilesOK ==
  /\ control # "none" => cycle # 0
  /\ attempt.id <= cycle /\ (attempt.files # "none" => attempt.id # 0)
  /\ Settled => verdict[attempt.id] = attempt.request
  /\ attempt.id # 0 /\ attempt.files \notin {"made", "job"} => Settled
  /\ attempt.acks # {} => Settled
  /\ attempt.request # "none" => /\ Supervisor!Quiet
                                 /\ attempt.request = "FINISH" => child.receipt = "success"
  /\ ~attempt.launched => child.at = "none" /\ ~statement
  /\ attempt.launched => attempt.id # 0
  /\ ~attempt.tried => sent = 0

\* The reservation can be found, and no attempt is settled that was not made.
ReservationOK ==
  /\ held # 0 => verdict[held] = "none" /\ Supervisor!Traceable
  /\ \A k \in 1..MaxCycles : verdict[k] # "none" => k <= attempt.id

\* What the call that is not complete is about.
CallOK ==
  /\ call.at = "none" => call = Supervisor!NoCall
  /\ call.dir = "control" <=> call.action \in ControlActions
  /\ call.dir = "maintenance" <=> call.action \in RepairActions
  /\ call.dir # "control" => attempt.files = "job"
  /\ call.action \in Supervisor!Terminal =>
       /\ attempt.tried /\ call.action = attempt.request
       /\ call.at \in {"request", "recorded"} => sent = 0
  /\ call.dir = "maintenance" => attempt.request # "none"
  /\ call.reply = "ack" => call.dir # "control" /\ Settled

\* A call of the control directory, and what its answer says of the reservation.
ControlOK == call.at # "none" /\ call.dir = "control" =>
  /\ cycle # 0 /\ attempt.files \in {"none", "acked"}
  /\ call.action = "POLL" => control = "open" /\ attempt.id < cycle
  /\ call.action = "START" => control = "intent" /\ attempt.id < cycle
  /\ call.action = "STATUS" => control = "asked" /\ call.reply # "acquired"
  /\ call.at \in {"carried", "answered"} => (call.reply \in {"acquired", "held"} <=> held = cycle)
  /\ call.action = "START" /\ call.at \notin {"carried", "answered"} => held # cycle

\* Which call the supervisor waits for.
HeardOK == call.heard =>
  /\ pc \in {"poll", "start", "ask", "watch", "terminal", "reserve", "commit", "drain"}
  /\ pc = "poll" => call.action = "POLL"
  /\ pc = "start" => call.action = "START"
  /\ pc = "ask" => call.action = "STATUS"
  /\ pc = "watch" => call.action = "HEARTBEAT"
  /\ pc = "terminal" => call.action \in Supervisor!Terminal
  /\ pc = "reserve" => call.action = "RESERVE"
  /\ pc = "commit" => call.action = "COMMIT"
  /\ pc = "drain" => call.action = "DRAIN"

\* Where the supervisor is with the attempt.
PlaceOK ==
  /\ pc \in IdlePcs => attempt.files \in {"none", "acked"}
  /\ pc = "writing" => attempt.files = "made"
  /\ pc \in (LaunchPcs \ {"writing"}) \cup FinishPcs => attempt.files = "job"
  /\ pc = "acked" => attempt.files \in {"acked", "emptied"}
  /\ pc \in {"writing", "clearing"} => attempt.id = cycle
  /\ pc \in LaunchPcs => attempt.request = "none"
  /\ pc \in {"writing", "clearing", "launch"} => ~attempt.launched
  /\ pc \in {"spawn", "record", "watch"} => attempt.launched
  /\ pc \in FinishPcs => attempt.request # "none"
  /\ pc \in {"writing", "clearing", "launch", "spawn", "record", "settle", "repair", "acked"} =>
       call = Supervisor!NoCall

SupervisorIInv ==
  SupervisorTyped /\ FilesOK /\ ReservationOK /\ CallOK /\ ControlOK /\ HeardOK /\ PlaceOK

\* The bound on control directories is a number.
LEMMA CyclesNumber == MaxCycles \in Nat /\ 1 <= MaxCycles
BY WorkerBounds

\* Having no call, no child and no attempt is well typed.
LEMMA NothingOK ==
  /\ Supervisor!NoCall \in ServerCalls /\ Supervisor!NoCall.at = "none"
  /\ Supervisor!NoCall.dir = "control" /\ Supervisor!NoCall.action = "POLL"
  /\ Supervisor!NoCall.reply = "none" /\ Supervisor!NoCall.heard = FALSE
  /\ Supervisor!NoChild \in Sources /\ Supervisor!NoChild.at = "none"
  /\ Supervisor!NoAttempt \in AttemptFiles
BY CyclesNumber DEF Supervisor!NoCall, ServerCalls, Supervisor!NoChild, Sources,
   Supervisor!NoAttempt, AttemptFiles, ControlActions, Requests

\* The supervisor's invariant holds at the start.
LEMMA SupervisorInit == Supervisor!Init => SupervisorIInv
<1> SUFFICES ASSUME Supervisor!Init PROVE SupervisorIInv
  OBVIOUS
<1>1. /\ pc = "top" /\ after = "top" /\ cycle = 0 /\ control = "none"
      /\ attempt = Supervisor!NoAttempt /\ call = Supervisor!NoCall /\ child = Supervisor!NoChild
      /\ statement = FALSE /\ held = 0 /\ verdict = [k \in 1..MaxCycles |-> "none"] /\ sent = 0
  BY DEF Supervisor!Init
<1>2. SupervisorTyped
  <2>1. verdict \in [1..MaxCycles -> Requests]
    BY <1>1 DEF Requests
  <2>2. pc \in SupervisorPcs /\ cycle \in 0..MaxCycles /\ held \in 0..MaxCycles
    BY <1>1, CyclesNumber DEF SupervisorPcs
  <2> QED BY <1>1, <2>1, <2>2, NothingOK DEF SupervisorTyped
<1>3. FilesOK
  BY <1>1, NothingOK DEF FilesOK, Supervisor!NoAttempt, Settled
<1>4. ReservationOK
  BY <1>1 DEF ReservationOK
<1>5. CallOK /\ ControlOK /\ HeardOK
  BY <1>1, NothingOK
  DEF CallOK, ControlOK, HeardOK, ControlActions, RepairActions, Supervisor!Terminal
<1>6. PlaceOK
  BY <1>1, NothingOK DEF PlaceOK, IdlePcs, LaunchPcs, FinishPcs
<1> QED BY <1>2, <1>3, <1>4, <1>5, <1>6 DEF SupervisorIInv

\* What the parts of the supervisor's state are.
LEMMA SupervisorFacts ==
  ASSUME SupervisorIInv
  PROVE  /\ SupervisorTyped /\ FilesOK /\ ReservationOK /\ CallOK /\ ControlOK /\ HeardOK /\ PlaceOK
         /\ pc \in SupervisorPcs /\ cycle \in 0..MaxCycles /\ cycle \in Nat
         /\ attempt \in AttemptFiles /\ call \in ServerCalls /\ child \in Sources
         /\ attempt.id \in 0..MaxCycles /\ attempt.id \in Nat
         /\ verdict \in [1..MaxCycles -> Requests] /\ held \in 0..MaxCycles
         /\ attempt.acks \subseteq {"attempt", "maintenance"}
BY CyclesNumber DEF SupervisorIInv, SupervisorTyped, AttemptFiles

\* The supervisor goes somewhere else, and nothing happens.
LEMMA RestsAt ==
  ASSUME SupervisorIInv, ~call.heard, PlaceOK', pc' \in SupervisorPcs,
         UNCHANGED <<after, cycle, control, attempt, call, child, statement, held, verdict, sent>>
  PROVE  SupervisorIInv'
<1>0. SupervisorTyped /\ FilesOK /\ ReservationOK /\ CallOK /\ ControlOK
  BY SupervisorFacts
<1>1. SupervisorTyped'
  BY <1>0 DEF SupervisorTyped
<1>2. FilesOK' /\ ReservationOK'
  BY <1>0 DEF FilesOK, Settled, Supervisor!Quiet, Supervisor!Alive, ReservationOK,
              Supervisor!Traceable
<1>3. CallOK' /\ ControlOK' /\ HeardOK'
  BY <1>0 DEF CallOK, Settled, ControlOK, HeardOK
<1> QED BY <1>1, <1>2, <1>3 DEF SupervisorIInv

\* A call goes on, or is given up: of what it is about, nothing changes.
LEMMA MovedCall ==
  ASSUME SupervisorIInv, call.at # "none",
         call' \in ServerCalls, call'.dir = call.dir, call'.action = call.action,
         call'.reply = call.reply, call'.heard => call.heard /\ pc' = pc,
         call'.at # "none", pc' \in {pc, "top"},
         call'.at \in {"carried", "answered"} <=> call.at \in {"carried", "answered"},
         call'.at \in {"request", "recorded"} => call.at \in {"request", "recorded"},
         sent' = sent \/ (sent' = 1 /\ attempt.tried /\ call'.at = "dispatched"),
         UNCHANGED <<after, cycle, control, attempt, child, statement, held, verdict>>
  PROVE  SupervisorIInv'
<1>0. /\ SupervisorTyped /\ FilesOK /\ ReservationOK /\ CallOK /\ ControlOK /\ HeardOK /\ PlaceOK
      /\ Supervisor!NoCall.at = "none"
  BY SupervisorFacts, NothingOK
<1>1. SupervisorTyped'
  BY <1>0 DEF SupervisorTyped, SupervisorPcs
<1>2. FilesOK'
  BY <1>0 DEF FilesOK, Settled, Supervisor!Quiet, Supervisor!Alive
<1>3. ReservationOK'
  BY <1>0 DEF ReservationOK, Supervisor!Traceable
<1>4. CallOK'
  BY <1>0 DEF CallOK, Settled
<1>5. ControlOK'
  BY <1>0 DEF ControlOK
<1>6. HeardOK'
  BY <1>0 DEF HeardOK
<1>7. PlaceOK'
  BY <1>0 DEF PlaceOK, IdlePcs, LaunchPcs, FinishPcs
<1> QED BY <1>1, <1>2, <1>3, <1>4, <1>5, <1>6, <1>7 DEF SupervisorIInv

\* A helper is started, sends, answers or fails, or the supervisor dies beside it.
LEMMA CallMoves ==
  ASSUME SupervisorIInv,
         \/ Supervisor!StartHelper \/ Supervisor!StartFails \/ Supervisor!Dispatch
         \/ Supervisor!Answer \/ Supervisor!CallFails \/ Supervisor!Crash
  PROVE  SupervisorIInv'
<1>0. /\ SupervisorTyped /\ CallOK /\ HeardOK /\ PlaceOK /\ call \in ServerCalls
      /\ Supervisor!NoCall.at = "none" /\ Supervisor!NoCall.heard = FALSE
      /\ Supervisor!NoCall \in ServerCalls
  BY SupervisorFacts, NothingOK
<1>1. CASE Supervisor!StartHelper
  <2>1. /\ call' = [call EXCEPT !.at = "recorded", !.alive = TRUE] /\ call.at = "request"
        /\ UNCHANGED <<pc, after, cycle, control, attempt, child, statement, held, verdict, sent>>
    BY <1>1 DEF Supervisor!StartHelper, Supervisor!local, Supervisor!server
  <2>2. /\ call' \in ServerCalls /\ call'.dir = call.dir /\ call'.action = call.action
        /\ call'.reply = call.reply /\ call'.heard = call.heard /\ call'.at = "recorded"
    BY <1>0, <2>1 DEF ServerCalls
  <2> QED BY <2>1, <2>2, MovedCall
<1>2. CASE Supervisor!StartFails \/ Supervisor!CallFails
  <2>1. /\ call.at # "none"
        /\ \E a \in BOOLEAN : call' = [call EXCEPT !.alive = a, !.heard = FALSE]
        /\ UNCHANGED <<pc, after, cycle, control, attempt, child, statement, held, verdict, sent>>
    <3>1. call = [call EXCEPT !.alive = call.alive] /\ call.alive \in BOOLEAN
      BY <1>0 DEF ServerCalls
    <3> QED BY <1>2, <3>1 DEF Supervisor!StartFails, Supervisor!CallFails, Supervisor!local,
                              Supervisor!server
  <2>2. /\ call' \in ServerCalls /\ call'.dir = call.dir /\ call'.action = call.action
        /\ call'.reply = call.reply /\ call'.heard = FALSE /\ call'.at = call.at
    BY <1>0, <2>1 DEF ServerCalls
  <2> QED BY <2>1, <2>2, MovedCall
<1>3. CASE Supervisor!Dispatch
  <2>1. /\ call' = [call EXCEPT !.at = "dispatched"] /\ call.at = "recorded"
        /\ sent' = IF call.action \in Supervisor!Terminal THEN sent + 1 ELSE sent
        /\ UNCHANGED <<pc, after, cycle, control, attempt, child, statement, held, verdict>>
    BY <1>3 DEF Supervisor!Dispatch, Supervisor!local, Supervisor!server
  <2>2. /\ call' \in ServerCalls /\ call'.dir = call.dir /\ call'.action = call.action
        /\ call'.reply = call.reply /\ call'.heard = call.heard /\ call'.at = "dispatched"
    BY <1>0, <2>1 DEF ServerCalls
  <2>3. sent' = sent \/ (sent' = 1 /\ attempt.tried)
    BY <1>0, <2>1 DEF CallOK
  <2> QED BY <2>1, <2>2, <2>3, MovedCall
<1>4. CASE Supervisor!Answer
  <2>1. /\ call' = [call EXCEPT !.at = "answered", !.alive = FALSE] /\ call.at = "carried"
        /\ UNCHANGED <<pc, after, cycle, control, attempt, child, statement, held, verdict, sent>>
    BY <1>4 DEF Supervisor!Answer, Supervisor!local, Supervisor!server
  <2>2. /\ call' \in ServerCalls /\ call'.dir = call.dir /\ call'.action = call.action
        /\ call'.reply = call.reply /\ call'.heard = call.heard /\ call'.at = "answered"
    BY <1>0, <2>1 DEF ServerCalls
  <2> QED BY <2>1, <2>2, MovedCall
<1>5. CASE Supervisor!Crash
  <2>1. /\ call' = [call EXCEPT !.heard = FALSE] /\ pc' = "top"
        /\ UNCHANGED <<after, cycle, control, attempt, child, statement, held, verdict, sent>>
    BY <1>5 DEF Supervisor!Crash, Supervisor!GoTo, Supervisor!local, Supervisor!server
  <2>2. /\ call' \in ServerCalls /\ call'.dir = call.dir /\ call'.action = call.action
        /\ call'.reply = call.reply /\ call'.heard = FALSE /\ call'.at = call.at
    BY <1>0, <2>1 DEF ServerCalls
  <2>3. CASE call.at # "none"
    BY <2>1, <2>2, <2>3, MovedCall
  <2>4. CASE call.at = "none"
    <3>1. call = Supervisor!NoCall
      BY <1>0, <2>4 DEF CallOK
    <3>2. call' = call
      BY <1>0, <2>1, <3>1 DEF ServerCalls
    <3>3. PlaceOK'
      BY <2>1 DEF PlaceOK, IdlePcs, LaunchPcs, FinishPcs
    <3> QED BY <1>0, <2>1, <3>1, <3>2, <3>3, RestsAt DEF SupervisorPcs
  <2> QED BY <2>3, <2>4
<1> QED BY <1>1, <1>2, <1>3, <1>4, <1>5

\* The server answers without settling anything; it may give the reservation away.
LEMMA Replied ==
  ASSUME SupervisorIInv, call.at = "dispatched",
         NEW reply \in {"none", "acquired", "closed", "ack", "held", "other"},
         call' = [call EXCEPT !.at = "carried", !.reply = reply],
         reply = "ack" => call.dir # "control" /\ Settled,
         call.dir = "control" => (reply \in {"acquired", "held"} <=> held' = cycle),
         call.action = "STATUS" => reply # "acquired",
         held' = held \/ (call.action = "START" /\ held' = cycle),
         UNCHANGED <<pc, after, cycle, control, attempt, child, statement, verdict, sent>>
  PROVE  SupervisorIInv'
<1>0. /\ SupervisorTyped /\ FilesOK /\ ReservationOK /\ CallOK /\ ControlOK /\ HeardOK /\ PlaceOK
      /\ call \in ServerCalls /\ Supervisor!NoCall.at = "none" /\ attempt.id \in Nat /\ cycle \in Nat
      /\ cycle \in 0..MaxCycles /\ held \in 0..MaxCycles
  BY SupervisorFacts, NothingOK
<1>1. /\ call' \in ServerCalls /\ call'.dir = call.dir /\ call'.action = call.action
      /\ call'.reply = reply /\ call'.heard = call.heard /\ call'.at = "carried"
  BY <1>0 DEF ServerCalls
<1>2. SupervisorTyped'
  BY <1>0, <1>1 DEF SupervisorTyped
<1>3. FilesOK'
  BY <1>0 DEF FilesOK, Settled, Supervisor!Quiet, Supervisor!Alive
<1>4. ReservationOK'
  <2>1. CASE held' = held
    BY <1>0, <2>1 DEF ReservationOK, Supervisor!Traceable
  <2>2. CASE call.action = "START" /\ held' = cycle
    <3>1. call.dir = "control" /\ control = "intent" /\ attempt.id < cycle /\ cycle # 0
      BY <1>0, <2>2 DEF CallOK, ControlOK, ControlActions
    <3>2. verdict[cycle] = "none"
      BY <1>0, <3>1 DEF ReservationOK
    <3> QED BY <1>0, <2>2, <3>1, <3>2 DEF ReservationOK, Supervisor!Traceable
  <2> QED BY <2>1, <2>2
<1>5. CallOK'
  BY <1>0, <1>1 DEF CallOK, Settled
<1>6. ControlOK'
  BY <1>0, <1>1 DEF ControlOK
<1>7. HeardOK'
  BY <1>0, <1>1 DEF HeardOK
<1>8. PlaceOK'
  BY <1>0, <1>1 DEF PlaceOK
<1> QED BY <1>2, <1>3, <1>4, <1>5, <1>6, <1>7, <1>8 DEF SupervisorIInv

\* The server settles the attempt as its terminal request says, and gives the
\* reservation back.
LEMMA SettledBy ==
  ASSUME SupervisorIInv, call.at = "dispatched", call.dir # "control", attempt.request # "none",
         call' = [call EXCEPT !.at = "carried", !.reply = "ack"],
         verdict' = [verdict EXCEPT ![attempt.id] = attempt.request], held' = 0,
         UNCHANGED <<pc, after, cycle, control, attempt, child, statement, sent>>
  PROVE  SupervisorIInv'
<1>0. /\ SupervisorTyped /\ FilesOK /\ ReservationOK /\ CallOK /\ ControlOK /\ HeardOK /\ PlaceOK
      /\ call \in ServerCalls /\ attempt \in AttemptFiles /\ Supervisor!NoCall.at = "none"
      /\ verdict \in [1..MaxCycles -> Requests] /\ attempt.id \in 0..MaxCycles
  BY SupervisorFacts, NothingOK
<1>1. /\ call' \in ServerCalls /\ call'.dir = call.dir /\ call'.action = call.action
      /\ call'.reply = "ack" /\ call'.heard = call.heard /\ call'.at = "carried"
  BY <1>0 DEF ServerCalls
<1>2. /\ attempt.id \in 1..MaxCycles /\ attempt.request \in Requests
  BY <1>0 DEF CallOK, FilesOK, AttemptFiles
<1>3. /\ verdict' \in [1..MaxCycles -> Requests] /\ verdict'[attempt.id] = attempt.request
      /\ \A k \in 1..MaxCycles : k # attempt.id => verdict'[k] = verdict[k]
  BY <1>0, <1>2
<1>4. SupervisorTyped'
  BY <1>0, <1>1, <1>3, CyclesNumber DEF SupervisorTyped
<1>5. FilesOK'
  BY <1>0, <1>2, <1>3 DEF FilesOK, Settled, Supervisor!Quiet, Supervisor!Alive
<1>6. ReservationOK'
  BY <1>0, <1>2, <1>3 DEF ReservationOK
<1>7. CallOK'
  BY <1>0, <1>1, <1>2, <1>3 DEF CallOK, Settled
<1>8. ControlOK'
  BY <1>0, <1>1 DEF ControlOK
<1>9. HeardOK'
  BY <1>0, <1>1 DEF HeardOK
<1>10. PlaceOK'
  BY <1>0, <1>1 DEF PlaceOK
<1> QED BY <1>4, <1>5, <1>6, <1>7, <1>8, <1>9, <1>10 DEF SupervisorIInv

\* The server carries a call out.
LEMMA CarryKeeps == ASSUME SupervisorIInv, Supervisor!Carry PROVE SupervisorIInv'
<1> DEFINE k == IF call.dir = "control" THEN cycle ELSE attempt.id
           Says(reply) == call' = [call EXCEPT !.at = "carried", !.reply = reply]
<1>0. /\ CallOK /\ ControlOK /\ FilesOK /\ ReservationOK /\ call \in ServerCalls
      /\ cycle \in 0..MaxCycles /\ attempt.id \in 0..MaxCycles /\ attempt \in AttemptFiles
  BY SupervisorFacts
<1>1. /\ call.at = "dispatched"
      /\ UNCHANGED <<pc, after, cycle, control, attempt, child, statement, sent>>
  BY DEF Supervisor!Carry, Supervisor!local
<1>2. /\ call.dir = "control" <=> call.action \in ControlActions
      /\ call.dir = "control" => cycle # 0 /\ (call.action = "START" => held # cycle)
  BY <1>0, <1>1 DEF ControlOK, CallOK
<1>3. CASE /\ call.action = "START" /\ held = 0 /\ held' = k /\ UNCHANGED verdict /\ Says("acquired")
  BY <1>1, <1>2, <1>3, Replied DEF ControlActions
<1>4. CASE \/ /\ call.action = "RESERVE" /\ verdict[k] = "none" /\ UNCHANGED <<held, verdict>>
              /\ Says("acquired")
           \/ /\ call.action \in {"START", "RESERVE", "DRAIN"} /\ verdict[k] = "none"
              /\ UNCHANGED <<held, verdict>> /\ Says("closed")
  BY <1>1, <1>2, <1>4, Replied DEF ControlActions
<1>5. CASE call.action \in Supervisor!Terminal /\ verdict[k] = "none"
           /\ verdict' = [verdict EXCEPT ![k] = call.action] /\ held' = 0 /\ Says("ack")
  <2>1. call.dir # "control" /\ attempt.request = call.action /\ call.action # "none"
    BY <1>0, <1>2, <1>5 DEF CallOK, ControlActions, Supervisor!Terminal
  <2> QED BY <1>1, <1>5, <2>1, SettledBy
<1>6. CASE call.action = "COMMIT" /\ verdict[k] = "none"
           /\ verdict' = [verdict EXCEPT ![k] = attempt.request] /\ held' = 0 /\ Says("ack")
  <2>1. call.dir # "control" /\ attempt.request # "none"
    BY <1>0, <1>2, <1>6 DEF CallOK, ControlActions, RepairActions
  <2> QED BY <1>1, <1>6, <2>1, SettledBy
<1>7. CASE call.action \in {"POLL", "STATUS", "HEARTBEAT"} /\ UNCHANGED <<held, verdict>>
           /\ Says(IF held = k THEN "held" ELSE IF held # 0 THEN "other" ELSE "none")
  <2>1. PICK reply \in {"held", "other", "none"} : Says(reply) /\ (reply = "held" <=> held = k)
    BY <1>7
  <2> QED BY <1>1, <1>2, <1>7, <2>1, Replied
<1>8. CASE call.action \notin {"POLL", "START", "STATUS", "HEARTBEAT"} /\ verdict[k] # "none"
           /\ UNCHANGED <<held, verdict>> /\ Says("ack")
  <2>1. call.dir # "control" /\ Settled
    BY <1>0, <1>2, <1>8 DEF ControlActions, Settled, CallOK, FilesOK
  <2> QED BY <1>1, <1>8, <2>1, Replied
<1> QED
  BY <1>3, <1>4, <1>5, <1>6, <1>7, <1>8 DEF Supervisor!Carry, Supervisor!Settle, Supervisor!server

\* A call ends.  Its acknowledgement may stay, the control directory may be given up,
\* and the child may be killed.
LEMMA ClosedCall ==
  ASSUME SupervisorIInv, call.at # "none", call' = Supervisor!NoCall,
         \/ attempt' = attempt
         \/ /\ attempt' = [attempt EXCEPT !.acks = @ \cup {call.dir}] /\ call.reply = "ack",
         \/ control' = control
         \/ control' \in {"none", "sealed"} /\ held # cycle /\ cycle # 0,
         \/ UNCHANGED child
         \/ /\ child' \in Sources /\ child'.at = "dead" /\ child'.receipt = child.receipt
            /\ attempt.launched,
         pc' \in {pc, "top"},
         UNCHANGED <<after, cycle, statement, held, verdict, sent>>
  PROVE  SupervisorIInv'
<1>0. /\ SupervisorTyped /\ FilesOK /\ ReservationOK /\ CallOK /\ ControlOK /\ HeardOK /\ PlaceOK
      /\ call \in ServerCalls /\ attempt \in AttemptFiles
      /\ Supervisor!NoCall.at = "none" /\ Supervisor!NoCall \in ServerCalls
      /\ Supervisor!NoCall.dir = "control" /\ Supervisor!NoCall.action = "POLL"
      /\ Supervisor!NoCall.reply = "none" /\ Supervisor!NoCall.heard = FALSE
  BY SupervisorFacts, NothingOK
<1>1. /\ attempt' \in AttemptFiles /\ attempt'.id = attempt.id /\ attempt'.files = attempt.files
      /\ attempt'.launched = attempt.launched /\ attempt'.request = attempt.request
      /\ attempt'.tried = attempt.tried /\ (attempt'.acks # {} => attempt.acks # {} \/ Settled)
  <2>1. CASE attempt' = attempt
    BY <1>0, <2>1
  <2>2. CASE attempt' = [attempt EXCEPT !.acks = @ \cup {call.dir}] /\ call.reply = "ack"
    <3>1. call.dir \in {"attempt", "maintenance"} /\ Settled
      BY <1>0, <2>2 DEF CallOK, ServerCalls
    <3> QED BY <1>0, <2>2, <3>1 DEF AttemptFiles
  <2> QED BY <2>1, <2>2
<1>2. SupervisorTyped'
  BY <1>0, <1>1 DEF SupervisorTyped, SupervisorPcs
<1>3. FilesOK'
  BY <1>0, <1>1 DEF FilesOK, Settled, Supervisor!Quiet, Supervisor!Alive
<1>4. ReservationOK'
  BY <1>0, <1>1 DEF ReservationOK, Supervisor!Traceable
<1>5. CallOK'
  BY <1>0, <1>1 DEF CallOK, ControlActions, RepairActions, Supervisor!Terminal
<1>6. ControlOK' /\ HeardOK'
  BY <1>0 DEF ControlOK, HeardOK
<1>7. PlaceOK'
  BY <1>0, <1>1 DEF PlaceOK, IdlePcs, LaunchPcs, FinishPcs
<1> QED BY <1>2, <1>3, <1>4, <1>5, <1>6, <1>7 DEF SupervisorIInv

\* A call that has failed, was refused or is reconciled ends.
LEMMA CallEnds ==
  ASSUME SupervisorIInv,
         \/ Supervisor!CallFailed \/ Supervisor!Reconcile \/ Supervisor!PollRefused
         \/ Supervisor!StartClosed \/ Supervisor!AskedNothing \/ Supervisor!RepairClosed
         \/ Supervisor!HeartbeatOver
  PROVE  SupervisorIInv'
<1>0. /\ SupervisorTyped /\ FilesOK /\ ReservationOK /\ CallOK /\ ControlOK /\ HeardOK /\ PlaceOK
      /\ call \in ServerCalls /\ attempt \in AttemptFiles /\ child \in Sources
  BY SupervisorFacts
<1>1. CASE Supervisor!CallFailed
  BY <1>1, ClosedCall DEF Supervisor!CallFailed, Supervisor!Failed, Supervisor!Completed,
                          Supervisor!GoTo, Supervisor!server
<1>2. CASE Supervisor!Reconcile
  <2>1. CASE call.alive
    <3>1. /\ call' = [call EXCEPT !.alive = FALSE, !.heard = FALSE] /\ call.at # "none"
          /\ UNCHANGED <<pc, after, cycle, control, attempt, child, statement, held, verdict, sent>>
      BY <1>2, <2>1 DEF Supervisor!Reconcile, Supervisor!server
    <3>2. /\ call' \in ServerCalls /\ call'.dir = call.dir /\ call'.action = call.action
          /\ call'.reply = call.reply /\ call'.heard = FALSE /\ call'.at = call.at
      BY <1>0, <3>1 DEF ServerCalls
    <3> QED BY <3>1, <3>2, MovedCall
  <2>2. CASE ~call.alive
    BY <1>2, <2>2, ClosedCall DEF Supervisor!Reconcile, Supervisor!Completed, Supervisor!server
  <2> QED BY <2>1, <2>2
<1>3. CASE Supervisor!PollRefused
  <2>1. held # cycle /\ cycle # 0
    <3>1. call.action = "POLL" /\ call.at # "none"
      BY <1>0, <1>3 DEF Supervisor!PollRefused, Supervisor!Heard, HeardOK
    <3>2. call.dir = "control" /\ control = "open" /\ attempt.id < cycle /\ cycle # 0
      BY <1>0, <3>1 DEF CallOK, ControlOK, ControlActions
    <3> QED BY <1>0, <3>2, CyclesNumber DEF ReservationOK, Supervisor!Traceable, AttemptFiles,
                                            SupervisorTyped
  <2> QED BY <1>3, <2>1, ClosedCall DEF Supervisor!PollRefused, Supervisor!Heard, Supervisor!GoTo,
                                        Supervisor!server
<1>4. CASE Supervisor!StartClosed \/ Supervisor!AskedNothing
  <2>1. call.action \in {"START", "STATUS"} /\ call.at = "answered"
    BY <1>0, <1>4 DEF Supervisor!StartClosed, Supervisor!AskedNothing, Supervisor!Heard, HeardOK
  <2>2. call.dir = "control"
    BY <1>0, <2>1 DEF CallOK, ControlActions
  <2>3. call.reply \notin {"acquired", "held"}
    BY <1>0, <1>4, <2>1, <2>2
    DEF Supervisor!StartClosed, Supervisor!AskedNothing, Supervisor!Heard, HeardOK, ControlOK
  <2>4. held # cycle /\ cycle # 0
    BY <1>0, <2>1, <2>2, <2>3 DEF ControlOK
  <2> QED BY <1>4, <2>1, <2>4, ClosedCall
          DEF Supervisor!StartClosed, Supervisor!AskedNothing, Supervisor!GoTo, Supervisor!server
<1>5. CASE Supervisor!RepairClosed
  BY <1>5, ClosedCall DEF Supervisor!RepairClosed, Supervisor!Heard, Supervisor!GoTo,
                          Supervisor!local, Supervisor!server
<1>6. CASE Supervisor!HeartbeatOver
  <2>1. call.at # "none" /\ attempt.launched
    BY <1>0, <1>6 DEF Supervisor!HeartbeatOver, Supervisor!Heard, Supervisor!Failed, PlaceOK
  <2>2. \/ UNCHANGED child
        \/ child' \in Sources /\ child'.at = "dead" /\ child'.receipt = child.receipt
    BY <1>0, <1>6 DEF Supervisor!HeartbeatOver, Sources
  <2> QED BY <1>6, <2>1, <2>2, ClosedCall DEF Supervisor!HeartbeatOver, Supervisor!Completed,
                                              Supervisor!server
<1> QED BY <1>1, <1>2, <1>3, <1>4, <1>5, <1>6

\* The request of a new call.
LEMMA Issued ==
  ASSUME NEW dir \in {"control", "attempt", "maintenance"},
         NEW action \in ControlActions \cup RepairActions \cup Supervisor!Terminal \cup {"HEARTBEAT"},
         Supervisor!Issue(dir, action)
  PROVE  /\ call' \in ServerCalls /\ call'.at = "request" /\ call'.dir = dir
         /\ call'.action = action /\ call'.reply = "none" /\ call'.heard
BY DEF Supervisor!Issue, Supervisor!NoCall, ServerCalls

\* A call of the control directory is asked for.
LEMMA ControlAsks ==
  ASSUME SupervisorIInv, Supervisor!Ask \/ Supervisor!Poll \/ Supervisor!Start
  PROVE  SupervisorIInv'
<1>0. /\ SupervisorTyped /\ FilesOK /\ ReservationOK /\ CallOK /\ ControlOK /\ HeardOK /\ PlaceOK
      /\ cycle \in Nat /\ cycle \in 0..MaxCycles /\ attempt.id \in Nat
      /\ Supervisor!NoCall.at = "none"
  BY SupervisorFacts, NothingOK
<1>1. PICK action \in ControlActions : Supervisor!Issue("control", action)
  BY DEF Supervisor!Ask, Supervisor!Poll, Supervisor!Start, ControlActions
<1>2. /\ call' \in ServerCalls /\ call'.at = "request" /\ call'.dir = "control"
      /\ call'.action = action /\ call'.reply = "none" /\ call'.heard
  BY <1>1, Issued
<1>3. UNCHANGED <<after, attempt, child, statement, held, verdict, sent>>
  BY DEF Supervisor!Ask, Supervisor!Poll, Supervisor!Start, Supervisor!server
<1>4. /\ cycle' \in 0..MaxCycles /\ cycle <= cycle' /\ cycle' # 0
      /\ attempt.files \in {"none", "acked"}
      /\ cycle' # cycle => cycle' = cycle + 1 /\ control = "none"
      /\ \/ action = "STATUS" /\ control = "intent" /\ control' = "asked" /\ pc' = "ask"
            /\ cycle' = cycle
         \/ action = "POLL" /\ control' = "open" /\ pc' = "poll" /\ attempt.id < cycle'
            /\ control = "none"
         \/ action = "START" /\ control' = "intent" /\ pc' = "start" /\ attempt.id < cycle'
            /\ held # cycle /\ cycle' = cycle
  <2>1. CASE Supervisor!Ask
    <3>1. call' = [Supervisor!NoCall EXCEPT !.at = "request", !.dir = "control",
                     !.action = "STATUS", !.heard = TRUE]
      BY <2>1 DEF Supervisor!Ask, Supervisor!Issue
    <3>2. action = "STATUS"
      BY <1>2, <3>1 DEF Supervisor!NoCall
    <3>3. cycle # 0
      BY <1>0, <2>1 DEF Supervisor!Ask, FilesOK
    <3> QED BY <1>0, <2>1, <3>2, <3>3 DEF Supervisor!Ask, Supervisor!GoTo, PlaceOK, IdlePcs
  <2>2. CASE Supervisor!Poll
    <3>1. call' = [Supervisor!NoCall EXCEPT !.at = "request", !.dir = "control",
                     !.action = "POLL", !.heard = TRUE]
      BY <2>2 DEF Supervisor!Poll, Supervisor!Issue
    <3>2. action = "POLL"
      BY <1>2, <3>1 DEF Supervisor!NoCall
    <3>3. cycle' = cycle + 1 /\ cycle' \in 0..MaxCycles /\ attempt.id < cycle'
      BY <1>0, <2>2, CyclesNumber DEF Supervisor!Poll, FilesOK
    <3> QED BY <1>0, <2>2, <3>2, <3>3 DEF Supervisor!Poll, Supervisor!GoTo, PlaceOK, IdlePcs
  <2>3. CASE Supervisor!Start
    <3>1. call' = [Supervisor!NoCall EXCEPT !.at = "request", !.dir = "control",
                     !.action = "START", !.heard = TRUE]
      BY <2>3 DEF Supervisor!Start, Supervisor!Issue
    <3>2. action = "START"
      BY <1>2, <3>1 DEF Supervisor!NoCall
    <3>3. call.action = "POLL" /\ call.at = "answered" /\ call.reply = "none"
      BY <1>0, <2>3 DEF Supervisor!Start, Supervisor!Heard, HeardOK
    <3>4. cycle # 0 /\ attempt.id < cycle /\ held # cycle /\ attempt.files \in {"none", "acked"}
      BY <1>0, <3>3 DEF CallOK, ControlOK, ControlActions
    <3> QED BY <1>0, <2>3, <3>2, <3>4 DEF Supervisor!Start, Supervisor!GoTo
  <2> QED BY <2>1, <2>2, <2>3
<1>5. SupervisorTyped'
  BY <1>0, <1>2, <1>3, <1>4 DEF SupervisorTyped, SupervisorPcs, IdlePcs
<1>6. FilesOK'
  BY <1>0, <1>3, <1>4 DEF FilesOK, Settled, Supervisor!Quiet, Supervisor!Alive
<1>7. ReservationOK'
  BY <1>0, <1>3, <1>4 DEF ReservationOK, Supervisor!Traceable
<1>8. CallOK'
  BY <1>2, <1>3 DEF CallOK, ControlActions, RepairActions, Supervisor!Terminal
<1>9. ControlOK'
  BY <1>2, <1>3, <1>4 DEF ControlOK
<1>10. HeardOK'
  BY <1>2, <1>4 DEF HeardOK
<1>11. PlaceOK'
  BY <1>3, <1>4 DEF PlaceOK, IdlePcs, LaunchPcs, FinishPcs
<1> QED BY <1>5, <1>6, <1>7, <1>8, <1>9, <1>10, <1>11 DEF SupervisorIInv

\* A call of the attempt or of its reconciliation is asked for.
LEMMA AttemptAsks ==
  ASSUME SupervisorIInv, NEW dir \in {"attempt", "maintenance"},
         NEW action \in RepairActions \cup Supervisor!Terminal \cup {"HEARTBEAT"},
         Supervisor!Issue(dir, action),
         dir = "maintenance" <=> action \in RepairActions,
         action \in Supervisor!Terminal => attempt'.tried /\ action = attempt.request /\ sent = 0,
         attempt' \in AttemptFiles, attempt'.id = attempt.id, attempt'.files = attempt.files,
         attempt'.launched = attempt.launched, attempt'.request = attempt.request,
         attempt'.acks = attempt.acks, attempt.tried => attempt'.tried,
         \/ pc = "watch" /\ pc' = pc /\ action = "HEARTBEAT"
         \/ /\ pc \in FinishPcs /\ action # "HEARTBEAT"
            /\ \/ pc' = "terminal" /\ action \in Supervisor!Terminal
               \/ pc' = "reserve" /\ action = "RESERVE"
               \/ pc' = "commit" /\ action = "COMMIT"
               \/ pc' = "drain" /\ action = "DRAIN",
         UNCHANGED <<after, cycle, control, child, statement, held, verdict, sent>>
  PROVE  SupervisorIInv'
<1>0. SupervisorTyped /\ FilesOK /\ ReservationOK /\ PlaceOK
  BY SupervisorFacts
<1>1. /\ call' \in ServerCalls /\ call'.at = "request" /\ call'.dir = dir
      /\ call'.action = action /\ call'.reply = "none" /\ call'.heard
  BY Issued
<1>2. /\ attempt.files = "job" /\ (pc # "watch" => attempt.request # "none")
      /\ (pc = "watch" => attempt.request = "none" /\ attempt.launched)
  BY <1>0 DEF PlaceOK, LaunchPcs, FinishPcs
<1>3. SupervisorTyped'
  BY <1>0, <1>1 DEF SupervisorTyped, SupervisorPcs, FinishPcs
<1>4. FilesOK'
  BY <1>0 DEF FilesOK, Settled, Supervisor!Quiet, Supervisor!Alive
<1>5. ReservationOK'
  BY <1>0 DEF ReservationOK, Supervisor!Traceable
<1>6. CallOK'
  BY <1>1, <1>2 DEF CallOK, ControlActions, RepairActions, Supervisor!Terminal, FinishPcs
<1>7. ControlOK' /\ HeardOK'
  BY <1>1 DEF ControlOK, HeardOK
<1>8. PlaceOK'
  BY <1>2 DEF PlaceOK, IdlePcs, LaunchPcs, FinishPcs
<1> QED BY <1>3, <1>4, <1>5, <1>6, <1>7, <1>8 DEF SupervisorIInv

\* A heartbeat, the terminal request and the calls of the reconciliation are asked for.
LEMMA AttemptCalls ==
  ASSUME SupervisorIInv,
         \/ Supervisor!Heartbeat \/ Supervisor!Finish \/ Supervisor!Reserve
         \/ Supervisor!Reserved \/ Supervisor!Drain
  PROVE  SupervisorIInv'
<1>0. SupervisorTyped /\ FilesOK /\ PlaceOK /\ attempt \in AttemptFiles /\ ~Supervisor!NoCall.heard
  BY SupervisorFacts, NothingOK
<1>1. CASE Supervisor!Heartbeat
  BY <1>0, <1>1, AttemptAsks DEF Supervisor!Heartbeat, Supervisor!local, Supervisor!server,
     RepairActions, Supervisor!Terminal
<1>2. CASE Supervisor!Finish
  <2>1. CASE attempt.tried
    <3>1. /\ UNCHANGED <<after, cycle, control, attempt, call, child, statement, held, verdict, sent>>
          /\ pc = "finish" /\ pc' = "repair" /\ call = Supervisor!NoCall
      BY <1>2, <2>1 DEF Supervisor!Finish, Supervisor!GoTo, Supervisor!server
    <3>2. PlaceOK'
      BY <1>0, <3>1 DEF PlaceOK, IdlePcs, LaunchPcs, FinishPcs
    <3> QED BY <1>0, <3>1, <3>2, RestsAt DEF SupervisorPcs, FinishPcs
  <2>2. CASE ~attempt.tried
    <3>1. /\ attempt' = [attempt EXCEPT !.tried = TRUE] /\ pc = "finish" /\ pc' = "terminal"
          /\ Supervisor!Issue("attempt", attempt.request)
          /\ UNCHANGED <<after, cycle, control, child, statement, held, verdict, sent>>
      BY <1>2, <2>2 DEF Supervisor!Finish, Supervisor!GoTo, Supervisor!server
    <3>2. /\ attempt' \in AttemptFiles /\ attempt'.id = attempt.id /\ attempt'.files = attempt.files
          /\ attempt'.launched = attempt.launched /\ attempt'.request = attempt.request
          /\ attempt'.acks = attempt.acks /\ attempt'.tried
      BY <1>0, <3>1 DEF AttemptFiles
    <3>3. attempt.request \in Supervisor!Terminal /\ sent = 0
      BY <1>0, <2>2, <3>1 DEF PlaceOK, FinishPcs, FilesOK, AttemptFiles, Requests
    <3> QED BY <3>1, <3>2, <3>3, AttemptAsks DEF FinishPcs, RepairActions, Supervisor!Terminal
  <2> QED BY <2>1, <2>2
<1>3. CASE Supervisor!Reserve
  <2>1. /\ attempt' = [attempt EXCEPT !.reserves = @ + 1] /\ attempt.reserves < 2
        /\ pc = "repair" /\ pc' = "reserve" /\ Supervisor!Issue("maintenance", "RESERVE")
        /\ UNCHANGED <<after, cycle, control, child, statement, held, verdict, sent>>
    BY <1>3 DEF Supervisor!Reserve, Supervisor!GoTo, Supervisor!server
  <2>2. /\ attempt' \in AttemptFiles /\ attempt'.id = attempt.id /\ attempt'.files = attempt.files
        /\ attempt'.launched = attempt.launched /\ attempt'.request = attempt.request
        /\ attempt'.acks = attempt.acks /\ attempt'.tried = attempt.tried
    BY <1>0, <2>1 DEF AttemptFiles
  <2> QED BY <2>1, <2>2, AttemptAsks DEF FinishPcs, RepairActions, Supervisor!Terminal
<1>4. CASE Supervisor!Drain
  <2>1. /\ attempt' = [attempt EXCEPT !.drained = TRUE]
        /\ pc = "repair" /\ pc' = "drain" /\ Supervisor!Issue("maintenance", "DRAIN")
        /\ UNCHANGED <<after, cycle, control, child, statement, held, verdict, sent>>
    BY <1>4 DEF Supervisor!Drain, Supervisor!GoTo, Supervisor!server
  <2>2. /\ attempt' \in AttemptFiles /\ attempt'.id = attempt.id /\ attempt'.files = attempt.files
        /\ attempt'.launched = attempt.launched /\ attempt'.request = attempt.request
        /\ attempt'.acks = attempt.acks /\ attempt'.tried = attempt.tried
    BY <1>0, <2>1 DEF AttemptFiles
  <2> QED BY <2>1, <2>2, AttemptAsks DEF FinishPcs, RepairActions, Supervisor!Terminal
<1>5. CASE Supervisor!Reserved
  BY <1>0, <1>5, AttemptAsks DEF Supervisor!Reserved, Supervisor!Heard, Supervisor!GoTo,
     Supervisor!local, Supervisor!server, FinishPcs, RepairActions, Supervisor!Terminal
<1> QED BY <1>1, <1>2, <1>3, <1>4, <1>5

\* The supervisor goes on without a call.
LEMMA Moves ==
  ASSUME SupervisorIInv,
         \/ Supervisor!NothingPending \/ Supervisor!ResumeTerminal \/ Supervisor!Reap
  PROVE  SupervisorIInv'
<1>0. /\ SupervisorTyped /\ HeardOK /\ PlaceOK /\ FilesOK /\ attempt \in AttemptFiles
      /\ ~Supervisor!NoCall.heard
  BY SupervisorFacts, NothingOK
<1>1. UNCHANGED <<after, cycle, control, attempt, call, child, statement, held, verdict, sent>>
  BY DEF Supervisor!NothingPending, Supervisor!ResumeTerminal, Supervisor!Reap, Supervisor!local,
         Supervisor!server
<1>2. ~call.heard
  BY <1>0 DEF Supervisor!NothingPending, Supervisor!ResumeTerminal, Supervisor!Reap, HeardOK
<1>3. \/ pc' = "control" /\ attempt.files \in {"none", "acked"}
      \/ pc' = "finish" /\ attempt.files = "job" /\ attempt.request # "none"
      \/ pc = "watch" /\ pc' = "settle" /\ call = Supervisor!NoCall
  BY <1>0 DEF Supervisor!NothingPending, Supervisor!ResumeTerminal, Supervisor!Reap,
              Supervisor!Pending, Supervisor!GoTo, AttemptFiles
<1>4. PlaceOK'
  BY <1>0, <1>1, <1>3 DEF PlaceOK, IdlePcs, LaunchPcs, FinishPcs
<1> QED BY <1>1, <1>2, <1>3, <1>4, RestsAt DEF SupervisorPcs, IdlePcs, LaunchPcs, FinishPcs

\* Something becomes of the child or of its statement, before the attempt is ended.
LEMMA ChildBecomes ==
  ASSUME SupervisorIInv, child' \in Sources, statement' \in BOOLEAN,
         \/ UNCHANGED child /\ ~statement'
         \/ attempt.launched /\ attempt.request = "none"
         \/ child'.at = "none" /\ UNCHANGED statement /\ attempt.request = "none",
         pc' \in SupervisorPcs, HeardOK', PlaceOK',
         UNCHANGED <<after, cycle, control, attempt, call, held, verdict, sent>>
  PROVE  SupervisorIInv'
<1>0. SupervisorTyped /\ FilesOK /\ ReservationOK /\ CallOK /\ ControlOK
  BY SupervisorFacts
<1>1. SupervisorTyped'
  BY <1>0 DEF SupervisorTyped
<1>2. FilesOK'
  BY <1>0 DEF FilesOK, Settled, Supervisor!Quiet, Supervisor!Alive
<1>3. ReservationOK' /\ CallOK' /\ ControlOK'
  BY <1>0 DEF ReservationOK, Supervisor!Traceable, CallOK, Settled, ControlOK
<1> QED BY <1>1, <1>2, <1>3 DEF SupervisorIInv

\* The child works and ends, or is killed; its statement may outlive it.
LEMMA ChildSteps ==
  ASSUME SupervisorIInv,
         \/ Supervisor!KillRecorded \/ Supervisor!Journal \/ Supervisor!SendStatement
         \/ Supervisor!StatementEnds \/ Supervisor!ChildEnds \/ Supervisor!ChildDies
  PROVE  SupervisorIInv'
<1>0. /\ SupervisorTyped /\ FilesOK /\ HeardOK /\ PlaceOK /\ child \in Sources
      /\ attempt \in AttemptFiles /\ statement \in BOOLEAN /\ pc \in SupervisorPcs
  BY SupervisorFacts DEF SupervisorTyped
<1>1. UNCHANGED <<pc, after, cycle, control, attempt, call, held, verdict, sent>>
  BY DEF Supervisor!KillRecorded, Supervisor!Journal, Supervisor!SendStatement,
         Supervisor!StatementEnds, Supervisor!ChildEnds, Supervisor!ChildDies,
         Supervisor!local, Supervisor!server
<1>2. HeardOK' /\ PlaceOK'
  BY <1>0, <1>1 DEF HeardOK, PlaceOK
<1>3. CASE Supervisor!StatementEnds
  BY <1>0, <1>1, <1>2, <1>3, ChildBecomes DEF Supervisor!StatementEnds
<1>4. CASE \/ Supervisor!KillRecorded \/ Supervisor!Journal \/ Supervisor!SendStatement
           \/ Supervisor!ChildEnds \/ Supervisor!ChildDies
  <2>1. child.at \in {"spawned", "running"}
    BY <1>4 DEF Supervisor!KillRecorded, Supervisor!Journal, Supervisor!SendStatement,
                Supervisor!ChildEnds, Supervisor!ChildDies, Supervisor!Alive
  <2>2. attempt.launched /\ attempt.request = "none"
    BY <1>0, <2>1 DEF FilesOK, Supervisor!Quiet, Supervisor!Alive
  <2>3. child' \in Sources
    BY <1>0, <1>4 DEF Supervisor!KillRecorded, Supervisor!Journal, Supervisor!SendStatement,
                      Supervisor!ChildEnds, Supervisor!ChildDies, Sources
  <2>4. statement' \in BOOLEAN
    BY <1>0, <1>4 DEF Supervisor!KillRecorded, Supervisor!Journal, Supervisor!SendStatement,
                      Supervisor!ChildEnds, Supervisor!ChildDies
  <2> QED BY <1>0, <1>1, <1>2, <2>2, <2>3, <2>4, ChildBecomes
<1> QED BY <1>3, <1>4

\* The child is started, or cannot be.
LEMMA LaunchSteps ==
  ASSUME SupervisorIInv, Supervisor!Spawn \/ Supervisor!LaunchFails
  PROVE  SupervisorIInv'
<1>0. /\ SupervisorTyped /\ FilesOK /\ HeardOK /\ PlaceOK /\ child \in Sources
      /\ attempt \in AttemptFiles /\ statement \in BOOLEAN /\ ~Supervisor!NoCall.heard
  BY SupervisorFacts, NothingOK DEF SupervisorTyped
<1>1. /\ UNCHANGED <<after, cycle, control, attempt, call, statement, held, verdict, sent>>
      /\ \/ /\ pc = "spawn" /\ pc' = "record"
            /\ child' = [Supervisor!NoChild EXCEPT !.at = "spawned"]
         \/ /\ pc = "launch" /\ pc' = "settle"
            /\ child' = [Supervisor!NoChild EXCEPT !.guarded = TRUE]
         \/ pc = "spawn" /\ pc' = "top" /\ UNCHANGED child
  BY DEF Supervisor!Spawn, Supervisor!LaunchFails, Supervisor!GoTo, Supervisor!local,
         Supervisor!server
<1>2. /\ attempt.request = "none" /\ call = Supervisor!NoCall /\ attempt.files = "job"
      /\ pc = "spawn" => attempt.launched
  BY <1>0, <1>1 DEF PlaceOK, LaunchPcs
<1>3. child' \in Sources /\ (pc = "launch" => child'.at = "none")
  BY <1>0, <1>1 DEF Sources, Supervisor!NoChild
<1>4. HeardOK'
  BY <1>0, <1>1, <1>2 DEF HeardOK
<1>5. PlaceOK'
  BY <1>1, <1>2 DEF PlaceOK, IdlePcs, LaunchPcs, FinishPcs
<1> QED BY <1>0, <1>1, <1>2, <1>3, <1>4, <1>5, ChildBecomes DEF SupervisorPcs, LaunchPcs

\* The control directory is cleared.
LEMMA ControlClears ==
  ASSUME SupervisorIInv, Supervisor!ClearLeftControl \/ Supervisor!ClearControl
  PROVE  SupervisorIInv'
<1>0. /\ SupervisorTyped /\ FilesOK /\ ReservationOK /\ CallOK /\ HeardOK /\ PlaceOK
      /\ Supervisor!NoCall.heard = FALSE /\ Supervisor!NoCall.at = "none"
  BY SupervisorFacts, NothingOK
<1>1. /\ UNCHANGED <<after, cycle, attempt, call, child, statement, held, verdict, sent>>
      /\ control' \in {"none", "sealed"} /\ call = Supervisor!NoCall
      /\ \/ pc = "control" /\ pc' = pc /\ control \in {"open", "sealed"} /\ control' = "none"
         \/ pc = "clearing" /\ pc' = pc /\ control' = "sealed"
         \/ pc = "clearing" /\ pc' = after /\ control = "sealed" /\ control' = "none"
  BY <1>0 DEF Supervisor!ClearLeftControl, Supervisor!ClearControl, Supervisor!GoTo,
              Supervisor!server, PlaceOK
<1>2. SupervisorTyped'
  BY <1>0, <1>1 DEF SupervisorTyped, SupervisorPcs, LaunchPcs
<1>3. FilesOK'
  <2>1. pc = "clearing" => cycle # 0
    BY <1>0 DEF FilesOK, PlaceOK, LaunchPcs
  <2> QED BY <1>0, <1>1, <2>1 DEF FilesOK, Settled, Supervisor!Quiet, Supervisor!Alive
<1>4. ReservationOK'
  <2>1. pc = "clearing" => attempt.id = cycle /\ attempt.files = "job"
    BY <1>0 DEF PlaceOK, LaunchPcs
  <2> QED BY <1>0, <1>1, <2>1 DEF ReservationOK, Supervisor!Traceable
<1>5. CallOK' /\ ControlOK' /\ HeardOK'
  BY <1>0, <1>1 DEF CallOK, Settled, ControlOK, HeardOK
<1>6. PlaceOK'
  BY <1>0, <1>1 DEF PlaceOK, IdlePcs, LaunchPcs, FinishPcs, SupervisorTyped
<1> QED BY <1>2, <1>3, <1>4, <1>5, <1>6 DEF SupervisorIInv

\* The attempt's directory changes while no call is open, or as one ends.
LEMMA FilesChange ==
  ASSUME SupervisorIInv, call' = Supervisor!NoCall, attempt' \in AttemptFiles,
         FilesOK', PlaceOK', pc' \in SupervisorPcs, attempt'.id >= attempt.id,
         held # 0 => Supervisor!Traceable', child' \in Sources, sent' \in {0, 1},
         after' \in {"top", "launch"}, UNCHANGED <<cycle, control, statement, held, verdict>>
  PROVE  SupervisorIInv'
<1>0. /\ SupervisorTyped /\ ReservationOK /\ attempt.id \in Nat /\ attempt' \in AttemptFiles
      /\ Supervisor!NoCall \in ServerCalls /\ Supervisor!NoCall.at = "none"
      /\ Supervisor!NoCall.dir = "control" /\ Supervisor!NoCall.action = "POLL"
      /\ Supervisor!NoCall.reply = "none" /\ Supervisor!NoCall.heard = FALSE
  BY SupervisorFacts, NothingOK
<1>1. SupervisorTyped'
  BY <1>0 DEF SupervisorTyped
<1>2. ReservationOK'
  <2>1. attempt'.id \in Nat
    BY <1>0, CyclesNumber DEF AttemptFiles
  <2> QED BY <1>0, <2>1 DEF ReservationOK
<1>3. CallOK' /\ ControlOK' /\ HeardOK'
  BY <1>0 DEF CallOK, ControlOK, HeardOK, ControlActions, RepairActions, Supervisor!Terminal
<1> QED BY <1>1, <1>2, <1>3 DEF SupervisorIInv

\* A reservation gets a directory.
LEMMA AttemptMade ==
  ASSUME SupervisorIInv, Supervisor!Started \/ Supervisor!AskedHeld PROVE SupervisorIInv'
<1>0. /\ SupervisorTyped /\ FilesOK /\ ReservationOK /\ CallOK /\ ControlOK /\ HeardOK
      /\ call \in ServerCalls /\ attempt \in AttemptFiles /\ cycle \in 0..MaxCycles
      /\ cycle \in Nat /\ attempt.id \in Nat /\ Supervisor!NoChild \in Sources
      /\ Supervisor!NoChild.at = "none"
  BY SupervisorFacts, NothingOK
<1>1. /\ attempt' = Supervisor!Made /\ call' = Supervisor!NoCall /\ child' = Supervisor!NoChild
      /\ sent' = 0 /\ after' \in {"top", "launch"} /\ pc' = "writing"
      /\ UNCHANGED <<cycle, control, statement, held, verdict>>
      /\ call.at = "answered" /\ call.heard
      /\ \/ pc = "start" /\ call.reply = "acquired"
         \/ pc = "ask" /\ call.reply = "held"
  BY DEF Supervisor!Started, Supervisor!AskedHeld, Supervisor!Heard, Supervisor!GoTo,
         Supervisor!server
<1>2. /\ attempt' \in AttemptFiles /\ attempt'.id = cycle /\ attempt'.files = "made"
      /\ attempt'.launched = FALSE /\ attempt'.request = "none" /\ attempt'.tried = FALSE
      /\ attempt'.acks = {}
  BY <1>0, <1>1, NothingOK DEF Supervisor!Made, Supervisor!NoAttempt, AttemptFiles, Requests
<1>3. /\ cycle # 0 /\ attempt.files \in {"none", "acked"} /\ held = cycle
      /\ control \in {"intent", "asked"}
  BY <1>0, <1>1 DEF HeardOK, CallOK, ControlOK, ControlActions
<1>4. verdict[cycle] = "none" /\ ~statement
  BY <1>0, <1>3 DEF ReservationOK, FilesOK, Settled, Supervisor!Quiet
<1>5. FilesOK'
  BY <1>0, <1>1, <1>2, <1>3, <1>4 DEF FilesOK, Settled
<1>6. PlaceOK'
  BY <1>1, <1>2 DEF PlaceOK, IdlePcs, LaunchPcs, FinishPcs
<1>7. held # 0 => Supervisor!Traceable'
  BY <1>1, <1>3 DEF Supervisor!Traceable
<1>8. attempt'.id >= attempt.id /\ pc' \in SupervisorPcs
  BY <1>0, <1>1, <1>2 DEF FilesOK, SupervisorPcs, LaunchPcs
<1> QED BY <1>0, <1>1, <1>2, <1>5, <1>6, <1>7, <1>8, FilesChange

\* Between its directory and its terminal request.
LEMMA AttemptSteps ==
  ASSUME SupervisorIInv,
         Supervisor!WriteJob \/ Supervisor!Launch \/ Supervisor!Record \/ Supervisor!WriteRequest
  PROVE  SupervisorIInv'
<1>0. /\ SupervisorTyped /\ FilesOK /\ ReservationOK /\ PlaceOK /\ attempt \in AttemptFiles
      /\ child \in Sources /\ sent \in {0, 1} /\ after \in {"top", "launch"}
      /\ attempt.id \in Nat
  BY SupervisorFacts DEF SupervisorTyped
<1>1. /\ UNCHANGED <<after, cycle, control, call, child, statement, held, verdict, sent>>
      /\ pc \in {"writing", "launch", "record", "settle"}
  BY DEF Supervisor!WriteJob, Supervisor!Launch, Supervisor!Record, Supervisor!WriteRequest,
         Supervisor!server
<1>2. /\ attempt' \in AttemptFiles /\ attempt'.id = attempt.id /\ attempt'.acks = attempt.acks
      /\ attempt'.tried = attempt.tried /\ attempt'.files = "job"
      /\ \/ pc = "writing" /\ pc' = "clearing"
            /\ attempt'.launched = attempt.launched /\ attempt'.request = attempt.request
         \/ pc = "launch" /\ pc' = "spawn"
            /\ attempt'.launched = TRUE /\ attempt'.request = attempt.request
         \/ pc = "record" /\ pc' = "watch"
            /\ attempt'.launched = attempt.launched /\ attempt'.request = attempt.request
         \/ pc = "settle" /\ pc' = "finish" /\ Supervisor!Quiet
            /\ attempt'.launched = attempt.launched /\ attempt'.request # "none"
            /\ (attempt'.request = "FINISH" => child.receipt = "success")
  <2>1. CASE Supervisor!WriteJob
    BY <1>0, <2>1 DEF Supervisor!WriteJob, Supervisor!GoTo, AttemptFiles
  <2>2. CASE Supervisor!Launch
    BY <1>0, <2>2 DEF Supervisor!Launch, Supervisor!GoTo, AttemptFiles, PlaceOK, LaunchPcs
  <2>3. CASE Supervisor!Record
    BY <1>0, <2>3 DEF Supervisor!Record, Supervisor!GoTo, AttemptFiles, PlaceOK, LaunchPcs
  <2>4. CASE Supervisor!WriteRequest
    <3>1. PICK request \in {"FINISH", "FAIL"} :
            /\ attempt' = [attempt EXCEPT !.request = request]
            /\ request = "FINISH" => child.receipt = "success"
      BY <2>4 DEF Supervisor!WriteRequest
    <3>2. /\ attempt' \in AttemptFiles /\ attempt'.id = attempt.id /\ attempt'.acks = attempt.acks
          /\ attempt'.tried = attempt.tried /\ attempt'.files = attempt.files
          /\ attempt'.launched = attempt.launched /\ attempt'.request = request
      BY <1>0, <3>1 DEF AttemptFiles, Requests, Supervisor!Terminal
    <3> QED BY <1>0, <2>4, <3>1, <3>2 DEF Supervisor!WriteRequest, Supervisor!GoTo, PlaceOK, LaunchPcs
  <2> QED BY <2>1, <2>2, <2>3, <2>4
<1>3. call = Supervisor!NoCall /\ attempt.files \in {"made", "job"} /\ attempt.request = "none"
  BY <1>0, <1>1 DEF PlaceOK, LaunchPcs
<1>4. ~Settled
  BY <1>0, <1>3 DEF FilesOK, Settled
<1>5. FilesOK'
  BY <1>0, <1>1, <1>2, <1>3, <1>4 DEF FilesOK, Settled, Supervisor!Quiet, Supervisor!Alive
<1>6. PlaceOK'
  BY <1>0, <1>1, <1>2, <1>3 DEF PlaceOK, IdlePcs, LaunchPcs, FinishPcs
<1>7. held # 0 => Supervisor!Traceable'
  BY <1>0, <1>1, <1>2 DEF ReservationOK, Supervisor!Traceable
<1>8. attempt'.id >= attempt.id /\ pc' \in SupervisorPcs
  BY <1>0, <1>2 DEF SupervisorPcs, LaunchPcs, FinishPcs
<1> QED BY <1>0, <1>1, <1>2, <1>3, <1>5, <1>6, <1>7, <1>8, FilesChange

\* A new supervisor gives up an attempt of which nothing runs any more.
LEMMA RecoveryKeeps == ASSUME SupervisorIInv, Supervisor!RequestRecovery PROVE SupervisorIInv'
<1>0. /\ SupervisorTyped /\ FilesOK /\ ReservationOK /\ CallOK /\ ControlOK /\ HeardOK
      /\ attempt \in AttemptFiles
  BY SupervisorFacts
<1>1. /\ pc = "top" /\ attempt.files = "job" /\ attempt.request = "none" /\ pc' = "finish"
      /\ attempt' = [attempt EXCEPT !.request = "RECOVER"]
      /\ attempt.launched => Supervisor!Quiet
      /\ UNCHANGED <<after, cycle, control, call, child, statement, held, verdict, sent>>
  BY DEF Supervisor!RequestRecovery, Supervisor!GoTo, Supervisor!server
<1>2. /\ attempt' \in AttemptFiles /\ attempt'.id = attempt.id /\ attempt'.acks = attempt.acks
      /\ attempt'.tried = attempt.tried /\ attempt'.files = "job"
      /\ attempt'.launched = attempt.launched /\ attempt'.request = "RECOVER"
  BY <1>0, <1>1 DEF AttemptFiles, Requests, Supervisor!Terminal
<1>3. ~Settled /\ Supervisor!Quiet
  BY <1>0, <1>1 DEF FilesOK, Settled, Supervisor!Quiet, Supervisor!Alive
<1>4. SupervisorTyped'
  BY <1>0, <1>1, <1>2 DEF SupervisorTyped, SupervisorPcs, FinishPcs
<1>5. FilesOK'
  BY <1>0, <1>1, <1>2, <1>3 DEF FilesOK, Settled, Supervisor!Quiet, Supervisor!Alive
<1>6. ReservationOK'
  BY <1>0, <1>1, <1>2 DEF ReservationOK, Supervisor!Traceable
<1>7. CallOK'
  BY <1>0, <1>1, <1>2, <1>3 DEF CallOK, Settled, Supervisor!Terminal
<1>8. ControlOK' /\ HeardOK'
  BY <1>0, <1>1, <1>2 DEF ControlOK, HeardOK
<1>9. PlaceOK'
  BY <1>1, <1>2 DEF PlaceOK, IdlePcs, LaunchPcs, FinishPcs
<1> QED BY <1>4, <1>5, <1>6, <1>7, <1>8, <1>9 DEF SupervisorIInv

\* The acknowledgement is taken, and the directory goes.
LEMMA AttemptGoes ==
  ASSUME SupervisorIInv, Supervisor!Salvage \/ Supervisor!Acknowledged \/ Supervisor!CleanUp
  PROVE  SupervisorIInv'
<1>0. /\ SupervisorTyped /\ FilesOK /\ ReservationOK /\ CallOK /\ PlaceOK
      /\ attempt \in AttemptFiles /\ attempt.id \in Nat /\ child \in Sources /\ sent \in {0, 1}
      /\ after \in {"top", "launch"}
  BY SupervisorFacts DEF SupervisorTyped
<1>1. /\ UNCHANGED <<after, cycle, control, child, statement, held, verdict, sent>>
      /\ call' = Supervisor!NoCall /\ Settled
  <2>1. Supervisor!Salvage => Settled
    BY <1>0 DEF Supervisor!Salvage, FilesOK
  <2>2. Supervisor!Acknowledged => Settled
    BY <1>0 DEF Supervisor!Acknowledged, CallOK
  <2>3. Supervisor!CleanUp => Settled /\ call = Supervisor!NoCall
    BY <1>0 DEF Supervisor!CleanUp, FilesOK, PlaceOK
  <2> QED BY <2>1, <2>2, <2>3 DEF Supervisor!Salvage, Supervisor!Acknowledged, Supervisor!CleanUp,
                                  Supervisor!server
<1>2. PICK left \in {"acked", "emptied", "none"} :
        /\ attempt' = [attempt EXCEPT !.files = left]
        /\ \/ pc' = "acked" /\ left \in {"acked", "emptied"}
           \/ pc' = "top"
  <2>1. CASE Supervisor!Salvage \/ Supervisor!Acknowledged
    BY <2>1 DEF Supervisor!Salvage, Supervisor!Acknowledged, Supervisor!GoTo
  <2>2. CASE Supervisor!CleanUp
    <3>1. attempt = [attempt EXCEPT !.files = attempt.files]
      BY <1>0 DEF AttemptFiles
    <3> QED BY <2>2, <3>1 DEF Supervisor!CleanUp, Supervisor!GoTo
  <2> QED BY <2>1, <2>2
<1>3. /\ attempt' \in AttemptFiles /\ attempt'.id = attempt.id /\ attempt'.acks = attempt.acks
      /\ attempt'.tried = attempt.tried /\ attempt'.files = left
      /\ attempt'.launched = attempt.launched /\ attempt'.request = attempt.request
  BY <1>0, <1>2 DEF AttemptFiles
<1>4. FilesOK'
  BY <1>0, <1>1, <1>3 DEF FilesOK, Settled, Supervisor!Quiet, Supervisor!Alive
<1>5. PlaceOK'
  BY <1>1, <1>2, <1>3 DEF PlaceOK, IdlePcs, LaunchPcs, FinishPcs
<1>6. held # 0 => Supervisor!Traceable'
  BY <1>0, <1>1, <1>3 DEF ReservationOK, Supervisor!Traceable, Settled
<1>7. attempt'.id >= attempt.id /\ pc' \in SupervisorPcs
  BY <1>0, <1>2, <1>3 DEF SupervisorPcs
<1> QED BY <1>0, <1>1, <1>3, <1>4, <1>5, <1>6, <1>7, FilesChange

\* Every step keeps the supervisor's invariant.
LEMMA SupervisorNext == SupervisorIInv /\ [Supervisor!Next]_supervisor => SupervisorIInv'
<1> SUFFICES ASSUME SupervisorIInv, [Supervisor!Next]_supervisor PROVE SupervisorIInv'
  OBVIOUS
<1>1. CASE UNCHANGED supervisor
  <2>1. UNCHANGED <<pc, after, cycle, control, attempt, call, child, statement, held, verdict, sent>>
    BY <1>1 DEF supervisor
  <2> QED BY <2>1 DEF SupervisorIInv, SupervisorTyped, FilesOK, ReservationOK, CallOK, ControlOK,
                      HeardOK, PlaceOK, Settled, Supervisor!Quiet, Supervisor!Alive,
                      Supervisor!Traceable
<1>2. CASE Supervisor!Supervise
  BY <1>2, CallMoves, CallEnds, Moves, ChildSteps, RecoveryKeeps, ControlClears, ControlAsks,
     AttemptMade, AttemptSteps, LaunchSteps, AttemptGoes, AttemptCalls
  DEF Supervisor!Supervise
<1>3. CASE Supervisor!Others
  BY <1>3, CallMoves, CarryKeeps, ChildSteps DEF Supervisor!Others
<1>4. CASE \/ Supervisor!Heartbeat \/ Supervisor!SendStatement \/ Supervisor!StartFails
           \/ Supervisor!CallFails \/ Supervisor!LaunchFails \/ Supervisor!ChildDies
           \/ Supervisor!Crash
  BY <1>4, CallMoves, ChildSteps, LaunchSteps, AttemptCalls
<1> QED BY <1>1, <1>2, <1>3, <1>4 DEF Supervisor!Next

\* The invariant says what the run checks.
LEMMA SupervisorTold == SupervisorIInv => ReservationKept /\ Supervisor!TypeOK
<1> SUFFICES ASSUME SupervisorIInv PROVE ReservationKept /\ Supervisor!TypeOK
  OBVIOUS
<1>1. Supervisor!ReleasedIdle
  BY SupervisorFacts DEF Supervisor!ReleasedIdle, FilesOK, Settled, Supervisor!Quiet
<1>2. Supervisor!Traceable
  BY SupervisorFacts DEF ReservationOK, Supervisor!Traceable
<1>3. Supervisor!SentOnce
  BY SupervisorFacts DEF SupervisorTyped, Supervisor!SentOnce
<1>4. Supervisor!TypeOK
  BY SupervisorFacts
  DEF SupervisorTyped, AttemptFiles, ServerCalls, Sources, Requests, Supervisor!TypeOK
<1> QED BY <1>1, <1>2, <1>3, <1>4 DEF ReservationKept

-----------------------------------------------------------------------------
(* All of them together *)

\* A step of one worker leaves the variables of the others alone.
LEMMA OneAtATime ==
  ASSUME [Step]_everything
  PROVE  /\ [Next]_vars /\ [Supervisor!Next]_supervisor /\ [Mission!Next]_mission
         /\ [Ledger!Next]_ledger /\ [Signal!Next]_evidence /\ part' = part
<1>1. CASE InLease(Next)
  BY <1>1 DEF InLease
<1>2. CASE InSupervisor(Supervisor!Next)
  BY <1>2 DEF InSupervisor
<1>3. CASE InMission(Mission!Next)
  BY <1>3 DEF InMission
<1>4. CASE InLedger(Ledger!Next)
  BY <1>4 DEF InLedger
<1>5. CASE InSignal(Signal!Next)
  BY <1>5 DEF InSignal
<1>6. CASE UNCHANGED everything
  BY <1>6 DEF everything
<1> QED BY <1>1, <1>2, <1>3, <1>4, <1>5, <1>6 DEF Step

WorkersIInv ==
  /\ part \in {"lease", "supervisor", "mission", "ledger", "signal"}
  /\ IInv /\ SupervisorIInv /\ MissionIInv /\ LedgerIInv

\* The lease protocol, the supervisor, the mission and the ledger keep their invariants
\* next to one another.
THEOREM WorkersInvariant == WorkersSpec => []WorkersIInv
<1>1. Begin => WorkersIInv
  BY InitIInv, SupervisorInit, MissionInit, LedgerInit DEF Begin, WorkersIInv
<1>2. WorkersIInv /\ [Step]_everything => WorkersIInv'
  <2> SUFFICES ASSUME WorkersIInv, [Step]_everything PROVE WorkersIInv'
    OBVIOUS
  <2>1. /\ IInv /\ SupervisorIInv /\ MissionIInv /\ LedgerIInv
        /\ part \in {"lease", "supervisor", "mission", "ledger", "signal"}
    BY DEF WorkersIInv
  <2>2. /\ [Next]_vars /\ [Supervisor!Next]_supervisor /\ [Mission!Next]_mission
        /\ [Ledger!Next]_ledger /\ part' = part
    BY OneAtATime
  <2>3. IInv'
    BY <2>1, <2>2, NextIInv
  <2>4. SupervisorIInv' /\ MissionIInv' /\ LedgerIInv'
    BY <2>1, <2>2, SupervisorNext, MissionNext, LedgerNext
  <2> QED BY <2>1, <2>2, <2>3, <2>4 DEF WorkersIInv
<1> QED BY <1>1, <1>2, PTL DEF WorkersSpec

\* A source attempt's reservation is released when its child is dead and nothing of it
\* runs at the server, as finished only when the child has said so; it is found on the
\* supervisor's disk until then; and its terminal request is sent once.
THEOREM ReservationsKept == WorkersSpec => []ReservationKept
<1>1. WorkersIInv => ReservationKept
  BY SupervisorTold DEF WorkersIInv
<1> QED BY <1>1, WorkersInvariant, PTL

\* A mission segment is settled when it is over, as its own disk says, and the mission
\* is verified from what the server has had before.
THEOREM SegmentsSettledInTime == WorkersSpec => []SegmentsSettled
<1>1. WorkersIInv => SegmentsSettled
  BY MissionTold DEF WorkersIInv
<1> QED BY <1>1, WorkersInvariant, PTL

\* The server's snapshot of the mission is only replaced by one that adds work to it,
\* whichever host commits it and whatever late call comes in between.
THEOREM SnapshotOnlyGrows == WorkersSpec => SnapshotExtends
<1>1. WorkersIInv /\ [Step]_everything =>
        [snapshot.done = SubSeq(snapshot'.done, 1, Len(snapshot.done))]_snapshot
  <2> SUFFICES ASSUME WorkersIInv, [Step]_everything, snapshot' # snapshot
               PROVE  snapshot.done = SubSeq(snapshot'.done, 1, Len(snapshot.done))
    OBVIOUS
  <2>1. MissionIInv /\ [Mission!Next]_mission
    BY OneAtATime DEF WorkersIInv
  <2> QED BY <2>1, MissionNext DEF Adds
<1> QED BY <1>1, WorkersInvariant, PTL DEF WorkersSpec, SnapshotExtends, Mission!SnapshotExtends

\* The ledger of a fit stage counts each of its sessions once, its results are those of
\* all of them, and no stop leaves files that a later segment refuses.
THEOREM LedgersExact == WorkersSpec => []LedgerExact
<1>1. WorkersIInv => LedgerExact
  BY LedgerTold DEF WorkersIInv
<1> QED BY <1>1, WorkersInvariant, PTL

WatchIInv == Patient /\ SignalIInv

\* The monitors keep theirs when a tick is short: one that lasted from an entry to its
\* exit could take the one for the other.
THEOREM WatchInvariant == Patient /\ WorkersSpec => []WatchIInv
<1>1. Patient /\ Begin => WatchIInv
  BY SignalInit DEF Begin, WatchIInv
<1>2. WatchIInv /\ [Step]_everything => WatchIInv'
  BY OneAtATime, SignalNext DEF WatchIInv, Patient
<1> QED BY <1>1, <1>2, PTL DEF WorkersSpec

\* The XAL-006 event of a day is its first tail entry, and its completed record is of
\* one piece, for any number of monitors, when a tick is over before an entry's exit.
THEOREM SignalsFaithful == Patient /\ WorkersSpec => []SignalFaithful
<1>1. WatchIInv => SignalFaithful
  BY SignalTold DEF WatchIInv
<1> QED BY <1>1, WatchInvariant, PTL

\* The variables of the part that is looked at have their types.
THEOREM WorkersTypeCorrect == Patient /\ WorkersSpec => []WorkersTyped
<1>1. WorkersIInv /\ WatchIInv => WorkersTyped
  <2> SUFFICES ASSUME WorkersIInv, WatchIInv PROVE WorkersTyped
    OBVIOUS
  <2>1. part \in {"lease", "supervisor", "mission", "ledger", "signal"}
    BY DEF WorkersIInv
  <2>2. TypeOK
    BY DEF WorkersIInv, IInv
  <2>3. Supervisor!TypeOK /\ Mission!TypeOK /\ Ledger!TypeOK
    BY SupervisorTold, MissionTold, LedgerTold DEF WorkersIInv
  <2>4. Signal!TypeOK
    BY SignalTold DEF WatchIInv
  <2> QED BY <2>1, <2>2, <2>3, <2>4 DEF WorkersTyped
<1> QED BY <1>1, WorkersInvariant, WatchInvariant, PTL
=============================================================================
