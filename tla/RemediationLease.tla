-------------------------- MODULE RemediationLease --------------------------
(***************************************************************************)
(* The source batches of the remediation run: the four database functions  *)
(* claim, heartbeat, commit and fail of remediation_source_worker_schema,  *)
(* and the workers of remediation_worker_v1 that call them.  A call may    *)
(* time out at the worker and be carried out later, or never.              *)
(*                                                                         *)
(* A lease token is the number of the attempt it was made for; the source  *)
(* of an attempt, a new uuid in the code, is that number too.  An attempt  *)
(* is `Commits` commits: the raw response first, then rows, the last with  *)
(* `final`.  stored[b][a] are the commits of attempt a whose rows are in   *)
(* remediation_observation_v1.                                             *)
(***************************************************************************)
EXTENDS Naturals, Sequences

CONSTANTS Batches, Workers,
          MaxAttempts,      \* attempts of a batch: 3 in the schema
          Commits,          \* commits that an attempt consists of
          MaxCallTries,     \* tries of a commit call: 2 in RpcClient.call
          MaxDisturbances   \* bound on lost calls, crashes, closings of the gate

ASSUME LeaseAssumption ==
  /\ MaxAttempts \in Nat \ {0}
  /\ Commits \in Nat \ {0}
  /\ MaxCallTries \in Nat \ {0}
  /\ MaxDisturbances \in Nat

VARIABLES batch,        \* the rows of remediation_source_batch_v1
          stored,
          worker,       \* the workers' own state
          stray,        \* calls that timed out and may still be carried out
          ready,        \* what the gate answers
          disturbances

vars == <<batch, stored, worker, stray, ready, disturbances>>
-----------------------------------------------------------------------------
Attempts == 1..MaxAttempts
NoToken == 0
Final == {"COMPLETE", "SOURCE_INVALID", "BLOCKED", "FAILED"}
Verdicts == {"COMPLETE", "SOURCE_INVALID"}    \* of a final commit
Idle == [pc |-> "idle"]
Retired == [pc |-> "retired"]    \* its process has come to a ceiling

Init ==
  /\ batch = [b \in Batches |-> [status |-> "QUEUED", attempts |-> 0, token |-> NoToken,
                                 leased |-> FALSE, source |-> 0, history |-> <<>>]]
  /\ stored = [b \in Batches |-> [a \in Attempts |-> {}]]
  /\ worker = [w \in Workers |-> Idle]
  /\ stray = {}
  /\ ready = TRUE
  /\ disturbances = 0

Disturb == disturbances < MaxDisturbances /\ disturbances' = disturbances + 1

\* The attempt is over: its outcome is appended to the history.
Over(q, status) == [q EXCEPT !.status = status, !.token = NoToken, !.leased = FALSE,
                             !.history = Append(@, status)]

\* The call refers to the lease that the batch is under.
Fenced(r) == batch[r.batch].status = "RUNNING" /\ batch[r.batch].token = r.token
-----------------------------------------------------------------------------
\* claim first ends the attempts whose lease has lapsed ...
Lapsed == {b \in Batches : batch[b].status = "RUNNING" /\ ~batch[b].leased}
Recovered == [b \in Batches |-> IF b \notin Lapsed THEN batch[b] ELSE
  Over(batch[b], IF batch[b].attempts >= MaxAttempts THEN "FAILED" ELSE "RETRY")]

\* ... and then, if no other batch is under a lease, leases one that waits.
Running == {b \in Batches : batch[b].status = "RUNNING" /\ batch[b].leased}
Claimable == {b \in Batches : Recovered[b].status \in {"QUEUED", "RETRY"} /\
                              Recovered[b].attempts < MaxAttempts}

Leased(b) == [Recovered EXCEPT ![b].status = "RUNNING", ![b].attempts = @ + 1,
                               ![b].token = Recovered[b].attempts + 1,
                               ![b].leased = TRUE, ![b].source = 0]

Claim(w) ==
  /\ worker[w] = Idle /\ ready /\ Running = {}
  /\ \E b \in Claimable :
       /\ batch' = Leased(b)
       /\ worker' = [worker EXCEPT ![w] = [pc |-> "working", batch |-> b,
            token |-> batch'[b].token, next |-> 1, tries |-> 0, lost |-> FALSE]]
  /\ UNCHANGED <<stored, stray, ready, disturbances>>

\* The lease is given and its token never arrives: claims are not repeated.
ClaimUnheard(w) ==
  /\ worker[w] = Idle /\ ready /\ Running = {} /\ Disturb
  /\ \E b \in Claimable : batch' = Leased(b)
  /\ UNCHANGED <<stored, worker, stray, ready>>

\* A claim that finds nothing to lease keeps what it has recovered.
ClaimNothing(w) ==
  /\ worker[w] = Idle /\ ready /\ Lapsed # {}
  /\ Running # {} \/ Claimable = {}
  /\ batch' = Recovered
  /\ UNCHANGED <<stored, worker, stray, ready, disturbances>>

\* Three minutes pass without a heartbeat or a commit.
LeaseLapses(b) ==
  /\ batch[b].status = "RUNNING" /\ batch[b].leased
  /\ batch' = [batch EXCEPT ![b].leased = FALSE]
  /\ UNCHANGED <<stored, worker, stray, ready, disturbances>>

GateMoves ==
  /\ IF ready THEN Disturb ELSE UNCHANGED disturbances
  /\ ready' = ~ready
  /\ UNCHANGED <<batch, stored, worker, stray>>
-----------------------------------------------------------------------------
Busy(w) == worker[w].pc = "working"
CommitOf(w) == [op |-> "commit", batch |-> worker[w].batch, token |-> worker[w].token,
                part |-> worker[w].next]

\* lost_lease is looked at before a call, not between the tries of one, and not
\* before a last commit without rows.
Calls(w) == Busy(w) /\ (worker[w].lost => worker[w].tries > 0 \/ worker[w].next = Commits)

\* Variant: the database does not look at the lease of a commit.
AcceptsAny(r) == ready /\ batch[r.batch].status = "RUNNING"

\* A commit needs the gate, the lease and, for its rows, the raw response; the
\* last one needs all rows.
Accepts(r) ==
  /\ ready /\ Fenced(r) /\ batch[r.batch].leased
  /\ r.part > 1 => 1 \in stored[r.batch][r.token]
  /\ r.part = Commits => 1..(Commits - 1) \subseteq stored[r.batch][r.token]

\* The last commit again, of the attempt that has ended with it.
Replayed(r) ==
  /\ ready /\ r.part = Commits
  /\ batch[r.batch].status \in Verdicts /\ batch[r.batch].token = r.token
  /\ batch[r.batch].source = r.token

\* What an accepted commit does.  The last one ends the attempt, as the counts
\* of its validation decide; the token stays, for a replay to be recognised.
Carry(r) ==
  /\ stored' = [stored EXCEPT ![r.batch][r.token] = @ \cup {r.part}]
  /\ IF r.part < Commits
     THEN batch' = [batch EXCEPT ![r.batch].source = r.token]
     ELSE \E verdict \in Verdicts :
            batch' = [batch EXCEPT ![r.batch].source = r.token, ![r.batch].status = verdict,
                                   ![r.batch].leased = FALSE,
                                   ![r.batch].history = Append(@, verdict)]

\* The worker's batch is over for it.  Its process claims another, unless that was the
\* last that its ceilings of batches and requests allow: then it waits, for good.
LetGo(w) == \E rest \in {Idle, Retired} : worker' = [worker EXCEPT ![w] = rest]

\* The answer arrives: the worker goes on to its next commit or is done.
Commit(w) ==
  /\ Calls(w)
  /\ \/ Accepts(CommitOf(w)) /\ Carry(CommitOf(w))
     \/ Replayed(CommitOf(w)) /\ UNCHANGED <<batch, stored>>
  /\ IF worker[w].next = Commits THEN LetGo(w)
     ELSE worker' = [worker EXCEPT ![w].next = @ + 1, ![w].tries = 0]
  /\ UNCHANGED <<stray, ready, disturbances>>

Failing(w, retryable, status) ==
  [pc |-> "failing", batch |-> worker[w].batch, token |-> worker[w].token,
   retryable |-> retryable, status |-> status]

\* An exception raised by the function: not retryable.
CommitRefused(w) ==
  /\ Calls(w)
  /\ ~Accepts(CommitOf(w)) /\ ~Replayed(CommitOf(w))
  /\ worker' = [worker EXCEPT ![w] = Failing(w, FALSE, "FAILED")]
  /\ UNCHANGED <<batch, stored, stray, ready, disturbances>>

\* Variant: one try too many.
TriesLeftOffByOne(w) == worker[w].tries + 1 <= MaxCallTries

TriesLeft(w) == worker[w].tries + 1 < MaxCallTries

\* No answer: the call is made once more, then the attempt is given up.
CommitTimesOut(w) ==
  /\ Calls(w) /\ Disturb
  /\ stray' = stray \cup {CommitOf(w)}
  /\ worker' = [worker EXCEPT ![w] =
       IF TriesLeft(w) THEN [worker[w] EXCEPT !.tries = @ + 1]
       ELSE Failing(w, TRUE, "FAILED")]
  /\ UNCHANGED <<batch, stored, ready>>

\* The source does not answer, is refused, cannot be parsed, or may not be asked: the
\* requests of the process are used up.
SourceFails(w) ==
  /\ Busy(w) /\ worker[w].next < Commits
  /\ \E retryable \in BOOLEAN, status \in Final \ {"COMPLETE"} :
       worker' = [worker EXCEPT ![w] = Failing(w, retryable, status)]
  /\ UNCHANGED <<batch, stored, stray, ready, disturbances>>

\* The heartbeat thread is told that the lease is gone, or is not told at all.
HeartbeatFails(w) ==
  /\ Busy(w) /\ ~worker[w].lost
  /\ IF ready /\ Fenced(CommitOf(w)) /\ batch[worker[w].batch].leased
     THEN Disturb ELSE UNCHANGED disturbances
  /\ worker' = [worker EXCEPT ![w].lost = TRUE]
  /\ UNCHANGED <<batch, stored, stray, ready>>

\* The worker looks at lost_lease between two calls.
GiveUp(w) ==
  /\ Busy(w) /\ worker[w].lost /\ worker[w].tries = 0
  /\ worker' = [worker EXCEPT ![w] = Failing(w, TRUE, "FAILED")]
  /\ UNCHANGED <<batch, stored, stray, ready, disturbances>>
-----------------------------------------------------------------------------
FailOf(w) == [op |-> "fail", batch |-> worker[w].batch, token |-> worker[w].token,
              retryable |-> worker[w].retryable, status |-> worker[w].status]

\* Variant: a failure is recorded whoever holds the batch.
RecordedAnyway(r) == [batch EXCEPT ![r.batch] =
  Over(@, IF r.retryable /\ @.attempts < MaxAttempts THEN "RETRY" ELSE r.status)]

\* Variant: the attempts are not looked at.
RecordedForRetry(r) == [batch EXCEPT ![r.batch] =
  IF ~Fenced(r) THEN @ ELSE Over(@, IF r.retryable THEN "RETRY" ELSE r.status)]

\* fail: retry while attempts are left.  A lapsed lease that nobody has
\* recovered yet will do.
Recorded(r) == [batch EXCEPT ![r.batch] =
  IF ~Fenced(r) THEN @
  ELSE Over(@, IF r.retryable /\ @.attempts < MaxAttempts THEN "RETRY" ELSE r.status)]

\* Whether the failure is recorded or refused, the worker goes on.
Fail(w) ==
  /\ worker[w].pc = "failing"
  /\ batch' = Recorded(FailOf(w))
  /\ LetGo(w)
  /\ UNCHANGED <<stored, stray, ready, disturbances>>

FailTimesOut(w) ==
  /\ worker[w].pc = "failing" /\ Disturb
  /\ stray' = stray \cup {FailOf(w)}
  /\ LetGo(w)
  /\ UNCHANGED <<batch, stored, ready>>

\* A call is carried out, or refused, after its worker has stopped waiting.
StrayCommit(r) ==
  /\ r \in stray /\ r.op = "commit" /\ stray' = stray \ {r}
  /\ IF Accepts(r) THEN Carry(r) ELSE UNCHANGED <<batch, stored>>
  /\ UNCHANGED <<worker, ready, disturbances>>

StrayFail(r) ==
  /\ r \in stray /\ r.op = "fail" /\ stray' = stray \ {r}
  /\ batch' = Recorded(r)
  /\ UNCHANGED <<stored, worker, ready, disturbances>>

\* The process dies; its successor starts with a claim, and from zero with its ceilings.
Crash(w) ==
  /\ worker[w] # Idle /\ Disturb
  /\ worker' = [worker EXCEPT ![w] = Idle]
  /\ UNCHANGED <<batch, stored, stray, ready>>
-----------------------------------------------------------------------------
Work(w) == Claim(w) \/ ClaimNothing(w) \/ Commit(w) \/ CommitRefused(w) \/ GiveUp(w) \/ Fail(w)

Next ==
  \/ \E w \in Workers : Work(w) \/ ClaimUnheard(w) \/ CommitTimesOut(w) \/ SourceFails(w)
                          \/ HeartbeatFails(w) \/ FailTimesOut(w) \/ Crash(w)
  \/ \E b \in Batches : LeaseLapses(b)
  \/ \E r \in stray : StrayCommit(r) \/ StrayFail(r)
  \/ GateMoves

\* Nobody renews the lease of this batch.
Abandoned(b) == \A w \in Workers : worker[w].pc \in {"working", "failing"} =>
  worker[w].batch # b \/ worker[w].token # batch[b].token

\* Workers go on, and a lease that nobody renews lapses.
Fairness ==
  /\ \A w \in Workers : WF_vars(Work(w))
  /\ \A b \in Batches : WF_vars(Abandoned(b) /\ LeaseLapses(b))
Spec == Init /\ [][Next]_vars /\ Fairness
-----------------------------------------------------------------------------
Rows == [status : {"QUEUED", "RUNNING", "RETRY"} \cup Final, attempts : 0..MaxAttempts,
         token : 0..MaxAttempts, leased : BOOLEAN, source : 0..MaxAttempts,
         history : Seq({"RETRY"} \cup Final)]
CommitCalls == [op : {"commit"}, batch : Batches, token : Attempts, part : 1..Commits]
FailCalls == [op : {"fail"}, batch : Batches, token : Attempts, retryable : BOOLEAN,
              status : Final \ {"COMPLETE"}]
WorkerStates ==
  {Idle, Retired}
  \cup [pc : {"working"}, batch : Batches, token : Attempts, next : 1..Commits,
        tries : 0..(MaxCallTries - 1), lost : BOOLEAN]
  \cup [pc : {"failing"}, batch : Batches, token : Attempts, retryable : BOOLEAN,
        status : Final \ {"COMPLETE"}]

\* Every variable has its type; tokens are of attempts that have begun.
TypeOK ==
  /\ batch \in [Batches -> Rows]
  /\ stored \in [Batches -> [Attempts -> SUBSET (1..Commits)]]
  /\ worker \in [Workers -> WorkerStates]
  /\ stray \subseteq CommitCalls \cup FailCalls
  /\ ready \in BOOLEAN
  /\ disturbances \in 0..MaxDisturbances

\* Every attempt that is over has one outcome in the history, the last of them
\* is the status, and there are never more than the schema's check allows: a
\* late or repeated call never ends an attempt that is not its own.
AttemptsAccounted == \A b \in Batches :
  /\ Len(batch[b].history) = batch[b].attempts - (IF batch[b].status = "RUNNING" THEN 1 ELSE 0)
  /\ batch[b].status \notin {"RUNNING", "QUEUED"} =>
       Len(batch[b].history) > 0 /\ batch[b].history[Len(batch[b].history)] = batch[b].status

\* A completed batch stands for the source of its last attempt, and all rows of
\* that source are stored: what a worker with an older lease has stored of
\* another source is not mixed in.
ResultOfLastAttempt == \A b \in Batches : batch[b].status = "COMPLETE" =>
  /\ batch[b].source = batch[b].attempts
  /\ stored[b][batch[b].source] = 1..Commits

\* All processes have come to their ceilings: what is left waits for a new one, a lapsed
\* lease included.
AllRetired == \A w \in Workers : worker[w] = Retired

\* Every batch comes to an end as long as the gate is open, though a claim is
\* lost, a worker dies or answers stay out.
BatchOver(b) == batch[b].status \in Final \/ ~ready \/ AllRetired
BatchEnds == \A b \in Batches : []<>BatchOver(b)
=============================================================================
