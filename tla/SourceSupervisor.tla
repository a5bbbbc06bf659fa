-------------------------- MODULE SourceSupervisor --------------------------
(***************************************************************************)
(* The EQ20 source supervisor (app/eq20_source_supervisor.py and           *)
(* app/eq20_terminal_reconciliation.py): one process per host reserves an  *)
(* attempt at a server, runs it in a child process and settles it.  Every  *)
(* call to the server is made by a helper process of its own and leaves    *)
(* files: request, process record, dispatch marker, response, completion.  *)
(* A supervisor that dies leaves helper, child and reservation behind; its *)
(* successor has the files to go by.                                       *)
(*                                                                         *)
(* One host, one kernel boot.  An attempt has the number of the control    *)
(* directory it was started from.  A call is complete when its helper is   *)
(* gone and the time has passed in which the server may carry it out.      *)
(* The allowances of six seconds are counted in calls: each leaves room    *)
(* for one whose answer stays out.  The server is external.                *)
(***************************************************************************)
EXTENDS Naturals

CONSTANTS MaxCycles,        \* bound on control directories
          MaxDisturbances   \* bound on crashes, failed calls and guards

VARIABLES pc,          \* what the supervisor is doing
          after,       \* where it goes on when the control directory is cleared
          cycle,       \* number of the last control directory
          control,     \* what that directory has come to
          attempt,     \* the files of the attempt's directory
          call,        \* the call that is not complete
          child,       \* the source child, its journal and its receipt
          statement,   \* a data statement of the child runs at the server
          held,        \* the attempt that the server holds a reservation for
          verdict,     \* how the server has settled each attempt
          sent,        \* terminal calls that were sent for the attempt
          disturbances

vars == <<pc, after, cycle, control, attempt, call, child, statement, held, verdict, sent,
          disturbances>>
server == <<held, verdict>>
local == <<after, cycle, control, attempt>>
-----------------------------------------------------------------------------
NoCall == [at |-> "none", dir |-> "control", action |-> "POLL", reply |-> "none",
           alive |-> FALSE, heard |-> FALSE]
NoChild == [at |-> "none", journal |-> FALSE, receipt |-> "none", guarded |-> FALSE]
NoAttempt == [id |-> 0, files |-> "none", launched |-> FALSE, recorded |-> FALSE,
              request |-> "none", tried |-> FALSE, reserves |-> 0, drained |-> FALSE,
              acks |-> {}]
Terminal == {"FINISH", "FAIL", "RECOVER"}

Init ==
  /\ pc = "top" /\ after = "top"
  /\ cycle = 0 /\ control = "none"
  /\ attempt = NoAttempt /\ call = NoCall /\ child = NoChild /\ statement = FALSE
  /\ held = 0 /\ verdict = [k \in 1..MaxCycles |-> "none"]
  /\ sent = 0 /\ disturbances = 0

Disturb == disturbances < MaxDisturbances /\ disturbances' = disturbances + 1
Alive == child.at \in {"spawned", "running"}

\* control_rpc writes a request file ...
Issue(dir, action) ==
  call' = [NoCall EXCEPT !.at = "request", !.dir = dir, !.action = action, !.heard = TRUE]

\* ... starts a helper and records which process it is.
StartHelper ==
  /\ pc # "top" /\ call.at = "request" /\ call.heard
  /\ call' = [call EXCEPT !.at = "recorded", !.alive = TRUE]
  /\ UNCHANGED <<pc, local, child, statement, server, sent, disturbances>>

\* No helper can be started, or it cannot be identified.
StartFails ==
  /\ Disturb /\ pc # "top" /\ call.at = "request" /\ call.heard
  /\ call' = [call EXCEPT !.heard = FALSE]
  /\ UNCHANGED <<pc, local, child, statement, server, sent>>

\* helper_run goes on only under its record, and leaves a marker before it sends.
Dispatch ==
  /\ call.at = "recorded" /\ call.alive
  /\ call' = [call EXCEPT !.at = "dispatched"]
  /\ sent' = IF call.action \in Terminal THEN sent + 1 ELSE sent
  /\ UNCHANGED <<pc, local, child, statement, server, disturbances>>

Settle(k, action) == verdict' = [verdict EXCEPT ![k] = action] /\ held' = 0

\* The server carries a call out, whether or not anybody waits for it.  It settles an
\* attempt once and repeats its acknowledgement.
Carry ==
  LET k == IF call.dir = "control" THEN cycle ELSE attempt.id
      settled == verdict[k] # "none"
      Says(reply) == call' = [call EXCEPT !.at = "carried", !.reply = reply]
  IN /\ call.at = "dispatched"
     /\ \/ call.action = "START" /\ held = 0 /\ held' = k /\ UNCHANGED verdict /\ Says("acquired")
        \/ call.action = "RESERVE" /\ ~settled /\ UNCHANGED server /\ Says("acquired")
        \/ call.action \in {"START", "RESERVE", "DRAIN"} /\ ~settled /\ UNCHANGED server /\ Says("closed")
        \/ call.action \in Terminal /\ ~settled /\ Settle(k, call.action) /\ Says("ack")
        \/ call.action = "COMMIT" /\ ~settled /\ Settle(k, attempt.request) /\ Says("ack")
        \/ call.action \in {"POLL", "STATUS", "HEARTBEAT"} /\ UNCHANGED server
           /\ Says(IF held = k THEN "held" ELSE IF held # 0 THEN "other" ELSE "none")
        \/ call.action \notin {"POLL", "START", "STATUS", "HEARTBEAT"} /\ settled /\ UNCHANGED server
           /\ Says("ack")
     /\ UNCHANGED <<pc, local, child, statement, sent, disturbances>>

\* The helper writes the response file and ends.
Answer ==
  /\ call.at = "carried" /\ call.alive
  /\ call' = [call EXCEPT !.at = "answered", !.alive = FALSE]
  /\ UNCHANGED <<pc, local, child, statement, server, sent, disturbances>>

\* The helper fails or is killed in time, or a guard fires when it has answered.
CallFails ==
  /\ Disturb /\ call.heard /\ call.at \notin {"none", "request"}
  /\ call' = [call EXCEPT !.alive = FALSE, !.heard = FALSE]
  /\ UNCHANGED <<pc, local, child, statement, server, sent>>

\* A call is completed: what it has answered stays in its directory.
Completed(files) ==
  /\ call' = NoCall
  /\ attempt' = IF call.at = "answered" /\ call.reply = "ack"
                THEN [files EXCEPT !.acks = @ \cup {call.dir}] ELSE files

Heard(where) == pc = where /\ call.at = "answered" /\ call.heard
Failed(where) == pc = where /\ call.at \notin {"none", "request"} /\ ~call.heard /\ ~call.alive
GoTo(where) == pc' = where

\* A supervisor whose call has failed waits for its end and starts again at the top.
CallFailed ==
  /\ \E where \in {"poll", "start", "ask", "terminal", "reserve", "commit", "drain"} : Failed(where)
  /\ Completed(attempt) /\ GoTo("top")
  /\ UNCHANGED <<after, cycle, control, child, statement, server, sent, disturbances>>

\* reconcile_control_calls: a recorded helper is killed and its time waited for.
\* Without a record, nothing proves that there is none: the directory is stuck.
Reconcile ==
  /\ pc \in {"control", "finish"} /\ call.at \notin {"none", "request"}
  /\ IF call.alive THEN call' = [call EXCEPT !.alive = FALSE, !.heard = FALSE] /\ UNCHANGED attempt
     ELSE Completed(attempt)
  /\ UNCHANGED <<pc, after, cycle, control, child, statement, server, sent, disturbances>>
-----------------------------------------------------------------------------
\* recover_local: an attempt that has no acknowledgement comes first.
Pending == attempt.files \in {"made", "job", "emptied"}

NothingPending ==
  /\ pc = "top" /\ ~Pending /\ GoTo("control")
  /\ UNCHANGED <<local, call, child, statement, server, sent, disturbances>>

\* It has its terminal request already ...
ResumeTerminal ==
  /\ pc = "top" /\ attempt.files = "job" /\ attempt.request # "none" /\ GoTo("finish")
  /\ UNCHANGED <<local, call, child, statement, server, sent, disturbances>>

\* ... or its child, if one was launched and is known, is killed ...
KillRecorded ==
  /\ pc = "top" /\ attempt.files = "job" /\ attempt.request = "none" /\ attempt.launched
  /\ attempt.recorded \/ child.journal
  /\ Alive /\ child' = [child EXCEPT !.at = "dead"]
  /\ UNCHANGED <<pc, local, call, statement, server, sent, disturbances>>

\* Variant: a statement that the child has left behind is not waited for.
QuietAtOnce == ~Alive

\* The child is gone, and so is what it has left at the server.
Quiet == ~Alive /\ ~statement

\* ... and a recovery is requested.
RequestRecovery ==
  /\ pc = "top" /\ attempt.files = "job" /\ attempt.request = "none"
  /\ attempt.launched => (attempt.recorded \/ child.journal) /\ Quiet
  /\ attempt' = [attempt EXCEPT !.request = "RECOVER"]
  /\ GoTo("finish")
  /\ UNCHANGED <<after, cycle, control, call, child, statement, server, sent, disturbances>>

\* Then the control directory: one without a START is cleared ...
ClearLeftControl ==
  /\ pc = "control" /\ call = NoCall /\ control \in {"open", "sealed"}
  /\ control' = "none"
  /\ UNCHANGED <<pc, after, cycle, attempt, call, child, statement, server, sent, disturbances>>

\* ... and for one with a START the server is asked, once.
Ask ==
  /\ pc = "control" /\ call = NoCall /\ control = "intent"
  /\ control' = "asked" /\ Issue("control", "STATUS") /\ GoTo("ask")
  /\ UNCHANGED <<after, cycle, attempt, child, statement, server, sent, disturbances>>

Made == [NoAttempt EXCEPT !.id = cycle, !.files = "made"]

\* The reservation is there: it gets a directory, to be recovered from.
AskedHeld ==
  /\ Heard("ask") /\ call.reply = "held"
  /\ attempt' = Made /\ call' = NoCall /\ child' = NoChild /\ sent' = 0
  /\ after' = "top" /\ GoTo("writing")
  /\ UNCHANGED <<cycle, control, statement, server, disturbances>>

AskedNothing ==
  /\ Heard("ask") /\ call.reply # "held"
  /\ call' = NoCall /\ control' = "sealed" /\ GoTo("top")
  /\ UNCHANGED <<after, cycle, attempt, child, statement, server, sent, disturbances>>
-----------------------------------------------------------------------------
\* supervise_once: a new control directory and a POLL ...
Poll ==
  /\ pc = "control" /\ call = NoCall /\ control = "none" /\ cycle < MaxCycles
  /\ cycle' = cycle + 1 /\ control' = "open"
  /\ Issue("control", "POLL") /\ GoTo("poll")
  /\ UNCHANGED <<after, attempt, child, statement, server, sent, disturbances>>

\* ... which may find a reservation that is not known here, a closed gate, or no memory ...
PollRefused ==
  /\ Heard("poll")
  /\ call' = NoCall /\ control' = "none" /\ GoTo("top")
  /\ UNCHANGED <<after, cycle, attempt, child, statement, server, sent, disturbances>>

\* ... then START, whose intent is on disk before it is sent.
Start ==
  /\ Heard("poll") /\ call.reply = "none"
  /\ control' = "intent"
  /\ Issue("control", "START") /\ GoTo("start")
  /\ UNCHANGED <<after, cycle, attempt, child, statement, server, sent, disturbances>>

StartClosed ==
  /\ Heard("start") /\ call.reply = "closed"
  /\ call' = NoCall /\ control' = "sealed" /\ GoTo("top")
  /\ UNCHANGED <<after, cycle, attempt, child, statement, server, sent, disturbances>>

Started ==
  /\ Heard("start") /\ call.reply = "acquired"
  /\ attempt' = Made /\ call' = NoCall /\ child' = NoChild /\ sent' = 0
  /\ after' = "launch" /\ GoTo("writing")
  /\ UNCHANGED <<cycle, control, statement, server, disturbances>>

\* The attempt's directory gets its job, and the control directory is sealed and cleared.
WriteJob ==
  /\ pc = "writing" /\ GoTo("clearing")
  /\ attempt' = [attempt EXCEPT !.files = "job"]
  /\ UNCHANGED <<after, cycle, control, call, child, statement, server, sent, disturbances>>

ClearControl ==
  /\ pc = "clearing"
  /\ IF control = "sealed" THEN control' = "none" /\ GoTo(after)
     ELSE control' = "sealed" /\ UNCHANGED pc
  /\ UNCHANGED <<after, cycle, attempt, call, child, statement, server, sent, disturbances>>
-----------------------------------------------------------------------------
\* The launch is written down, the child started, and its identity recorded.
Launch ==
  /\ pc = "launch" /\ GoTo("spawn")
  /\ attempt' = [attempt EXCEPT !.launched = TRUE]
  /\ UNCHANGED <<after, cycle, control, call, child, statement, server, sent, disturbances>>

Spawn ==
  /\ pc = "spawn" /\ GoTo("record")
  /\ child' = [NoChild EXCEPT !.at = "spawned"]
  /\ UNCHANGED <<local, call, statement, server, sent, disturbances>>

Record ==
  /\ pc = "record" /\ GoTo("watch")
  /\ attempt' = [attempt EXCEPT !.recorded = TRUE]
  /\ UNCHANGED <<after, cycle, control, call, child, statement, server, sent, disturbances>>

\* Nothing is left of the allowance before the launch; Popen fails after it.
LaunchFails ==
  /\ Disturb
  /\ \/ pc = "launch" /\ GoTo("settle") /\ child' = [NoChild EXCEPT !.guarded = TRUE]
     \/ pc = "spawn" /\ GoTo("top") /\ UNCHANGED child
  /\ UNCHANGED <<local, call, statement, server, sent>>

\* The child has its journal before anything else, and holds rpc.lock during a statement.
Journal ==
  /\ child.at = "spawned"
  /\ child' = [child EXCEPT !.at = "running", !.journal = TRUE]
  /\ UNCHANGED <<pc, local, call, statement, server, sent, disturbances>>

Gate == pc = "watch" /\ call # NoCall
SendStatement ==
  /\ child.at = "running" /\ ~statement /\ ~Gate /\ child.receipt = "none"
  /\ statement' = TRUE
  /\ UNCHANGED <<pc, local, call, child, server, sent, disturbances>>

\* A statement ends by itself, whatever has become of the child.
StatementEnds ==
  /\ statement /\ statement' = FALSE
  /\ UNCHANGED <<pc, local, call, child, server, sent, disturbances>>

ChildEnds ==
  /\ child.at = "running" /\ ~statement
  /\ \E receipt \in {"success", "failure"} : child' = [child EXCEPT !.at = "dead", !.receipt = receipt]
  /\ UNCHANGED <<pc, local, call, statement, server, sent, disturbances>>

\* It dies, or a guard of the supervisor kills it.
ChildDies ==
  /\ Disturb /\ Alive
  /\ \E guarded \in {FALSE, pc = "watch"} : child' = [child EXCEPT !.at = "dead", !.guarded = guarded]
  /\ UNCHANGED <<pc, local, call, statement, server, sent>>

\* A heartbeat goes out between two statements, and keeps the child from the next.
Heartbeat ==
  /\ pc = "watch" /\ call = NoCall /\ Alive /\ ~statement
  /\ Issue("attempt", "HEARTBEAT")
  /\ UNCHANGED <<pc, local, child, statement, server, sent, disturbances>>

HeartbeatOver ==
  /\ Heard("watch") \/ Failed("watch")
  /\ Completed(attempt)
  /\ IF call.heard /\ call.reply = "held" THEN UNCHANGED child
     ELSE child' = [child EXCEPT !.at = "dead", !.guarded = TRUE]
  /\ UNCHANGED <<pc, after, cycle, control, statement, server, sent, disturbances>>

Reap ==
  /\ pc = "watch" /\ call = NoCall /\ ~Alive /\ GoTo("settle")
  /\ UNCHANGED <<local, call, child, statement, server, sent, disturbances>>

\* terminal_receipt, when nothing of the child is left at the server.
WriteRequest ==
  /\ pc = "settle" /\ Quiet /\ GoTo("finish")
  /\ attempt' = [attempt EXCEPT !.request =
       IF child.receipt = "success" /\ ~child.guarded THEN "FINISH" ELSE "FAIL"]
  /\ UNCHANGED <<after, cycle, control, call, child, statement, server, sent, disturbances>>
-----------------------------------------------------------------------------
\* finish_attempt: an acknowledgement that was stored but not seen is taken ...
Salvage ==
  /\ pc \in {"finish", "repair"} /\ call = NoCall
  /\ (IF pc = "finish" THEN "attempt" ELSE "maintenance") \in attempt.acks
  /\ GoTo("acked") /\ attempt' = [attempt EXCEPT !.files = "acked"]
  /\ UNCHANGED <<after, cycle, control, call, child, statement, server, sent, disturbances>>

\* ... or the request is sent, its whole allowance written off before; when there is
\* none left, the reconciliation takes over.
Finish ==
  /\ pc = "finish" /\ call = NoCall /\ "attempt" \notin attempt.acks
  /\ IF attempt.tried THEN GoTo("repair") /\ UNCHANGED <<attempt, call>>
     ELSE /\ GoTo("terminal") /\ Issue("attempt", attempt.request)
          /\ attempt' = [attempt EXCEPT !.tried = TRUE]
  /\ UNCHANGED <<after, cycle, control, child, statement, server, sent, disturbances>>

\* A child was launched, or may have been, and its process is not on record.
Unproved == attempt.launched /\ ~attempt.recorded

\* reconcile_terminal: two reservations, each for one commit of the old request, under
\* the proof that the child is gone.  Unlike a recovery it takes the record of the
\* process only, not the child's journal: without it, it fails whenever it is tried ...
Reserve ==
  /\ pc = "repair" /\ "maintenance" \notin attempt.acks /\ attempt.reserves < 2
  /\ ~Unproved /\ Quiet
  /\ attempt' = [attempt EXCEPT !.reserves = @ + 1]
  /\ Issue("maintenance", "RESERVE") /\ GoTo("reserve")
  /\ UNCHANGED <<after, cycle, control, child, statement, server, sent, disturbances>>

Reserved ==
  /\ Heard("reserve") /\ call.reply = "acquired"
  /\ Issue("maintenance", "COMMIT") /\ GoTo("commit")
  /\ UNCHANGED <<local, child, statement, server, sent, disturbances>>

\* ... and one last look whether the server has settled the attempt after all.
Drain ==
  /\ pc = "repair" /\ "maintenance" \notin attempt.acks /\ attempt.reserves = 2
  /\ ~attempt.drained /\ ~Unproved /\ Quiet
  /\ attempt' = [attempt EXCEPT !.drained = TRUE]
  /\ Issue("maintenance", "DRAIN") /\ GoTo("drain")
  /\ UNCHANGED <<after, cycle, control, child, statement, server, sent, disturbances>>

RepairClosed ==
  /\ Heard("reserve") \/ Heard("drain")
  /\ call.reply = "closed" /\ call' = NoCall /\ GoTo("top")
  /\ UNCHANGED <<local, child, statement, server, sent, disturbances>>

Acknowledged ==
  /\ \E where \in {"terminal", "reserve", "commit", "drain"} : Heard(where)
  /\ call.reply = "ack" /\ call' = NoCall
  /\ GoTo("acked") /\ attempt' = [attempt EXCEPT !.files = "acked"]
  /\ UNCHANGED <<after, cycle, control, child, statement, server, sent, disturbances>>

\* own_cleanup: the acknowledgement goes last, then the directory; or it stays.
CleanUp ==
  /\ pc = "acked"
  /\ \/ attempt.files = "acked" /\ attempt' = [attempt EXCEPT !.files = "emptied"] /\ UNCHANGED pc
     \/ attempt.files = "emptied" /\ attempt' = [attempt EXCEPT !.files = "none"] /\ GoTo("top")
     \/ attempt.files = "acked" /\ GoTo("top") /\ UNCHANGED attempt
  /\ UNCHANGED <<after, cycle, control, call, child, statement, server, sent, disturbances>>

\* The supervisor dies; helper and child may live on.
Crash ==
  /\ Disturb /\ pc # "top" /\ GoTo("top")
  /\ call' = [call EXCEPT !.heard = FALSE]
  /\ UNCHANGED <<local, child, statement, server, sent>>
-----------------------------------------------------------------------------
Supervise ==
  \/ StartHelper \/ CallFailed \/ Reconcile
  \/ NothingPending \/ ResumeTerminal \/ KillRecorded \/ RequestRecovery
  \/ ClearLeftControl \/ Ask \/ AskedHeld \/ AskedNothing
  \/ Poll \/ PollRefused \/ Start \/ StartClosed \/ Started \/ WriteJob \/ ClearControl
  \/ Launch \/ Spawn \/ Record \/ HeartbeatOver \/ Reap \/ WriteRequest
  \/ Salvage \/ Finish \/ Reserve \/ Reserved \/ Drain \/ RepairClosed \/ Acknowledged \/ CleanUp

Others == Dispatch \/ Carry \/ Answer \/ Journal \/ StatementEnds \/ ChildEnds

Next ==
  \/ Supervise \/ Others \/ Heartbeat \/ SendStatement
  \/ StartFails \/ CallFails \/ LaunchFails \/ ChildDies \/ Crash

\* The supervisor's loop, its helpers, the child and the server go on.  A heartbeat or
\* another statement need not come, and the child's budget of time ends it between two.
Fairness ==
  /\ WF_vars(Supervise)
  /\ WF_vars(Dispatch \/ Carry \/ Answer)
  /\ WF_vars(Journal) /\ SF_vars(ChildEnds) /\ WF_vars(StatementEnds)

Spec == Init /\ [][Next]_vars /\ Fairness
-----------------------------------------------------------------------------
TypeOK ==
  /\ cycle \in 0..MaxCycles
  /\ control \in {"none", "open", "intent", "asked", "sealed"}
  /\ attempt.id \in 0..MaxCycles /\ attempt.reserves \in 0..2
  /\ attempt.files \in {"none", "made", "job", "acked", "emptied"}
  /\ attempt.request \in Terminal \cup {"none"}
  /\ attempt.acks \subseteq {"attempt", "maintenance"}
  /\ call.at \in {"none", "request", "recorded", "dispatched", "carried", "answered"}
  /\ child.at \in {"none", "spawned", "running", "dead"}
  /\ held \in 0..MaxCycles
  /\ verdict \in [1..MaxCycles -> Terminal \cup {"none"}]

\* The reservation of an attempt is released only when its child is dead and nothing
\* of it runs at the server, and as finished only when the child has said so.
ReleasedIdle ==
  attempt.id # 0 /\ verdict[attempt.id] # "none" =>
    /\ ~Alive /\ ~statement
    /\ verdict[attempt.id] = "FINISH" => child.receipt = "success"

\* A reservation that the server holds can be found on the supervisor's disk.
Traceable == held # 0 =>
  \/ cycle = held /\ control \in {"intent", "asked"}
  \/ attempt.id = held /\ attempt.files = "job"

\* An attempt's terminal request is sent once, whatever dies around it: what follows
\* is the reconciliation's, under an allowance of its own.
SentOnce == sent <= 1

\* A supervisor that comes to one of these leaves the reservation to an operator: a
\* helper or a child that may or may not have been started, a directory without its
\* job, a server that was asked for the START in vain, the reconciliation used up or
\* without the proof that it asks for.
Wedged ==
  \/ call.at = "request"
  \/ attempt.files = "made"
  \/ Unproved /\ (~child.journal \/ pc = "repair")
  \/ control = "asked" \/ attempt.drained

\* Every reservation is released in the end, or left in one of these ways.
SupervisorOver == held = 0 \/ Wedged
SupervisorEnds == <>[]SupervisorOver
=============================================================================
