--------------------------- MODULE MissionSegments ---------------------------
(***************************************************************************)
(* The segments of the EQ20 mission (app/eq20_mission_continuation.py) and *)
(* the snapshots that carry its work from one to the next                  *)
(* (app/eq20_fp01_artifact_adapter.py).  A controller reserves an attempt  *)
(* at the server and runs it in a child for a few seconds: the child       *)
(* restores the server's snapshot, works on it, uploads a new one and      *)
(* leaves a receipt, which the controller turns into a terminal request.   *)
(* A deployment lets two hosts overlap, each with a disk of its own.       *)
(*                                                                         *)
(* A checkpoint is the attempts that have done its units of work, in       *)
(* order, whether the engine has declared it complete, and the attempt     *)
(* that wrote it.  The files of a snapshot and their parts, budgets and    *)
(* hashes are left out.  The server is external: it takes a snapshot from  *)
(* the attempt that is reserved, whatever it is based on.                  *)
(***************************************************************************)
EXTENDS Naturals, Sequences

CONSTANTS Hosts,
          Units,            \* units of work
          LastAttempt,      \* bound on attempts
          Spare,            \* of which a host in conflict leaves some to the other
          MaxDisturbances   \* bound on crashes, lost calls and time that is up

VARIABLES held,        \* the attempt that is reserved, or 0
          attempts,    \* attempts so far
          verdict,     \* how each was settled
          snapshot,    \* the server's current snapshot
          runner,      \* the host of the last attempt
          files,       \* its job, identity and terminal files there
          child,       \* its child process
          statement,   \* a snapshot commit that the server may still carry out
          late,        \* a terminal call of a controller that is gone
          disk,        \* the output directory and the artifact cache of each host
          controller,  \* what each host's controller is doing
          disturbances

vars == <<held, attempts, verdict, snapshot, runner, files, child, statement, late, disk,
          controller, disturbances>>
server == <<held, attempts, verdict, snapshot>>
-----------------------------------------------------------------------------
Nothing == [by |-> 0, done |-> <<>>, complete |-> FALSE]
Unwritten == [cp |-> Nothing, base |-> Nothing]      \* no such file
NoFiles == [identity |-> FALSE, terminal |-> "none"]
NoCall == [attempt |-> 0, operation |-> "none"]
NoChild == [at |-> "dead", known |-> TRUE, prev |-> Nothing, receipt |-> "none"]
Verdicts == {"terminal_commit", "terminal_progress", "terminal_fail"}

Init ==
  /\ held = 0 /\ attempts = 0 /\ verdict = [k \in 1..LastAttempt |-> "none"]
  /\ snapshot = Nothing
  /\ runner \in Hosts /\ files = NoFiles /\ child = NoChild
  /\ statement = Unwritten /\ late = NoCall
  /\ disk = [h \in Hosts |-> [output |-> Nothing, preparing |-> Unwritten, pending |-> Unwritten]]
  /\ controller = [h \in Hosts |-> "idle"]
  /\ disturbances = 0

Disturb == disturbances < MaxDisturbances /\ disturbances' = disturbances + 1
At(h, pc) == controller[h] = pc
GoTo(h, pc) == controller' = [controller EXCEPT ![h] = pc]
Alive == child.at # "dead"
\* The host has a snapshot of its own on a base that the server has left.
Conflict(h) ==
  /\ ~At(h, "gone") /\ disk[h].preparing # Unwritten
  /\ snapshot \notin {disk[h].preparing.cp, disk[h].preparing.base}
Verified == \E k \in 1..attempts : verdict[k] = "terminal_commit"
-----------------------------------------------------------------------------
\* supervise_once: the server reserves an attempt and says what it goes on from.
Reserve(h) ==
  /\ held = 0 /\ ~Verified
  /\ attempts < LastAttempt - (IF Conflict(h) THEN Spare ELSE 0)
  /\ attempts' = attempts + 1 /\ held' = attempts + 1
  /\ runner' = h /\ files' = NoFiles /\ child' = [NoChild EXCEPT !.prev = snapshot]
  /\ UNCHANGED <<verdict, snapshot, statement, late, disk>>

Tick(h) ==
  /\ At(h, "idle") /\ Reserve(h) /\ GoTo(h, "launch")
  /\ UNCHANGED disturbances

\* Its answer is lost: nobody runs the attempt.
TickUnheard(h) ==
  /\ At(h, "idle") /\ Reserve(h) /\ Disturb
  /\ UNCHANGED controller

\* An attempt that was left reserved is recovered, on its own host only.
TickRecover(h) ==
  /\ At(h, "idle") /\ held # 0 /\ runner = h /\ GoTo(h, "recover")
  /\ UNCHANGED <<server, runner, files, child, statement, late, disk, disturbances>>

\* execute_reserved_child: the child is started, then its identity recorded.
Launch(h) ==
  /\ At(h, "launch") /\ GoTo(h, "record")
  /\ child' = [child EXCEPT !.at = "restore"]
  /\ UNCHANGED <<server, runner, files, statement, late, disk, disturbances>>

Record(h) ==
  /\ At(h, "record") /\ GoTo(h, "watch")
  /\ files' = [files EXCEPT !.identity = TRUE]
  /\ UNCHANGED <<server, runner, child, statement, late, disk, disturbances>>

\* No process can be started: the attempt is left as it is.
LaunchFails(h) ==
  /\ At(h, "launch") /\ Disturb /\ GoTo(h, "idle")
  /\ UNCHANGED <<server, runner, files, child, statement, late, disk>>

\* The child cannot be identified, and its terminal file will not name it; or its
\* identity cannot be written: then it is stopped.
RecordFails(h) ==
  /\ At(h, "record") /\ Disturb
  /\ \/ GoTo(h, "watch") /\ child' = [child EXCEPT !.known = FALSE]
     \/ GoTo(h, "settle") /\ child' = [child EXCEPT !.at = "dead", !.receipt = "none"]
  /\ UNCHANGED <<server, runner, files, statement, late, disk>>

Reap(h) ==
  /\ At(h, "watch") /\ ~Alive /\ GoTo(h, "settle")
  /\ UNCHANGED <<server, runner, files, child, statement, late, disk, disturbances>>

Operation ==
  CASE child.receipt = "VERIFIED" -> "terminal_commit"
    [] child.receipt = "RUNNING" -> "terminal_progress"
    [] OTHER -> "terminal_fail"

\* The request is written down before it is sent, when the child's last statement is over.
WriteTerminal(h) ==
  /\ At(h, "settle") /\ statement = Unwritten /\ GoTo(h, "send")
  /\ files' = [files EXCEPT !.terminal = Operation]
  /\ UNCHANGED <<server, runner, child, statement, late, disk, disturbances>>

\* The server settles an attempt once.
Settle(k, operation) ==
  IF held # k THEN UNCHANGED <<held, verdict>>
  ELSE held' = 0 /\ verdict' = [verdict EXCEPT ![k] = operation]

Send(h) ==
  /\ At(h, "send") /\ GoTo(h, "idle") /\ Settle(attempts, files.terminal)
  /\ UNCHANGED <<attempts, snapshot, runner, files, child, statement, late, disk, disturbances>>

SendFails(h) ==
  /\ At(h, "send") /\ Disturb /\ GoTo(h, "idle")
  /\ UNCHANGED <<server, runner, files, child, statement, late, disk>>

\* recover_recorded_attempt: without an identity, of its own file or the terminal's, there
\* is no proof that the child is gone.
CanRecover == files.identity \/ (files.terminal # "none" /\ child.known)
ToRecover(h) == At(h, "recover") /\ held # 0 /\ runner = h

RecoverKills(h) ==
  /\ ToRecover(h) /\ CanRecover /\ Alive
  /\ child' = [child EXCEPT !.at = "dead"]
  /\ UNCHANGED <<server, runner, files, statement, late, disk, controller, disturbances>>

Unrecoverable(h) ==
  /\ At(h, "recover") /\ (~ToRecover(h) \/ ~CanRecover) /\ GoTo(h, "idle")
  /\ UNCHANGED <<server, runner, files, child, statement, late, disk, disturbances>>

\* The terminal request is repeated as it was written; if none was, the attempt has failed.
Recover(h) ==
  /\ ToRecover(h) /\ CanRecover /\ ~Alive /\ statement = Unwritten /\ late = NoCall
  /\ GoTo(h, "idle")
  /\ Settle(attempts, IF files.terminal = "none" THEN "terminal_fail" ELSE files.terminal)
  /\ UNCHANGED <<attempts, snapshot, runner, files, child, statement, late, disk, disturbances>>
-----------------------------------------------------------------------------
\* The child, on the disk of its host.
Mine == disk[runner]
Write(d) == disk' = [disk EXCEPT ![runner] = d]
ChildAt(at) == child.at = at
ChildGoes(at) == child' = [child EXCEPT !.at = at]
Ends(receipt) == child' = [child EXCEPT !.at = "dead", !.receipt = receipt]

Prepared == Mine.preparing # Unwritten
Pending == Mine.pending # Unwritten

\* restore_checkpoint: a snapshot that was being prepared is prepared to the end ...
RestorePreparing ==
  /\ ChildAt("restore") /\ Prepared /\ ~Pending
  /\ \/ /\ Mine.preparing.cp = child.prev
        /\ Write([Mine EXCEPT !.preparing = Unwritten]) /\ UNCHANGED child
     \/ /\ Mine.preparing.cp # child.prev
        /\ IF Mine.preparing.base = child.prev /\ Mine.output = Mine.preparing.cp
           THEN Write([Mine EXCEPT !.pending = Mine.preparing]) /\ UNCHANGED child
           ELSE Ends("BLOCKED") /\ UNCHANGED disk
  /\ UNCHANGED <<server, runner, files, statement, late, controller, disturbances>>

\* Variant: a pending snapshot is published whatever it is based on.
PublishAnyway ==
  /\ ChildAt("restore") /\ Pending
  /\ IF Mine.pending.cp = child.prev
     THEN Write([Mine EXCEPT !.pending = Unwritten]) /\ ChildGoes("work")
     ELSE UNCHANGED disk /\ ChildGoes("upload")
  /\ UNCHANGED <<server, runner, files, statement, late, controller, disturbances>>

\* ... one that waits for publication is published, if it is not the server's already
\* and the server has not gone on without it; what was prepared for it is not removed.
RestorePending ==
  /\ ChildAt("restore") /\ Pending
  /\ IF Mine.pending.cp = child.prev
     THEN Write([Mine EXCEPT !.pending = Unwritten]) /\ ChildGoes("work")
     ELSE /\ IF Mine.pending.base = child.prev THEN ChildGoes("upload") ELSE Ends("BLOCKED")
          /\ UNCHANGED disk
  /\ UNCHANGED <<server, runner, files, statement, late, controller, disturbances>>

RestoreNothing ==
  /\ ChildAt("restore") /\ ~Prepared /\ ~Pending /\ ChildGoes("work")
  /\ UNCHANGED <<server, runner, files, statement, late, disk, controller, disturbances>>

\* The output is made equal to the server's snapshot, what differs is set aside.
Restored == child.prev

\* run_registered_full_population_stage: at least one unit, and the checkpoint is
\* complete with the last of them, or in the next segment if this one yields before.
Work ==
  /\ ChildAt("work") /\ ~child.prev.complete
  /\ \E n \in 0..(Units - Len(Restored.done)), complete \in BOOLEAN :
       /\ n = 0 => complete
       /\ complete => Len(Restored.done) + n = Units
       /\ Write([Mine EXCEPT !.output = [by |-> attempts, complete |-> complete,
                   done |-> Restored.done \o [i \in 1..n |-> attempts]]])
  /\ ChildGoes("commit")
  /\ UNCHANGED <<server, runner, files, statement, late, controller, disturbances>>

\* Variant: a checkpoint is verified in the segment that completes it.
AccountAtOnce ==
  /\ ChildAt("work") /\ Len(child.prev.done) = Units /\ Ends("VERIFIED")
  /\ UNCHANGED <<server, runner, files, statement, late, disk, controller, disturbances>>

\* A snapshot that is complete at the server is accounted for: nothing is uploaded.
Account ==
  /\ ChildAt("work") /\ child.prev.complete /\ Ends("VERIFIED")
  /\ UNCHANGED <<server, runner, files, statement, late, disk, controller, disturbances>>

\* _prepare_snapshot: the intent first; one that is of another checkpoint ends the segment.
Prepare ==
  /\ ChildAt("commit")
  /\ IF Prepared /\ Mine.preparing.cp # Mine.output THEN Ends("BLOCKED") /\ UNCHANGED disk
     ELSE /\ Write([Mine EXCEPT !.preparing = [cp |-> Mine.output, base |-> child.prev]])
          /\ ChildGoes("seal")
  /\ UNCHANGED <<server, runner, files, statement, late, controller, disturbances>>

Seal ==
  /\ ChildAt("seal") /\ ChildGoes("upload")
  /\ Write([Mine EXCEPT !.pending = Mine.preparing])
  /\ UNCHANGED <<server, runner, files, statement, late, controller, disturbances>>

\* _publish_pending: the parts that are not acknowledged yet, then the commit.
Publish ==
  /\ ChildAt("upload") /\ ChildGoes("sent") /\ statement' = Mine.pending
  /\ UNCHANGED <<server, runner, files, late, disk, controller, disturbances>>

\* The server carries it out ...
Commit ==
  /\ statement # Unwritten /\ statement' = Unwritten
  /\ snapshot' = IF held # 0 THEN statement.cp ELSE snapshot
  /\ IF ChildAt("sent") THEN ChildGoes("told") ELSE UNCHANGED child
  /\ UNCHANGED <<held, attempts, verdict, runner, files, late, disk, controller, disturbances>>

\* ... or does not, or its answer is lost.
CommitFails ==
  /\ statement # Unwritten /\ Disturb /\ statement' = Unwritten
  /\ snapshot' \in {snapshot, IF held # 0 THEN statement.cp ELSE snapshot}
  /\ IF ChildAt("sent") THEN Ends("BLOCKED") ELSE UNCHANGED child
  /\ UNCHANGED <<held, attempts, verdict, runner, files, late, disk, controller>>

Unpend ==
  /\ ChildAt("told") /\ ChildGoes("clear")
  /\ Write([Mine EXCEPT !.pending = Unwritten])
  /\ UNCHANGED <<server, runner, files, statement, late, controller, disturbances>>

Clear ==
  /\ ChildAt("clear") /\ Ends("RUNNING")
  /\ Write([Mine EXCEPT !.preparing = Unwritten])
  /\ UNCHANGED <<server, runner, files, statement, late, controller, disturbances>>

\* The time for preparations is up: what is done stays for the next segment.
PreparationYields ==
  /\ ChildAt("restore") \/ ChildAt("seal") \/ ChildAt("upload")
  /\ Disturb /\ Ends("RUNNING")
  /\ UNCHANGED <<server, runner, files, statement, late, disk, controller>>

\* A limit, a failed check or a kill.
ChildDies ==
  /\ Alive /\ Disturb /\ Ends("BLOCKED")
  /\ UNCHANGED <<server, runner, files, statement, late, disk, controller>>
-----------------------------------------------------------------------------
\* The controller's process dies, at worst with a call under way; the child lives on.
Crash(h) ==
  /\ controller[h] \notin {"idle", "gone"} /\ Disturb /\ GoTo(h, "idle")
  /\ late' \in {late, IF At(h, "send") THEN [attempt |-> attempts, operation |-> files.terminal]
                                  ELSE late}
  /\ UNCHANGED <<server, runner, files, child, statement, disk>>

LateCall ==
  /\ late # NoCall /\ late' = NoCall
  /\ Settle(late.attempt, late.operation) \/ UNCHANGED <<held, verdict>>
  /\ UNCHANGED <<attempts, snapshot, runner, files, child, statement, disk, controller, disturbances>>

\* The deployment is over: the host goes, and its disk.  One stays.
HostGoes(h) ==
  /\ Disturb /\ \A g \in Hosts : ~At(g, "gone")
  /\ GoTo(h, "gone")
  /\ IF runner = h THEN child' = [child EXCEPT !.at = "dead"] ELSE UNCHANGED child
  /\ UNCHANGED <<server, runner, files, statement, late, disk>>

Control(h) ==
  \/ Tick(h) \/ TickRecover(h) \/ Launch(h) \/ Record(h) \/ Reap(h) \/ WriteTerminal(h) \/ Send(h)
  \/ RecoverKills(h) \/ Unrecoverable(h) \/ Recover(h)

Child ==
  \/ RestorePreparing \/ RestorePending \/ RestoreNothing \/ Work \/ Account
  \/ Prepare \/ Seal \/ Publish \/ Unpend \/ Clear

Next ==
  \/ \E h \in Hosts : \/ Control(h) \/ TickUnheard(h) \/ LaunchFails(h) \/ RecordFails(h)
                      \/ SendFails(h)
                      \/ Crash(h) \/ HostGoes(h)
  \/ Child \/ PreparationYields \/ ChildDies
  \/ Commit \/ CommitFails \/ LateCall

\* Controllers and the child go on, and a call is over within two seconds.
Fairness ==
  /\ \A h \in Hosts : WF_vars(Control(h))
  /\ WF_vars(Child) /\ WF_vars(Commit) /\ WF_vars(LateCall)

Spec == Init /\ [][Next]_vars /\ Fairness
-----------------------------------------------------------------------------
Checkpoints == [by : 0..LastAttempt, done : Seq(1..LastAttempt), complete : BOOLEAN]

TypeOK ==
  /\ held \in {0, attempts} /\ attempts \in 0..LastAttempt
  /\ verdict \in [1..LastAttempt -> Verdicts \cup {"none"}]
  /\ snapshot \in Checkpoints /\ Len(snapshot.done) <= Units
  /\ runner \in Hosts /\ files.identity \in BOOLEAN
  /\ files.terminal \in Verdicts \cup {"none"} /\ late.operation \in Verdicts \cup {"none"}
  /\ child.prev \in Checkpoints
  /\ child.at \in {"dead", "restore", "work", "commit", "seal", "upload", "sent", "told", "clear"}
  /\ \A h \in Hosts : /\ disk[h].output \in Checkpoints
                      /\ disk[h].preparing.cp \in Checkpoints /\ disk[h].pending.cp \in Checkpoints

\* The server's snapshot only ever grows by work that was done on it: work left behind on
\* a disk by a segment that died, or by the other host, is not mixed in.
SnapshotExtends ==
  [][snapshot.done = SubSeq(snapshot'.done, 1, Len(snapshot.done))]_snapshot

\* An attempt is settled when its child is gone and nothing of it runs at the server.
SettledIdle == held = 0 => ~Alive /\ statement = Unwritten

\* The mission is verified from a complete snapshot that the server had before.
VerifiedFromServer == \A k \in 1..attempts : verdict[k] = "terminal_commit" =>
  snapshot.complete /\ snapshot.by < k

\* An attempt that has a terminal request on its disk is settled as that says.
TerminalAsWritten == held = 0 /\ files.terminal # "none" => verdict[attempts] = files.terminal

\* An attempt whose files do not identify its child, or whose host has gone, stays
\* reserved; a host in conflict fails every segment that it is given.
Stuck == held # 0 /\ (At(runner, "gone") \/ (~CanRecover /\ controller[runner] \in {"idle", "recover"}))
MissionOver == Verified \/ Stuck \/ \E h \in Hosts : Conflict(h)

\* The mission is verified, unless it comes to that.
MissionEnds == <>[]MissionOver
=============================================================================
