--------------------------- MODULE QuantileLedger ---------------------------
(***************************************************************************)
(* The ledger of source units of one fit stage of the EQ20 mission         *)
(* (app/eq20_fp01_external_quantiles.py): a SQLite coordinator with        *)
(* attached shards that hold every unit the sessions of the stage have     *)
(* encountered, and in the end the sample of each field.  A session is     *)
(* committed to all the files at once; the checkpoint of the engine, which *)
(* says how far the stage is, is another file and is written after it.     *)
(* Segments of the mission carry both from one to the next: each begins    *)
(* with the files of the server's snapshot and ends with a snapshot of its *)
(* own (app/eq20_mission_continuation.py, app/eq20_fp01_artifact_adapter). *)
(*                                                                         *)
(* One unit stands for all of them.  A session observes a value of it or   *)
(* nothing, and two values put the unit into quarantine.  The engine is    *)
(* external: it names the stage in its checkpoint before the first         *)
(* session, and saves the checkpoint after each session.  Segments run one *)
(* at a time on one host; how an attempt is reserved and how a snapshot is *)
(* uploaded are MissionSegments'.                                          *)
(***************************************************************************)
EXTENDS Naturals, Sequences, FiniteSets

CONSTANTS Sessions,         \* number of sessions of the stage
          Values,           \* values of the unit
          Fields,           \* number of fields
          Shards,           \* number of shards: the unit is in the first
          MaxDisturbances   \* bound on kills, lost answers, new hosts and time that is up

VARIABLES content,     \* what each session observes
          server,      \* the server's snapshot
          disk,        \* the output directory of the host
          prepared,    \* the snapshot that is being prepared or waits for publication
          child,       \* the process of the segment
          refused,     \* whether a check of the ledger has failed
          disturbances

vars == <<content, server, disk, prepared, child, refused, disturbances>>
-----------------------------------------------------------------------------
Results == Values \cup {"none", "conflict"}
NoCheckpoint == [stage |-> "none", seq |-> 0, fields |-> 0]
NoMain == [there |-> FALSE, seq |-> 0, encounters |-> 0, valid |-> 0,
           finalizing |-> FALSE, final |-> <<>>, finalized |-> FALSE]
Gone == [there |-> FALSE, seq |-> 0, unit |-> "none"]
NoFiles == [cp |-> NoCheckpoint, main |-> NoMain, shard |-> [n \in 1..Shards |-> Gone]]
Unsealed == NoFiles
Empty == [files |-> NoFiles, seal |-> Unsealed, compact |-> FALSE]
Unprepared == [state |-> "none", files |-> NoFiles]
Dead == [pc |-> "dead", seq |-> 0, prior |-> NoCheckpoint, replay |-> FALSE, field |-> 0,
         cached |-> FALSE]

Init ==
  /\ content \in [1..Sessions -> Values \cup {"nothing"}]
  /\ server = NoFiles /\ disk = Empty /\ prepared = Unprepared /\ child = Dead
  /\ refused = FALSE /\ disturbances = 0

Disturb == disturbances < MaxDisturbances /\ disturbances' = disturbances + 1
At(pc) == child.pc = pc
Goes(pc) == child' = [child EXCEPT !.pc = pc]
Write(files) == disk' = [disk EXCEPT !.files = files]
Main == disk.files.main
\* A check fails: the segment is over, and its attempt has failed.
Refuse == refused' = TRUE /\ child' = Dead /\ UNCHANGED <<server, disk, prepared>>
-----------------------------------------------------------------------------
(* restore_checkpoint *)

Start ==
  /\ At("dead") /\ server.cp.stage # "done"
  /\ child' = [Dead EXCEPT !.pc = "restore", !.prior = server.cp]
  /\ UNCHANGED <<content, server, disk, prepared, refused, disturbances>>

\* What was prepared is taken up first: sealed, published or, when the server has it
\* already, forgotten.
RestorePrepared ==
  /\ At("restore") /\ prepared # Unprepared
  /\ CASE prepared.state = "begun"                           -> Goes("seal") /\ UNCHANGED prepared
       [] prepared.state = "sealed" /\ prepared.files = server -> prepared' = Unprepared /\ UNCHANGED child
       [] OTHER                                              -> Goes("publish") /\ UNCHANGED prepared
  /\ UNCHANGED <<content, server, disk, refused, disturbances>>

\* Without a snapshot the stage begins anew, whatever an earlier segment has left ...
RestoreNothing ==
  /\ At("restore") /\ prepared = Unprepared /\ server = NoFiles
  /\ disk' = Empty /\ Goes("engine")
  /\ UNCHANGED <<content, server, prepared, refused, disturbances>>

\* ... else its files replace those that differ: the small ones, ...
RestoreFiles ==
  /\ At("restore") /\ prepared = Unprepared /\ server # NoFiles
  /\ disk' = [disk EXCEPT !.files.cp = server.cp, !.seal = server] /\ Goes("databases")
  /\ UNCHANGED <<content, server, prepared, refused, disturbances>>

\* ... then every database ...
RestoreDatabase ==
  /\ At("databases")
  /\ \/ Main # server.main /\ Write([disk.files EXCEPT !.main = server.main])
     \/ \E n \in 1..Shards :
          /\ server.shard[n].there /\ disk.files.shard[n] # server.shard[n]
          /\ Write([disk.files EXCEPT !.shard[n] = server.shard[n]])
  /\ UNCHANGED <<content, server, prepared, child, refused, disturbances>>

\* ... and the rest is set aside.
Restored ==
  /\ At("databases") /\ Main = server.main
  /\ \A n \in 1..Shards : server.shard[n].there => disk.files.shard[n] = server.shard[n]
  /\ disk' = [disk EXCEPT !.files = server, !.compact = FALSE] /\ Goes("release")
  /\ UNCHANGED <<content, server, prepared, refused, disturbances>>

\* release_snapshot_seal: the seal is taken off files that are as it says.
ReleaseSeal ==
  /\ At("release")
  /\ IF disk.files = disk.seal
     THEN disk' = [disk EXCEPT !.seal = Unsealed] /\ Goes("engine") /\ UNCHANGED <<server, prepared, refused>>
     ELSE Refuse
  /\ UNCHANGED <<content, disturbances>>
-----------------------------------------------------------------------------
(* The engine and the ledger *)

\* The shards that an unfinished coordinator needs are there, and of its sequence.
Whole(f) == f.main.finalized \/ \A n \in 1..Shards : f.shard[n].there /\ f.shard[n].seq = f.main.seq
Writable == disk.seal = Unsealed

\* _initialize: the coordinator and its shards appear in one transaction.
CreateLedger ==
  /\ At("engine") /\ disk.files.cp.stage = "none"
  /\ Write([disk.files EXCEPT !.main = [NoMain EXCEPT !.there = TRUE],
                              !.shard = [n \in 1..Shards |-> [Gone EXCEPT !.there = TRUE]]])
  /\ Goes("name")
  /\ UNCHANGED <<content, server, prepared, refused, disturbances>>

NameStage ==
  /\ At("name") /\ Goes("next")
  /\ Write([disk.files EXCEPT !.cp.stage = "active"])
  /\ UNCHANGED <<content, server, prepared, refused, disturbances>>

\* restore_prefix: the ledger may be ahead of the checkpoint, never behind it.
OpenLedger ==
  /\ At("engine") /\ disk.files.cp.stage = "active"
  /\ IF Main.there /\ Whole(disk.files) /\ disk.files.cp.seq <= Main.seq
     THEN /\ child' = [child EXCEPT !.pc = "next", !.seq = disk.files.cp.seq]
          /\ UNCHANGED <<server, disk, prepared, refused>>
     ELSE Refuse
  /\ UNCHANGED <<content, disturbances>>

\* Variant: a session that the ledger has already is counted again.
BeginAfresh ==
  /\ At("next") /\ child.seq < Sessions
  /\ IF Writable /\ ~Main.finalizing
     THEN /\ child' = [child EXCEPT !.pc = "session", !.replay = FALSE]
          /\ UNCHANGED <<server, disk, prepared, refused>>
     ELSE Refuse
  /\ UNCHANGED <<content, disturbances>>

\* begin_session: one that the ledger has already is replayed.
BeginSession ==
  /\ At("next") /\ child.seq < Sessions
  /\ IF Writable /\ ~Main.finalizing /\ Main.seq >= child.seq
     THEN /\ child' = [child EXCEPT !.pc = "session", !.replay = Main.seq > child.seq]
          /\ UNCHANGED <<server, disk, prepared, refused>>
     ELSE Refuse
  /\ UNCHANGED <<content, disturbances>>

\* add: the first value is kept, another one quarantines the unit for good.
Kept(unit, value) ==
  CASE unit = "none" -> value
    [] unit \notin {"none", value} -> "conflict"
    [] OTHER -> unit
Added(f, value) ==
  LET unit == Kept(f.shard[1].unit, value) IN
  IF value = "nothing" THEN f
  ELSE [f EXCEPT !.main.encounters = @ + 1, !.main.valid = IF unit = "conflict" THEN 0 ELSE 1,
                 !.shard[1].unit = unit]

\* finish_session: the sequence moves on in every file at once; a replay writes nothing.
FinishSession ==
  /\ At("session") /\ child' = [child EXCEPT !.pc = "save", !.seq = @ + 1]
  /\ IF child.replay THEN UNCHANGED disk
     ELSE LET f == Added(disk.files, content[child.seq + 1]) IN
          Write([f EXCEPT !.main.seq = child.seq + 1,
                          !.shard = [n \in 1..Shards |-> [f.shard[n] EXCEPT !.seq = child.seq + 1]]])
  /\ UNCHANGED <<content, server, prepared, refused, disturbances>>

\* The engine saves its checkpoint, after which the slice may be over.
SaveCheckpoint ==
  /\ At("save") /\ \E pc \in {"next", "prepare"} : Goes(pc)
  /\ Write([disk.files EXCEPT !.cp.seq = child.seq])
  /\ UNCHANGED <<content, server, prepared, refused, disturbances>>

\* finalized_results: from here on the ledger takes no session ...
Finalize ==
  /\ At("next") /\ child.seq = Sessions
  /\ IF Main.seq = child.seq /\ Writable
     THEN /\ child' = [child EXCEPT !.pc = "field", !.field = 0, !.cached = Main.finalized]
          /\ Write([disk.files EXCEPT !.main.finalizing = TRUE])
          /\ UNCHANGED <<server, prepared, refused>>
     ELSE Refuse
  /\ UNCHANGED <<content, disturbances>>

\* ... and the result of one field after the other is stored, unless it was before.
FieldResult(f) == f.shard[1].unit
StoreField ==
  /\ At("field") /\ child.field < Fields
  /\ child' = [child EXCEPT !.field = @ + 1]
  /\ IF child.field < Len(Main.final) THEN UNCHANGED disk
     ELSE Write([disk.files EXCEPT !.main.final = Append(@, FieldResult(disk.files))])
  /\ UNCHANGED <<content, server, prepared, refused, disturbances>>

Finalized ==
  /\ At("field") /\ child.field = Fields
  /\ Goes(IF child.cached THEN "evidence" ELSE "compact")
  /\ UNCHANGED <<content, server, disk, prepared, refused, disturbances>>

\* _compact_final: the coordinator without units is written beside the old one, ...
WriteCompact ==
  /\ At("compact") /\ disk' = [disk EXCEPT !.compact = TRUE] /\ Goes("replace")
  /\ UNCHANGED <<content, server, prepared, refused, disturbances>>

\* ... takes its place ...
ReplaceMain ==
  /\ At("replace") /\ Goes("unlink")
  /\ disk' = [disk EXCEPT !.files.main.finalized = TRUE, !.compact = FALSE]
  /\ UNCHANGED <<content, server, prepared, refused, disturbances>>

\* ... and only then the shards go.
UnlinkShard ==
  /\ At("unlink")
  /\ \E n \in 1..Shards : /\ disk.files.shard[n].there
                          /\ Write([disk.files EXCEPT !.shard[n] = Gone])
  /\ UNCHANGED <<content, server, prepared, child, refused, disturbances>>

Unlinked ==
  /\ At("unlink") /\ \A n \in 1..Shards : ~disk.files.shard[n].there /\ Goes("evidence")
  /\ UNCHANGED <<content, server, disk, prepared, refused, disturbances>>

\* The engine commits the stage with its evidence.
CommitStage ==
  /\ At("evidence") /\ Goes("prepare")
  /\ Write([disk.files EXCEPT !.cp = [stage |-> "done", seq |-> child.seq, fields |-> Len(Main.final)]])
  /\ UNCHANGED <<content, server, prepared, refused, disturbances>>
-----------------------------------------------------------------------------
(* A segment that stops before its work is done *)

\* refresh_checkpoint_external_progress: fields count when the ledger is not ahead.
Refreshed ==
  LET cp == disk.files.cp IN
  IF cp.stage = "active" /\ Main.seq = cp.seq THEN [cp EXCEPT !.fields = Len(Main.final)] ELSE cp

\* The slice is over, before or after any field.
YieldAtField ==
  /\ At("field") \/ At("evidence")
  /\ IF Refreshed = child.prior THEN Disturb ELSE UNCHANGED disturbances
  /\ Write([disk.files EXCEPT !.cp = Refreshed]) /\ Goes("prepare")
  /\ UNCHANGED <<content, server, prepared, refused>>

\* The processor time is used up: only what moved the checkpoint is kept.
BudgetExceeded ==
  /\ child.pc \in {"session", "save", "field", "evidence"} /\ Disturb
  /\ Write([disk.files EXCEPT !.cp = Refreshed])
  /\ IF Refreshed = child.prior THEN child' = Dead ELSE Goes("prepare")
  /\ UNCHANGED <<content, server, prepared, refused>>

\* _prepare_snapshot: the intent ...
Prepare ==
  /\ At("prepare") /\ Goes("seal")
  /\ prepared' = [Unprepared EXCEPT !.state = "begun"]
  /\ UNCHANGED <<content, server, disk, refused, disturbances>>

\* ... and, with the shards of a finalized ledger gone and everything as
\* verify_snapshot_checkpoint wants it, the sealed files.
Sealed == [disk.files EXCEPT !.shard = [n \in 1..Shards |-> IF Main.finalized THEN Gone ELSE @[n]]]
Verified(f) ==
  /\ Whole(f) /\ f.cp.seq <= f.main.seq /\ f.cp.fields <= Len(f.main.final)
  /\ IF f.cp.stage = "done" THEN f.main.finalized /\ f.main.seq = f.cp.seq /\ Len(f.main.final) = Fields
     ELSE f.cp.stage = "active" /\ f.main.seq <= f.cp.seq + 1

Seal ==
  /\ At("seal")
  /\ IF Verified(Sealed)
     THEN /\ disk' = [disk EXCEPT !.files = Sealed, !.seal = Sealed]
          /\ prepared' = [state |-> "sealed", files |-> Sealed]
          /\ Goes("publish") /\ UNCHANGED <<server, refused>>
     ELSE Refuse
  /\ UNCHANGED <<content, disturbances>>

Publish ==
  /\ At("publish") /\ server' = prepared.files /\ prepared' = Unprepared /\ child' = Dead
  /\ UNCHANGED <<content, disk, refused, disturbances>>

\* The commit, or its answer, is lost.
PublishFails ==
  /\ At("publish") /\ Disturb /\ server' \in {server, prepared.files} /\ child' = Dead
  /\ UNCHANGED <<content, disk, prepared, refused>>

Crash ==
  /\ ~At("dead") /\ Disturb /\ child' = Dead
  /\ UNCHANGED <<content, server, disk, prepared, refused>>

\* The service moves to a host that has nothing of this.
HostGoes ==
  /\ Disturb /\ child' = Dead /\ disk' = Empty /\ prepared' = Unprepared
  /\ UNCHANGED <<content, server, refused>>

Work ==
  \/ Start \/ RestorePrepared \/ RestoreNothing \/ RestoreFiles \/ RestoreDatabase \/ Restored
  \/ ReleaseSeal \/ CreateLedger \/ NameStage \/ OpenLedger
  \/ BeginSession \/ FinishSession \/ SaveCheckpoint
  \/ Finalize \/ StoreField \/ Finalized \/ WriteCompact \/ ReplaceMain \/ UnlinkShard \/ Unlinked
  \/ CommitStage \/ Prepare \/ Seal \/ Publish

Next == Work \/ YieldAtField \/ BudgetExceeded \/ PublishFails \/ Crash \/ HostGoes

\* The mission starts a segment as soon as it may, and each runs to an end.
Fairness == WF_vars(Work)
Spec == Init /\ [][Next]_vars /\ Fairness
-----------------------------------------------------------------------------
Checkpoints == [stage : {"none", "active", "done"}, seq : 0..Sessions, fields : 0..Fields]
FilesOK(f) ==
  /\ f.cp \in Checkpoints
  /\ f.main.seq \in 0..Sessions /\ f.main.encounters \in 0..Sessions /\ f.main.valid \in 0..1
  /\ f.main.final \in UNION {[1..n -> Results] : n \in 0..Fields}
  /\ f.shard \in [1..Shards -> [there : BOOLEAN, seq : 0..Sessions, unit : Results]]

\* Files, snapshots and the segment's memory have their types.
TypeOK ==
  /\ FilesOK(server) /\ FilesOK(disk.files) /\ FilesOK(disk.seal) /\ FilesOK(prepared.files)
  /\ disk.compact \in BOOLEAN /\ refused \in BOOLEAN
  /\ child.seq \in 0..Sessions /\ child.field \in 0..Fields /\ child.prior \in Checkpoints

\* What the first k sessions say of the unit, all of them taken together.
Told(k) ==
  LET seen == {content[s] : s \in 1..k} \ {"nothing"} IN
  CASE seen = {} -> "none" [] Cardinality(seen) = 1 -> CHOOSE v \in seen : TRUE [] OTHER -> "conflict"
Exact(f) ==
  /\ f.main.encounters = Cardinality({s \in 1..f.main.seq : content[s] # "nothing"})
  /\ ~f.main.finalized => f.shard[1].unit = Told(f.main.seq)
  /\ f.main.valid = 1 <=> Told(f.main.seq) \in Values
  /\ \A k \in 1..Len(f.main.final) : f.main.final[k] = Told(Sessions)

\* The ledger counts every session once, although sessions are replayed after a stop
\* between the ledger's commit and the checkpoint; and its results are those of all the
\* sessions of the stage ("SQLite transactions preserve conflict quarantine and
\* idempotent session replay").
LedgerExact ==
  /\ Exact(server) /\ Exact(prepared.files)
  /\ child.pc \notin {"dead", "restore", "databases"} => Exact(disk.files)

\* No stop leaves files that a later segment refuses: none of the checks ever fails.
NeverRefused == ~refused

\* The stage is finished at the server in the end.
StageOver == server.cp.stage = "done"
StageEnds == <>[]StageOver
=============================================================================
