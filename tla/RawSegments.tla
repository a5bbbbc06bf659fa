---------------------------- MODULE RawSegments ----------------------------
(***************************************************************************)
(* The raw capture of the crypto stream (RawSegmentWriter with the         *)
(* non-blocking close of crypto_stream_runtime_fixes): one segment of one  *)
(* feed, that is one local file, one object in storage and one row in      *)
(* crypto_raw_objects, under the processes that write it one after the     *)
(* other.  Messages are numbered as they arrive; the file, the object and  *)
(* the open handle are the sets of messages they hold.                     *)
(*                                                                         *)
(* One upload runs at a time, always that of the first path in the queue.  *)
(* Of the other segments, the model keeps what they do to this one: paths  *)
(* may stand before its own, and the first of them may be one that cannot  *)
(* be uploaded.                                                            *)
(***************************************************************************)
EXTENDS Naturals, FiniteSets

CONSTANTS MaxMessages,      \* bound on the messages of the segment
          MaxDisturbances,  \* bound on failed uploads, crashes and restarts
          None

VARIABLES arrived,       \* messages that have arrived
          ended,         \* the end of the segment has passed
          open,          \* messages in the open handle, or None
          unlinked,      \* the file of the open handle has been removed
          file,          \* what the local file holds, or None
          pending,       \* pending_uploads[path]: the message_count, or None
          ahead,         \* the paths before it: "none", "some", or one is "stuck"
          upload,        \* the upload under way: its count and phase, or None
          object,        \* what the stored object holds, or None
          counted,       \* message_count of the row, or None
          life,          \* the process: "running", "stopping" (in run()'s finally), "over"
          failures,
          late,          \* history: a message came after its segment's end
          left,          \* history: a process ended with the segment "queued" or "open"
          restarted      \* history: another process took over

history == <<late, left, restarted>>
queue == <<pending, ahead>>
local == <<open, unlinked, queue, upload, life>>
vars == <<arrived, ended, local, file, object, counted, failures, history>>
-----------------------------------------------------------------------------
Messages == 1..MaxMessages
In(content) == IF content = None THEN {} ELSE content
Disturb == failures < MaxDisturbances /\ failures' = failures + 1

Init ==
  /\ arrived = 0 /\ ended = FALSE /\ failures = 0
  /\ open = None /\ unlinked = FALSE /\ life = "running"
  /\ file = None /\ pending = None /\ ahead = "none" /\ upload = None
  /\ object = None /\ counted = None
  /\ late = FALSE /\ left = None /\ restarted = FALSE

\* A message goes to the segment of its own time stamp, which may have been
\* closed and uploaded already: the file is then opened again, for appending.
Write ==
  /\ life = "running" /\ arrived < MaxMessages
  /\ arrived' = arrived + 1
  /\ open' = In(open) \cup {arrived'}
  /\ unlinked' = (open # None /\ unlinked)
  /\ file' = IF open = None THEN In(file) ELSE file
  /\ late' = (late \/ ended)
  /\ UNCHANGED <<ended, queue, upload, object, counted, life, failures, left, restarted>>

SegmentEnds ==
  /\ ~ended /\ ended' = TRUE
  /\ UNCHANGED <<arrived, local, file, object, counted, failures, history>>

\* close_expired: buffered messages reach the disk, and the path is queued with
\* the count of this handle, in place of an entry that waits there or behind all
\* others.  The last flush closes every segment.
Close ==
  /\ open # None
  /\ (life = "running" /\ ended) \/ life = "stopping"
  /\ file' = IF unlinked THEN file ELSE file \cup open
  /\ open' = None /\ unlinked' = FALSE
  /\ pending' = Cardinality(open)
  /\ ahead' \in IF pending = None THEN {"none", "some", "stuck"} ELSE {ahead}
  /\ UNCHANGED <<arrived, ended, upload, object, counted, life, failures, history>>

\* Uploads follow one another, in the last flush once every segment is closed.
Free == upload = None /\ (life = "running" \/ (life = "stopping" /\ open = None))

\* The first path of the queue is uploaded.
Launch ==
  /\ pending # None /\ Free /\ ahead = "none"
  /\ upload' = [count |-> pending, phase |-> "file", final |-> life = "stopping"]
  /\ UNCHANGED <<arrived, ended, open, unlinked, queue, life, file, object, counted,
                 failures, history>>

\* The paths before this one have been uploaded, those that failed again and again.
OthersUploaded ==
  /\ Free /\ ahead = "some"
  /\ ahead' = "none"
  /\ UNCHANGED <<arrived, ended, open, unlinked, pending, upload, life, file, object, counted,
                 failures, history>>

\* The object at the path is replaced by what the file holds now.
UploadObject ==
  /\ upload # None /\ upload.phase = "file" /\ file # None
  /\ object' = file
  /\ upload' = [upload EXCEPT !.phase = "row"]
  /\ UNCHANGED <<arrived, ended, open, unlinked, queue, life, file, counted, failures,
                 history>>

UploadRow ==
  /\ upload # None /\ upload.phase = "row"
  /\ counted' = upload.count
  /\ upload' = [upload EXCEPT !.phase = "done"]
  /\ UNCHANGED <<arrived, ended, open, unlinked, queue, life, file, object, failures,
                 history>>

\* Back on the loop the entry of the path is removed, whichever segment it is
\* of, and so is the file, also under a handle that was opened since.
UploadDone ==
  /\ upload # None /\ upload.phase = "done" /\ life # "over"
  /\ pending' = None /\ ahead' = "none" /\ upload' = None /\ file' = None
  /\ unlinked' = (open # None)
  /\ UNCHANGED <<arrived, ended, open, life, object, counted, failures, history>>

Leaves(how) == life' = "over" /\ left' = IF left = "open" THEN left ELSE how

\* The last flush stops at the first path that fails, and the process ends; a
\* background upload stays in the queue.
Fails == IF upload.final THEN Leaves("queued") ELSE UNCHANGED <<life, left>>

\* Variant: a failed upload is not kept for a retry.
UploadFailsForGood ==
  /\ upload # None /\ Disturb
  /\ upload' = None /\ pending' = None /\ ahead' = "none" /\ file' = None
  /\ unlinked' = (open # None)
  /\ Fails
  /\ UNCHANGED <<arrived, ended, open, object, counted, late, restarted>>

\* Whatever has failed, a commit whose answer is lost too, stays queued.
UploadFails ==
  /\ upload # None /\ Disturb
  /\ upload' = None
  /\ Fails
  /\ UNCHANGED <<arrived, ended, open, unlinked, queue, file, object, counted, late, restarted>>

\* A file that was removed under its queue entry cannot be uploaded.
UploadFindsNoFile ==
  /\ upload # None /\ upload.phase = "file" /\ file = None
  /\ upload' = None
  /\ Fails
  /\ UNCHANGED <<arrived, ended, open, unlinked, queue, file, object, counted, failures,
                 late, restarted>>
-----------------------------------------------------------------------------
\* SIGTERM: the tasks are cancelled, and writing ends.  What is left to be done is
\* one last flush.
Stop ==
  /\ life = "running"
  /\ life' = "stopping"
  /\ UNCHANGED <<arrived, ended, open, unlinked, queue, upload, file, object, counted,
                 failures, history>>

\* The last flush is over when the queue is empty.
Exit ==
  /\ life = "stopping" /\ open = None /\ upload = None /\ pending = None
  /\ life' = "over"
  /\ UNCHANGED <<arrived, ended, open, unlinked, queue, upload, file, object, counted,
                 failures, history>>

\* It stops at a path before this one.
OthersFail ==
  /\ life = "stopping" /\ open = None /\ upload = None /\ pending # None
  /\ \/ ahead = "stuck" /\ UNCHANGED failures
     \/ ahead = "some" /\ Disturb
  /\ Leaves("queued")
  /\ UNCHANGED <<arrived, ended, open, unlinked, queue, upload, file, object, counted,
                 late, restarted>>

\* The flush of the aggregates comes first, and with its error the queue is left and
\* handles are not closed: the end of the interpreter may write them out, or not.
StopFails ==
  /\ life = "stopping" /\ (open # None \/ pending # None)
  /\ upload # None => ~upload.final
  /\ Disturb
  /\ Leaves(IF open # None THEN "open" ELSE "queued")
  /\ open' = None /\ unlinked' = FALSE
  /\ file' \in {file, IF open = None \/ unlinked THEN file ELSE file \cup open}
  /\ UNCHANGED <<arrived, ended, queue, upload, object, counted, late, restarted>>

\* A new process knows nothing of the old one.  It finds the file if it is
\* started in the same container, and writes on when the segment gets a message;
\* it does not look for files that wait.
Restart ==
  /\ Disturb
  /\ \E found \in {file, None} : file' = found
  /\ open' = None /\ unlinked' = FALSE /\ pending' = None /\ ahead' = "none" /\ upload' = None
  /\ life' = "running"
  /\ restarted' = TRUE
  /\ UNCHANGED <<arrived, ended, object, counted, late, left>>

Uploads ==
  \/ Close \/ Launch \/ UploadObject \/ UploadRow \/ UploadDone \/ UploadFindsNoFile
  \/ OthersUploaded

Next ==
  \/ Write \/ SegmentEnds \/ Uploads \/ UploadFails
  \/ Stop \/ Exit \/ OthersFail \/ StopFails \/ Restart

\* Time passes and the flush loop goes on; a path that is not stuck is uploaded in
\* the end.
Fairness == WF_vars(SegmentEnds) /\ WF_vars(Uploads)
Spec == Init /\ [][Next]_vars /\ Fairness
-----------------------------------------------------------------------------
Contents == (SUBSET Messages) \cup {None}
Counts == 0..MaxMessages \cup {None}

\* Every variable has its type; a handle on a removed file has no path.
TypeOK ==
  /\ arrived \in 0..MaxMessages /\ failures \in 0..MaxDisturbances
  /\ {ended, unlinked, late, restarted} \subseteq BOOLEAN
  /\ open \in Contents /\ file \in Contents /\ object \in Contents
  /\ pending \in Counts /\ counted \in Counts
  /\ ahead \in {"none", "some", "stuck"} /\ left \in {"queued", "open", None}
  /\ life \in {"running", "stopping", "over"}
  /\ upload \in [count : 0..MaxMessages, phase : {"file", "row", "done"}, final : BOOLEAN]
               \cup {None}
  /\ open = None => ~unlinked

\* A message that has arrived is in the handle, on the disk or in the object,
\* in the process that received it, as long as no message came after the end and the
\* process did not end with the handle open.
RawKept ==
  \/ late \/ restarted \/ left = "open"
  \/ 1..arrived \subseteq In(open) \cup In(file) \cup In(object)

\* A segment is uploaded whole and its row says how many messages it has.  It is not
\* when a late message or another process has written its path again, when a path
\* that cannot be uploaded stands before its own in the queue, or when its process
\* ended at a failure of its last flush: what it left on the disk nobody takes up.
RawReachesStorage ==
  (ended /\ arrived > 0) ~>
     \/ late
     \/ restarted
     \/ ahead = "stuck"
     \/ left # None
     \/ object = 1..arrived /\ counted = arrived /\ file = None
=============================================================================
