---------------------------- MODULE FuturesIngest ----------------------------
(***************************************************************************)
(* The index futures ingestion (app/index_futures_ingest_http.py, patched  *)
(* by index_futures_ingest_http_v2.py and started once per process by      *)
(* sitecustomize.py or app/database_url.py): one thread walks the          *)
(* contracts in order and stores, for each, the bars behind the last one   *)
(* that is stored, and its sessions unless enough of them are.  There is   *)
(* no claim: the web service and the worker, or two deployments, run the   *)
(* thread at the same time, and it begins from the start whenever its      *)
(* process does.                                                           *)
(*                                                                         *)
(* A bar stands for a chunk of a day's; a day's session ends with it.  The *)
(* database functions ifv1_* are external: an insert stores its rows once, *)
(* in one transaction.  Products, schedules and the counters of the run    *)
(* are written and never read.                                             *)
(***************************************************************************)
EXTENDS Naturals, FiniteSets

CONSTANTS Contracts,        \* number of contracts, of all roots, in their order
          LastDay,          \* last day of the window
          Enough,           \* sessions that make the thread skip a contract's: 40
          Ingesters,        \* the processes that run the thread
          MaxDisturbances   \* bound on errors, lost answers, crashes and deployments

VARIABLES today,        \* the last day that the provider has
          bars,         \* the bars of each contract that are stored
          sessions,     \* its sessions that are stored
          status,       \* the status of the run
          ingest,       \* what each process is doing
          late,         \* inserts that have been given up by a client, and may still happen
          disturbances

vars == <<today, bars, sessions, status, ingest, late, disturbances>>
-----------------------------------------------------------------------------
AllContracts == 1..Contracts
Days == 1..LastDay
Off == [at |-> "off", since |-> 0, contract |-> 1, next |-> 1, to |-> 0, more |-> FALSE]

Init ==
  /\ today \in Days
  /\ bars = [c \in AllContracts |-> {}] /\ sessions = [c \in AllContracts |-> {}]
  /\ status = "none" /\ ingest = [p \in Ingesters |-> Off]
  /\ late = {} /\ disturbances = 0

Disturb == disturbances < MaxDisturbances /\ disturbances' = disturbances + 1
At(p, at) == ingest[p].at = at
Goes(p, at) == ingest' = [ingest EXCEPT ![p].at = at]
Working(p) == ingest[p].at \notin {"off", "done", "failed", "unheard"}

\* The provider's history grows.
DayPasses ==
  /\ today < LastDay /\ today' = today + 1
  /\ UNCHANGED <<bars, sessions, status, ingest, late, disturbances>>

\* run_index_futures_ingestion: the run of the window is there or made; no thread asks
\* whether it is completed.
Begin(p) ==
  /\ At(p, "off")
  /\ status' \in {status, "running"} \ {"none"}
  /\ ingest' = [ingest EXCEPT ![p] = [Off EXCEPT !.at = "max", !.since = today]]
  /\ UNCHANGED <<today, bars, sessions, late, disturbances>>

Latest(days) == IF days = {} THEN 0 ELSE CHOOSE d \in days : \A e \in days : e <= d

\* _bars: the bars behind the last one that is stored are asked for, ...
ReadMax(p) ==
  /\ At(p, "max")
  /\ ingest' = [ingest EXCEPT ![p].at = "page", ![p].next = Latest(bars[ingest[p].contract]) + 1]
  /\ UNCHANGED <<today, bars, sessions, status, late, disturbances>>

\* ... page by page, in ascending order; a page may end anywhere, and says whether there
\* is more.
FetchPage(p) ==
  /\ At(p, "page")
  /\ \E to \in (ingest[p].next - 1)..today :
       /\ to >= ingest[p].next \/ to = today
       /\ ingest' = [ingest EXCEPT ![p].at = "insert", ![p].to = to, ![p].more = to < today]
  /\ UNCHANGED <<today, bars, sessions, status, late, disturbances>>

StoreBar(c, d) == bars' = [bars EXCEPT ![c] = @ \cup {d}]

\* Variant: the last bar of a page is stored first.
InsertFromTheEnd(p) ==
  LET i == ingest[p] IN
  /\ At(p, "insert") /\ i.next <= i.to
  /\ StoreBar(i.contract, i.to)
  /\ ingest' = [ingest EXCEPT ![p].to = @ - 1]
  /\ UNCHANGED <<today, sessions, status, late, disturbances>>

\* A page is stored chunk by chunk ...
InsertBars(p) ==
  LET i == ingest[p] IN
  /\ At(p, "insert") /\ i.next <= i.to
  /\ StoreBar(i.contract, i.next)
  /\ ingest' = [ingest EXCEPT ![p].next = @ + 1]
  /\ UNCHANGED <<today, sessions, status, late, disturbances>>

\* ... before the next one is asked for.
PageOver(p) ==
  /\ At(p, "insert") /\ ingest[p].next > ingest[p].to
  /\ Goes(p, IF ingest[p].more THEN "page" ELSE "sessions")
  /\ UNCHANGED <<today, bars, sessions, status, late, disturbances>>

NextContract(p) ==
  IF ingest[p].contract = Contracts THEN Goes(p, "complete")
  ELSE ingest' = [ingest EXCEPT ![p].at = "max", ![p].contract = @ + 1]

\* _sessions: a contract that has enough of them is passed over ...
SkipSessions(p) ==
  /\ At(p, "sessions") /\ Cardinality(sessions[ingest[p].contract]) >= Enough
  /\ NextContract(p)
  /\ UNCHANGED <<today, bars, sessions, status, late, disturbances>>

FetchSessions(p) ==
  /\ At(p, "sessions") /\ Cardinality(sessions[ingest[p].contract]) < Enough
  /\ ingest' = [ingest EXCEPT ![p].at = "store", ![p].to = today]
  /\ UNCHANGED <<today, bars, sessions, status, late, disturbances>>

\* ... and those of the others are stored in one call.
StoreSessions(p) ==
  LET i == ingest[p] IN
  /\ At(p, "store")
  /\ sessions' = [sessions EXCEPT ![i.contract] = @ \cup 1..i.to]
  /\ NextContract(p)
  /\ UNCHANGED <<today, bars, status, late, disturbances>>

\* After the last contract the run is completed, whoever else is at work on it.
Complete(p) ==
  /\ At(p, "complete") /\ Goes(p, "done") /\ status' = "completed"
  /\ UNCHANGED <<today, bars, sessions, late, disturbances>>
-----------------------------------------------------------------------------
\* SupabaseRPC.call repeats a call whose connection broke, although it may have happened.
CallRepeated(p) ==
  LET i == ingest[p] IN
  /\ At(p, "insert") /\ i.next <= i.to /\ Disturb /\ StoreBar(i.contract, i.next)
  /\ UNCHANGED <<today, sessions, status, ingest, late>>

\* Any other error ends the thread; what it was inserting may be stored later.  The run
\* becomes failed, unless that cannot be told either.
Fail(p) ==
  LET i == ingest[p] IN
  /\ Working(p) /\ Disturb
  /\ \E insert \in SUBSET (IF At(p, "insert") /\ i.next <= i.to THEN {<<i.contract, i.next>>} ELSE {}) :
       late' = late \cup insert
  /\ \/ Goes(p, "failed") /\ status' = "failed"
     \/ Goes(p, "unheard") /\ UNCHANGED status
  /\ UNCHANGED <<today, bars, sessions>>

LateInsert ==
  /\ \E l \in late : StoreBar(l[1], l[2]) /\ late' = late \ {l}
  /\ UNCHANGED <<today, sessions, status, ingest, disturbances>>

\* The process stops, and the platform starts it again; so does a deployment.
Restart(p) ==
  /\ ~At(p, "off") /\ Disturb
  /\ ingest' = [ingest EXCEPT ![p] = Off]
  /\ UNCHANGED <<today, bars, sessions, status, late>>

Work(p) ==
  \/ Begin(p) \/ ReadMax(p) \/ FetchPage(p) \/ InsertBars(p) \/ PageOver(p)
  \/ SkipSessions(p) \/ FetchSessions(p) \/ StoreSessions(p) \/ Complete(p)

Next ==
  \/ DayPasses \/ LateInsert
  \/ \E p \in Ingesters : Work(p) \/ CallRepeated(p) \/ Fail(p) \/ Restart(p)

\* A thread goes on, and begins when its process does.
Fairness == \A p \in Ingesters : WF_vars(Work(p))
Spec == Init /\ [][Next]_vars /\ Fairness
-----------------------------------------------------------------------------
\* Rows, status and threads have their types.
TypeOK ==
  /\ today \in Days
  /\ bars \in [AllContracts -> SUBSET Days] /\ sessions \in [AllContracts -> SUBSET Days]
  /\ status \in {"none", "running", "failed", "completed"}
  /\ \A p \in Ingesters :
       /\ ingest[p].at \in {"off", "max", "page", "insert", "sessions", "store", "complete",
                            "done", "failed", "unheard"}
       /\ {ingest[p].since, ingest[p].to} \subseteq 0..LastDay
       /\ ingest[p].next \in 1..(LastDay + 1) /\ ingest[p].contract \in AllContracts
  /\ late \subseteq AllContracts \X Days

\* Bars are only ever missing at the end, so that the last one says where to go on,
\* whatever threads insert at once, stop in between, or have inserted late.
BarsContiguous == \A c \in AllContracts : \A d \in bars[c] : 1..d \subseteq bars[c]

\* A thread that has completed the run has, in every contract, all the bars that the
\* provider had when it began, and all the sessions or enough of them.
CompletedCovers ==
  \A p \in Ingesters, c \in AllContracts : At(p, "done") =>
    /\ 1..ingest[p].since \subseteq bars[c]
    /\ 1..ingest[p].since \subseteq sessions[c] \/ Cardinality(sessions[c]) >= Enough

\* Every thread comes to an end, and the run says how, unless an end could not be told.
FuturesOver ==
  /\ \A p \in Ingesters : At(p, "done") \/ At(p, "failed") \/ At(p, "unheard")
  /\ status \in {"completed", "failed"} \/ \E p \in Ingesters : At(p, "unheard")
FuturesEnd == <>[]FuturesOver
=============================================================================
