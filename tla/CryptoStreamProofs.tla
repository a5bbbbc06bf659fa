------------------------- MODULE CryptoStreamProofs -------------------------
(***************************************************************************)
(* The stores of the crypto stream and of the futures ingestion, for any   *)
(* number of messages, observations, days, contracts, prices, processes    *)
(* and disturbances:                                                       *)
(*   - a raw message is in the handle, the file or the object of its       *)
(*     segment, in the process that received it;                           *)
(*   - the evidence of a detection is whole, and the newest observation of *)
(*     a minute is stored when nothing waits;                              *)
(*   - the copy of an order book follows the venue's, shows its top and is *)
(*     never crossed;                                                      *)
(*   - bars of a contract are missing at its end only, and a thread that   *)
(*     completes the run leaves what the provider had when it began.       *)
(* Each store has an inductive invariant of its own; a step of the         *)
(* composition is a step of each of them or leaves it alone.  The seconds  *)
(* are StreamCollectorProofs'.                                             *)
(***************************************************************************)
EXTENDS MCCryptoStream, StreamCollectorProofs, Sequences, WellFoundedInduction


\* A step of the stores is a step of each of them, or leaves it alone.
LEMMA OneStore ==
  ASSUME [Step]_everything
  PROVE  /\ [Next]_vars /\ [Raw!Next]_raw /\ [Broad!Next]_broad
         /\ [Futures!Next]_futures /\ [Books!Next]_books
BY DEF Step, Seconds, Segments, Observations, Bars, OrderBooks, everything

\* Counting is the same in a module that is instantiated.
LEMMA CountSame == \A S : Futures!Cardinality(S) = Cardinality(S)
BY Zenon DEF Futures!Cardinality, Cardinality
(***************************************************************************)
(* Raw segments                                                            *)
(***************************************************************************)
Waits == pending # None \/ upload # None
Closed == open = None /\ (ended \/ life # "running")
Received == 1..arrived

\* Why a removal is safe: what is closed stays closed, so that only a whole file
\* is ever uploaded, and the file that is removed is the one that was.
Kept ==
  /\ Raw!In(open) \subseteq Raw!Messages /\ Raw!In(file) \subseteq Raw!Messages
  /\ open = None /\ ~ended /\ life = "running" => arrived = 0
  /\ Waits => Closed
  /\ open # None => file # None
  /\ ~unlinked
  /\ file # None => Received \subseteq Raw!In(open) \cup file
  /\ upload # None /\ upload.phase \in {"row", "done"} => Received \subseteq Raw!In(object)
  /\ Received \subseteq Raw!In(open) \cup Raw!In(file) \cup Raw!In(object)

\* The inductive invariant.
RawIInv == arrived \in 0..MaxMessages /\ (late \/ restarted \/ left = "open" \/ Kept)

\* There is nothing to be kept at the start.
LEMMA KeptInit == Raw!Init => RawIInv
BY StoreBounds DEF Raw!Init, RawIInv, Kept, Waits, Closed, Received, Raw!In

\* A message that is not late finds an open handle, or is the first.
LEMMA WriteKeeps == ASSUME RawIInv, Raw!Write PROVE RawIInv'
<1>1. arrived' \in 1..MaxMessages
  BY StoreBounds DEF RawIInv, Raw!Write
<1>2. SUFFICES ASSUME ~late', ~restarted', left' # "open" PROVE Kept'
  BY <1>1, StoreBounds DEF RawIInv
<1>3. Kept /\ ~ended /\ life = "running" /\ life' = "running"
  BY <1>2 DEF RawIInv, Raw!Write, Raw!history
<1>4. Received' = Received \cup {arrived'}
  BY DEF RawIInv, Raw!Write, Received
<1>5. open' = Raw!In(open) \cup {arrived'} /\ open' \subseteq Raw!Messages
  BY <1>1, <1>3 DEF Kept, Raw!Write, Raw!Messages
<1>6. open' # None /\ Raw!In(open)' = Raw!In(open) \cup {arrived'}
  BY <1>5, StoreBounds DEF Raw!In, Raw!Messages
<1>7. ~Waits' /\ upload' = None
  BY <1>3 DEF Raw!Write, Raw!queue, Kept, Waits, Closed
<1>8. CASE open = None
  <2>1. Received = {} /\ Raw!In(open) = {}
    BY <1>3, <1>8 DEF Kept, Received, Raw!In
  <2>2. file' = Raw!In(file) /\ Raw!In(file) \subseteq Raw!Messages /\ ~unlinked'
    BY <1>3, <1>8 DEF Raw!Write, Kept
  <2>3. file' # None /\ Raw!In(file)' \subseteq Raw!Messages
    BY <2>2, StoreBounds DEF Raw!In, Raw!Messages
  <2> QED BY <1>1, <1>4, <1>5, <1>6, <1>7, <2>1, <2>2, <2>3 DEF Kept
<1>9. CASE open # None
  <2>1. file' = file /\ file # None /\ ~unlinked' /\ Raw!In(file)' \subseteq Raw!Messages
    BY <1>3, <1>9 DEF Raw!Write, Kept, Raw!In
  <2> QED BY <1>3, <1>4, <1>5, <1>6, <1>7, <2>1 DEF Kept, Raw!In
<1> QED BY <1>8, <1>9

\* A file that is closed keeps all its messages.
LEMMA CloseKeeps == ASSUME RawIInv, Raw!Close PROVE RawIInv'
<1>1. /\ arrived' = arrived /\ ended' = ended /\ life' = life
      /\ late' = late /\ restarted' = restarted /\ left' = left
      /\ open # None /\ open' = None /\ ~unlinked' /\ (ended \/ life # "running")
      /\ upload' = upload
  BY DEF Raw!Close, Raw!history
<1>2. SUFFICES ASSUME Kept PROVE Kept'
  BY <1>1 DEF RawIInv
<1>3. file' = file \cup open /\ open \subseteq Raw!Messages /\ file \subseteq Raw!Messages
  BY <1>1, <1>2 DEF Raw!Close, Kept, Raw!In
<1>4. file' # None /\ Raw!In(file)' = file \cup open /\ Raw!In(open)' = {}
       /\ Raw!In(file)' \subseteq Raw!Messages
  BY <1>1, <1>3, StoreBounds DEF Raw!In, Raw!Messages
<1>5. Received' = Received /\ Received \subseteq file'
  BY <1>1, <1>2, <1>3 DEF Kept, Received, Raw!In
<1>6. upload' = None
  BY <1>1, <1>2 DEF Kept, Waits, Closed
<1> QED BY <1>1, <1>3, <1>4, <1>5, <1>6 DEF Kept, Waits, Closed

\* A whole file replaces whatever the object was.
LEMMA UploadKeeps ==
  ASSUME RawIInv, Raw!Launch \/ Raw!UploadObject \/ Raw!UploadRow \/ Raw!UploadFindsNoFile
         \/ Raw!UploadFails \/ Raw!OthersUploaded
  PROVE  RawIInv'
<1>1. /\ UNCHANGED <<arrived, open, file, late, restarted, ended, unlinked, pending>>
      /\ life' \in {life, "over"} /\ (left = "open" => left' = "open")
  BY DEF Raw!Launch, Raw!UploadObject, Raw!UploadRow, Raw!UploadFindsNoFile, Raw!UploadFails,
         Raw!OthersUploaded, Raw!Fails, Raw!Leaves, Raw!Disturb, Raw!history, Raw!queue
<1>2. SUFFICES ASSUME Kept PROVE Kept'
  BY <1>1 DEF RawIInv, Raw!In
<1>3. Received' = Received /\ Raw!In(open)' = Raw!In(open) /\ Raw!In(file)' = Raw!In(file)
  BY <1>1 DEF Received, Raw!In
<1>4. CASE Raw!Launch
  BY <1>1, <1>2, <1>3, <1>4 DEF Raw!Launch, Raw!Free, Kept, Waits, Closed, Raw!In
<1>5. CASE Raw!UploadObject
  <2>1. open = None /\ object' = file /\ file # None
    BY <1>2, <1>5 DEF Raw!UploadObject, Kept, Waits, Closed
  <2>2. Raw!In(object)' = file /\ Received \subseteq file
    BY <1>2, <2>1 DEF Kept, Raw!In
  <2> QED BY <1>1, <1>2, <1>3, <1>5, <2>1, <2>2 DEF Raw!UploadObject, Kept, Waits, Closed
<1>6. CASE Raw!UploadRow
  <2>1. upload'.phase = "done" => upload # None /\ upload.phase = "row"
    BY <1>6 DEF Raw!UploadRow
  <2>2. Raw!In(object)' = Raw!In(object) /\ Received \subseteq Raw!In(object)
    BY <1>2, <1>6 DEF Raw!UploadRow, Kept, Raw!In
  <2> QED BY <1>1, <1>2, <1>3, <1>6, <2>2 DEF Raw!UploadRow, Kept, Waits, Closed
<1>7. CASE Raw!UploadFindsNoFile
  BY <1>1, <1>2, <1>3, <1>7 DEF Raw!UploadFindsNoFile, Kept, Waits, Closed, Raw!In
<1>8. CASE Raw!UploadFails \/ Raw!OthersUploaded
  BY <1>1, <1>2, <1>3, <1>8
     DEF Raw!UploadFails, Raw!OthersUploaded, Raw!Disturb, Kept, Waits, Closed, Raw!In
<1> QED BY <1>4, <1>5, <1>6, <1>7, <1>8

\* What is removed is in the object.
LEMMA RemovalKeeps == ASSUME RawIInv, Raw!UploadDone PROVE RawIInv'
<1>1. arrived' = arrived /\ open' = open /\ Raw!In(file)' = {} /\ late' = late
       /\ restarted' = restarted /\ left' = left
  BY DEF Raw!UploadDone, Raw!history, Raw!In
<1>2. SUFFICES ASSUME Kept PROVE Kept'
  BY <1>1 DEF RawIInv, Raw!In
<1>3. open = None /\ (ended \/ life # "running") /\ Received \subseteq Raw!In(object)
  BY <1>2 DEF Raw!UploadDone, Kept, Waits, Closed
<1> QED BY <1>1, <1>3 DEF Raw!UploadDone, Kept, Waits, Closed, Received, Raw!In

\* Segments that end, and processes that stop and start, lose nothing.
LEMMA OutsideKeeps ==
  ASSUME RawIInv,
         \/ Raw!SegmentEnds \/ Raw!Stop \/ Raw!Exit \/ Raw!OthersFail \/ Raw!StopFails
         \/ Raw!Restart \/ UNCHANGED raw
  PROVE  RawIInv'
<1>1. CASE Raw!SegmentEnds
  BY <1>1 DEF Raw!SegmentEnds, Raw!local, Raw!queue, Raw!history, RawIInv, Kept, Waits, Closed,
              Received, Raw!In
<1>2. CASE Raw!Stop \/ Raw!Exit \/ Raw!OthersFail
  BY <1>2 DEF Raw!Stop, Raw!Exit, Raw!OthersFail, Raw!Leaves, Raw!queue, Raw!history, RawIInv,
              Kept, Waits, Closed, Received, Raw!In
<1>3. CASE Raw!Restart
  <2>1. arrived' = arrived /\ open' = None /\ file' \in {file, None} /\ restarted'
    BY <1>3 DEF Raw!Restart, Raw!Disturb
  <2> QED BY <2>1 DEF RawIInv, Raw!In
<1>4. CASE UNCHANGED raw
  BY <1>4 DEF raw, RawIInv, Kept, Waits, Closed, Received, Raw!In
<1>5. CASE Raw!StopFails
  <2>1. CASE open # None
    BY <1>5, <2>1 DEF Raw!StopFails, Raw!Leaves, RawIInv
  <2>2. CASE open = None
    BY <1>5, <2>2 DEF Raw!StopFails, Raw!Leaves, Raw!queue, RawIInv, Kept, Waits, Closed, Received,
                      Raw!In
  <2> QED BY <2>1, <2>2
<1> QED BY <1>1, <1>2, <1>3, <1>4, <1>5

\* Every step of the segments keeps their invariant.
LEMMA RawStep == ASSUME RawIInv, [Raw!Next]_raw PROVE RawIInv'
<1>1. CASE Raw!Write
  BY <1>1, WriteKeeps
<1>2. CASE Raw!Close
  BY <1>2, CloseKeeps
<1>3. CASE Raw!UploadDone
  BY <1>3, RemovalKeeps
<1>4. CASE Raw!Launch \/ Raw!UploadObject \/ Raw!UploadRow \/ Raw!UploadFindsNoFile
       \/ Raw!UploadFails \/ Raw!OthersUploaded
  BY <1>4, UploadKeeps
<1>5. CASE \/ Raw!SegmentEnds \/ Raw!Stop \/ Raw!Exit \/ Raw!OthersFail \/ Raw!StopFails
           \/ Raw!Restart \/ UNCHANGED raw
  BY <1>5, OutsideKeeps
<1> QED BY <1>1, <1>2, <1>3, <1>4, <1>5 DEF Raw!Next, Raw!Uploads

\* Every message that has arrived is in the handle, the file or the object of its
\* segment, through failed, repeated and unheard uploads and a shutdown, unless a
\* message came after the end of the segment, another process wrote its path, or its
\* process ended with the handle open.
THEOREM SegmentsKept == StreamSpec => []RawKept
<1>1. Begin => RawIInv
  BY KeptInit DEF Begin
<1>2. RawIInv /\ [Step]_everything => RawIInv'
  BY RawStep, OneStore
<1>3. RawIInv => RawKept
  BY DEF RawIInv, Kept, RawKept, Raw!RawKept, Received
<1> QED BY <1>1, <1>2, <1>3, PTL DEF StreamSpec
(***************************************************************************)
(* Bars of futures                                                         *)
(***************************************************************************)
\* What the module's instances assume of its constants.
IngestAssumption == Contracts \in Nat \ {0} /\ LastDay \in Nat \ {0} /\ Enough \in Nat

Thread ==
  [at : {"off", "max", "page", "insert", "sessions", "store", "complete", "done", "failed",
         "unheard"},
   since : 0..LastDay, contract : Futures!AllContracts, next : 1..(LastDay + 1), to : 0..LastDay,
   more : BOOLEAN]

IngestTyped ==
  /\ today \in Futures!Days
  /\ bars \in [Futures!AllContracts -> SUBSET Futures!Days]
         /\ sessions \in [Futures!AllContracts -> SUBSET Futures!Days]
  /\ lateInserts \subseteq Futures!AllContracts \X Futures!Days
  /\ ingest \in [Processes -> Thread]

\* A bar may be stored when those before it are.
MayStore(c, d) == 1..(d - 1) \subseteq bars[c]

HasBars(i, c) == 1..i.since \subseteq bars[c]
HasAll(i, c) ==
  /\ HasBars(i, c)
  /\ 1..i.since \subseteq sessions[c] \/ Cardinality(sessions[c]) >= Enough

\* What a thread has behind it: the bars before the page it is at, the bars of the
\* contract whose sessions it is at, and all of the contracts before.
Knows(i) ==
  /\ i.since <= today
  /\ i.at \in {"page", "insert"} => MayStore(i.contract, i.next)
  /\ i.at = "insert" /\ ~i.more => i.since <= i.to
  /\ i.at = "store" => i.since <= i.to
  /\ i.at \in {"sessions", "store"} => HasBars(i, i.contract)
  /\ i.at \notin {"off", "failed", "unheard"} =>
       \A c \in Futures!AllContracts : c < i.contract \/ i.at \in {"complete", "done"}
              => HasAll(i, c)

\* The inductive invariant.
IngestInv ==
  /\ IngestTyped
  /\ Futures!BarsContiguous
  /\ \A l \in lateInserts : MayStore(l[1], l[2])
  /\ \A p \in Processes : Knows(ingest[p])
-----------------------------------------------------------------------------
\* A set of days that is not empty has a last one.
LEMMA LatestDay ==
  ASSUME IngestAssumption, NEW days \in SUBSET Futures!Days
  PROVE  /\ Futures!Latest(days) \in 0..LastDay
         /\ days # {} => Futures!Latest(days) \in days
<1>1. CASE days = {}
  BY <1>1 DEF Futures!Latest, IngestAssumption
<1>2. CASE days # {}
  <2> DEFINE before == {LastDay - d : d \in days}
  <2>0. LastDay \in Nat /\ \A d \in days : d \in Nat /\ 1 <= d /\ d <= LastDay
    BY DEF IngestAssumption, Futures!Days
  <2>1. before \subseteq Nat /\ before # {}
    <3>1. \A d \in days : LastDay - d \in Nat
      BY <2>0
    <3>2. \E d \in days : LastDay - d \in before
      BY <1>2
    <3> QED BY <3>1, <3>2
  <2>2. PICK n \in before : \A k \in before : ~(<<k, n>> \in OpToRel(<, Nat))
    BY <2>1, NatLessThanWellFounded, WFMin
  <2>3. \A k \in before : n <= k
    <3>1. ASSUME NEW k \in Nat, NEW m \in Nat, k < m PROVE <<k, m>> \in OpToRel(<, Nat)
      BY <3>1 DEF OpToRel
    <3>2. \A k \in before : ~(k < n)
      BY <2>1, <2>2, <3>1
    <3>3. n \in Nat /\ \A k \in before : k \in Nat
      BY <2>1
    <3> QED BY <3>2, <3>3
  <2>4. PICK d \in days : n = LastDay - d
    BY <2>2
  <2>5. \A e \in days : e <= d
    <3>1. \A e \in days : n <= LastDay - e
      BY <2>3
    <3> QED BY <2>0, <2>4, <3>1
  <2>6. Futures!Latest(days) \in days
    BY <1>2, <2>5 DEF Futures!Latest
  <2> QED BY <2>0, <2>6
<1> QED BY <1>1, <1>2

\* A thread goes on where the last bar is.
LEMMA ResumesBehindLast ==
  ASSUME IngestAssumption, IngestTyped, Futures!BarsContiguous, NEW c \in Futures!AllContracts
  PROVE  /\ Futures!Latest(bars[c]) + 1 \in 1..(LastDay + 1)
         /\ MayStore(c, Futures!Latest(bars[c]) + 1)
<1>1. bars[c] \in SUBSET Futures!Days
  BY DEF IngestTyped
<1>2. /\ Futures!Latest(bars[c]) \in 0..LastDay
      /\ bars[c] # {} => Futures!Latest(bars[c]) \in bars[c]
  BY <1>1, LatestDay
<1>3. bars[c] = {} => Futures!Latest(bars[c]) = 0
  BY DEF Futures!Latest
<1>4. 1..Futures!Latest(bars[c]) \subseteq bars[c]
  BY <1>2, <1>3 DEF Futures!BarsContiguous
<1> QED BY <1>2, <1>4 DEF MayStore, IngestAssumption

\* Nothing that is stored goes away.
Grows ==
  /\ today <= today'
  /\ \A c \in Futures!AllContracts : bars[c] \subseteq bars'[c]
         /\ sessions[c] \subseteq sessions'[c]

\* Sessions that are enough stay enough.
LEMMA EnoughStays ==
  ASSUME IngestAssumption, IngestTyped, IngestTyped', Grows, NEW c \in Futures!AllContracts,
         Cardinality(sessions[c]) >= Enough
  PROVE  Cardinality(sessions'[c]) >= Enough
<1>1. IsFiniteSet(Futures!Days)
  BY FS_Interval DEF IngestAssumption, Futures!Days
<1>2. sessions'[c] \in SUBSET Futures!Days /\ sessions[c] \in SUBSET sessions'[c]
  BY DEF IngestTyped, Grows
<1>3. IsFiniteSet(sessions'[c])
  BY <1>1, <1>2, FS_Subset
<1>4. /\ Cardinality(sessions[c]) <= Cardinality(sessions'[c])
      /\ IsFiniteSet(sessions[c])
  BY <1>2, <1>3, FS_Subset
<1>5. Cardinality(sessions[c]) \in Nat /\ Cardinality(sessions'[c]) \in Nat
  BY <1>3, <1>4, FS_CardinalityType
<1> QED BY <1>4, <1>5 DEF IngestAssumption

\* Bars that are complete stay complete.
LEMMA HasAllStays ==
  ASSUME IngestAssumption, IngestTyped, IngestTyped', Grows, NEW i,
         NEW c \in Futures!AllContracts, HasAll(i, c)
  PROVE  HasAll(i, c)'
BY EnoughStays DEF HasAll, HasBars, Grows

\* What a thread knows stays true while it does not move.
LEMMA KnowsStays ==
  ASSUME IngestAssumption, IngestTyped, IngestTyped', Grows, NEW i \in Thread, Knows(i)
  PROVE  Knows(i)'
<1>1. \A c \in Futures!AllContracts : HasAll(i, c) => HasAll(i, c)'
  BY HasAllStays
<1>2. \A c \in Futures!AllContracts : HasBars(i, c) => HasBars(i, c)'
  BY DEF HasBars, Grows
<1>3. \A c \in Futures!AllContracts, d \in Int : MayStore(c, d) => MayStore(c, d)'
  BY DEF MayStore, Grows
<1>4. i.since <= today'
  BY DEF Knows, Grows, IngestTyped, Thread, Futures!Days
<1> QED BY <1>1, <1>2, <1>3, <1>4 DEF Knows, Thread

\* A bar that may be stored leaves no hole.
LEMMA StoreKeepsContiguous ==
  ASSUME IngestTyped, Futures!BarsContiguous, NEW c \in Futures!AllContracts,
         NEW d \in Futures!Days,
         MayStore(c, d), Futures!StoreBar(c, d)
  PROVE  /\ Futures!BarsContiguous' /\ bars' \in [Futures!AllContracts -> SUBSET Futures!Days]
         /\ \A e \in Futures!AllContracts : bars[e] \subseteq bars'[e]
         /\ d \in bars'[c]
<1>1. /\ bars' \in [Futures!AllContracts -> SUBSET Futures!Days]
      /\ \A e \in Futures!AllContracts : bars'[e] = IF e = c THEN bars[e] \cup {d} ELSE bars[e]
  BY DEF IngestTyped, Futures!StoreBar
<1>2. 1..d \subseteq bars'[c]
  BY <1>1 DEF MayStore, Futures!Days
<1> QED BY <1>1, <1>2 DEF Futures!BarsContiguous
-----------------------------------------------------------------------------
\* A step of one thread that knows what it should keeps the invariant, ...
LEMMA StepKeeps ==
  ASSUME IngestAssumption, IngestInv, NEW p \in Processes, NEW new \in Thread,
         ingest' = [ingest EXCEPT ![p] = new], Grows, today' \in Futures!Days,
         bars' \in [Futures!AllContracts -> SUBSET Futures!Days],
                sessions' \in [Futures!AllContracts -> SUBSET Futures!Days],
         lateInserts' \subseteq Futures!AllContracts \X Futures!Days,
         Futures!BarsContiguous', \A l \in lateInserts' : MayStore(l[1], l[2])', Knows(new)'
  PROVE  IngestInv'
<1>1. IngestTyped /\ ingest \in [Processes -> Thread]
  BY DEF IngestInv, IngestTyped
<1>2. ingest' \in [Processes -> Thread]
  BY <1>1
<1>3. IngestTyped'
  BY <1>2 DEF IngestTyped
<1>4. ASSUME NEW q \in Processes, NEW i \in Thread, i = ingest'[q] PROVE Knows(i)'
  <2>1. CASE q = p
    <3>1. i = new
      BY <1>1, <1>4, <2>1
    <3> QED BY <3>1
  <2>2. CASE q # p
    <3>1. i = ingest[q]
      BY <1>1, <1>4, <2>2
    <3>2. Knows(i)
      BY <3>1 DEF IngestInv
    <3> QED BY <1>1, <1>3, <3>2, KnowsStays
  <2> QED BY <2>1, <2>2
<1>5. \A q \in Processes : Knows(ingest[q])'
  BY <1>2, <1>4
<1> QED BY <1>3, <1>5 DEF IngestInv

\* ... as does one that stores nothing.
LEMMA QuietKeeps ==
  ASSUME IngestAssumption, IngestInv, NEW p \in Processes, NEW new \in Thread,
         ingest' = [ingest EXCEPT ![p] = new],
         today' = today, bars' = bars, sessions' = sessions,
         lateInserts' \subseteq Futures!AllContracts \X Futures!Days,
                \A l \in lateInserts' : MayStore(l[1], l[2]),
         Knows(new)
  PROVE  IngestInv'
<1>1. Grows
  BY DEF IngestInv, IngestTyped, Grows, Futures!Days
<1>2. Futures!BarsContiguous' /\ \A l \in lateInserts' : MayStore(l[1], l[2])'
  BY DEF IngestInv, Futures!BarsContiguous, MayStore
<1>3. Knows(new)'
  BY DEF Knows, MayStore, HasBars, HasAll
<1> QED BY <1>1, <1>2, <1>3, StepKeeps DEF IngestInv, IngestTyped

\* The facts about one thread.
LEMMA OneThread ==
  ASSUME IngestInv, NEW p \in Processes
  PROVE  /\ ingest[p] \in Thread /\ Knows(ingest[p])
         /\ lateInserts \subseteq Futures!AllContracts \X Futures!Days
                /\ \A l \in lateInserts : MayStore(l[1], l[2])
         /\ today \in Futures!Days /\ IngestTyped /\ Futures!BarsContiguous
BY DEF IngestInv, IngestTyped

\* The thread passes to the next contract, or from the last one to the end.
LEMMA PassesOn ==
  ASSUME IngestAssumption, NEW p \in Processes, NEW i \in Thread, Futures!NextContract(p),
         ingest[p] = i
  PROVE  \E new \in Thread :
           /\ ingest' = [ingest EXCEPT ![p] = new]
           /\ new.since = i.since /\ new.at \in {"max", "complete"}
           /\ \A c \in Futures!AllContracts :
                c < new.contract \/ new.at = "complete" => c < i.contract \/ c = i.contract
<1>1. CASE i.contract = Contracts
  <2> DEFINE new == [i EXCEPT !.at = "complete"]
  <2>1. new \in Thread /\ ingest' = [ingest EXCEPT ![p] = new]
    BY <1>1 DEF Futures!NextContract, Futures!Goes, Thread
  <2>2. new.since = i.since /\ new.at = "complete"
    BY DEF Thread
  <2>3. \A c \in Futures!AllContracts : c < i.contract \/ c = i.contract
    BY <1>1 DEF Futures!AllContracts, IngestAssumption
  <2> QED BY <2>1, <2>2, <2>3
<1>2. CASE i.contract # Contracts
  <2> DEFINE new == [i EXCEPT !.at = "max", !.contract = @ + 1]
  <2>1. new \in Thread
    <3>1. i.contract + 1 \in Futures!AllContracts
      BY <1>2 DEF Thread, Futures!AllContracts, IngestAssumption
    <3> QED BY <3>1 DEF Thread
  <2>2. ingest' = [ingest EXCEPT ![p] = new]
    BY <1>2 DEF Futures!NextContract, Thread
  <2>3. new.since = i.since /\ new.at = "max" /\ new.contract = i.contract + 1
    BY DEF Thread
  <2>4. \A c \in Futures!AllContracts : c < i.contract + 1 => c < i.contract \/ c = i.contract
    BY DEF Futures!AllContracts, IngestAssumption, Thread
  <2> QED BY <2>1, <2>2, <2>3, <2>4
<1> QED BY <1>1, <1>2

\* Steps that store nothing.
LEMMA ReadingKnows ==
  ASSUME IngestAssumption, IngestInv, NEW p \in Processes,
         Futures!Begin(p) \/ Futures!ReadMax(p) \/ Futures!FetchPage(p)
                \/ Futures!PageOver(p) \/ Futures!SkipSessions(p)
         \/ Futures!FetchSessions(p) \/ Futures!Complete(p) \/ Futures!Restart(p)
  PROVE  \E new \in Thread : ingest' = [ingest EXCEPT ![p] = new] /\ Knows(new)
<1> DEFINE i == ingest[p]
<1>1. i \in Thread /\ Knows(i) /\ today \in Futures!Days /\ IngestTyped /\ Futures!BarsContiguous
  BY OneThread
<1>2. Futures!Off \in Thread /\ Knows(Futures!Off)
  BY <1>1 DEF Futures!Off, Thread, Knows, Futures!AllContracts, Futures!Days, IngestAssumption
<1> HIDE DEF i
<1>3. CASE Futures!Begin(p)
  <2> DEFINE new == [Futures!Off EXCEPT !.at = "max", !.since = today]
  <2>1. today \in 0..LastDay
    BY <1>1 DEF Futures!Days, IngestAssumption
  <2>2. new \in Thread
    BY <1>2, <2>1 DEF Thread
  <2>3. new.at = "max" /\ new.since = today /\ new.contract = 1
    BY DEF Futures!Off
  <2>4. \A c \in Futures!AllContracts : ~(c < 1)
    BY DEF Futures!AllContracts
  <2>5. Knows(new)
    BY <2>1, <2>3, <2>4 DEF Knows
  <2> QED BY <1>3, <2>2, <2>5 DEF Futures!Begin
<1>4. CASE Futures!ReadMax(p)
  <2> DEFINE new == [i EXCEPT !.at = "page", !.next = Futures!Latest(bars[i.contract]) + 1]
  <2>1. i.at = "max" /\ ingest' = [ingest EXCEPT ![p] = new]
    BY <1>1, <1>4 DEF Futures!ReadMax, Futures!At, i, Thread
  <2>2. /\ Futures!Latest(bars[i.contract]) + 1 \in 1..(LastDay + 1)
        /\ MayStore(i.contract, Futures!Latest(bars[i.contract]) + 1)
    BY <1>1, ResumesBehindLast DEF Thread
  <2>3. new \in Thread /\ Knows(new)
    BY <1>1, <2>1, <2>2 DEF Thread, Knows, HasAll, HasBars
  <2> QED BY <2>1, <2>3
<1>5. CASE Futures!FetchPage(p)
  <2>1. i.at = "page" /\ \E to \in (i.next - 1)..today :
          ingest' = [ingest EXCEPT ![p] = [i EXCEPT !.at = "insert", !.to = to,
                 !.more = to < today]]
    BY <1>1, <1>5 DEF Futures!FetchPage, Futures!At, i, Thread
  <2>2. PICK to \in (i.next - 1)..today :
          ingest' = [ingest EXCEPT ![p] = [i EXCEPT !.at = "insert", !.to = to,
                 !.more = to < today]]
    BY <2>1
  <2> DEFINE new == [i EXCEPT !.at = "insert", !.to = to, !.more = to < today]
  <2>0. (to < today) \in BOOLEAN
    OBVIOUS
  <2>3. to \in 0..LastDay /\ (~(to < today) => i.since <= to)
    BY <1>1 DEF Thread, Futures!Days, IngestAssumption, Knows
  <2>4. new \in Thread
    BY <1>1, <2>0, <2>3 DEF Thread
  <2>5. Knows(new)
    BY <1>1, <2>1, <2>3 DEF Thread, Knows, HasAll, HasBars
  <2> QED BY <2>2, <2>4, <2>5
<1>6. CASE Futures!PageOver(p)
  <2> DEFINE new == [i EXCEPT !.at = IF i.more THEN "page" ELSE "sessions"]
  <2>1. i.at = "insert" /\ i.next > i.to /\ ingest' = [ingest EXCEPT ![p] = new]
    BY <1>1, <1>6 DEF Futures!PageOver, Futures!Goes, Futures!At, i, Thread
  <2>2. ~i.more => HasBars(i, i.contract)
    BY <1>1, <2>1 DEF Knows, MayStore, HasBars, Thread, IngestAssumption
  <2>3. new \in Thread
    BY <1>1 DEF Thread
  <2>4. Knows(new)
    BY <1>1, <2>1, <2>2 DEF Thread, Knows, HasAll, HasBars
  <2> QED BY <2>1, <2>3, <2>4
<1>7. CASE Futures!SkipSessions(p)
  <2>1. i.at = "sessions" /\ HasAll(i, i.contract) /\ Futures!NextContract(p)
    BY <1>1, <1>7, CountSame DEF Futures!SkipSessions, Futures!At, i, Knows, HasAll
  <2>2. PICK new \in Thread :
          /\ ingest' = [ingest EXCEPT ![p] = new]
          /\ new.since = i.since /\ new.at \in {"max", "complete"}
          /\ \A c \in Futures!AllContracts :
               c < new.contract \/ new.at = "complete" => c < i.contract \/ c = i.contract
    BY <1>1, <2>1, PassesOn DEF i
  <2>3. \A c \in Futures!AllContracts : c < i.contract \/ c = i.contract => HasAll(i, c)
    BY <1>1, <2>1 DEF Knows
  <2>4. Knows(new)
    BY <1>1, <2>2, <2>3 DEF Knows, HasAll, HasBars
  <2> QED BY <2>2, <2>4
<1>8. CASE Futures!FetchSessions(p)
  <2> DEFINE new == [i EXCEPT !.at = "store", !.to = today]
  <2>1. i.at = "sessions" /\ ingest' = [ingest EXCEPT ![p] = new]
    BY <1>1, <1>8 DEF Futures!FetchSessions, Futures!At, i, Thread
  <2>2. today \in 0..LastDay /\ i.since <= today
    BY <1>1 DEF Futures!Days, IngestAssumption, Knows
  <2>3. new \in Thread
    BY <1>1, <2>2 DEF Thread
  <2>4. Knows(new)
    BY <1>1, <2>1, <2>2 DEF Thread, Knows, HasAll, HasBars
  <2> QED BY <2>1, <2>3, <2>4
<1>9. CASE Futures!Complete(p)
  <2> DEFINE new == [i EXCEPT !.at = "done"]
  <2>1. i.at = "complete" /\ ingest' = [ingest EXCEPT ![p] = new]
    BY <1>1, <1>9 DEF Futures!Complete, Futures!Goes, Futures!At, i, Thread
  <2>2. new \in Thread /\ Knows(new)
    BY <1>1, <2>1 DEF Thread, Knows, HasAll, HasBars
  <2> QED BY <2>1, <2>2
<1>10. CASE Futures!Restart(p)
  BY <1>2, <1>10 DEF Futures!Restart
<1> QED BY <1>3, <1>4, <1>5, <1>6, <1>7, <1>8, <1>9, <1>10

\* What a thread reads or decides keeps the invariant of the ingestion.
LEMMA ReadingKeeps ==
  ASSUME IngestAssumption, IngestInv, NEW p \in Processes,
         Futures!Begin(p) \/ Futures!ReadMax(p) \/ Futures!FetchPage(p)
                \/ Futures!PageOver(p) \/ Futures!SkipSessions(p)
         \/ Futures!FetchSessions(p) \/ Futures!Complete(p) \/ Futures!Restart(p)
  PROVE  IngestInv'
<1>1. PICK new \in Thread : ingest' = [ingest EXCEPT ![p] = new] /\ Knows(new)
  BY ReadingKnows
<1>2. today' = today /\ bars' = bars /\ sessions' = sessions /\ lateInserts' = lateInserts
  BY DEF Futures!Begin, Futures!ReadMax, Futures!FetchPage, Futures!PageOver,
         Futures!SkipSessions, Futures!FetchSessions, Futures!Complete, Futures!Restart
<1> QED BY <1>1, <1>2, OneThread, QuietKeeps

\* What a thread was inserting when it failed may still be stored later: the bars before
\* it stay.
LEMMA FailKeeps ==
  ASSUME IngestAssumption, IngestInv, NEW p \in Processes, Futures!Fail(p)
  PROVE  IngestInv'
<1> DEFINE i == ingest[p]
<1>1. i \in Thread /\ Knows(i) /\ Futures!Working(p)
  BY OneThread DEF Futures!Fail
<1> HIDE DEF i
<1>2. PICK at \in {"failed", "unheard"} : ingest' = [ingest EXCEPT ![p] = [i EXCEPT !.at = at]]
  BY <1>1 DEF Futures!Fail, Futures!Goes, i, Thread
<1>3. [i EXCEPT !.at = at] \in Thread /\ Knows([i EXCEPT !.at = at])
  BY <1>1 DEF Thread, Knows
<1>4. /\ today' = today /\ bars' = bars /\ sessions' = sessions
      /\ \E insert \in SUBSET (IF i.at = "insert" /\ i.next <= i.to
                              THEN {<<i.contract, i.next>>} ELSE {}) :
           lateInserts' = lateInserts \cup insert
  BY DEF Futures!Fail, Futures!At, i
<1>5. i.at = "insert" /\ i.next <= i.to =>
        /\ <<i.contract, i.next>> \in Futures!AllContracts \X Futures!Days
        /\ MayStore(i.contract, i.next)
  BY <1>1 DEF Knows, Thread, Futures!Days, IngestAssumption
<1>6. lateInserts' \subseteq Futures!AllContracts \X Futures!Days
       /\ \A l \in lateInserts' : MayStore(l[1], l[2])
  BY <1>4, <1>5, OneThread
<1> QED BY <1>2, <1>3, <1>4, <1>6, QuietKeeps

\* A stored bar leaves no hole, and what was known stays so, whoever stores it.
LEMMA StoredKeeps ==
  ASSUME IngestAssumption, IngestInv, NEW c \in Futures!AllContracts, NEW d \in Futures!Days,
         MayStore(c, d),
         Futures!StoreBar(c, d), today' = today, sessions' = sessions
  PROVE  /\ Grows /\ Futures!BarsContiguous' /\ today' \in Futures!Days /\ d \in bars'[c]
         /\ bars' \in [Futures!AllContracts -> SUBSET Futures!Days]
                /\ sessions' \in [Futures!AllContracts -> SUBSET Futures!Days]
         /\ \A l \in lateInserts : MayStore(l[1], l[2])'
<1>1. /\ Futures!BarsContiguous' /\ bars' \in [Futures!AllContracts -> SUBSET Futures!Days]
      /\ \A e \in Futures!AllContracts : bars[e] \subseteq bars'[e]
      /\ d \in bars'[c]
  BY StoreKeepsContiguous DEF IngestInv
<1>2. IngestTyped
  BY DEF IngestInv
<1>3. Grows
  BY <1>1, <1>2 DEF Grows, IngestTyped, Futures!Days
<1>4. ASSUME NEW l \in lateInserts PROVE MayStore(l[1], l[2])'
  <2>1. l[1] \in Futures!AllContracts /\ MayStore(l[1], l[2])
    BY <1>2 DEF IngestInv, IngestTyped
  <2> QED BY <1>1, <2>1 DEF MayStore
<1> QED BY <1>1, <1>2, <1>3, <1>4 DEF IngestTyped

\* So does an insert, or its repetition.
LEMMA InsertKeeps ==
  ASSUME IngestAssumption, IngestInv, NEW p \in Processes, Futures!InsertBars(p)
         \/ Futures!CallRepeated(p)
  PROVE  IngestInv'
<1>1. PICK i \in Thread : i = ingest[p] /\ Knows(i)
  BY OneThread
<1>2. IngestTyped /\ ingest \in [Processes -> Thread]
       /\ lateInserts \subseteq Futures!AllContracts \X Futures!Days
  BY DEF IngestInv, IngestTyped
<1>3. /\ i.at = "insert" /\ i.next <= i.to /\ Futures!StoreBar(i.contract, i.next)
      /\ today' = today /\ sessions' = sessions /\ lateInserts' = lateInserts
  BY <1>1 DEF Futures!InsertBars, Futures!CallRepeated, Futures!At
<1>4. i.contract \in Futures!AllContracts /\ i.next \in Futures!Days /\ MayStore(i.contract, i.next)
  BY <1>1, <1>3 DEF Knows, Thread, Futures!Days, IngestAssumption
<1>5. /\ Grows /\ Futures!BarsContiguous' /\ today' \in Futures!Days /\ i.next \in bars'[i.contract]
      /\ bars' \in [Futures!AllContracts -> SUBSET Futures!Days]
             /\ sessions' \in [Futures!AllContracts -> SUBSET Futures!Days]
      /\ \A l \in lateInserts : MayStore(l[1], l[2])'
  BY <1>3, <1>4, StoredKeeps
<1>6. PICK next \in {i.next, i.next + 1} : ingest' = [ingest EXCEPT ![p] = [i EXCEPT !.next = next]]
  <2>1. CASE Futures!InsertBars(p)
    <3>1. ingest' = [ingest EXCEPT ![p] = [i EXCEPT !.next = i.next + 1]]
      BY <1>1, <1>2, <2>1 DEF Futures!InsertBars
    <3> QED BY <3>1
  <2>2. CASE Futures!CallRepeated(p)
    <3>1. i = [i EXCEPT !.next = i.next]
      BY DEF Thread
    <3>2. ingest' = [ingest EXCEPT ![p] = i]
      BY <1>1, <1>2, <2>2 DEF Futures!CallRepeated
    <3> QED BY <3>1, <3>2
  <2> QED BY <2>1, <2>2
<1>7. PICK new \in Thread : new = [i EXCEPT !.next = next]
  <2>1. next \in 1..(LastDay + 1)
    BY <1>4, <1>6 DEF Futures!Days, IngestAssumption
  <2> QED BY <2>1 DEF Thread
<1>8. ingest' \in [Processes -> Thread]
  BY <1>2, <1>6, <1>7
<1>9. IngestTyped'
  BY <1>2, <1>3, <1>5, <1>8 DEF IngestTyped
<1>10. Knows(i)'
  BY <1>1, <1>2, <1>5, <1>9, KnowsStays
<1>11. MayStore(i.contract, next)'
  BY <1>4, <1>5, <1>6 DEF Futures!BarsContiguous, MayStore, Futures!Days, IngestAssumption
<1>12. Knows(new)'
  BY <1>3, <1>7, <1>10, <1>11 DEF Knows, Thread, HasAll, HasBars
<1> QED BY <1>2, <1>3, <1>5, <1>6, <1>7, <1>12, StepKeeps

\* So does an insert that was given up and happens late.
LEMMA LateKeeps == ASSUME IngestAssumption, IngestInv, Futures!LateInsert PROVE IngestInv'
<1>1. PICK l \in lateInserts : Futures!StoreBar(l[1], l[2]) /\ lateInserts' = lateInserts \ {l}
  BY DEF Futures!LateInsert
<1>2. /\ today' = today /\ sessions' = sessions /\ ingest' = ingest
      /\ IngestTyped /\ ingest \in [Processes -> Thread]
             /\ lateInserts \subseteq Futures!AllContracts \X Futures!Days
  BY DEF Futures!LateInsert, IngestInv, IngestTyped
<1>3. l[1] \in Futures!AllContracts /\ l[2] \in Futures!Days /\ MayStore(l[1], l[2])
  BY <1>2 DEF IngestInv
<1>4. /\ Grows /\ Futures!BarsContiguous' /\ today' \in Futures!Days
      /\ bars' \in [Futures!AllContracts -> SUBSET Futures!Days]
             /\ sessions' \in [Futures!AllContracts -> SUBSET Futures!Days]
      /\ \A k \in lateInserts : MayStore(k[1], k[2])'
  BY <1>1, <1>2, <1>3, StoredKeeps
<1>5. IngestTyped'
  BY <1>1, <1>2, <1>4 DEF IngestTyped
<1>6. ASSUME NEW q \in Processes, NEW i \in Thread, i = ingest[q] PROVE Knows(i)'
  <2>1. Knows(i)
    BY <1>6 DEF IngestInv
  <2> QED BY <1>2, <1>4, <1>5, <2>1, KnowsStays
<1>7. \A q \in Processes : Knows(ingest[q])'
  BY <1>2, <1>6
<1> QED BY <1>1, <1>4, <1>5, <1>7 DEF IngestInv

\* So does a new day.
LEMMA DayKeeps == ASSUME IngestAssumption, IngestInv, Futures!DayPasses PROVE IngestInv'
<1>1. /\ today' \in Futures!Days /\ today <= today' /\ lateInserts' = lateInserts
      /\ bars' = bars /\ sessions' = sessions /\ ingest' = ingest
      /\ IngestTyped /\ ingest \in [Processes -> Thread]
  BY DEF Futures!DayPasses, IngestInv, IngestTyped, Futures!Days, IngestAssumption
<1>2. IngestTyped' /\ Grows
  BY <1>1 DEF IngestTyped, Grows
<1>3. ASSUME NEW q \in Processes, NEW i \in Thread, i = ingest[q] PROVE Knows(i)'
  <2>1. Knows(i)
    BY <1>3 DEF IngestInv
  <2> QED BY <1>1, <1>2, <2>1, KnowsStays
<1>4. \A q \in Processes : Knows(ingest[q])'
  BY <1>1, <1>3
<1> QED BY <1>1, <1>2, <1>4 DEF IngestInv, Futures!BarsContiguous, MayStore

\* Stored sessions reach as far as the provider did when the thread began.
LEMMA SessionsKeep ==
  ASSUME IngestAssumption, IngestInv, NEW p \in Processes, Futures!StoreSessions(p)
  PROVE  IngestInv'
<1>1. PICK i \in Thread : i = ingest[p] /\ Knows(i)
  BY OneThread
<1>2. IngestTyped /\ ingest \in [Processes -> Thread]
       /\ lateInserts \subseteq Futures!AllContracts \X Futures!Days
  BY DEF IngestInv, IngestTyped
<1>3. /\ i.at = "store" /\ sessions' = [sessions EXCEPT ![i.contract] = @ \cup 1..i.to]
      /\ Futures!NextContract(p) /\ today' = today /\ bars' = bars /\ lateInserts' = lateInserts
  BY <1>1 DEF Futures!StoreSessions, Futures!At
<1>4. i.contract \in Futures!AllContracts /\ 1..i.to \subseteq Futures!Days
       /\ 1..i.since \subseteq 1..i.to
  BY <1>1, <1>3 DEF Knows, Thread, Futures!Days, IngestAssumption
<1>5. /\ sessions' \in [Futures!AllContracts -> SUBSET Futures!Days]
      /\ \A c \in Futures!AllContracts : sessions[c] \subseteq sessions'[c]
      /\ 1..i.since \subseteq sessions'[i.contract]
  BY <1>2, <1>3, <1>4 DEF IngestTyped
<1>6. Grows /\ today' \in Futures!Days
  BY <1>2, <1>3, <1>5 DEF Grows, IngestTyped, Futures!Days
<1>7. PICK new \in Thread :
        /\ ingest' = [ingest EXCEPT ![p] = new]
        /\ new.since = i.since /\ new.at \in {"max", "complete"}
        /\ \A c \in Futures!AllContracts :
             c < new.contract \/ new.at = "complete" => c < i.contract \/ c = i.contract
  BY <1>1, <1>3, PassesOn
<1>8. ingest' \in [Processes -> Thread]
  BY <1>2, <1>7
<1>9. IngestTyped'
  BY <1>2, <1>3, <1>5, <1>6, <1>8 DEF IngestTyped
<1>10. Knows(i)' /\ HasBars(i, i.contract)'
  BY <1>1, <1>2, <1>3, <1>6, <1>9, KnowsStays DEF Knows
<1>11. \A c \in Futures!AllContracts : c < i.contract \/ c = i.contract => HasAll(i, c)'
  BY <1>3, <1>5, <1>10 DEF Knows, HasAll
<1>12. Knows(new)'
  BY <1>7, <1>10, <1>11 DEF Knows, HasAll, HasBars
<1>13. Futures!BarsContiguous' /\ \A l \in lateInserts' : MayStore(l[1], l[2])'
  BY <1>3 DEF IngestInv, Futures!BarsContiguous, MayStore
<1> QED BY <1>2, <1>3, <1>5, <1>6, <1>7, <1>12, <1>13, StepKeeps DEF IngestTyped
-----------------------------------------------------------------------------
\* The invariant of the ingestion holds at the start.
LEMMA IngestInit == ASSUME IngestAssumption, Futures!Init PROVE IngestInv
<1>1. Futures!Off \in Thread /\ today \in Futures!Days
  BY DEF Futures!Init, Futures!Off, Thread, Futures!AllContracts, IngestAssumption
<1>2. IngestTyped /\ Futures!BarsContiguous
  BY <1>1 DEF Futures!Init, IngestTyped, Futures!BarsContiguous
<1>3. Knows(Futures!Off)
  BY <1>1 DEF Futures!Off, Knows, Futures!Days, IngestAssumption
<1> QED BY <1>2, <1>3 DEF Futures!Init, IngestInv

\* Every step of the ingestion keeps it.
LEMMA IngestStep == ASSUME IngestAssumption, IngestInv, [Futures!Next]_futures PROVE IngestInv'
<1>1. CASE Futures!DayPasses
  BY <1>1, DayKeeps
<1>2. CASE Futures!LateInsert
  BY <1>2, LateKeeps
<1>3. ASSUME NEW p \in Processes, Futures!Work(p) PROVE IngestInv'
  BY <1>3, ReadingKeeps, InsertKeeps, SessionsKeep DEF Futures!Work
<1>4. ASSUME NEW p \in Processes, Futures!CallRepeated(p) \/ Futures!Fail(p) \/ Futures!Restart(p)
      PROVE  IngestInv'
  BY <1>4, ReadingKeeps, InsertKeeps, FailKeeps
<1>5. CASE UNCHANGED futures
  BY <1>5, CountSame DEF futures, IngestInv, IngestTyped, Futures!BarsContiguous, MayStore, Knows,
                         HasAll, HasBars
<1> QED BY <1>1, <1>2, <1>3, <1>4, <1>5 DEF Futures!Next

\* The last stored bar of a contract says where to go on, since no thread, however late
\* its inserts and however many insert at once, leaves a hole behind it; and a thread that
\* has completed the run leaves, in every contract, the bars that the provider had when it
\* began, and as many sessions or enough, whatever failed on the way.
THEOREM IngestCovered == StreamSpec => []IngestCovers
<1>1. IngestAssumption
  BY StoreBounds DEF IngestAssumption
<1>2. Begin => IngestInv
  BY <1>1, IngestInit DEF Begin
<1>3. IngestInv /\ [Step]_everything => IngestInv'
  BY <1>1, IngestStep, OneStore
<1>4. IngestInv => IngestCovers
  <2> SUFFICES ASSUME IngestInv PROVE Futures!CompletedCovers
    BY DEF IngestInv, IngestCovers
  <2> QED BY CountSame DEF IngestInv, Knows, HasAll, HasBars, Futures!CompletedCovers, Futures!At
<1> QED BY <1>2, <1>3, <1>4, PTL DEF StreamSpec
(***************************************************************************)
(* Broad observations                                                      *)
(***************************************************************************)
InHand == {"minute", "ring"}
Seen == 1..detected

\* One flush at a time, which no longer has what it has written; an attempt is counted
\* from the first one on.
Serial ==
  /\ \A f, g \in Broad!Flushers :
       f # g => flight[f].phase = "idle" \/ flight[g].phase = "idle"
  /\ \A f \in Broad!Flushers :
       /\ flight[f].phase = "idle" => flight[f].attempt = 0
       /\ flight[f].phase = "retry" => flight[f].attempt < MaxAttempts
       /\ flight[f].phase \in {"ring", "files"} => flight[f].minute = 0
       /\ flight[f].phase = "files" => flight[f].buffer = {}

\* The places of an observation.
Places == buffer \cup flight["loop"].buffer \cup flight["scanner"].buffer \cup ring

\* No observation is nowhere before the process ends; what the scanner's flush took
\* reaches the ring before its snapshot is made, and a snapshot is made once.
Evidence ==
  /\ detected <= observed
  /\ ending = "no" => 1..observed \subseteq Places
  /\ scanner = "flushing" => ending = "no"
  /\ ending = "no" => orphan = Broad!NoFlight
  /\ flight["scanner"].phase # "idle" => scanner = "flushing"
  /\ flight["scanner"].phase \in InHand => Seen \subseteq flight["scanner"].buffer \cup ring
  /\ flight["scanner"].phase = "files" => Seen \subseteq ring
  /\ scanner = "saving" => Seen \subseteq ring
  /\ snapshot # None =>
       /\ Seen \subseteq snapshot
       /\ scanner \in {"uploading", "activating", "done", "dropped", "cancelled"}

\* The newest observation waits, is in a flush's hands, or is stored.
Newest ==
  /\ minute # 0 => minute = observed
  /\ \A f \in Broad!Flushers : minute = 0 /\ flight[f].minute # 0 => flight[f].minute = observed
  /\ (minute = 0 /\ \A f \in Broad!Flushers : flight[f].minute = 0) => stored = observed

\* The inductive invariant.
BroadIInv ==
  /\ Broad!TypeOK /\ Serial /\ Evidence
  /\ ~overwritten /\ ending = "no" => Newest

\* The invariant of the broad observations holds at the start.
LEMMA BroadInit == Broad!Init => BroadIInv
<1> SUFFICES ASSUME Broad!Init PROVE BroadIInv
  OBVIOUS
<1>1. Broad!NoFlight \in Broad!Flights
  BY StoreBounds DEF Broad!NoFlight, Broad!Flights
<1>2. \A f \in Broad!Flushers : flight[f] = Broad!NoFlight
  BY DEF Broad!Init
<1>3. Broad!TypeOK
  <2>1. {observed, minute, stored, detected} \subseteq 0..MaxObservations
         /\ faults \in 0..MaxDisturbances
    BY StoreBounds, CollectorAssumption DEF Broad!Init
  <2>2. {queued, uploaded, active, overwritten} \subseteq BOOLEAN
    BY DEF Broad!Init
  <2>3. flight \in [Broad!Flushers -> Broad!Flights]
    BY <1>1, Zenon DEF Broad!Init
  <2>4. \A f \in Broad!Flushers : flight[f].minute = 0 /\ flight[f].buffer = {}
    BY <1>2 DEF Broad!NoFlight
  <2>5. /\ buffer = {} /\ ring = {} /\ snapshot = None /\ scanner = "scanning"
        /\ ending = "no" /\ orphan = Broad!NoFlight
    BY DEF Broad!Init
  <2>6. buffer \subseteq Broad!Observations /\ ring \subseteq Broad!Observations
    BY <2>5
  <2>7. /\ snapshot \in (SUBSET Broad!Observations) \cup {None}
        /\ scanner \in {"scanning", "flushing", "saving", "uploading", "activating", "done",
               "dropped", "cancelled"}
    BY <2>5
  <2>8. ending \in {"no", "draining", "over"} /\ orphan \in Broad!Flights
    BY <1>1, <2>5
  <2> QED BY <2>1, <2>2, <2>3, <2>4, <2>6, <2>7, <2>8, Zenon DEF Broad!TypeOK, Broad!InThread
<1>4. Serial /\ Newest
  BY <1>2 DEF Broad!Init, Serial, Newest, Broad!NoFlight
<1>5. Evidence
  BY <1>2 DEF Broad!Init, Evidence, Places, Broad!NoFlight, Broad!Flushers, InHand, Seen
<1> QED BY <1>3, <1>4, <1>5 DEF BroadIInv

\* A flush changes its own record only.
LEMMA OneFlight ==
  ASSUME Broad!TypeOK, NEW f \in Broad!Flushers, NEW new \in Broad!Flights,
         flight' = [flight EXCEPT ![f] = new],
         new.phase \in {"idle", "retry"} => new.minute = 0 /\ new.buffer = {}
  PROVE  /\ flight' \in [Broad!Flushers -> Broad!Flights] /\ flight'[f] = new
         /\ \A g \in Broad!Flushers \ {f} : flight'[g] = flight[g]
         /\ \A g \in Broad!Flushers : flight'[g].phase \in {"idle", "retry"} =>
                           flight'[g].minute = 0 /\ flight'[g].buffer = {}
BY DEF Broad!TypeOK

\* A new observation goes into the buffer.
LEMMA ObserveKeeps == ASSUME BroadIInv, Broad!Observe PROVE BroadIInv'
<1>1. observed \in Nat /\ observed' = observed + 1 /\ observed' \in 1..MaxObservations
  BY StoreBounds DEF BroadIInv, Broad!TypeOK, Broad!Observe
<1>2. /\ minute' = observed' /\ buffer' = buffer \cup {observed'}
      /\ UNCHANGED <<flight, stored, ring, snapshot, queued, uploaded, active, ending, orphan,
                     faults, overwritten>>
      /\ ending = "no"
      /\ \/ UNCHANGED <<detected, scanner>>
         \/ scanner = "scanning" /\ detected' = observed' /\ scanner' = "flushing"
  BY DEF Broad!Observe, Broad!process
<1>3. Broad!TypeOK'
  BY <1>1, <1>2, SMT DEF BroadIInv, Broad!TypeOK, Broad!Observations, Broad!InThread
<1>4. Serial'
  BY <1>2 DEF BroadIInv, Serial
<1>5. Newest'
  BY <1>1, <1>2 DEF Newest
<1>6. Evidence'
  <2>1. 1..observed' = 1..observed \cup {observed'}
    BY <1>1
  <2>2. (1..observed \subseteq Places)'
    BY <1>2, <2>1 DEF BroadIInv, Evidence, Places
  <2>3. CASE UNCHANGED <<detected, scanner>>
    <3>1. detected' <= observed' /\ Seen' = Seen
      BY <1>1, <2>3 DEF BroadIInv, Evidence, Places, Broad!TypeOK, Seen
    <3> QED BY <1>2, <2>2, <2>3, <3>1 DEF BroadIInv, Evidence, Places
  <2>4. CASE scanner = "scanning" /\ detected' = observed' /\ scanner' = "flushing"
    <3>1. /\ flight["scanner"].phase = "idle" /\ snapshot = None
          /\ orphan = Broad!NoFlight
      BY <1>2, <2>4 DEF BroadIInv, Evidence
    <3>2. /\ flight'["scanner"].phase = "idle" /\ snapshot' = None
          /\ ending' = "no" /\ orphan' = Broad!NoFlight /\ detected' <= observed'
      BY <1>1, <1>2, <2>4, <3>1
    <3> QED BY <2>2, <2>4, <3>2 DEF Evidence, InHand
  <2> QED BY <1>2, <2>3, <2>4
<1> QED BY <1>3, <1>4, <1>5, <1>6 DEF BroadIInv

\* A flush takes the buffer.
LEMMA TakeKeeps == ASSUME BroadIInv, NEW f \in Broad!Flushers, Broad!Take(f) PROVE BroadIInv'
<1>1. PICK taken \in Broad!Taken(f) :
        /\ flight' = [flight EXCEPT ![f] = [phase |-> "minute", minute |-> taken.minute,
             buffer |-> taken.buffer, attempt |-> @.attempt + 1]]
        /\ minute' = IF taken.minute = 0 THEN minute ELSE 0
        /\ buffer' = buffer \ taken.buffer
  BY DEF Broad!Take
<1>2. /\ UNCHANGED <<observed, stored, ring, detected, scanner, snapshot, queued, uploaded,
                     active, ending, orphan, faults, overwritten>>
      /\ \/ flight[f].phase = "idle" /\ (f = "loop" \/ scanner = "flushing") /\ Broad!Alone(f)
         \/ flight[f].phase = "retry"
  BY DEF Broad!Take, Broad!detection, Broad!process, Broad!Wants
<1>3. /\ taken.minute \in {0, minute} /\ taken.buffer \subseteq buffer
      /\ f = "scanner" => taken.minute = minute /\ taken.buffer = buffer
  BY <1>1 DEF Broad!Taken
<1>4. /\ flight[f].attempt \in 0..MaxAttempts /\ flight[f].attempt < MaxAttempts
      /\ flight[f].minute = 0 /\ flight[f].buffer = {}
  BY <1>2, StoreBounds DEF BroadIInv, Broad!TypeOK, Broad!Flights, Serial
<1> DEFINE new == [phase |-> "minute", minute |-> taken.minute,
                   buffer |-> taken.buffer, attempt |-> flight[f].attempt + 1]
<1>5. new \in Broad!Flights /\ flight' = [flight EXCEPT ![f] = new]
  BY <1>1, <1>3, <1>4, StoreBounds DEF BroadIInv, Broad!TypeOK, Broad!Flights
<1>6. /\ flight' \in [Broad!Flushers -> Broad!Flights] /\ flight'[f] = new
      /\ \A g \in Broad!Flushers \ {f} : flight'[g] = flight[g]
      /\ \A g \in Broad!Flushers : flight'[g].phase \in {"idle", "retry"} =>
                           flight'[g].minute = 0 /\ flight'[g].buffer = {}
  BY <1>5, OneFlight, Zenon DEF BroadIInv
<1>7. Broad!TypeOK'
  <2>1. minute' \in 0..MaxObservations /\ buffer' \subseteq Broad!Observations
    BY <1>1, <1>3, StoreBounds DEF BroadIInv, Broad!TypeOK
  <2> QED BY <1>2, <1>6, <2>1 DEF BroadIInv, Broad!TypeOK
<1>8. \A g \in Broad!Flushers \ {f} : flight[g].phase = "idle" /\ flight[g].minute = 0
       /\ flight[g].buffer = {}
  BY <1>2 DEF BroadIInv, Serial, Broad!Alone, Broad!TypeOK
<1>9. Serial'
  BY <1>6, <1>8 DEF BroadIInv, Serial
<1>10. ~overwritten' /\ ending' = "no" => Newest'
  BY <1>1, <1>2, <1>3, <1>4, <1>6, <1>8 DEF BroadIInv, Newest
<1>11. Evidence'
  <2>1. buffer \cup flight["loop"].buffer \cup flight["scanner"].buffer =
        buffer' \cup flight'["loop"].buffer \cup flight'["scanner"].buffer
    <3>1. buffer = buffer' \cup new.buffer
      BY <1>1, <1>3
    <3>2. f = "loop" \/ f = "scanner"
      BY DEF Broad!Flushers
    <3>3. CASE f = "loop"
      BY <3>1, <3>3, <1>4, <1>6, <1>8 DEF Broad!Flushers
    <3>4. CASE f = "scanner"
      BY <3>1, <3>4, <1>4, <1>6, <1>8 DEF Broad!Flushers
    <3> QED BY <3>2, <3>3, <3>4
  <2>2. CASE f = "scanner"
    <3>1. flight'["scanner"].phase = "minute" /\ flight'["scanner"].buffer = buffer
          /\ buffer' = {} /\ flight'["loop"].buffer = {}
      BY <1>1, <1>3, <1>6, <1>8, <2>2 DEF Broad!Flushers
    <3>3. scanner = "flushing" /\ ending = "no"
      BY <1>2, <2>2 DEF BroadIInv, Evidence, Places
    <3>2. Seen \subseteq flight'["scanner"].buffer \cup ring
      BY <2>1, <3>1, <3>3 DEF BroadIInv, Evidence, Places, Seen, Broad!TypeOK
    <3> QED BY <1>2, <2>1, <2>2, <3>1, <3>2, <3>3 DEF BroadIInv, Evidence, Places, Seen, InHand
  <2>3. CASE f = "loop"
    <3>1. flight'["scanner"] = flight["scanner"]
      BY <1>6, <2>3 DEF Broad!Flushers
    <3> QED BY <1>2, <2>1, <2>3, <3>1 DEF BroadIInv, Evidence, Places, Seen, InHand
  <2> QED BY <2>2, <2>3 DEF Broad!Flushers
<1> QED BY <1>7, <1>9, <1>10, <1>11 DEF BroadIInv

\* The minutes of a flush are written.
LEMMA WriteMinuteKeeps ==
  ASSUME BroadIInv, NEW f \in Broad!Flushers, Broad!WriteMinute(f) PROVE BroadIInv'
<1>1. /\ UNCHANGED <<observed, minute, buffer, ring, detected, scanner, snapshot, queued, uploaded,
                     active, ending, orphan, faults, overwritten>>
      /\ flight[f].phase = "minute"
      /\ stored' = IF flight[f].minute = 0 THEN stored ELSE flight[f].minute
      /\ flight' = [flight EXCEPT ![f].phase = "ring", ![f].minute = 0]
  BY DEF Broad!WriteMinute, Broad!detection, Broad!process
<1> DEFINE new == [flight[f] EXCEPT !.phase = "ring", !.minute = 0]
<1>2. flight[f] \in Broad!Flights
  BY DEF BroadIInv, Broad!TypeOK
<1>3. /\ new \in Broad!Flights /\ flight' = [flight EXCEPT ![f] = new]
      /\ new.phase = "ring" /\ new.minute = 0 /\ new.buffer = flight[f].buffer
      /\ new.attempt = flight[f].attempt
  <2>1. 0 \in 0..MaxObservations
    BY StoreBounds
  <2>2. flight' = [flight EXCEPT ![f] = new]
    BY <1>1, Zenon
  <2>3. /\ new.phase = "ring" /\ new.minute = 0 /\ new.buffer = flight[f].buffer
        /\ new.attempt = flight[f].attempt /\ new \in Broad!Flights
    BY <1>2, <2>1 DEF Broad!Flights
  <2> QED BY <2>2, <2>3
<1>4. /\ flight' \in [Broad!Flushers -> Broad!Flights] /\ flight'[f] = new
      /\ \A g \in Broad!Flushers \ {f} : flight'[g] = flight[g]
      /\ \A g \in Broad!Flushers : flight'[g].phase \in {"idle", "retry"} =>
                           flight'[g].minute = 0 /\ flight'[g].buffer = {}
  BY <1>3, OneFlight, Zenon DEF BroadIInv
<1>5. Broad!TypeOK'
  BY <1>1, <1>2, <1>4 DEF BroadIInv, Broad!TypeOK, Broad!Flights
<1>6. \A g \in Broad!Flushers \ {f} : flight[g].phase = "idle" /\ flight[g].minute = 0
  BY <1>1 DEF BroadIInv, Serial, Broad!TypeOK
<1>7. Serial'
  BY <1>3, <1>4, <1>6 DEF BroadIInv, Serial
<1>8. ~overwritten' /\ ending' = "no" => Newest'
  BY <1>1, <1>3, <1>4, <1>6 DEF BroadIInv, Newest
<1>9. \A g \in Broad!Flushers : flight'[g].buffer = flight[g].buffer
  BY <1>3, <1>4
<1>10. Evidence'
  BY <1>1, <1>3, <1>4, <1>9 DEF BroadIInv, Evidence, Places, Seen, InHand, Broad!Flushers
<1> QED BY <1>5, <1>7, <1>8, <1>10 DEF BroadIInv

\* Its observations reach the ring.
LEMMA WriteRingKeeps ==
  ASSUME BroadIInv, NEW f \in Broad!Flushers, Broad!WriteRing(f) PROVE BroadIInv'
<1>1. /\ UNCHANGED <<observed, minute, buffer, stored, detected, scanner, snapshot, queued,
       uploaded,
                     active, ending, orphan, faults, overwritten>>
      /\ flight[f].phase = "ring"
      /\ ring' = ring \cup flight[f].buffer
      /\ flight' = [flight EXCEPT ![f].phase = "files", ![f].buffer = {}]
  BY DEF Broad!WriteRing, Broad!detection, Broad!process
<1> DEFINE new == [flight[f] EXCEPT !.phase = "files", !.buffer = {}]
<1>2. flight[f] \in Broad!Flights
  BY DEF BroadIInv, Broad!TypeOK
<1>3. /\ new \in Broad!Flights /\ flight' = [flight EXCEPT ![f] = new]
      /\ new.phase = "files" /\ new.minute = flight[f].minute /\ new.buffer = {}
      /\ new.attempt = flight[f].attempt
  BY <1>1, <1>2, StoreBounds DEF Broad!Flights
<1>4. /\ flight' \in [Broad!Flushers -> Broad!Flights] /\ flight'[f] = new
      /\ \A g \in Broad!Flushers \ {f} : flight'[g] = flight[g]
      /\ \A g \in Broad!Flushers : flight'[g].phase \in {"idle", "retry"} =>
                           flight'[g].minute = 0 /\ flight'[g].buffer = {}
  BY <1>3, OneFlight, Zenon DEF BroadIInv
<1>5. Broad!TypeOK'
  BY <1>1, <1>2, <1>4 DEF BroadIInv, Broad!TypeOK, Broad!Flights
<1>6. \A g \in Broad!Flushers \ {f} : flight[g].phase = "idle"
  BY <1>1 DEF BroadIInv, Serial
<1>7. Serial'
  BY <1>1, <1>3, <1>4, <1>6 DEF BroadIInv, Serial
<1>8. ~overwritten' /\ ending' = "no" => Newest'
  BY <1>1, <1>3, <1>4 DEF BroadIInv, Newest
<1>9. CASE f = "scanner"
  <2>1. flight'["scanner"] = new /\ flight'["loop"] = flight["loop"]
    BY <1>4, <1>9 DEF Broad!Flushers
  <2>2. Evidence'
    BY <1>1, <1>3, <1>9, <2>1 DEF BroadIInv, Evidence, Places, Seen, InHand
  <2> QED BY <1>5, <1>7, <1>8, <2>2 DEF BroadIInv
<1>10. CASE f = "loop"
  <2>1. flight'["loop"] = new /\ flight'["scanner"] = flight["scanner"]
    BY <1>4, <1>10 DEF Broad!Flushers
  <2>2. Evidence'
    BY <1>1, <1>3, <1>10, <2>1 DEF BroadIInv, Evidence, Places, Seen, InHand
  <2> QED BY <1>5, <1>7, <1>8, <2>2 DEF BroadIInv
<1> QED BY <1>9, <1>10 DEF Broad!Flushers

\* What has not been written goes back, or the detection of the flush is dropped.
LEMMA ObservationsGoBack ==
  ASSUME BroadIInv, NEW f \in Broad!Flushers, Broad!FlushFails(f) PROVE BroadIInv'
<1>1. /\ UNCHANGED <<observed, stored, ring, detected, snapshot, queued, uploaded, active, orphan>>
      /\ ending' \in {ending, Broad!AfterFlush}
      /\ flight[f].phase \in {"minute", "ring"}
      /\ faults < MaxDisturbances /\ faults' = faults + 1
      /\ minute' = IF flight[f].minute = 0 THEN minute ELSE flight[f].minute
      /\ overwritten' = (overwritten \/ (flight[f].minute # 0 /\ minute # 0))
      /\ buffer' = buffer \cup flight[f].buffer
  BY DEF Broad!FlushFails, Broad!Fault, Broad!KeptRows
<1>2. PICK new : /\ flight' = [flight EXCEPT ![f] = new]
                 /\ \/ /\ new = [Broad!NoFlight EXCEPT !.phase = "retry",
                        !.attempt = flight[f].attempt]
                       /\ flight[f].attempt < MaxAttempts /\ scanner' = scanner
                    \/ new = Broad!NoFlight /\ scanner' = Broad!Raised(f)
  BY DEF Broad!FlushFails
<1>3. flight[f] \in Broad!Flights
  BY DEF BroadIInv, Broad!TypeOK
<1>4. /\ new \in Broad!Flights /\ new.phase \in {"idle", "retry"} /\ new.minute = 0
       /\ new.buffer = {}
      /\ new.phase = "idle" => new.attempt = 0 /\ scanner' = Broad!Raised(f)
      /\ new.phase = "retry" => new.attempt < MaxAttempts /\ scanner' = scanner
  <2>1. 0 \in 0..MaxObservations /\ 0 \in 0..MaxAttempts
    BY StoreBounds
  <2>2. Broad!NoFlight = [phase |-> "idle", minute |-> 0, buffer |-> {}, attempt |-> 0]
    BY DEF Broad!NoFlight
  <2>3. flight[f].attempt \in 0..MaxAttempts
    BY <1>3 DEF Broad!Flights
  <2>4. CASE new = Broad!NoFlight /\ scanner' = Broad!Raised(f)
    BY <2>1, <2>2, <2>4 DEF Broad!Flights
  <2>5. CASE /\ new = [Broad!NoFlight EXCEPT !.phase = "retry", !.attempt = flight[f].attempt]
             /\ flight[f].attempt < MaxAttempts /\ scanner' = scanner
    <3>1. new = [phase |-> "retry", minute |-> 0, buffer |-> {}, attempt |-> flight[f].attempt]
      BY <2>2, <2>5
    <3>2. flight[f].attempt < MaxAttempts /\ scanner' = scanner
      BY <2>5
    <3> QED BY <2>1, <2>3, <3>1, <3>2 DEF Broad!Flights
  <2> QED BY <1>2, <2>4, <2>5
<1>5. /\ flight' \in [Broad!Flushers -> Broad!Flights] /\ flight'[f] = new
      /\ \A g \in Broad!Flushers \ {f} : flight'[g] = flight[g]
      /\ \A g \in Broad!Flushers : flight'[g].phase \in {"idle", "retry"} =>
                           flight'[g].minute = 0 /\ flight'[g].buffer = {}
  BY <1>2, <1>4, OneFlight, Zenon DEF BroadIInv
<1>6. \A g \in Broad!Flushers \ {f} : flight[g].phase = "idle" /\ flight[g].minute = 0
       /\ flight[g].buffer = {}
  BY <1>1 DEF BroadIInv, Serial, Broad!TypeOK
<1>7. Broad!TypeOK'
  <2>1. faults' \in 0..MaxDisturbances
    BY <1>1, CollectorAssumption DEF BroadIInv, Broad!TypeOK
  <2>2. minute' \in 0..MaxObservations /\ buffer' \subseteq Broad!Observations
    BY <1>1, <1>3 DEF BroadIInv, Broad!TypeOK, Broad!Flights
  <2>3. scanner' \in {"scanning", "flushing", "saving", "uploading", "activating", "done",
         "dropped", "cancelled"}
    BY <1>4 DEF BroadIInv, Broad!TypeOK, Broad!Raised, Broad!InThread
  <2>5. ending' \in {"no", "draining", "over"}
    BY <1>1 DEF BroadIInv, Broad!TypeOK, Broad!AfterFlush
  <2>4. overwritten' \in BOOLEAN
    BY <1>1 DEF BroadIInv, Broad!TypeOK
  <2> QED BY <1>1, <1>5, <2>1, <2>2, <2>3, <2>4, <2>5 DEF BroadIInv, Broad!TypeOK, Broad!InThread
<1>8. Serial'
  BY <1>4, <1>5, <1>6 DEF BroadIInv, Serial
<1>12. (ending' = "no") <=> (ending = "no")
  BY <1>1 DEF Broad!AfterFlush
<1>9. ~overwritten' /\ ending' = "no" => Newest'
  BY <1>1, <1>4, <1>5, <1>6, <1>12 DEF BroadIInv, Newest
<1>10. buffer' \cup flight'["loop"].buffer \cup flight'["scanner"].buffer =
       buffer \cup flight["loop"].buffer \cup flight["scanner"].buffer
  <2>1. CASE f = "loop"
    BY <1>1, <1>4, <1>5, <1>6, <2>1 DEF Broad!Flushers
  <2>2. CASE f = "scanner"
    BY <1>1, <1>4, <1>5, <1>6, <2>2 DEF Broad!Flushers
  <2> QED BY <2>1, <2>2 DEF Broad!Flushers
<1>11. Evidence'
  <2>1. CASE f = "scanner"
    <3>1. flight'["scanner"] = new /\ scanner = "flushing"
      BY <1>1, <1>5, <2>1 DEF BroadIInv, Evidence, Places
    <3>2. new.phase # "idle" => scanner' = "flushing"
      BY <1>4, <3>1
    <3>3. scanner' # "saving" /\ snapshot' = None
      BY <1>1, <1>4, <2>1, <3>1 DEF BroadIInv, Evidence, Places, Broad!Raised
    <3>4. ending' = "no"
      BY <1>12, <3>1 DEF BroadIInv, Evidence
    <3> QED BY <1>1, <1>4, <1>10, <1>12, <3>1, <3>2, <3>3, <3>4
         DEF BroadIInv, Evidence, Places, Seen, InHand
  <2>2. CASE f = "loop"
    <3>1. flight'["scanner"] = flight["scanner"] /\ scanner' = scanner
      BY <1>4, <1>5, <2>2 DEF Broad!Flushers, Broad!Raised
    <3> QED BY <1>1, <1>10, <1>12, <3>1 DEF BroadIInv, Evidence, Places, Seen, InHand
  <2> QED BY <2>1, <2>2 DEF Broad!Flushers
<1> QED BY <1>7, <1>8, <1>9, <1>11 DEF BroadIInv

\* A flush that is back has written all it took.
LEMMA FilesKeep ==
  ASSUME BroadIInv, NEW f \in Broad!Flushers, Broad!Upload(f) \/ Broad!UploadFails(f)
  PROVE  BroadIInv'
<1>1. /\ UNCHANGED <<observed, minute, buffer, stored, ring, detected, snapshot, active,
       overwritten, orphan>>
      /\ ending' = Broad!AfterFlush
      /\ flight[f].phase = "files" /\ flight' = [flight EXCEPT ![f] = Broad!NoFlight]
      /\ scanner' = Broad!Returned(f)
  BY DEF Broad!Upload, Broad!UploadFails, Broad!memory
<1>2. /\ Broad!NoFlight \in Broad!Flights /\ Broad!NoFlight.phase = "idle"
       /\ Broad!NoFlight.attempt = 0
      /\ Broad!NoFlight.minute = 0 /\ Broad!NoFlight.buffer = {}
  BY StoreBounds DEF Broad!NoFlight, Broad!Flights
<1>3. /\ flight' \in [Broad!Flushers -> Broad!Flights] /\ flight'[f] = Broad!NoFlight
      /\ \A g \in Broad!Flushers \ {f} : flight'[g] = flight[g]
      /\ \A g \in Broad!Flushers : flight'[g].phase \in {"idle", "retry"} =>
                           flight'[g].minute = 0 /\ flight'[g].buffer = {}
  BY <1>1, <1>2, OneFlight, Zenon DEF BroadIInv
<1>4. Broad!TypeOK'
  <2>1. faults' \in 0..MaxDisturbances
    BY CollectorAssumption DEF BroadIInv, Broad!TypeOK, Broad!Upload, Broad!UploadFails, Broad!Fault
  <2>2. queued' \in BOOLEAN /\ uploaded' \in BOOLEAN
    BY DEF BroadIInv, Broad!TypeOK, Broad!Upload, Broad!UploadFails
  <2>3. scanner' \in {"scanning", "flushing", "saving", "uploading", "activating", "done",
         "dropped", "cancelled"}
    BY <1>1 DEF BroadIInv, Broad!TypeOK, Broad!Returned, Broad!InThread
  <2>4. ending' \in {"no", "draining", "over"}
    BY <1>1 DEF BroadIInv, Broad!TypeOK, Broad!AfterFlush
  <2> QED BY <1>1, <1>3, <2>1, <2>2, <2>3, <2>4 DEF BroadIInv, Broad!TypeOK, Broad!InThread
<1>10. (ending' = "no") <=> (ending = "no")
  BY <1>1 DEF Broad!AfterFlush
<1>5. Serial'
  BY <1>2, <1>3 DEF BroadIInv, Serial
<1>6. flight[f].minute = 0 /\ flight[f].buffer = {}
  BY <1>1 DEF BroadIInv, Serial
<1>7. \A g \in Broad!Flushers : flight'[g].minute = flight[g].minute
       /\ flight'[g].buffer = flight[g].buffer
  BY <1>2, <1>3, <1>6
<1>8. ~overwritten' /\ ending' = "no" => Newest'
  BY <1>1, <1>7, <1>10 DEF BroadIInv, Newest
<1>9. Evidence'
  <2>1. CASE f = "scanner"
    <3>1. flight'["scanner"].phase = "idle" /\ scanner' = "saving" /\ scanner = "flushing"
           /\ Seen \subseteq ring
      BY <1>1, <1>2, <1>3, <2>1 DEF BroadIInv, Evidence, Places, Broad!Returned
    <3> QED BY <1>1, <1>7, <1>10, <3>1
         DEF BroadIInv, Evidence, Places, Seen, InHand, Broad!Flushers
  <2>2. CASE f = "loop"
    <3>1. flight'["scanner"] = flight["scanner"] /\ scanner' = scanner
      BY <1>1, <1>3, <2>2 DEF Broad!Flushers, Broad!Returned
    <3> QED BY <1>1, <1>7, <1>10, <3>1
         DEF BroadIInv, Evidence, Places, Seen, InHand, Broad!Flushers
  <2> QED BY <2>1, <2>2 DEF Broad!Flushers
<1> QED BY <1>4, <1>5, <1>8, <1>9 DEF BroadIInv

\* The scanner saves and uploads its snapshot and activates the target, or fails to
\* save.
LEMMA PreserveKeeps ==
  ASSUME BroadIInv, Broad!Preserve \/ Broad!SaveFails \/ UNCHANGED broad
  PROVE  BroadIInv'
<1>1. UNCHANGED <<observed, minute, buffer, stored, ring, overwritten, flight, detected, ending,
                  orphan>>
  BY DEF Broad!Preserve, Broad!Save, Broad!UploadSaved, Broad!Activate, Broad!SaveFails,
         Broad!memory, Broad!process, broad
<1>2. Serial' /\ (~overwritten' /\ ending' = "no" => Newest')
  BY <1>1 DEF BroadIInv, Serial, Newest
<1>3. Broad!TypeOK'
  <2>1. faults' \in 0..MaxDisturbances
    BY CollectorAssumption
           DEF BroadIInv, Broad!TypeOK, Broad!Preserve, Broad!Save, Broad!UploadSaved,
       Broad!Activate, Broad!SaveFails, Broad!Fault, broad
  <2>2. /\ queued' \in BOOLEAN /\ uploaded' \in BOOLEAN /\ active' \in BOOLEAN
    BY DEF BroadIInv, Broad!TypeOK, Broad!Preserve, Broad!Save, Broad!UploadSaved,
       Broad!Activate, Broad!SaveFails, broad
  <2>3. scanner' \in {"scanning", "flushing", "saving", "uploading", "activating", "done",
         "dropped", "cancelled"}
    BY DEF BroadIInv, Broad!TypeOK, Broad!Preserve, Broad!Save, Broad!UploadSaved,
       Broad!Activate, Broad!SaveFails, Broad!AfterSave, Broad!InThread, broad
  <2>4. snapshot' \in (SUBSET Broad!Observations) \cup {None}
    BY DEF BroadIInv, Broad!TypeOK, Broad!Preserve, Broad!Save, Broad!UploadSaved,
       Broad!Activate, Broad!SaveFails, broad
  <2> QED BY <1>1, <2>1, <2>2, <2>3, <2>4 DEF BroadIInv, Broad!TypeOK, Broad!InThread
<1>4. Evidence'
  <2>1. CASE Broad!Save
    <3>1. scanner = "saving" /\ snapshot' = {o \in ring : o <= detected} /\ scanner' = "uploading"
      BY <2>1 DEF Broad!Save
    <3>2. Seen \subseteq snapshot' /\ Seen' = Seen
      BY <1>1, <3>1 DEF BroadIInv, Evidence, Places, Seen, Broad!TypeOK
    <3>3. flight'["scanner"].phase = "idle"
      BY <1>1, <3>1 DEF BroadIInv, Evidence, Places, Broad!TypeOK, Broad!Flights, Broad!Flushers
    <3> QED BY <1>1, <3>1, <3>2, <3>3 DEF BroadIInv, Evidence, Places, InHand
  <2>2. CASE Broad!UploadSaved \/ Broad!Activate \/ Broad!SaveFails
    <3>1. /\ snapshot' = snapshot /\ scanner \in {"saving", "uploading", "activating"}
          /\ scanner' \in {"activating", "done", "dropped", "cancelled"}
      BY <2>2 DEF Broad!UploadSaved, Broad!Activate, Broad!SaveFails, Broad!AfterSave
    <3>2. flight'["scanner"].phase = "idle"
      BY <1>1, <3>1 DEF BroadIInv, Evidence, Places
    <3> QED BY <1>1, <3>1, <3>2 DEF BroadIInv, Evidence, Places, InHand, Seen
  <2>3. CASE UNCHANGED broad
    BY <2>3 DEF broad, BroadIInv, Evidence, Places, InHand, Seen
  <2> QED BY <2>1, <2>2, <2>3 DEF Broad!Preserve
<1> QED BY <1>2, <1>3, <1>4 DEF BroadIInv

\* A process that ends stops reading and flushing for the scanner; what it has stored and
\* saved stays.
LEMMA EndKeeps ==
  ASSUME BroadIInv,
         Broad!Shutdown \/ Broad!OrphanEnds \/ Broad!EndUnflushed \/ Broad!Crash
  PROVE  BroadIInv'
<1>1. /\ UNCHANGED <<observed, overwritten, detected, snapshot, active>>
      /\ ring \subseteq ring'
      /\ \/ scanner' = scanner /\ flight' = flight
         \/ /\ scanner' \in {scanner, "cancelled"} /\ scanner' # "flushing"
            /\ flight' = [f \in Broad!Flushers |-> Broad!NoFlight]
      /\ ending' # "no"
  BY DEF Broad!Shutdown, Broad!OrphanEnds, Broad!EndUnflushed, Broad!Crash, Broad!memory,
         Broad!detection, Broad!InThread, BroadIInv, Evidence
<1>2. orphan \in Broad!Flights /\ flight \in [Broad!Flushers -> Broad!Flights]
      /\ Broad!NoFlight \in Broad!Flights /\ Broad!NoFlight.phase = "idle"
      /\ Broad!NoFlight.minute = 0 /\ Broad!NoFlight.buffer = {} /\ Broad!NoFlight.attempt = 0
  BY StoreBounds DEF BroadIInv, Broad!TypeOK, Broad!NoFlight, Broad!Flights
<1>3. \A f \in Broad!Flushers : Broad!InHands(f) \in Broad!Flights
  BY <1>2, StoreBounds DEF Broad!InHands, Broad!Flights
<1>4. orphan' \in Broad!Flights
  BY <1>2, <1>3 DEF Broad!Shutdown, Broad!OrphanEnds, Broad!EndUnflushed, Broad!Crash,
                    Broad!Flushers
<1>5. /\ minute' \in 0..MaxObservations /\ stored' \in 0..MaxObservations
      /\ buffer' \subseteq Broad!Observations /\ ring' \subseteq Broad!Observations
      /\ faults' \in 0..MaxDisturbances
  <2>1. orphan.minute \in 0..MaxObservations /\ orphan.buffer \subseteq Broad!Observations
    BY <1>2 DEF Broad!Flights
  <2> QED BY <2>1, StoreBounds, CollectorAssumption
       DEF Broad!Shutdown, Broad!OrphanEnds, Broad!EndUnflushed, Broad!Crash, Broad!Fault,
           Broad!memory, BroadIInv, Broad!TypeOK
<1>6. {queued', uploaded'} \subseteq BOOLEAN /\ ending' \in {"no", "draining", "over"}
  BY DEF Broad!Shutdown, Broad!OrphanEnds, Broad!EndUnflushed, Broad!Crash, Broad!detection,
         BroadIInv, Broad!TypeOK
<1>7. /\ flight' \in [Broad!Flushers -> Broad!Flights]
      /\ \A f \in Broad!Flushers : flight'[f].phase \in {"idle", "retry"} =>
                                   flight'[f].minute = 0 /\ flight'[f].buffer = {}
  BY <1>1, <1>2 DEF BroadIInv, Broad!TypeOK
<1>8. Broad!TypeOK'
  BY <1>1, <1>4, <1>5, <1>6, <1>7 DEF BroadIInv, Broad!TypeOK, Broad!InThread
<1>9. Serial'
  BY <1>1, <1>2 DEF BroadIInv, Serial
<1>10. Evidence'
  <2>1. scanner' # "flushing"
    BY <1>1 DEF Broad!Shutdown, Broad!OrphanEnds, Broad!EndUnflushed, Broad!Crash, BroadIInv,
                Evidence
  <2>2. flight'["scanner"].phase = "idle"
    BY <1>1, <1>2, <2>1 DEF BroadIInv, Evidence, Broad!Flushers
  <2> QED BY <1>1, <2>1, <2>2 DEF BroadIInv, Evidence, Seen, InHand
<1> QED BY <1>1, <1>8, <1>9, <1>10 DEF BroadIInv

\* Every step of the broad store keeps its invariant.
LEMMA BroadStep == ASSUME BroadIInv, [Broad!Next]_broad PROVE BroadIInv'
<1>1. ASSUME NEW f \in Broad!Flushers, Broad!Work(f) \/ Broad!FlushFails(f) \/ Broad!UploadFails(f)
      PROVE  BroadIInv'
  BY <1>1, TakeKeeps, WriteMinuteKeeps, WriteRingKeeps, ObservationsGoBack, FilesKeep DEF Broad!Work
<1> QED BY <1>1, ObserveKeeps, PreserveKeeps, EndKeeps DEF Broad!Next

\* The invariant says what is checked of the broad store.
LEMMA BroadShows == BroadIInv => Broad!SnapshotWhole /\ Broad!NewestObservationStored
BY DEF BroadIInv, Evidence, Places, Newest, Seen, Broad!SnapshotWhole, Broad!NewestObservationStored
(***************************************************************************)
(* Order books                                                             *)
(***************************************************************************)
LEMMA FirstAndRest ==
  ASSUME NEW S, NEW s \in Seq(S), s # <<>>
  PROVE  /\ Len(s) \in Nat /\ Len(s) >= 1 /\ Head(s) \in S /\ Head(s) = s[1]
         /\ Tail(s) \in Seq(S) /\ Len(Tail(s)) = Len(s) - 1
         /\ \A i \in 1..Len(Tail(s)) : Tail(s)[i] = s[i + 1]
OBVIOUS

\* Counting is the same in a module that is instantiated.
LEMMA BooksCount == \A S : Books!Cardinality(S) = Cardinality(S)
BY Zenon DEF Books!Cardinality, Cardinality

\* Sets of prices are finite, and their members numbers.
LEMMA SomePrices ==
  ASSUME NEW S \in SUBSET Prices
  PROVE  IsFiniteSet(S) /\ Cardinality(S) \in Nat /\ \A p \in S : p \in Nat
BY StoreBounds, FS_Subset, FS_CardinalityType

Before(s, p, S) == {q \in S : Books!Better(s, q, p)}

\* How many prices of a set are better than one is a count of those before it.
LEMMA AheadIs ==
  ASSUME NEW s, NEW p, NEW S \in SUBSET Prices
  PROVE  /\ Books!Ahead(s, p, S) = Cardinality(Before(s, p, S))
         /\ Books!Ahead(s, p, S) \in Nat
<1>1. Before(s, p, S) \in SUBSET Prices
  BY DEF Before
<1>2. Books!Ahead(s, p, S) = Cardinality(Before(s, p, S))
  BY BooksCount DEF Books!Ahead, Before
<1> QED BY <1>1, <1>2, SomePrices

\* Of fewer levels fewer are ahead.
LEMMA FewerAhead ==
  ASSUME NEW s, NEW p, NEW q, NEW S \in SUBSET Prices, NEW T \in SUBSET Prices,
         Before(s, p, S) \subseteq Before(s, q, T)
  PROVE  Books!Ahead(s, p, S) <= Books!Ahead(s, q, T)
<1>1. Before(s, q, T) \in SUBSET Prices
  BY DEF Before
<1>2. IsFiniteSet(Before(s, q, T))
  BY <1>1, SomePrices
<1> QED BY <1>2, AheadIs, FS_Subset

\* A level is ahead of another if fewer are ahead of it.
LEMMA BetterIsAhead ==
  ASSUME NEW s, NEW S \in SUBSET Prices, NEW p \in S, NEW q \in S, Books!Better(s, q, p)
  PROVE  Books!Ahead(s, q, S) < Books!Ahead(s, p, S)
<1>1. \A r \in S : r \in Nat
  BY SomePrices
<1>2. Before(s, q, S) \subseteq Before(s, p, S) /\ q \in Before(s, p, S) /\ q \notin Before(s, q, S)
  BY <1>1 DEF Before, Books!Better
<1>3. Before(s, p, S) \in SUBSET Prices
  BY DEF Before
<1>4. IsFiniteSet(Before(s, p, S)) /\ IsFiniteSet(Before(s, q, S))
  BY <1>2, <1>3, SomePrices
<1>5. Cardinality(Before(s, q, S)) < Cardinality(Before(s, p, S))
  <2>1. Before(s, q, S) # Before(s, p, S)
    BY <1>2
  <2> QED BY <1>2, <1>4, <2>1, FS_Subset, FS_CardinalityType
<1> QED BY <1>5, AheadIs

\* The best levels of a book are the best of any part of it that has them all.
LEMMA BestOfPart ==
  ASSUME NEW s \in Books!Sides, NEW S \in SUBSET Prices, NEW part \in SUBSET S, NEW n \in Nat,
         Books!Best(s, n, S) \subseteq part
  PROVE  Books!Best(s, n, part) = Books!Best(s, n, S)
<1> DEFINE best == Books!Best(s, n, S)
           rest == S \ best
           A(p) == Books!Ahead(s, p, S)
<1>0. part \in SUBSET Prices /\ \A p \in S : p \in Nat /\ A(p) \in Nat
  BY SomePrices, AheadIs
<1>1. \A p \in rest : A(p) >= n
  BY <1>0 DEF Books!Best
<1>2. ASSUME NEW p \in best PROVE p \in Books!Best(s, n, part)
  <2>1. p \in S /\ p \in part /\ A(p) < n
    BY DEF Books!Best
  <2>2. Before(s, p, part) \subseteq Before(s, p, S)
    BY DEF Before
  <2>3. Books!Ahead(s, p, part) <= A(p) /\ Books!Ahead(s, p, part) \in Nat
    BY <1>0, <2>2, FewerAhead, AheadIs
  <2> QED BY <1>0, <2>1, <2>3 DEF Books!Best
<1>3. ASSUME NEW r \in rest PROVE r \notin Books!Best(s, n, part)
  <2> DEFINE counts == {A(p) : p \in rest}
  <2>1. counts \subseteq Nat /\ counts # {}
    BY <1>0, <1>3
  <2>2. PICK least \in counts : \A m \in counts : ~(<<m, least>> \in OpToRel(<, Nat))
    BY <2>1, NatLessThanWellFounded, WFMin, Zenon
  <2>3. PICK p \in rest : A(p) = least
    OBVIOUS
  <2>4. \A q \in rest : A(p) <= A(q)
    <3> SUFFICES ASSUME NEW q \in rest PROVE A(p) <= A(q)
      OBVIOUS
    <3>1. A(q) \in counts /\ A(q) \in Nat /\ A(p) \in Nat
      BY <1>0
    <3>2. ~(<<A(q), least>> \in OpToRel(<, Nat))
      BY <2>2, <3>1
    <3>3. ~(A(q) < least)
      BY <2>3, <3>1, <3>2 DEF OpToRel
    <3> QED BY <2>3, <3>1, <3>3
  <2>5. Before(s, p, S) \subseteq best
    <3>1. ASSUME NEW q \in S, Books!Better(s, q, p) PROVE q \in best
      BY <1>0, <2>4, <3>1, BetterIsAhead
    <3> QED BY <3>1 DEF Before
  <2>6. Before(s, p, S) \subseteq Before(s, p, part)
    BY <2>5 DEF Before
  <2>7. ~Books!Better(s, r, p)
    BY <1>0, <2>4, BetterIsAhead
  <2>8. \A q \in S : Books!Better(s, q, p) => Books!Better(s, q, r)
    BY <1>0, <2>7 DEF Books!Better
  <2>9. Before(s, p, S) \subseteq Before(s, r, part)
    BY <2>6, <2>8 DEF Before
  <2>10. n <= Books!Ahead(s, r, part)
    <3>1. A(p) <= Books!Ahead(s, r, part) /\ Books!Ahead(s, r, part) \in Nat
      BY <1>0, <2>9, FewerAhead, AheadIs
    <3> QED BY <1>0, <1>1, <3>1
  <2> QED BY <1>0, <2>10, AheadIs DEF Books!Best
<1>4. Books!Best(s, n, part) \subseteq S /\ Books!Best(s, n, S) \subseteq S
  BY DEF Books!Best
<1> QED BY <1>2, <1>3, <1>4
-----------------------------------------------------------------------------
\* A copy has nothing that the venue does not have, and all of it where it is complete.
Follows(side, levels) == side.levels \subseteq levels
       /\ levels \cap side.known \subseteq side.levels
BookFollows(b, levels) == \A s \in Books!Sides : Follows(b[s], levels[s])

VenueBooks == [Books!Sides -> SUBSET Prices]
AnyChange == [side : Books!Sides, price : Prices, there : BOOLEAN]
OneOrTwo == {<<c>> : c \in AnyChange} \cup {<<c, d>> : c \in AnyChange, d \in AnyChange}
SideBook == [levels : SUBSET Prices, known : SUBSET Prices]

\* A side that is trimmed still follows the venue.
LEMMA TrimFollows ==
  ASSUME NEW s \in Books!Sides, NEW side \in SideBook, NEW levels, Follows(side, levels)
  PROVE  Books!Trimmed(s, side) \in SideBook /\ Follows(Books!Trimmed(s, side), levels)
<1>1. CASE Books!Cardinality(side.levels) > 3 * Depth
  <2> DEFINE new == [levels |-> Books!Best(s, 2 * Depth, side.levels),
        known  |-> {p \in side.known : Books!Ahead(s, p, side.levels) < 2 * Depth}]
  <2>1. Books!Trimmed(s, side) = new
    BY <1>1 DEF Books!Trimmed
  <2>2. /\ new.levels = {p \in side.levels : Books!Ahead(s, p, side.levels) < 2 * Depth}
        /\ new.known = {p \in side.known : Books!Ahead(s, p, side.levels) < 2 * Depth}
    BY DEF Books!Best
  <2>3. new \in SideBook
    BY <2>2 DEF SideBook
  <2>4. Follows(new, levels)
    BY <2>2 DEF Follows
  <2> QED BY <2>1, <2>3, <2>4
<1>2. CASE ~(Books!Cardinality(side.levels) > 3 * Depth)
  BY <1>2 DEF Books!Trimmed
<1> QED BY <1>1, <1>2

\* What one change does to the levels of a venue.
LEMMA ChangedTyped ==
  ASSUME NEW levels \in VenueBooks, NEW change \in AnyChange
  PROVE  /\ Books!Changed(levels, change) \in VenueBooks
         /\ Books!Changed(levels, change)[change.side] =
              IF change.there THEN levels[change.side] \cup {change.price}
                              ELSE levels[change.side] \ {change.price}
         /\ \A s \in Books!Sides \ {change.side} : Books!Changed(levels, change)[s] = levels[s]
BY DEF Books!Changed, VenueBooks, AnyChange

\* A copy that is told a change follows the changed venue.
LEMMA UpdateFollows ==
  ASSUME NEW b \in Books!SideBooks, NEW levels \in VenueBooks, NEW change \in AnyChange,
         BookFollows(b, levels)
  PROVE  /\ Books!Update(b, change) \in Books!SideBooks
         /\ BookFollows(Books!Update(b, change), Books!Changed(levels, change))
<1> DEFINE c == change.side
           new == IF change.there THEN b[c].levels \cup {change.price} ELSE b[c].levels \ {change.price}
           side == [b[c] EXCEPT !.levels = new]
           venue2 == Books!Changed(levels, change)
<1>1. c \in Books!Sides /\ b[c] \in SideBook /\ change.price \in Prices
  BY DEF AnyChange, Books!SideBooks, SideBook
<1>2. side \in SideBook /\ side.levels = new /\ side.known = b[c].known
  BY <1>1 DEF SideBook
<1>3. Follows(side, venue2[c])
  <2>1. Follows(b[c], levels[c])
    BY <1>1 DEF BookFollows
  <2>2. venue2[c] = IF change.there THEN levels[c] \cup {change.price} ELSE levels[c] \ {change.price}
    BY ChangedTyped
  <2> HIDE DEF venue2, side, c
  <2> QED BY <1>2, <2>1, <2>2 DEF Follows
<1>4. Books!Trimmed(c, side) \in SideBook /\ Follows(Books!Trimmed(c, side), venue2[c])
  BY <1>1, <1>2, <1>3, TrimFollows
<1>5. Books!Update(b, change) = [b EXCEPT ![c] = Books!Trimmed(c, side)]
  BY DEF Books!Update
<1>6. \A s \in Books!Sides \ {c} : venue2[s] = levels[s]
  BY ChangedTyped
<1> HIDE DEF side, venue2, c
<1>7. Books!Update(b, change) \in Books!SideBooks
  BY <1>1, <1>4, <1>5 DEF Books!SideBooks, SideBook
<1>8. BookFollows(Books!Update(b, change), venue2)
  BY <1>1, <1>4, <1>5, <1>6 DEF BookFollows, Books!SideBooks
<1> QED BY <1>7, <1>8 DEF venue2

\* The levels of a venue after one or two changes are levels.
LEMMA AfterTyped ==
  ASSUME NEW levels \in VenueBooks, NEW changes \in OneOrTwo
  PROVE  Books!After(levels, changes) \in VenueBooks
<1>1. CASE \E c \in AnyChange : changes = <<c>>
  <2>1. PICK c \in AnyChange : changes = <<c>>
    BY <1>1
  <2>2. Books!After(levels, changes) = Books!Changed(levels, c)
    BY <2>1 DEF Books!After
  <2>3. Books!Changed(levels, c) \in VenueBooks
    BY ChangedTyped
  <2> QED BY <2>2, <2>3
<1>2. CASE \E c, d \in AnyChange : changes = <<c, d>>
  <2>1. PICK c \in AnyChange, d \in AnyChange : changes = <<c, d>>
    BY <1>2
  <2>2. Books!After(levels, changes) = Books!Changed(Books!Changed(levels, c), d)
    BY <2>1 DEF Books!After
  <2>3. Books!Changed(levels, c) \in VenueBooks
    BY ChangedTyped
  <2>4. Books!Changed(Books!Changed(levels, c), d) \in VenueBooks
    BY <2>3, ChangedTyped
  <2> QED BY <2>2, <2>4
<1> QED BY <1>1, <1>2 DEF OneOrTwo

\* A copy that is told one or two changes follows the venue after them.
LEMMA UpdatesFollow ==
  ASSUME NEW b \in Books!SideBooks, NEW levels \in VenueBooks, NEW changes \in OneOrTwo,
         BookFollows(b, levels)
  PROVE  /\ Books!Updates(b, changes) \in Books!SideBooks
         /\ BookFollows(Books!Updates(b, changes), Books!After(levels, changes))
<1>1. CASE \E c \in AnyChange : changes = <<c>>
  BY <1>1, UpdateFollows DEF Books!After, Books!Updates
<1>2. CASE \E c, d \in AnyChange : changes = <<c, d>>
  <2>1. PICK c \in AnyChange, d \in AnyChange : changes = <<c, d>>
    BY <1>2
  <2>2. /\ Books!Update(b, c) \in Books!SideBooks
        /\ BookFollows(Books!Update(b, c), Books!Changed(levels, c))
        /\ Books!Changed(levels, c) \in VenueBooks
    BY UpdateFollows, ChangedTyped
  <2>3. /\ Books!Updates(b, changes) = Books!Update(Books!Update(b, c), d)
        /\ Books!After(levels, changes) = Books!Changed(Books!Changed(levels, c), d)
    BY <2>1 DEF Books!After, Books!Updates
  <2> QED BY <2>2, <2>3, UpdateFollows
<1> QED BY <1>1, <1>2 DEF OneOrTwo

\* Changes of different sides may be swapped.
LEMMA SortedSame ==
  ASSUME NEW levels \in VenueBooks, NEW changes \in OneOrTwo
  PROVE  /\ Books!Sorted(changes) \in OneOrTwo
         /\ Books!After(levels, Books!Sorted(changes)) = Books!After(levels, changes)
<1>1. CASE Books!Sorted(changes) = changes
  BY <1>1
<1>2. CASE Books!Sorted(changes) # changes
  <2>1. PICK c \in AnyChange, d \in AnyChange :
          changes = <<c, d>> /\ c.side = "ask" /\ d.side = "bid" /\ Books!Sorted(changes) = <<d, c>>
    BY <1>2 DEF Books!Sorted, OneOrTwo
  <2>2. Books!Sorted(changes) \in OneOrTwo
    BY <2>1 DEF OneOrTwo
  <2>3. /\ Books!After(levels, changes) = Books!Changed(Books!Changed(levels, c), d)
        /\ Books!After(levels, Books!Sorted(changes)) = Books!Changed(Books!Changed(levels, d), c)
    BY <2>1 DEF Books!After
  <2>4. Books!Changed(Books!Changed(levels, c), d) = Books!Changed(Books!Changed(levels, d), c)
    BY <2>1 DEF Books!Changed, VenueBooks
  <2> QED BY <2>2, <2>3, <2>4
<1> QED BY <1>1, <1>2

\* A message that shows the book shows it as it is.
LEMMA BookFollowsVenue ==
  ASSUME NEW levels \in VenueBooks
  PROVE  Books!Book(levels) \in Books!SideBooks /\ BookFollows(Books!Book(levels), levels)
BY DEF Books!Book, VenueBooks, Books!SideBooks, BookFollows, Follows, Books!Best

\* A copy whose sides are trimmed follows what it followed.
LEMMA SnapshotFollows ==
  ASSUME NEW b \in Books!SideBooks, NEW levels \in VenueBooks, BookFollows(b, levels)
  PROVE  Books!Snapshot(b) \in Books!SideBooks /\ BookFollows(Books!Snapshot(b), levels)
<1>1. \A s \in Books!Sides : /\ Books!Trimmed(s, b[s]) \in SideBook
                            /\ Follows(Books!Trimmed(s, b[s]), levels[s])
  BY TrimFollows DEF BookFollows, Books!SideBooks, SideBook
<1> QED BY <1>1 DEF Books!Snapshot, Books!SideBooks, SideBook, BookFollows
-----------------------------------------------------------------------------
Uncrossed(levels) == \A b \in levels["bid"], a \in levels["ask"] : b < a
Message == [whole : BOOLEAN, book : Books!SideBooks, changes : OneOrTwo \cup {<<>>}]

\* A message that takes the venue's book from one state to the next.
Tells(message, old, new) ==
  IF message.whole THEN message.book = Books!Book(new)
  ELSE kind # "partial" /\ message.changes \in OneOrTwo /\ new = Books!After(old, message.changes)

Unsettled == feed # <<>> /\ feed[1].whole

\* The venue's book went through these states, one for each message on its way, and the
\* copy follows the first of them, or the next message replaces it.
History(v) ==
  /\ v[Len(feed)] = venue
  /\ \A i \in 0..Len(feed) : Uncrossed(v[i])
  /\ \A i \in 1..Len(feed) : Tells(feed[i], v[i - 1], v[i])
  /\ Unsettled \/ BookFollows(book, v[0])

BooksTyped ==
  /\ kind \in {"partial", "listed", "sorted"}
  /\ venue \in VenueBooks /\ shown \in VenueBooks /\ book \in Books!SideBooks
  /\ connected \in BOOLEAN /\ awaiting \in BOOLEAN
  /\ feed \in Seq(Message) /\ Len(feed) <= MaxInFlight

\* The inductive invariant.
BooksIInv ==
  /\ BooksTyped
  /\ Uncrossed(venue) /\ Books!NeverCrossed
  /\ ~connected => feed = <<>> /\ ~awaiting
  /\ connected => \E v \in [0..Len(feed) -> VenueBooks] : History(v)
  /\ connected /\ ~awaiting => Unsettled \/ shown = Books!Metrics(Books!Levels(book))

\* A copy that follows a venue is not crossed when the venue is not.
LEMMA CopyNotCrossed ==
  ASSUME NEW b \in Books!SideBooks, NEW levels \in VenueBooks, BookFollows(b, levels),
         Uncrossed(levels)
  PROVE  ~Books!Crossed(Books!Levels(b))
<1>1. b["bid"].levels \subseteq levels["bid"] /\ b["ask"].levels \subseteq levels["ask"]
  BY DEF BookFollows, Follows, Books!Sides
<1>2. Books!Levels(b)["bid"] = b["bid"].levels /\ Books!Levels(b)["ask"] = b["ask"].levels
  BY DEF Books!Levels, Books!Sides
<1>3. levels["bid"] \subseteq Nat /\ levels["ask"] \subseteq Nat
  BY StoreBounds DEF VenueBooks, Books!Sides
<1> QED BY <1>1, <1>2, <1>3 DEF Uncrossed, Books!Crossed

\* The invariant of the order books holds at the start.
LEMMA BooksInit == Books!Init => BooksIInv
<1> SUFFICES ASSUME Books!Init PROVE BooksIInv
  OBVIOUS
<1>1. Books!Empty \in VenueBooks /\ Books!Nothing \in Books!SideBooks
  BY DEF Books!Empty, Books!Nothing, VenueBooks, Books!SideBooks
<1>2. BooksTyped
  <2>1. feed = <<>>
    BY DEF Books!Init
  <2>2. feed \in Seq(Message) /\ Len(feed) <= MaxInFlight
    BY <2>1, StoreBounds
  <2> QED BY <1>1, <2>2 DEF Books!Init, BooksTyped
<1>3. Uncrossed(venue) /\ Books!NeverCrossed
  BY DEF Books!Init, Uncrossed, Books!NeverCrossed, Books!Empty, Books!Nothing, Books!Levels,
         Books!Crossed, Books!Sides
<1> QED BY <1>2, <1>3 DEF Books!Init, BooksIInv

\* What is shown of a book is a book.
LEMMA MetricsTyped == ASSUME NEW levels \in VenueBooks PROVE Books!Metrics(levels) \in VenueBooks
BY DEF Books!Metrics, VenueBooks, Books!Best, Books!Empty

\* The message with a whole book is a message.
LEMMA WholeTyped ==
  ASSUME NEW levels \in VenueBooks
  PROVE  /\ Books!Whole(levels) \in Message
         /\ Books!Whole(levels).whole /\ Books!Whole(levels).book = Books!Book(levels)
BY BookFollowsVenue DEF Books!Whole, Message

\* What a venue tells of a change is a message, and whole for the kind that sends parts.
LEMMA MessageTyped ==
  ASSUME BooksTyped, NEW levels \in VenueBooks, NEW changes \in OneOrTwo
  PROVE  /\ Books!Whole(levels) \in Message /\ Books!Told(changes, levels) \in Message
         /\ kind = "partial" => Books!Told(changes, levels) = Books!Whole(levels)
         /\ kind # "partial" => /\ ~Books!Told(changes, levels).whole
                                /\ Books!Told(changes, levels).changes = changes
<1>1. Books!Nothing \in Books!SideBooks
  BY DEF Books!Nothing, Books!SideBooks
<1>2. Books!Whole(levels) \in Message
  BY WholeTyped
<1>3. Books!Told(changes, levels) \in Message
  BY <1>1, <1>2 DEF Books!Told, Message
<1> QED BY <1>2, <1>3 DEF Books!Whole, Books!Told

\* Every change of the venue's book is told, in order.
LEMMA VenueMoves == ASSUME BooksIInv, Books!Move PROVE BooksIInv'
<1>0. BooksTyped
  BY DEF BooksIInv
<1>1. PICK changes \in OneOrTwo :
        /\ Uncrossed(Books!After(venue, changes))
        /\ venue' = Books!After(venue, changes)
        /\ feed' = IF connected THEN Append(feed, Books!Told(changes, venue')) ELSE feed
        /\ connected => Len(feed) < MaxInFlight
  <2>1. Books!Batches \subseteq OneOrTwo
    BY DEF Books!Batches, Books!Changes, OneOrTwo, AnyChange
  <2> QED BY <2>1 DEF Books!Move, Uncrossed
<1>2. UNCHANGED <<kind, connected, book, awaiting, shown>>
  BY DEF Books!Move
<1>3. venue' \in VenueBooks
  BY <1>0, <1>1, AfterTyped DEF BooksTyped
<1>4. PICK m \in Message : m = Books!Told(changes, venue') /\ Tells(m, venue, venue')
  <2> DEFINE m == Books!Told(changes, venue')
  <2>1. m \in Message
    BY <1>0, <1>3, MessageTyped
  <2>2. CASE kind = "partial"
    BY <1>0, <1>3, <2>2, WholeTyped, MessageTyped DEF Tells
  <2>3. CASE kind # "partial"
    <3>1. ~m.whole /\ m.changes = changes
      BY <1>0, <1>3, <2>3, MessageTyped
    <3> HIDE DEF m
    <3>2. Tells(m, venue, venue')
      BY <1>1, <2>3, <3>1 DEF Tells
    <3> QED BY <2>1, <3>2 DEF m
  <2> QED BY <2>1, <2>2, <2>3
<1>5. feed \in Seq(Message) /\ Len(feed) \in Nat
  <2>1. feed \in Seq(Message)
    BY <1>0 DEF BooksTyped
  <2> QED BY <2>1
<1>6. feed' \in Seq(Message) /\ Len(feed') <= MaxInFlight
  <2>1. Len(feed) <= MaxInFlight /\ (connected => Len(feed) + 1 <= MaxInFlight)
    <3>1. MaxInFlight \in Nat
      BY StoreBounds
    <3>2. Len(feed) <= MaxInFlight
      BY <1>0 DEF BooksTyped
    <3> QED BY <1>1, <1>5, <3>1, <3>2
  <2>2. feed' = IF connected THEN Append(feed, m) ELSE feed
    BY <1>1, <1>4
  <2> QED BY <1>5, <2>1, <2>2
<1>7. BooksTyped'
  BY <1>0, <1>2, <1>3, <1>6 DEF BooksTyped, Message
<1>8. CASE ~connected
  <2>1. feed' = <<>> /\ ~awaiting'
    BY <1>1, <1>2, <1>8 DEF BooksIInv
  <2> QED BY <1>1, <1>2, <1>7, <1>8, <2>1 DEF BooksIInv, Books!NeverCrossed, Uncrossed
<1>9. CASE connected
  <2>1. /\ feed' = Append(feed, m) /\ Len(feed') = Len(feed) + 1 /\ feed'[Len(feed) + 1] = m
        /\ \A i \in 1..Len(feed) : feed'[i] = feed[i]
    BY <1>1, <1>4, <1>5, <1>9
  <2>2. PICK v \in [0..Len(feed) -> VenueBooks] : History(v)
    BY <1>9 DEF BooksIInv
  <2>3. PICK w \in [0..Len(feed') -> VenueBooks] :
          w[Len(feed')] = venue' /\ \A i \in 0..Len(feed) : w[i] = v[i]
    <3> DEFINE w == [i \in 0..Len(feed') |-> IF i <= Len(feed) THEN v[i] ELSE venue']
    <3>1. w \in [0..Len(feed') -> VenueBooks]
      BY <1>3, <1>5, <2>1
    <3>2. w[Len(feed')] = venue' /\ \A i \in 0..Len(feed) : w[i] = v[i]
      BY <1>5, <2>1
    <3> QED BY <3>1, <3>2
  <2>4. Unsettled => Unsettled'
    BY <1>5, <2>1 DEF Unsettled
  <2>5. \A i \in 0..Len(feed') : Uncrossed(w[i])
    BY <1>1, <1>5, <2>1, <2>2, <2>3 DEF History
  <2>6. ASSUME NEW i \in 1..Len(feed') PROVE Tells(feed[i], w[i - 1], w[i])'
    <3>1. Tells(feed'[i], w[i - 1], w[i])
      <4>1. CASE i \in 1..Len(feed)
        BY <1>5, <2>1, <2>2, <2>3, <4>1 DEF History
      <4>2. CASE i = Len(feed) + 1
        BY <1>4, <1>5, <2>1, <2>2, <2>3, <4>2 DEF History
      <4> QED BY <1>5, <2>1, <4>1, <4>2
    <3> QED BY <1>2, <3>1 DEF Tells, Books!Book
  <2>7. History(w)'
    <3>1. Unsettled' \/ BookFollows(book', w[0])
      BY <1>2, <1>5, <2>2, <2>3, <2>4 DEF History
    <3> QED BY <2>3, <2>5, <2>6, <3>1 DEF History, Uncrossed, BookFollows, Follows
  <2>8. (~awaiting => Unsettled \/ shown = Books!Metrics(Books!Levels(book)))'
    <3>1. ~awaiting => Unsettled \/ shown = Books!Metrics(Books!Levels(book))
      BY <1>9 DEF BooksIInv
    <3> QED BY <1>2, <2>4, <3>1 DEF Books!Metrics, Books!Levels
  <2>9. Uncrossed(venue)' /\ Books!NeverCrossed'
    BY <1>1, <1>2 DEF BooksIInv, Uncrossed, Books!NeverCrossed
  <2> QED BY <1>2, <1>7, <1>9, <2>3, <2>7, <2>8, <2>9 DEF BooksIInv
<1> QED BY <1>8, <1>9

\* A new connection begins a new history.
LEMMA BookConnects == ASSUME BooksIInv, Books!Connect PROVE BooksIInv'
<1>0. BooksTyped
  BY DEF BooksIInv
<1>1. /\ ~connected /\ connected' = TRUE /\ feed' = <<Books!Whole(venue)>>
      /\ UNCHANGED <<kind, venue, book, awaiting, shown>> /\ ~awaiting
  BY DEF Books!Connect, BooksIInv
<1>2. PICK m \in Message : m = Books!Whole(venue) /\ m.whole /\ m.book = Books!Book(venue)
  BY <1>0, WholeTyped DEF BooksTyped
<1>3. feed' \in Seq(Message) /\ Len(feed') = 1 /\ feed'[1] = m /\ feed' # <<>>
  BY <1>1, <1>2
<1>4. BooksTyped'
  <2>1. Len(feed') <= MaxInFlight
    BY <1>3, StoreBounds
  <2> QED BY <1>0, <1>1, <1>3, <2>1 DEF BooksTyped, Message
<1>5. Unsettled'
  BY <1>2, <1>3 DEF Unsettled
<1>6. PICK v \in [0..Len(feed') -> VenueBooks] : v[0] = venue /\ v[1] = venue
  <2> DEFINE v == [i \in 0..Len(feed') |-> venue]
  <2>0. venue \in VenueBooks /\ Len(feed') = 1
    BY <1>0, <1>3 DEF BooksTyped
  <2>1. v \in [0..Len(feed') -> VenueBooks] /\ v[0] = venue /\ v[1] = venue
    BY <2>0
  <2> QED BY <2>1
<1>7. Uncrossed(venue)
  BY DEF BooksIInv
<1>8. \A i \in 1..1 : Tells(feed'[i], v[i - 1], v[i])
  BY <1>2, <1>3, <1>6 DEF Tells
<1>9. \A i \in 0..1 : v[i] = venue
  BY <1>6
<1>10. History(v)'
  <2>1. Len(feed') = 1 /\ venue' = venue /\ kind' = kind
    BY <1>1, <1>3
  <2>2. \A i \in 1..1 : Tells(feed[i], v[i - 1], v[i])'
    BY <1>8, <2>1 DEF Tells, Books!Book
  <2>3. v[1] = venue' /\ \A i \in 0..1 : Uncrossed(v[i])
    BY <1>7, <1>9, <2>1
  <2> QED BY <1>5, <2>1, <2>2, <2>3 DEF History, Uncrossed
<1> QED BY <1>1, <1>4, <1>5, <1>6, <1>7, <1>10 DEF BooksIInv, Uncrossed, Books!NeverCrossed

\* A lost connection ends it.
LEMMA BookDisconnects == ASSUME BooksIInv, Books!Disconnect PROVE BooksIInv'
<1>0. BooksTyped
  BY DEF BooksIInv
<1>1. /\ connected' = FALSE /\ feed' = <<>> /\ awaiting' = FALSE /\ shown' = Books!Empty
      /\ UNCHANGED <<kind, venue, book>>
  BY DEF Books!Disconnect
<1>2. feed' \in Seq(Message) /\ Len(feed') <= MaxInFlight
  BY <1>1, StoreBounds
<1>3. Books!Empty \in VenueBooks
  BY DEF Books!Empty, VenueBooks
<1>4. BooksTyped'
  BY <1>0, <1>1, <1>2, <1>3 DEF BooksTyped, Message
<1> QED BY <1>1, <1>4 DEF BooksIInv, Uncrossed, Books!NeverCrossed

\* Showing a book changes no copy.
LEMMA BookShown == ASSUME BooksIInv, Books!Show PROVE BooksIInv'
<1>0. BooksTyped
  BY DEF BooksIInv
<1>1. /\ awaiting /\ awaiting' = FALSE /\ shown' = Books!Metrics(Books!Levels(book))
      /\ UNCHANGED <<kind, venue, connected, feed, book>>
  BY DEF Books!Show
<1>2. shown' \in VenueBooks
  <2>1. Books!Levels(book) \in VenueBooks
    BY <1>0 DEF BooksTyped, Books!Levels, VenueBooks, Books!SideBooks
  <2> QED BY <1>1, <2>1, MetricsTyped
<1>3. BooksTyped'
  BY <1>0, <1>1, <1>2 DEF BooksTyped, Message
<1>4. \A v : History(v) => History(v)'
  BY <1>1 DEF History, Tells, Unsettled, Uncrossed, BookFollows, Follows, Books!Book
<1> QED BY <1>1, <1>3, <1>4 DEF BooksIInv, Uncrossed, Books!NeverCrossed

\* The copy follows the venue one message further.
LEMMA ReceiveFollows ==
  ASSUME BooksIInv, connected, feed # <<>>,
         NEW v \in [0..Len(feed) -> VenueBooks], History(v),
         NEW copy,
         \/ kind = "partial" /\ copy = Books!Partial(Head(feed))
         \/ kind = "listed" /\ copy = Books!Listed(Head(feed))
         \/ kind = "sorted" /\ copy = Books!BidsFirst(Head(feed))
  PROVE  copy \in Books!SideBooks /\ BookFollows(copy, v[1])
<1>0. BooksTyped
  BY DEF BooksIInv
<1>1. feed \in Seq(Message)
  BY <1>0 DEF BooksTyped
<1>2. PICK m \in Message : m = Head(feed) /\ m = feed[1]
  BY <1>1, FirstAndRest
<1>3. 1 \in 1..Len(feed) /\ v[0] \in VenueBooks /\ v[1] \in VenueBooks
  <2>1. Len(feed) \in Nat /\ Len(feed) >= 1
    BY <1>1, FirstAndRest
  <2> QED BY <1>1, <2>1
<1>4. Tells(m, v[0], v[1])
  <2>1. Tells(feed[1], v[1 - 1], v[1]) /\ 1 - 1 = 0
    BY <1>1, <1>3 DEF History
  <2> QED BY <1>2, <2>1
<1>5. CASE m.whole
  <2>1. m.book = Books!Book(v[1])
    BY <1>4, <1>5 DEF Tells
  <2>2. copy = Books!Snapshot(m.book)
    BY <1>2, <1>5 DEF Books!Partial, Books!Listed, Books!BidsFirst
  <2> QED BY <1>3, <2>1, <2>2, BookFollowsVenue, SnapshotFollows
<1>6. CASE ~m.whole
  <2>1. kind # "partial" /\ m.changes \in OneOrTwo /\ v[1] = Books!After(v[0], m.changes)
    BY <1>4, <1>6 DEF Tells
  <2>2. BookFollows(book, v[0])
    BY <1>2, <1>6 DEF History, Unsettled
  <2>3. copy = Books!Updates(book, m.changes) \/ copy = Books!Updates(book, Books!Sorted(m.changes))
    BY <1>2, <1>6, <2>1 DEF Books!Listed, Books!BidsFirst
  <2>4. book \in Books!SideBooks
    BY <1>0 DEF BooksTyped
  <2> QED BY <1>3, <2>1, <2>2, <2>3, <2>4, UpdatesFollow, SortedSame
<1> QED BY <1>5, <1>6

\* A message that is received takes the first book from the history.
LEMMA BookReceives ==
  ASSUME BooksIInv,
         \/ Books!Receive("partial", Books!Partial(Head(feed)))
         \/ Books!Receive("listed", Books!Listed(Head(feed)))
         \/ Books!Receive("sorted", Books!BidsFirst(Head(feed)))
  PROVE  BooksIInv'
<1>0. BooksTyped
  BY DEF BooksIInv
<1>1. /\ feed # <<>> /\ feed' = Tail(feed) /\ awaiting' = TRUE
      /\ UNCHANGED <<kind, venue, connected, shown>> /\ connected
  BY DEF Books!Receive, BooksIInv
<1>2. feed \in Seq(Message)
  BY <1>0 DEF BooksTyped
<1>3. /\ feed' \in Seq(Message) /\ Len(feed) \in Nat /\ Len(feed') = Len(feed) - 1 /\ Len(feed) >= 1
      /\ \A i \in 1..Len(feed') : feed'[i] = feed[i + 1]
  <2>1. feed # <<>> /\ feed' = Tail(feed)
    BY <1>1
  <2> QED BY <1>2, <2>1, FirstAndRest
<1>4. PICK v \in [0..Len(feed) -> VenueBooks] : History(v)
  BY <1>1 DEF BooksIInv
<1>5. book' \in Books!SideBooks /\ BookFollows(book', v[1])
  BY <1>1, <1>4, ReceiveFollows DEF Books!Receive
<1>6. PICK w \in [0..Len(feed') -> VenueBooks] : \A i \in 0..Len(feed') : w[i] = v[i + 1]
  <2> DEFINE w == [i \in 0..Len(feed') |-> v[i + 1]]
  <2>0. \A i \in 0..Len(feed') : i + 1 \in 0..Len(feed)
    BY <1>2, <1>3
  <2>1. w \in [0..Len(feed') -> VenueBooks] /\ \A i \in 0..Len(feed') : w[i] = v[i + 1]
    BY <1>2, <1>3, <2>0
  <2> QED BY <2>1
<1>7. BooksTyped'
  <2>1. Len(feed') <= MaxInFlight
    <3>1. MaxInFlight \in Nat
      BY StoreBounds
    <3>2. Len(feed) <= MaxInFlight
      BY <1>0 DEF BooksTyped
    <3> QED BY <1>2, <1>3, <3>1, <3>2
  <2> QED BY <1>0, <1>1, <1>3, <1>5, <2>1 DEF BooksTyped, Message
<1>8. \A i \in 0..Len(feed') : Uncrossed(w[i])
  <2> SUFFICES ASSUME NEW i \in 0..Len(feed') PROVE Uncrossed(w[i])
    OBVIOUS
  <2>1. i + 1 \in 0..Len(feed) /\ w[i] = v[i + 1]
    BY <1>3, <1>6
  <2> QED BY <1>4, <2>1 DEF History
<1>9. ASSUME NEW i \in 1..Len(feed') PROVE Tells(feed[i], w[i - 1], w[i])'
  <2>1. Tells(feed'[i], w[i - 1], w[i])
    <3>1. i + 1 \in 1..Len(feed) /\ feed'[i] = feed[i + 1] /\ w[i - 1] = v[i] /\ w[i] = v[i + 1]
      BY <1>2, <1>3, <1>6
    <3>2. Tells(feed[i + 1], v[(i + 1) - 1], v[i + 1]) /\ (i + 1) - 1 = i
      BY <1>2, <1>3, <1>4, <3>1 DEF History
    <3> QED BY <3>1, <3>2
  <2> QED BY <1>1, <2>1 DEF Tells, Books!Book
<1>10. w[Len(feed')] = venue' /\ w[0] = v[1]
  BY <1>1, <1>2, <1>3, <1>4, <1>6 DEF History
<1>11. History(w)'
  BY <1>5, <1>8, <1>9, <1>10 DEF History, Uncrossed, BookFollows, Follows
<1>12. Books!NeverCrossed'
  <2>1. v[1] \in VenueBooks /\ Uncrossed(v[1])
    BY <1>2, <1>3, <1>4 DEF History
  <2>2. ~Books!Crossed(Books!Levels(book'))
    BY <1>5, <2>1, CopyNotCrossed
  <2> QED BY <2>2 DEF Books!NeverCrossed, Books!Crossed, Books!Levels
<1> QED BY <1>1, <1>6, <1>7, <1>11, <1>12 DEF BooksIInv, Uncrossed

\* Every step of the order books keeps their invariant.
LEMMA BooksStep == ASSUME BooksIInv, [Books!Next]_books PROVE BooksIInv'
<1>1. CASE UNCHANGED books
  <2>1. UNCHANGED <<kind, venue, connected, feed, book, awaiting, shown>>
    BY <1>1 DEF books
  <2>2. BooksTyped'
    BY <2>1 DEF BooksIInv, BooksTyped, Message
  <2>3. \A v : History(v) => History(v)'
    BY <2>1 DEF History, Tells, Unsettled, Uncrossed, BookFollows, Follows, Books!Book
  <2> QED BY <2>1, <2>2, <2>3 DEF BooksIInv, Uncrossed, Books!NeverCrossed, Unsettled,
             Books!Metrics, Books!Levels
<1> QED BY <1>1, VenueMoves, BookConnects, BookDisconnects, BookShown, BookReceives DEF Books!Next

\* With nothing on its way the copy follows the venue's book.
LEMMA CaughtUpFollows ==
  ASSUME BooksIInv, Books!CaughtUp
  PROVE  BookFollows(book, venue)
<1>1. connected /\ feed = <<>> /\ Len(feed) = 0 /\ ~Unsettled
  BY DEF Books!CaughtUp, Unsettled
<1>2. PICK v \in [0..Len(feed) -> VenueBooks] : History(v)
  BY <1>1 DEF BooksIInv
<1> QED BY <1>1, <1>2 DEF History

\* The invariant says that the copy follows the venue.
LEMMA BooksFollow == BooksIInv => Books!CopyFollows
BY CaughtUpFollows DEF Books!CopyFollows, BookFollows, Follows

\* It says that what is shown are the venue's best levels.
LEMMA BestShown == BooksIInv => Books!TopShown
<1> DEFINE top == [s \in Books!Sides |-> Books!Best(s, Depth, venue[s])]
<1> SUFFICES ASSUME BooksIInv, Books!CaughtUp, ~awaiting,
                    \A s \in Books!Sides : top[s] # {} /\ top[s] \subseteq book[s].known
             PROVE  shown = top
  BY DEF Books!TopShown
<1>0. BooksTyped /\ Depth \in Nat
  BY StoreBounds DEF BooksIInv
<1>1. BookFollows(book, venue)
  BY CaughtUpFollows
<1>2. shown = Books!Metrics(Books!Levels(book))
  BY DEF BooksIInv, Books!CaughtUp, Unsettled
<1>3. ASSUME NEW s \in Books!Sides
      PROVE  Books!Best(s, Depth, Books!Levels(book)[s]) = top[s] /\ top[s] \subseteq venue[s]
  <2>1. venue[s] \in SUBSET Prices /\ book[s].levels \in SUBSET venue[s]
    BY <1>0, <1>1 DEF BooksTyped, VenueBooks, BookFollows, Follows
  <2>2. top[s] = Books!Best(s, Depth, venue[s]) /\ top[s] \subseteq venue[s]
    BY DEF Books!Best
  <2>3. top[s] \subseteq book[s].levels
    BY <1>1, <2>2 DEF BookFollows, Follows
  <2>4. Books!Levels(book)[s] = book[s].levels
    BY DEF Books!Levels
  <2> QED BY <1>0, <2>1, <2>2, <2>3, <2>4, BestOfPart
<1>4. [s \in Books!Sides |-> Books!Best(s, Depth, Books!Levels(book)[s])] = top
  BY <1>3
<1>5. ~Books!Crossed(top)
  <2>1. Uncrossed(venue) /\ top["bid"] \subseteq venue["bid"] /\ top["ask"] \subseteq venue["ask"]
    BY <1>3 DEF BooksIInv, Books!Sides
  <2>2. venue["bid"] \subseteq Nat /\ venue["ask"] \subseteq Nat
    BY <1>0, StoreBounds DEF BooksTyped, VenueBooks, Books!Sides
  <2> HIDE DEF top
  <2> QED BY <2>1, <2>2 DEF Uncrossed, Books!Crossed
<1>6. Books!Metrics(Books!Levels(book)) = top
  BY <1>4, <1>5 DEF Books!Metrics
<1> QED BY <1>2, <1>6

\* It says that everything is well typed.
LEMMA BooksTypes == BooksIInv => Books!TypeOK
<1> SUFFICES ASSUME BooksIInv PROVE Books!TypeOK
  OBVIOUS
<1>1. BooksTyped /\ feed \in Seq(Message)
  BY DEF BooksIInv, BooksTyped
<1>2. \A i \in 1..Len(feed) : feed[i] \in Message
  BY <1>1
<1>3. \A i \in 1..Len(feed) : feed[i].whole \in BOOLEAN /\ feed[i].book \in Books!SideBooks
  BY <1>2 DEF Message
<1> QED BY <1>1, <1>3 DEF BooksTyped, Books!TypeOK, VenueBooks
(***************************************************************************)
(* The types of raw segments and of the ingestion                          *)
(***************************************************************************)
LEMMA SegmentCount == \A S : Raw!Cardinality(S) = Cardinality(S)
BY Zenon DEF Raw!Cardinality, Cardinality

Uploading == [count : 0..MaxMessages, phase : {"file", "row", "done"}, final : BOOLEAN]

\* A handle that has a path has its file.
RawTyped == Raw!TypeOK /\ (open # None /\ ~unlinked => file # None)

\* The segments are well typed at the start.
LEMMA RawTypedInit == Raw!Init => RawTyped
<1> SUFFICES ASSUME Raw!Init PROVE RawTyped
  OBVIOUS
<1>1. arrived \in 0..MaxMessages /\ failures \in 0..MaxDisturbances
  BY StoreBounds, CollectorAssumption DEF Raw!Init
<1>2. /\ {ended, unlinked, late, restarted} \subseteq BOOLEAN /\ ~unlinked
      /\ life \in {"running", "stopping", "over"} /\ ahead \in {"none", "some", "stuck"}
      /\ left \in {"queued", "open", None}
  BY DEF Raw!Init
<1>3. /\ open \in Raw!Contents /\ file \in Raw!Contents /\ object \in Raw!Contents
      /\ pending \in Raw!Counts /\ counted \in Raw!Counts
  BY DEF Raw!Init, Raw!Contents, Raw!Counts
<1>4. upload \in Uploading \cup {None}
  BY DEF Raw!Init
<1>5. open = None
  BY DEF Raw!Init
<1> QED BY <1>1, <1>2, <1>3, <1>4, <1>5, Zenon DEF Raw!TypeOK, RawTyped, Uploading

\* A handle has no more messages than there are.
LEMMA RawTypedStep == ASSUME RawTyped, [Raw!Next]_raw PROVE RawTyped'
<1>0. MaxMessages \in Nat /\ MaxDisturbances \in Nat /\ Raw!Messages = 1..MaxMessages
  BY StoreBounds, CollectorAssumption DEF Raw!Messages
<1>1. /\ arrived \in 0..MaxMessages /\ failures \in 0..MaxDisturbances
      /\ ended \in BOOLEAN /\ unlinked \in BOOLEAN
      /\ life \in {"running", "stopping", "over"} /\ ahead \in {"none", "some", "stuck"}
      /\ left \in {"queued", "open", None}
      /\ late \in BOOLEAN /\ restarted \in BOOLEAN
      /\ open \in (SUBSET Raw!Messages) \cup {None}
      /\ file \in (SUBSET Raw!Messages) \cup {None}
      /\ object \in (SUBSET Raw!Messages) \cup {None}
      /\ pending \in 0..MaxMessages \cup {None} /\ counted \in 0..MaxMessages \cup {None}
      /\ upload \in Uploading \cup {None}
      /\ (open = None => ~unlinked) /\ (open # None /\ ~unlinked => file # None)
  BY DEF RawTyped, Raw!TypeOK, Raw!Contents, Raw!Counts, Uploading
<1>2. ASSUME open # None PROVE Raw!Cardinality(open) \in 0..MaxMessages
  <2>1. IsFiniteSet(1..MaxMessages) /\ Cardinality(1..MaxMessages) = MaxMessages
    BY <1>0, FS_Interval
  <2>2. open \in SUBSET (1..MaxMessages)
    BY <1>0, <1>1, <1>2
  <2>3. IsFiniteSet(open) /\ Cardinality(open) <= MaxMessages /\ Cardinality(open) \in Nat
    BY <2>1, <2>2, FS_Subset, FS_CardinalityType
  <2> QED BY <1>0, <2>3, SegmentCount
<1>3. /\ arrived' \in 0..MaxMessages /\ failures' \in 0..MaxDisturbances
      /\ ended' \in BOOLEAN /\ unlinked' \in BOOLEAN
      /\ life' \in {"running", "stopping", "over"} /\ ahead' \in {"none", "some", "stuck"}
      /\ left' \in {"queued", "open", None}
      /\ late' \in BOOLEAN /\ restarted' \in BOOLEAN
  <2>1. arrived' \in {arrived, arrived + 1} /\ (arrived' # arrived => arrived < MaxMessages)
    BY DEF Raw!Next, Raw!Uploads, Raw!Write, Raw!SegmentEnds, Raw!Close, Raw!Launch,
           Raw!UploadObject, Raw!UploadRow, Raw!UploadDone, Raw!UploadFindsNoFile, Raw!UploadFails,
           Raw!Stop, Raw!Exit, Raw!OthersFail, Raw!StopFails,
           Raw!OthersUploaded, Raw!Leaves, Raw!Fails, Raw!queue, Raw!Restart, raw
  <2>2. /\ failures' \in {failures, failures + 1}
        /\ failures' # failures => failures < MaxDisturbances
    BY DEF Raw!Next, Raw!Uploads, Raw!Write, Raw!SegmentEnds, Raw!Close, Raw!Launch,
           Raw!UploadObject, Raw!UploadRow, Raw!UploadDone, Raw!UploadFindsNoFile, Raw!UploadFails,
           Raw!Disturb, Raw!Stop, Raw!Exit, Raw!OthersFail, Raw!StopFails,
           Raw!OthersUploaded, Raw!Leaves, Raw!Fails, Raw!queue, Raw!Restart, raw
  <2>3. /\ ended' \in BOOLEAN /\ unlinked' \in BOOLEAN
        /\ late' \in BOOLEAN /\ restarted' \in BOOLEAN
    BY <1>1, Zenon DEF Raw!Next, Raw!Uploads, Raw!Write, Raw!SegmentEnds, Raw!Close, Raw!Launch,
           Raw!UploadObject, Raw!UploadRow, Raw!UploadDone, Raw!UploadFindsNoFile, Raw!UploadFails,
           Raw!Disturb, Raw!Stop, Raw!Exit, Raw!OthersFail, Raw!StopFails,
           Raw!OthersUploaded, Raw!Leaves, Raw!Fails, Raw!queue, Raw!Restart, Raw!local,
           Raw!history, raw
  <2>4. /\ life' \in {"running", "stopping", "over"} /\ ahead' \in {"none", "some", "stuck"}
        /\ left' \in {"queued", "open", None}
    BY <1>1 DEF Raw!Next, Raw!Uploads, Raw!Write, Raw!SegmentEnds, Raw!Close, Raw!Launch,
           Raw!UploadObject, Raw!UploadRow, Raw!UploadDone, Raw!UploadFindsNoFile, Raw!UploadFails,
           Raw!Stop, Raw!Exit, Raw!OthersFail, Raw!StopFails, Raw!OthersUploaded, Raw!Leaves,
           Raw!Fails, Raw!queue, Raw!Restart, Raw!local, Raw!history, raw
  <2> QED BY <1>0, <1>1, <2>1, <2>2, <2>3, <2>4
<1>4. /\ open' \in (SUBSET Raw!Messages) \cup {None}
      /\ (open' = None => ~unlinked')
  <2>1. CASE Raw!Write
    <3>1. arrived' \in Raw!Messages /\ Raw!In(open) \subseteq Raw!Messages
      <4>1. arrived \in 0..MaxMessages /\ arrived < MaxMessages /\ arrived' = arrived + 1
        BY <1>1, <2>1 DEF Raw!Write
      <4>2. arrived' \in 1..MaxMessages
        BY <1>0, <4>1
      <4> QED BY <1>0, <1>1, <4>2 DEF Raw!In
    <3>2. open' = Raw!In(open) \cup {arrived'} /\ open' \in SUBSET (1..MaxMessages)
      BY <1>0, <2>1, <3>1 DEF Raw!Write
    <3>3. open' # None
      BY <3>2, StoreBounds
    <3> QED BY <1>0, <3>2, <3>3
  <2>2. CASE Raw!Close \/ Raw!Restart \/ Raw!StopFails
    BY <2>2 DEF Raw!Close, Raw!Restart, Raw!StopFails
  <2>3. CASE open' = open /\ (unlinked' = unlinked \/ unlinked' = (open # None))
    BY <1>1, <2>3
  <2> QED BY <2>1, <2>2, <2>3
       DEF Raw!Next, Raw!Uploads, Raw!SegmentEnds, Raw!Launch, Raw!UploadObject, Raw!UploadRow,
           Raw!UploadDone, Raw!UploadFindsNoFile, Raw!UploadFails, Raw!Stop, Raw!Exit,
           Raw!OthersFail,
           Raw!OthersUploaded, Raw!queue, Raw!local, raw
<1>5. /\ file' \in (SUBSET Raw!Messages) \cup {None}
      /\ object' \in (SUBSET Raw!Messages) \cup {None}
  <2>1. CASE Raw!Write \/ Raw!Close
    <3>1. Raw!In(file) \subseteq Raw!Messages
      BY <1>1 DEF Raw!In
    <3>2. CASE Raw!Write
      <4>1. file' \in {Raw!In(file), file} /\ object' = object
        BY <3>2 DEF Raw!Write
      <4> QED BY <1>1, <3>1, <4>1
    <3>3. CASE Raw!Close
      <4>1. open # None /\ object' = object /\ (unlinked => file' = file)
            /\ (~unlinked => file' = file \cup open)
        BY <3>3 DEF Raw!Close
      <4>2. CASE unlinked
        BY <1>1, <4>1, <4>2
      <4>3. CASE ~unlinked
        <5>1. file # None
          BY <1>1, <4>1, <4>3
        <5> QED BY <1>1, <4>1, <4>3, <5>1
      <4> QED BY <4>2, <4>3
    <3> QED BY <2>1, <3>2, <3>3
  <2>3. CASE Raw!StopFails
    <3>1. open = None \/ unlinked => file' = file
      BY <2>3 DEF Raw!StopFails
    <3>2. open # None /\ ~unlinked => file' \in {file, file \cup open} /\ file # None
      BY <1>1, <2>3 DEF Raw!StopFails
    <3>3. object' = object
      BY <2>3 DEF Raw!StopFails
    <3> QED BY <1>1, <3>1, <3>2, <3>3
  <2>2. CASE file' \in {file, None} /\ object' \in {object, file}
    BY <1>1, <2>2
  <2> QED BY <2>1, <2>2, <2>3
       DEF Raw!Next, Raw!Uploads, Raw!SegmentEnds, Raw!Launch, Raw!UploadObject, Raw!UploadRow,
           Raw!UploadDone, Raw!UploadFindsNoFile, Raw!UploadFails, Raw!Stop, Raw!Exit,
           Raw!OthersFail, Raw!StopFails,
           Raw!OthersUploaded, Raw!Leaves, Raw!Fails, Raw!queue, Raw!Restart, raw
<1>6. /\ pending' \in 0..MaxMessages \cup {None} /\ counted' \in 0..MaxMessages \cup {None}
      /\ upload' \in Uploading \cup {None}
  <2>1. CASE Raw!Close
    BY <1>1, <1>2, <2>1 DEF Raw!Close
  <2>2. CASE Raw!Launch
    <3>1. pending \in 0..MaxMessages
      BY <1>1, <2>2 DEF Raw!Launch
    <3> QED BY <1>1, <2>2, <3>1 DEF Raw!Launch, Raw!queue, Uploading
  <2>3. CASE Raw!UploadObject \/ Raw!UploadRow
    <3>1. upload \in Uploading
      BY <1>1, <2>3 DEF Raw!UploadObject, Raw!UploadRow
    <3> QED BY <1>1, <2>3, <3>1 DEF Raw!UploadObject, Raw!UploadRow, Raw!queue, Uploading
  <2>4. CASE /\ pending' \in {pending, None} /\ counted' = counted
             /\ upload' \in {upload, None}
    BY <1>1, <2>4
  <2> QED BY <2>1, <2>2, <2>3, <2>4
       DEF Raw!Next, Raw!Uploads, Raw!Write, Raw!SegmentEnds, Raw!UploadDone,
           Raw!UploadFindsNoFile, Raw!UploadFails, Raw!Stop, Raw!Exit, Raw!OthersFail,
           Raw!StopFails,
           Raw!OthersUploaded, Raw!Leaves, Raw!Fails, Raw!queue, Raw!Restart, Raw!local, raw
<1>7. {ended, unlinked, late, restarted}' \subseteq BOOLEAN
  BY <1>3
<1>8. open' # None /\ ~unlinked' => file' # None
  <2>1. CASE Raw!Write
    <3>1. Raw!In(file) \subseteq 1..MaxMessages
      BY <1>0, <1>1 DEF Raw!In
    <3>2. Raw!In(file) # None
      BY <3>1, StoreBounds
    <3> QED BY <1>1, <2>1, <3>2 DEF Raw!Write
  <2> QED BY <1>1, <2>1
       DEF Raw!Next, Raw!Uploads, Raw!SegmentEnds, Raw!Close, Raw!Launch, Raw!UploadObject,
           Raw!UploadRow, Raw!UploadDone, Raw!UploadFindsNoFile, Raw!UploadFails, Raw!Stop,
           Raw!Exit, Raw!OthersFail, Raw!StopFails,
           Raw!OthersUploaded, Raw!Leaves, Raw!Fails, Raw!queue, Raw!Restart, Raw!local, raw
<1> QED BY <1>3, <1>4, <1>5, <1>6, <1>7, <1>8, Zenon
     DEF RawTyped, Raw!TypeOK, Raw!Contents, Raw!Counts, Uploading

Statuses == {"none", "running", "failed", "completed"}

\* The run of the ingestion keeps a status it knows.
LEMMA StatusStep == ASSUME status \in Statuses, [Futures!Next]_futures PROVE status' \in Statuses
BY DEF Statuses, Futures!Next, Futures!DayPasses, Futures!LateInsert, Futures!Work, Futures!Begin,
       Futures!ReadMax, Futures!FetchPage, Futures!InsertBars, Futures!PageOver,
       Futures!SkipSessions, Futures!FetchSessions, Futures!StoreSessions, Futures!Complete,
       Futures!CallRepeated, Futures!Fail, Futures!Restart, futures

\* The invariant of the ingestion has its types.
LEMMA IngestTypes == IngestInv /\ status \in Statuses => Futures!TypeOK
BY DEF IngestInv, IngestTyped, Statuses, Thread, Futures!TypeOK
(***************************************************************************)
(* All of them                                                             *)
(***************************************************************************)
\* What the stores show is what was received, for any number of processes, messages and
\* failures: the price of a second is that of its newest trade while one process at a
\* time writes it, the evidence of a detection is whole when it is saved, the newest
\* observation of a minute is stored unless a failed flush put back an older one, and the
\* copy of an order book, when it has caught up, follows the venue's, shows its top as
\* far as the copy reaches, and is never crossed.
THEOREM StoresShowReceived == StreamSpec => []StoresFaithful
<1>1. Begin => PricesIInv /\ BroadIInv /\ BooksIInv
  BY PricesInit, BroadInit, BooksInit DEF Begin
<1>2. (PricesIInv /\ BroadIInv /\ BooksIInv) /\ [Step]_everything
        => (PricesIInv /\ BroadIInv /\ BooksIInv)'
  BY PricesStep, BroadStep, BooksStep, OneStore
<1>3. PricesIInv /\ BroadIInv /\ BooksIInv => StoresFaithful
  <2>1. PricesIInv => NewestPriceStored
    BY DEF PricesIInv, Ordered, Ending, NewestPriceStored
  <2>2. BooksIInv => Books!NeverCrossed
    BY DEF BooksIInv
  <2> QED BY <2>1, <2>2, BroadShows, BooksFollow, BestShown DEF StoresFaithful
<1> QED BY <1>1, <1>2, <1>3, PTL DEF StreamSpec

\* The variables of every store have their types: what is counted, queued or in flight
\* stays within what was received, and no bound of a queue, an attempt or a date is
\* passed, in any of them.
THEOREM StoresAreTyped == StreamSpec => []StoresTyped
<1> DEFINE Types == /\ SecondsTyped /\ RawTyped /\ BroadIInv /\ BooksIInv
                    /\ IngestInv /\ status \in Statuses
<1>1. IngestAssumption
  BY StoreBounds DEF IngestAssumption
<1>2. Begin => Types
  <2>1. Futures!Init => status \in Statuses
    BY DEF Futures!Init, Statuses
  <2> QED BY <1>1, <2>1, SecondsTypedInit, RawTypedInit, BroadInit, BooksInit, IngestInit
       DEF Begin
<1>3. Types /\ [Step]_everything => Types'
  BY <1>1, SecondsTypedStep, RawTypedStep, BroadStep, BooksStep, IngestStep, StatusStep,
     OneStore
<1>4. Types => StoresTyped
  <2>1. SecondsTyped => TypeOK
    BY DEF SecondsTyped
  <2>2. BroadIInv => Broad!TypeOK
    BY DEF BroadIInv
  <2>3. RawTyped => Raw!TypeOK
    BY DEF RawTyped
  <2> QED BY <2>1, <2>2, <2>3, BooksTypes, IngestTypes DEF StoresTyped
<1> QED BY <1>2, <1>3, <1>4, PTL DEF StreamSpec
=============================================================================
