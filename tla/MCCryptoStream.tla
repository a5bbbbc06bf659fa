--------------------------- MODULE MCCryptoStream ---------------------------
(***************************************************************************)
(* The stores that processes fill as long as they run, without claims, for *)
(* TLC: the crypto stream's one-second aggregates, raw segments, broad     *)
(* observations and copies of order books, and the bars of the futures     *)
(* ingestion.  They have their own maps, locks and tables and share no     *)
(* variable, so that every behaviour of all of them together is, for each  *)
(* of them, a behaviour of it alone.  The run therefore explores one of    *)
(* them at a time: `store` says which, and the others rest.                *)
(***************************************************************************)
EXTENDS StreamCollector

CONSTANTS MaxMessages, MaxObservations, MaxAttempts,
          Contracts, LastDay, Enough, MaxIngestDisturbances,
          Prices, Depth, PartialDepth, MaxInFlight

ASSUME StoreBounds ==
  /\ MaxMessages \in Nat /\ MaxObservations \in Nat
  /\ MaxAttempts \in Nat \ {0}
  /\ {Contracts, LastDay, Enough} \subseteq Nat \ {0} /\ MaxIngestDisturbances \in Nat
  /\ {Depth, PartialDepth, MaxInFlight} \subseteq Nat \ {0} /\ Depth <= PartialDepth
  /\ Prices \subseteq Nat /\ IsFiniteSet(Prices)
  /\ None \notin Nat /\ \A messages \in SUBSET (1..MaxMessages) : messages # None

VARIABLES store,
          arrived, ended, open, unlinked, file, pending, ahead, upload, object, counted,
          life, failures, late, left, restarted,
          observed, minute, buffer, flight, stored, ring, detected, scanner,
          snapshot, queued, uploaded, active, ending, orphan, faults, overwritten,
          today, bars, sessions, status, ingest, lateInserts, ingestFaults,
          kind, venue, connected, feed, book, awaiting, shown

Raw == INSTANCE RawSegments
Broad == INSTANCE BroadStore
Futures == INSTANCE FuturesIngest
  WITH Ingesters <- Processes, late <- lateInserts, disturbances <- ingestFaults,
       MaxDisturbances <- MaxIngestDisturbances
Books == INSTANCE OrderBook

raw == <<arrived, ended, open, unlinked, file, pending, ahead, upload, object, counted,
         life, failures, late, left, restarted>>
broad == <<observed, minute, buffer, flight, stored, ring, detected, scanner,
           snapshot, queued, uploaded, active, ending, orphan, faults, overwritten>>
futures == <<today, bars, sessions, status, ingest, lateInserts, ingestFaults>>
books == <<kind, venue, connected, feed, book, awaiting, shown>>
everything == <<store, vars, raw, broad, futures, books>>

\* What only one store looks at is left open in its own behaviours only.
Begin ==
  /\ store \in {"seconds", "raw", "broad", "bars", "books"}
  /\ Init /\ Raw!Init /\ Broad!Init /\ Futures!Init /\ Books!Init
  /\ store = "bars" \/ today = 1
  /\ store = "books" \/ kind = "partial"

Seconds(A) == store = "seconds" /\ A /\ UNCHANGED <<store, raw, broad, futures, books>>
Segments(A) == store = "raw" /\ A /\ UNCHANGED <<store, vars, broad, futures, books>>
Observations(A) == store = "broad" /\ A /\ UNCHANGED <<store, vars, raw, futures, books>>
Bars(A) == store = "bars" /\ A /\ UNCHANGED <<store, vars, raw, broad, books>>
OrderBooks(A) == store = "books" /\ A /\ UNCHANGED <<store, vars, raw, broad, futures>>

Step ==
  \/ Seconds(Next) \/ Segments(Raw!Next) \/ Observations(Broad!Next) \/ Bars(Futures!Next)
  \/ OrderBooks(Books!Next)

StreamSpec ==
  /\ Begin /\ [][Step]_everything
  /\ \A p \in Processes : WF_everything(Seconds(Flush(p)) \/ Bars(Futures!Work(p)))
  /\ WF_everything(Segments(Raw!SegmentEnds)) /\ WF_everything(Segments(Raw!Uploads))
  /\ WF_everything(Observations(Broad!Work("loop")))
  /\ SF_everything(Observations(Broad!Work("scanner")))
  /\ WF_everything(Observations(Broad!Preserve))

\* The variables of every store have their types.
StoresTyped == TypeOK /\ Raw!TypeOK /\ Broad!TypeOK /\ Futures!TypeOK /\ Books!TypeOK

\* No raw message is in none of its places, as RawSegments says.
RawKept == Raw!RawKept

\* What the stores show is what was received, but for the exceptions that their modules
\* name: the price and the observation of a second are its newest, whichever flush was
\* first; the evidence of a detection is whole; and the copy of an order book follows the
\* venue's.
StoresFaithful ==
  /\ NewestPriceStored
  /\ Broad!SnapshotWhole /\ Broad!NewestObservationStored
  /\ Books!CopyFollows /\ Books!TopShown /\ Books!NeverCrossed

\* Futures bars are missing at the end only, which is where every thread resumes, and a
\* thread that completes the run has stored what the provider had when it began.
IngestCovers == Futures!BarsContiguous /\ Futures!CompletedCovers

\* What has been received comes to its store in the end: a trade to the table, a
\* raw segment to its object, a detection to a capture target; and every ingestion thread
\* ends and the run says how.
StreamEnds ==
  /\ TradesReachTable /\ Raw!RawReachesStorage /\ Broad!DetectionActs
  /\ <>[](store = "bars" => Futures!FuturesOver)
=============================================================================
