----------------------------- MODULE OrderBook -----------------------------
(***************************************************************************)
(* The order book of one market in the crypto stream (BookState and        *)
(* CryptoCollector.book of app/crypto_stream.py, with crypto_stream_bookfix *)
(* and the Bybit stream of crypto_stream_runtime_fixes): the venue's book,  *)
(* the connection that reports it, the copy in memory, which survives      *)
(* reconnections and is trimmed, and the metrics shown in the second.      *)
(*                                                                         *)
(* Sizes are abstracted to whether a level is there.  A venue sends its    *)
(* book by best levels whenever it changes (Binance), or once for a        *)
(* subscription and then its changes: in the order they are listed         *)
(* (Coinbase) or applied to the bids first (Kraken, Bybit).                *)
(***************************************************************************)
EXTENDS Naturals, FiniteSets, Sequences

CONSTANTS Prices,        \* prices at which there may be a level
          Depth,         \* crypto_order_book_depth: levels the metrics use
          PartialDepth,  \* levels a partial book shows
          MaxInFlight    \* bound on messages sent and not received

VARIABLES kind,       \* how the venue reports
          venue,      \* its levels, by side
          connected,
          feed,       \* messages on their way
          book,       \* the copy: its levels, and history: where it is complete
          awaiting,   \* the handler has changed the book and waits for the lock
          shown       \* the best levels that the connection's last message put in its second

vars == <<kind, venue, connected, feed, book, awaiting, shown>>
-----------------------------------------------------------------------------
Sides == {"bid", "ask"}
Empty == [s \in Sides |-> {}]
Nothing == [s \in Sides |-> [levels |-> {}, known |-> Prices]]
Levels(b) == [s \in Sides |-> b[s].levels]

Better(s, p, q) == IF s = "bid" THEN p > q ELSE p < q
Ahead(s, p, levels) == Cardinality({q \in levels : Better(s, q, p)})
Best(s, n, levels) == {p \in levels : Ahead(s, p, levels) < n}
Crossed(levels) == \E b \in levels["bid"], a \in levels["ask"] : b > a

\* Levels beyond twice the depth go when there are more than three times.
Trimmed(s, side) ==
  IF Cardinality(side.levels) > 3 * Depth
  THEN [levels |-> Best(s, 2 * Depth, side.levels),
        known  |-> {p \in side.known : Ahead(s, p, side.levels) < 2 * Depth}]
  ELSE side

Update(b, change) ==
  LET side   == b[change.side]
      levels == IF change.there THEN side.levels \cup {change.price}
                                ELSE side.levels \ {change.price}
  IN [b EXCEPT ![change.side] = Trimmed(change.side, [side EXCEPT !.levels = levels])]

\* The one or two changes of a message, one after the other.
Updates(b, changes) ==
  IF Len(changes) = 1 THEN Update(b, changes[1])
  ELSE Update(Update(b, changes[1]), changes[2])
Snapshot(b) == [s \in Sides |-> Trimmed(s, b[s])]

\* No metrics without both sides; a crossed book is hidden.
Metrics(levels) ==
  LET top == [s \in Sides |-> Best(s, Depth, levels[s])]
  IN IF (\E s \in Sides : top[s] = {}) \/ Crossed(top) THEN Empty ELSE top
-----------------------------------------------------------------------------
\* What a message holds: the book, as far as it shows it, or changes.
Book(levels) ==
  [s \in Sides |->
     IF kind = "partial"
     THEN [levels |-> Best(s, PartialDepth, levels[s]),
           known  |-> {p \in Prices : Ahead(s, p, levels[s]) < PartialDepth}]
     ELSE [levels |-> levels[s], known |-> Prices]]
Whole(levels) == [whole |-> TRUE, book |-> Book(levels), changes |-> <<>>]
Told(changes, levels) ==
  IF kind = "partial" THEN Whole(levels)
  ELSE [whole |-> FALSE, book |-> Nothing, changes |-> changes]

Changes == {c \in [side : Sides, price : Prices, there : BOOLEAN] :
              c.there <=> c.price \notin venue[c.side]}
Batches == {<<c>> : c \in Changes}
             \cup {<<c, d>> : c \in Changes, d \in {e \in Changes : ~e.there}}
Changed(levels, change) ==
  [levels EXCEPT ![change.side] =
     IF change.there THEN @ \cup {change.price} ELSE @ \ {change.price}]
After(levels, changes) ==
  IF Len(changes) = 1 THEN Changed(levels, changes[1])
  ELSE Changed(Changed(levels, changes[1]), changes[2])

Init ==
  /\ kind \in {"partial", "listed", "sorted"}
  /\ venue = Empty /\ shown = Empty
  /\ connected = FALSE /\ awaiting = FALSE
  /\ feed = <<>>
  /\ book = Nothing

\* The venue's book changes, by one level or two, and is never crossed.
Move ==
  /\ connected => Len(feed) < MaxInFlight
  /\ \E changes \in Batches :
       LET levels == After(venue, changes) IN
       /\ \A b \in levels["bid"], a \in levels["ask"] : b < a
       /\ venue' = levels
       /\ feed' = IF connected THEN Append(feed, Told(changes, levels)) ELSE feed
  /\ UNCHANGED <<kind, connected, book, awaiting, shown>>

\* A stream connects, subscribes, and is sent the book first.
Connect ==
  /\ ~connected
  /\ connected' = TRUE
  /\ feed' = <<Whole(venue)>>
  /\ UNCHANGED <<kind, venue, book, awaiting, shown>>

\* The connection breaks, or the main loop cancels the stream to subscribe to other
\* targets: the copy stays in the collector.
Disconnect ==
  /\ connected
  /\ connected' = FALSE
  /\ feed' = <<>>
  /\ awaiting' = FALSE
  /\ shown' = Empty
  /\ UNCHANGED <<kind, venue, book>>

\* Variant: the levels of a partial book are added to the copy.
AddPartial(message) ==
  [s \in Sides |-> [levels |-> book[s].levels \cup message.book[s].levels,
                    known  |-> message.book[s].known]]

\* A partial book replaces the copy.
Partial(message) == Snapshot(message.book)

\* A snapshot replaces it, and changes are applied as listed.
Listed(message) ==
  IF message.whole THEN Snapshot(message.book) ELSE Updates(book, message.changes)

\* The same, changes of bids before those of asks.
Sorted(changes) ==
  IF Len(changes) = 2 /\ changes[1].side = "ask" /\ changes[2].side = "bid"
  THEN <<changes[2], changes[1]>> ELSE changes
BidsFirst(message) ==
  IF message.whole THEN Snapshot(message.book) ELSE Updates(book, Sorted(message.changes))

\* The handler changes the copy before it waits for the collector's lock.
Receive(handler, copy) ==
  /\ kind = handler
  /\ feed # <<>> /\ ~awaiting
  /\ book' = copy
  /\ feed' = Tail(feed)
  /\ awaiting' = TRUE
  /\ UNCHANGED <<kind, venue, connected, shown>>

\* Under the lock, the second takes the metrics.
Show ==
  /\ awaiting
  /\ awaiting' = FALSE
  /\ shown' = Metrics(Levels(book))
  /\ UNCHANGED <<kind, venue, connected, feed, book>>

Next ==
  \/ Move \/ Connect \/ Disconnect \/ Show
  \/ Receive("partial", Partial(Head(feed)))
  \/ Receive("listed", Listed(Head(feed)))
  \/ Receive("sorted", BidsFirst(Head(feed)))

Spec == Init /\ [][Next]_vars
-----------------------------------------------------------------------------
SideBooks == [Sides -> [levels : SUBSET Prices, known : SUBSET Prices]]

\* Every variable has its type.
TypeOK ==
  /\ kind \in {"partial", "listed", "sorted"}
  /\ {venue, shown} \subseteq [Sides -> SUBSET Prices]
  /\ connected \in BOOLEAN /\ awaiting \in BOOLEAN
  /\ Len(feed) <= MaxInFlight
  /\ \A i \in 1..Len(feed) : feed[i].whole \in BOOLEAN /\ feed[i].book \in SideBooks
  /\ book \in SideBooks

CaughtUp == connected /\ feed = <<>>

\* Whatever reconnections, cancelled handlers and trims did to it, the copy that has
\* caught up has no level that the venue does not have, and all levels of the venue
\* that are as good as the worst that the last trim kept, or the venue showed.
CopyFollows == CaughtUp => \A s \in Sides :
  /\ book[s].levels \subseteq venue[s]
  /\ venue[s] \cap book[s].known \subseteq book[s].levels

\* The best levels in the second are those of the venue, unless so many were deleted
\* since the last trim that the levels it dropped have come to the top.
TopShown ==
  LET top == [s \in Sides |-> Best(s, Depth, venue[s])] IN
  CaughtUp /\ ~awaiting /\ (\A s \in Sides : top[s] # {} /\ top[s] \subseteq book[s].known)
    => shown = top

\* The guard against crossed books has nothing to hide: between two messages no copy
\* is crossed, not even one left from an earlier connection.
NeverCrossed == ~Crossed(Levels(book))
=============================================================================
