--------------------------- MODULE OrderBookSync ---------------------------
(***************************************************************************)
(* How the trader keeps its order book that of the exchange                *)
(* (OrderBookProcessor in trader/trader.cpp).  The exchange numbers the    *)
(* changes of its book and publishes events, each with the levels changed  *)
(* from a first to a last number.  The feeder parses an event and writes   *)
(* its levels as rows, one by one, into the ring of order book updates; an *)
(* event it cannot parse is lost.  The trader applies the rows to its      *)
(* book, and when numbers are missing it fetches a snapshot over REST.     *)
(*                                                                         *)
(* The ring is the queue that LossyChannel says it is; the two sides of    *)
(* the book are instances of OrderBookSide, as OrderBook_ has them.        *)
(***************************************************************************)
EXTENDS Integers, Sequences, FiniteSets

CONSTANTS
  Depth,        \* levels a side keeps
  Prices,       \* prices of levels
  Quantities,   \* quantities of levels, 0 for none
  RingLength,   \* rows the ring holds
  MaxStale,     \* changes a snapshot may be behind the exchange when requested
  MaxChanges,   \* bound: changes of the exchange's book
  MaxLost,      \* bound: events lost
  MaxRestarts   \* bound: restarts of the trader

ASSUME SyncAssumption ==
  /\ Depth \in Nat \ {0} /\ RingLength \in Nat \ {0}
  /\ Prices \subseteq Nat \ {0} /\ IsFiniteSet(Prices)
  /\ Quantities \subseteq Nat /\ 0 \in Quantities
  /\ {MaxStale, MaxChanges, MaxLost, MaxRestarts} \subseteq Nat

VARIABLES
  ledger,        \* the exchange's books, after change 1, 2, ...
  published,     \* the last change in an event
  lastLost,      \* the last change of the last event lost, 0 for none
  outbox,        \* rows the feeder is about to write
  ring, enabled, \* rows not read yet, and the consumer is enabled
  pc,            \* "read", "snapshot" while a request is under way, "down"
  row, since,    \* the row that made the trader request, and ledger's length then
  bidPrice, bidQuantity, bidCount, askPrice, askQuantity, askCount,
  lastUpdateId,  \* last_update_id_ of the book
  partial,       \* the row last read has more of its event behind it
  missed,        \* history: levels of rows that were not applied, though the
                 \* snapshot in the book is older than their event
  stale,         \* history: the snapshot was older than the row that asked for it,
                 \* and no row was applied since
  lost, restarts \* counters for the bounds

exchange == <<ledger, published, lastLost, lost>>
channel  == <<outbox, ring, enabled>>
book     == <<bidPrice, bidQuantity, bidCount, askPrice, askQuantity, askCount>>
trader   == <<pc, row, since, book, lastUpdateId, partial, missed, stale,
              restarts>>
vars     == <<exchange, channel, trader>>

Bids == INSTANCE OrderBookSide WITH
          Ascending <- FALSE, price <- bidPrice, quantity <- bidQuantity, count <- bidCount
Asks == INSTANCE OrderBookSide WITH
          Ascending <- TRUE, price <- askPrice, quantity <- askQuantity, count <- askCount

Levels   == {"bid", "ask"} \X Prices
Now      == Len(ledger)
LocalBook(l) == IF l[1] = "bid" THEN Bids!QuantityAt(l[2]) ELSE Asks!QuantityAt(l[2])

NoRow == [level |-> <<"bid", 0>>, quantity |-> 0, first |-> 0, last |-> 0, hasMore |-> FALSE]

\* The trader has started: OrderBookProcessor is new and the ring was reset.
\* The exchange has a book, with a number of which the next is not 1.
Init ==
  /\ \E initial \in [Levels -> Quantities] : ledger = <<initial>>
  /\ published = 1 /\ lastLost = 0 /\ lost = 0
  /\ outbox = <<>> /\ ring = <<>> /\ enabled = TRUE
  /\ pc = "read" /\ row = NoRow /\ since = 0
  /\ Bids!Empty /\ Asks!Empty /\ lastUpdateId = 0
  /\ partial = FALSE /\ missed = {} /\ stale = FALSE /\ restarts = 0

-----------------------------------------------------------------------------
\* The exchange and the feeder.

Change(l, q) ==
  /\ Now <= MaxChanges /\ ledger[Now][l] # q
  /\ ledger' = Append(ledger, [ledger[Now] EXCEPT ![l] = q])
  /\ UNCHANGED <<published, lastLost, lost, channel, trader>>

\* The levels changed since the last event.
Changed == {l \in Levels : \E id \in published + 1 .. Now : ledger[id][l] # ledger[id - 1][l]}

\* The sequences of these levels, bids first.
Orders(S) ==
  {s \in [1 .. Cardinality(S) -> S] :
     \A i, j \in 1 .. Cardinality(S) :
       i < j => s[i] # s[j] /\ ~(s[i][1] = "ask" /\ s[j][1] = "bid")}

\* An event is published and parsed: the rows DepthHandler::Release calls back.
Publish ==
  /\ published < Now /\ outbox = <<>>
  /\ \E order \in Orders(Changed) :
       outbox' = [i \in 1 .. Len(order) |->
                    [level |-> order[i], quantity |-> ledger[Now][order[i]],
                     first |-> published + 1, last |-> Now, hasMore |-> i < Len(order)]]
  /\ published' = Now
  /\ UNCHANGED <<ledger, lastLost, lost, ring, enabled, trader>>

\* An event is published and cannot be parsed.
Lose ==
  /\ published < Now /\ outbox = <<>> /\ lost < MaxLost
  /\ published' = Now /\ lastLost' = Now /\ lost' = lost + 1
  /\ UNCHANGED <<ledger, channel, trader>>

\* order_book_update_callback writes a row; a full ring disables the trader.
WriteRow ==
  /\ outbox # <<>> /\ outbox' = Tail(outbox)
  /\ \/ enabled /\ Len(ring) < RingLength
        /\ ring' = Append(ring, Head(outbox)) /\ UNCHANGED enabled
     \/ enabled /\ Len(ring) >= RingLength
        /\ enabled' = FALSE /\ UNCHANGED ring
     \/ ~enabled /\ UNCHANGED <<ring, enabled>>
  /\ UNCHANGED <<exchange, trader>>

-----------------------------------------------------------------------------
\* The trader.

\* Faulty: the next number after the book's is taken for a gap.
GapAtNext(r) == r.first > lastUpdateId

Gap(r) == r.first > lastUpdateId + 1

\* Faulty: the rows of an event after the first are too old.
TooOldIfEqual(r) == r.last <= lastUpdateId

\* Faulty: an event that the snapshot has a part of is too old.
TooOldIfOverlap(r) == r.first <= lastUpdateId

TooOld(r) == r.last < lastUpdateId

\* UpdateBid and UpdateAsk of the book.
ApplyToBook(r) ==
  /\ lastUpdateId' = r.last
  /\ \/ /\ r.level[1] = "bid" /\ Bids!Update(r.level[2], r.quantity)
        /\ UNCHANGED <<askPrice, askQuantity, askCount>>
     \/ /\ r.level[1] = "ask" /\ Asks!Update(r.level[2], r.quantity)
        /\ UNCHANGED <<bidPrice, bidQuantity, bidCount>>

\* One turn of the loop of ProcessUpdate, ApplyUpdate included.  A loop that
\* ends at an empty ring is begun again in the next turn of RunTrader's.
ReadRow ==
  /\ pc = "read" /\ enabled /\ ring # <<>>
  /\ ring' = Tail(ring) /\ partial' = Head(ring).hasMore
  /\ LET r == Head(ring) IN
       \/ /\ Gap(r)
          /\ pc' = "snapshot" /\ row' = r /\ since' = Now
          /\ UNCHANGED <<book, lastUpdateId, missed, stale>>
       \/ /\ ~Gap(r) /\ TooOld(r)
          /\ UNCHANGED <<pc, row, since, book, lastUpdateId, missed, stale>>
       \/ /\ ~Gap(r) /\ ~TooOld(r)
          /\ ApplyToBook(r) /\ missed' = missed \ {r.level} /\ stale' = FALSE
          /\ UNCHANGED <<pc, row, since>>
  /\ UNCHANGED <<exchange, outbox, enabled, restarts>>

\* The prices of a side in the order of its rows.
Listed(S, ascending) ==
  [i \in 1 .. Cardinality(S) |->
     CHOOSE p \in S : Cardinality({o \in S : IF ascending THEN o < p ELSE o > p}) = i - 1]

LoadBook(snapshot) ==
  LET bids == Listed({p \in Prices : snapshot[<<"bid", p>>] # 0}, FALSE)
      asks == Listed({p \in Prices : snapshot[<<"ask", p>>] # 0}, TRUE)
  IN  /\ Bids!Load(bids, [i \in DOMAIN bids |-> snapshot[<<"bid", bids[i]>>]], Len(bids))
      /\ Asks!Load(asks, [i \in DOMAIN asks |-> snapshot[<<"ask", asks[i]>>]], Len(asks))

\* The rows that are yet to be read.
Coming == ring \o outbox

\* Levels whose row of an event, the one with this last change, is yet to be read.
ToCome(last) == {Coming[i].level : i \in {j \in DOMAIN Coming : Coming[j].last = last}}

\* ResetSnapshot gets its answer, the exchange's book after change id.  The row
\* that made the trader ask is done with, whether the snapshot has it or not.
SnapshotArrives(id) ==
  /\ pc = "snapshot" /\ pc' = "read"
  /\ id >= since - MaxStale /\ id >= 1
  /\ LoadBook(ledger[id]) /\ lastUpdateId' = id
  /\ missed' = {l \in Levels \ ToCome(row.last) :
                  id \in row.first - 1 .. row.last - 1 /\ ledger[row.last][l] # ledger[id][l]}
  /\ stale' = (row.last > id)
  /\ row' = NoRow /\ since' = 0
  /\ UNCHANGED <<exchange, channel, partial, restarts>>

\* The trader ends: it reads that it is disabled, a snapshot cannot be got or
\* parsed, or it crashes.
Exit ==
  /\ pc \in {"read", "snapshot"} /\ pc' = "down" /\ restarts < MaxRestarts
  /\ row' = NoRow /\ since' = 0
  /\ UNCHANGED <<exchange, channel, book, lastUpdateId, partial, missed, stale,
                 restarts>>

\* A new trader resets its end of the ring.
Restart ==
  /\ pc = "down" /\ pc' = "read" /\ restarts' = restarts + 1
  /\ ring' = <<>> /\ enabled' = TRUE
  /\ bidPrice' = [i \in Bids!Slots |-> 0] /\ bidQuantity' = bidPrice' /\ bidCount' = 0
  /\ askPrice' = [i \in Asks!Slots |-> 0] /\ askQuantity' = askPrice' /\ askCount' = 0
  /\ lastUpdateId' = 0 /\ partial' = FALSE /\ missed' = {} /\ stale' = FALSE
  /\ UNCHANGED <<exchange, outbox, row, since>>

Next ==
  \/ \E l \in Levels, q \in Quantities : Change(l, q)
  \/ Publish \/ Lose \/ WriteRow \/ ReadRow
  \/ \E id \in DOMAIN ledger : SnapshotArrives(id)
  \/ Exit \/ Restart

Spec == Init /\ [][Next]_vars

-----------------------------------------------------------------------------
TypeOK ==
  /\ published \in 1 .. Now /\ lastLost \in 0 .. published
  /\ Len(ring) <= RingLength /\ enabled \in BOOLEAN
  /\ pc \in {"read", "snapshot", "down"}
  /\ lastUpdateId \in 0 .. Now /\ partial \in BOOLEAN /\ missed \subseteq Levels
  /\ bidCount \in 0 .. Depth /\ askCount \in 0 .. Depth
  /\ Bids!Sorted /\ Asks!Sorted

\* The book has been loaded and no event is applied in part.
Settled == pc = "read" /\ ~partial /\ lastUpdateId > 0

\* Between two events, the book is the exchange's after change lastUpdateId:
\* last_update_id maintains consistency.  The code breaks it when a snapshot
\* is older than the row that made the trader ask for it.
BookConsistent ==
  Settled => \A l \in Levels : LocalBook(l) = ledger[lastUpdateId][l]

\* The book has this quantity at the level, or none for want of slots: a side
\* that is too small for all prices drops its worst.
Shows(l, q) == LocalBook(l) = q \/ (LocalBook(l) = 0 /\ Cardinality(Prices) > Depth)

\* However old the snapshots, all that can be wrong in the book are levels of
\* rows that went by while the trader asked for a snapshot, or restarted, in the
\* middle of their event, the snapshot being of before the event's end.  With
\* snapshots that are recent enough there are none: the book is the exchange's.
\* (And at any time the variables are in their types and both sides sorted.)
ConsistentButForMissed ==
  /\ TypeOK
  /\ Settled => \A l \in Levels \ missed : Shows(l, ledger[lastUpdateId][l])

\* When every row was read, the book has what the last event told.
CaughtUp ==
  Settled /\ ~stale /\ outbox = <<>> /\ ring = <<>> /\ enabled /\ published # lastLost =>
    lastUpdateId >= published

\* A snapshot is only requested for a new book, or when an event after the
\* book's last change was lost, or once more right after a snapshot that was too
\* old, before any row was applied to it: reading on never makes a trader ask.
SnapshotOnlyForGap ==
  [][pc = "read" /\ pc' = "snapshot" =>
       lastUpdateId = 0 \/ lastLost > lastUpdateId \/ stale]_vars

=============================================================================
