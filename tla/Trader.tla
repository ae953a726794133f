------------------------------- MODULE Trader -------------------------------
(***************************************************************************)
(* From a message to an order and its latency: the feeder's callbacks, the *)
(* turn of RunTrader with ProcessUpdate, ProcessTrade and CreateOrder, and *)
(* the executor's read of the order.  The three processes run at their own *)
(* pace and stamp what they pass on with the steady clock they share.      *)
(*                                                                         *)
(* The rings are queues, as LossyChannel says they are for an enabled      *)
(* consumer; that one is disabled, that a heartbeat is old or that a       *)
(* snapshot fails is Exit.  ApplyUpdate takes any of its three branches:   *)
(* OrderBookSync says which.  The window loses its oldest trades by age;   *)
(* TradeFlowWindow has its ring and its sums.                              *)
(***************************************************************************)
EXTENDS OrderProcessor, Sequences

CONSTANTS
  Messages,     \* what the parser calls back for a message, one item after another
  Snapshots,    \* books a REST request may bring
  WindowUs,     \* the length of the trade flow window
  MaxClock,     \* bound: ticks of the steady clock
  MaxMessages   \* bound: messages the feeder reads

\* An item is a row of an order book update or a trade.
Items == [kind : {"row", "trade"}, hasMore : BOOLEAN, side : {"bid", "ask"}, price : Nat,
          quantity : Nat, ts : Nat, isBuyerMaker : BOOLEAN]

\* The rows of an event have has_more but for the last one, a trade is alone.
ASSUME TraderAssumption ==
  /\ MaxClock \in Nat /\ MaxMessages \in Nat /\ WindowUs \in Nat
  /\ Snapshots \subseteq Books
  /\ \A m \in Messages :
       /\ m \in Seq(Items) /\ m # <<>>
       /\ \A i \in 1 .. Len(m) : m[i].hasMore = (i < Len(m)) /\ m[i].kind = m[1].kind

VARIABLES
  clock,                 \* SteadyNanoseconds
  outbox, feederRead,    \* items to call back, and when their message was read
  received,              \* bound on messages
  bookRing, tradeRing,   \* the market data rings
  pc,                    \* "book", "trade", "order" of a turn, or "down"
  hasMore,               \* of the row last read
  book, window,          \* the order book and the trades in the flow window
  stamps,                \* TimestampHandler
  lastOrder,             \* last_order_
  orderRing, sample,     \* the order ring, and the executor's latency sample
  news,                  \* history: something was read since CreateOrder
  owed                   \* history: so was the last row of an event

feeder   == <<outbox, feederRead, received>>
trader   == <<pc, hasMore, book, window, stamps, lastOrder, news, owed>>
vars     == <<clock, feeder, bookRing, tradeRing, trader, orderRing, sample>>

NoStamps == [read |-> 0, write |-> 0, traderRead |-> 0]
NoSample == [total |-> 0, feeder |-> 0, mdQueue |-> 0, trader |-> 0, orderQueue |-> 0]
NoLevels == [p \in Prices |-> 0]

Init ==
  /\ clock = 1
  /\ outbox = <<>> /\ feederRead = 0 /\ received = 0
  /\ bookRing = <<>> /\ tradeRing = <<>>
  /\ pc = "book" /\ hasMore = FALSE
  /\ book = [bid |-> NoLevels, ask |-> NoLevels] /\ window = <<>>
  /\ stamps = NoStamps /\ lastOrder = [type |-> "buy", price |-> 0]
  /\ orderRing = <<>> /\ sample = NoSample
  /\ news = FALSE /\ owed = FALSE

Tick ==
  /\ clock < MaxClock /\ clock' = clock + 1
  /\ UNCHANGED <<feeder, bookRing, tradeRing, trader, orderRing, sample>>

-----------------------------------------------------------------------------
\* The feeder.

ReadMessage ==
  /\ outbox = <<>> /\ received < MaxMessages
  /\ feederRead' = clock /\ received' = received + 1
  /\ \E m \in Messages : outbox' = m
  /\ UNCHANGED <<clock, bookRing, tradeRing, trader, orderRing, sample>>

\* order_book_update_callback or trade_callback.
Callback ==
  LET stamped == [item |-> Head(outbox), read |-> feederRead, write |-> clock]
  IN  /\ outbox # <<>> /\ outbox' = Tail(outbox)
      /\ \/ /\ stamped.item.kind = "row"
            /\ bookRing' = Append(bookRing, stamped) /\ UNCHANGED tradeRing
         \/ /\ stamped.item.kind = "trade"
            /\ tradeRing' = Append(tradeRing, stamped) /\ UNCHANGED bookRing
      /\ UNCHANGED <<clock, feederRead, received, trader, orderRing, sample>>

-----------------------------------------------------------------------------
\* The trader.

Larger(a, b) == IF a < b THEN b ELSE a

\* Faulty: the stamps are those of what was read last.
UpdateStampsLast(s) ==
  stamps' = [read |-> Larger(stamps.read, s.read), write |-> s.write, traderRead |-> clock]

\* TimestampHandler::Update
UpdateStamps(s) ==
  stamps' = [read |-> Larger(stamps.read, s.read), write |-> Larger(stamps.write, s.write),
             traderRead |-> clock]

\* A snapshot, a row that is too old, or a row that is applied.
ApplyUpdate(row) ==
  \/ book' \in Snapshots
  \/ UNCHANGED book
  \/ book' = [book EXCEPT ![row.side][row.price] = row.quantity]

\* Faulty: ProcessUpdate goes on until the ring is empty.
NextAfterDrain(row) == "book"

\* The loop of ProcessUpdate goes on while the row has more of its event.
NextAfter(row) == IF row.hasMore THEN "book" ELSE "trade"

\* One turn of the loop of ProcessUpdate that reads a row.
ReadRow ==
  /\ pc = "book" /\ bookRing # <<>>
  /\ LET s == Head(bookRing)
     IN  /\ UpdateStamps(s) /\ ApplyUpdate(s.item)
         /\ hasMore' = s.item.hasMore /\ pc' = NextAfter(s.item)
         /\ owed' = ~s.item.hasMore
  /\ bookRing' = Tail(bookRing) /\ news' = TRUE
  /\ UNCHANGED <<clock, feeder, tradeRing, window, lastOrder, orderRing, sample>>

\* ... and one that finds the ring empty, in the middle of an event or not.
ReadNoRow ==
  /\ pc = "book" /\ bookRing = <<>> /\ pc' = "trade"
  /\ UNCHANGED <<clock, feeder, bookRing, tradeRing, hasMore, book, window, stamps,
                 lastOrder, news, owed, orderRing, sample>>

\* The trades of a window that OnTrade keeps.
Recent(ts) ==
  LET kept == {n \in 1 .. Len(window) : window[n].ts + WindowUs >= ts}
  IN  IF kept = {} THEN <<>> ELSE SubSeq(window, Min(kept), Len(window))

\* ProcessTrade reads one trade, if there is one.
ProcessTrade ==
  /\ pc = "trade" /\ pc' = "order"
  /\ \/ /\ tradeRing # <<>> /\ tradeRing' = Tail(tradeRing)
        /\ LET s == Head(tradeRing)
           IN  /\ UpdateStamps(s)
               /\ window' = Append(Recent(s.item.ts), s.item)
        /\ news' = TRUE
     \/ tradeRing = <<>> /\ UNCHANGED <<tradeRing, stamps, window, news>>
  /\ UNCHANGED <<clock, feeder, bookRing, hasMore, book, lastOrder, owed, orderRing, sample>>

Volume(trades, isBuyerMaker) ==
  MapThenSumSet(LAMBDA n : trades[n].quantity,
                {n \in 1 .. Len(trades) : trades[n].isBuyerMaker = isBuyerMaker})
AggressiveBuyVolume  == Volume(window, FALSE)
AggressiveSellVolume == Volume(window, TRUE)

\* Faulty: the last order is not kept.
OrderForgotten(o) ==
  /\ orderRing' = Append(orderRing, [order |-> o, stamps |-> stamps, traderWrite |-> clock])
  /\ UNCHANGED lastOrder

\* The last order is noted, the stamps are set and the order is written.
Order(o) ==
  /\ orderRing' = Append(orderRing, [order |-> o, stamps |-> stamps, traderWrite |-> clock])
  /\ lastOrder' = o

New == Wanted(book, AggressiveBuyVolume, AggressiveSellVolume) \ {lastOrder}

\* CreateOrder, and the end of the turn.
CreateOrder ==
  /\ pc = "order" /\ pc' = "book"
  /\ \/ \E o \in New : Order(o)
     \/ New = {} /\ UNCHANGED <<lastOrder, orderRing>>
  /\ news' = FALSE /\ owed' = FALSE
  /\ UNCHANGED <<clock, feeder, bookRing, tradeRing, hasMore, book, window, stamps, sample>>

\* A turn ends in an exit: the feeder is dead, a consumer is disabled, or a
\* snapshot could not be fetched or parsed.
Exit ==
  /\ pc \in {"book", "trade"} /\ pc' = "down"
  /\ UNCHANGED <<clock, feeder, bookRing, tradeRing, hasMore, book, window, stamps,
                 lastOrder, news, owed, orderRing, sample>>

-----------------------------------------------------------------------------
\* The executor.

MonotonicDelta(end, begin) == IF begin = 0 \/ end < begin THEN 0 ELSE end - begin

\* An order is read and its latency sampled.
ReadOrder ==
  /\ orderRing # <<>> /\ orderRing' = Tail(orderRing)
  /\ LET o == Head(orderRing)
         s == o.stamps
     IN  sample' = [total      |-> MonotonicDelta(clock, s.read),
                    feeder     |-> MonotonicDelta(s.write, s.read),
                    mdQueue    |-> MonotonicDelta(s.traderRead, s.write),
                    trader     |-> MonotonicDelta(o.traderWrite, s.traderRead),
                    orderQueue |-> MonotonicDelta(clock, o.traderWrite)]
  /\ UNCHANGED <<clock, feeder, bookRing, tradeRing, trader>>

Next ==
  \/ Tick \/ ReadMessage \/ Callback
  \/ ReadRow \/ ReadNoRow \/ ProcessTrade \/ CreateOrder \/ Exit
  \/ ReadOrder

Spec == Init /\ [][Next]_vars

-----------------------------------------------------------------------------
(* The inductive invariant.                                                *)

Stamped == [item : Items, read : Nat, write : Nat]
Stamps  == [read : Nat, write : Nat, traderRead : Nat]
Sent    == [order : Orders, stamps : Stamps, traderWrite : Nat]

TypeOK ==
  /\ clock \in Nat \ {0} /\ outbox \in Seq(Items) /\ feederRead \in Nat /\ received \in Nat
  /\ bookRing \in Seq(Stamped) /\ tradeRing \in Seq(Stamped)
  /\ pc \in {"book", "trade", "order", "down"}
  /\ hasMore \in BOOLEAN /\ news \in BOOLEAN /\ owed \in BOOLEAN
  /\ book \in Books /\ stamps \in Stamps
  /\ orderRing \in Seq(Sent)

\* No stamp is later than the next one's, on any ring or in any hand.
StampsInOrder ==
  /\ feederRead <= clock /\ (outbox # <<>> => 0 < feederRead)
  /\ \A ring \in {bookRing, tradeRing} : \A i \in 1 .. Len(ring) :
       0 < ring[i].read /\ ring[i].read <= ring[i].write /\ ring[i].write <= clock
  /\ stamps.read <= stamps.write /\ stamps.write <= stamps.traderRead
  /\ stamps.traderRead <= clock /\ (news => 0 < stamps.read)
  /\ \A i \in 1 .. Len(orderRing) :
       LET o == orderRing[i]
       IN  /\ 0 < o.stamps.read /\ o.stamps.read <= o.stamps.write
           /\ o.stamps.write <= o.stamps.traderRead
           /\ o.stamps.traderRead <= o.traderWrite /\ o.traderWrite <= clock

\* Without news there is nothing to order that was not ordered last.
Settled == ~news => New = {}

\* The rows of an event follow each other on the ring and to the ring.
EventsWhole ==
  /\ \A i \in 1 .. Len(outbox) :
       outbox[i].hasMore = (i < Len(outbox)) /\ outbox[i].kind = outbox[1].kind
  /\ (IF bookRing = <<>> THEN hasMore ELSE bookRing[Len(bookRing)].item.hasMore)
       => outbox # <<>> /\ outbox[1].kind = "row"
  /\ owed => pc # "book"

IInv == TypeOK /\ StampsInOrder /\ Settled /\ EventsWhole

-----------------------------------------------------------------------------
(* Properties.                                                             *)

\* The four parts of a latency sample add up to its total, whatever was read from
\* which ring in which order: no stamp of an order is later than the next one's.
PartsAddUp ==
  sample.total = sample.feeder + sample.mdQueue + sample.trader + sample.orderQueue

\* An order is only ever written in a turn that read a row or a trade, though every
\* turn decides anew and nothing but the comparison with the last order keeps an idle
\* trader from writing orders at the pace of its loop.
OnlyOnNews == [][Len(orderRing') > Len(orderRing) => news]_vars

\* As long as no product wraps around, what CreateOrder writes is what the README says
\* the strategy orders, and what it leaves out is what was ordered last.
OrdersAsDocumented ==
  [][pc = "order" /\ Fits(book) =>
       LET due == Documented(book, AggressiveBuyVolume, AggressiveSellVolume) \ {lastOrder}
       IN  IF due = {} THEN orderRing' = orderRing ELSE lastOrder' \in due]_pc

\* Every event is decided on when it has been read whole, before the next one's rows are
\* read, and it is left half read only while the feeder has yet to write the rest.
EventsDecided ==
  [][/\ Len(bookRing') < Len(bookRing) => ~owed
     /\ pc = "book" /\ pc' = "trade" /\ hasMore' => outbox # <<>> /\ Head(outbox).kind = "row"]_vars
=============================================================================
