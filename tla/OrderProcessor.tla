--------------------------- MODULE OrderProcessor ---------------------------
(***************************************************************************)
(* The rule by which a trader orders (OrderProcessor in                    *)
(* trader/trader.cpp), a function of the order book and of the two volumes *)
(* of the trade flow window.  A side of the book is a function from prices *)
(* to quantities, 0 where it has no row: OrderBookSide says that its rows  *)
(* are sorted and unique, so the top rows are those of the best prices.    *)
(***************************************************************************)
EXTENDS Integers, FiniteSetsExt, Functions

CONSTANTS
  Prices,       \* prices of levels
  DepthLevels,  \* kDepthLevels
  UintMax       \* the largest uint64_t

ASSUME OrderAssumption ==
  /\ Prices \subseteq Nat \ {0} /\ IsFiniteSet(Prices)
  /\ DepthLevels \in Nat \ {0} /\ UintMax \in Nat

Uint(n) == n % (UintMax + 1)

Books == [bid : [Prices -> Nat], ask : [Prices -> Nat]]

Levels(side) == {p \in Prices : side[p] > 0}

\* The price of GetBestBid and GetBestAsk: that of an empty row is 0.
BestBid(book) == IF Levels(book.bid) = {} THEN 0 ELSE Max(Levels(book.bid))
BestAsk(book) == IF Levels(book.ask) = {} THEN 0 ELSE Min(Levels(book.ask))

TopBids(book) ==
  {p \in Levels(book.bid) : Cardinality({q \in Levels(book.bid) : q > p}) < DepthLevels}
TopAsks(book) ==
  {p \in Levels(book.ask) : Cardinality({q \in Levels(book.ask) : q < p}) < DepthLevels}

Total(side, levels) == SumFunctionOnSet(side, levels)
SumQuantities(side, levels) == Uint(Total(side, levels))

\* Faulty: the products are swapped.
HeavySwapped(a, b) == (b = 0 /\ a > 0) \/ Uint(11 * a) > Uint(9 * b)

\* bid_heavy of (bid_sum, ask_sum) and ask_heavy of (ask_sum, bid_sum).
Heavy(a, b) == (b = 0 /\ a > 0) \/ Uint(9 * a) > Uint(11 * b)

NoQuote(book) ==
  \/ BestBid(book) = 0 \/ BestAsk(book) = 0
  \/ BestBid(book) >= BestAsk(book)

Orders == [type : {"buy", "sell"}, price : Prices]

\* A buy is at the best ask, a sell at the best bid.
Take(o, book) == o.price = IF o.type = "buy" THEN BestAsk(book) ELSE BestBid(book)

\* The order CreateOrder comes to before it looks at the last one, if any.
Wanted(book, buyVolume, sellVolume) ==
  LET bidSum == SumQuantities(book.bid, TopBids(book))
      askSum == SumQuantities(book.ask, TopAsks(book))
      buy    == Heavy(bidSum, askSum) /\ buyVolume > sellVolume
      sell   == Heavy(askSum, bidSum) /\ sellVolume > buyVolume
  IN  {o \in Orders :
         /\ ~NoQuote(book) /\ Take(o, book)
         /\ \/ o.type = "buy" /\ buy
            \/ o.type = "sell" /\ ~buy /\ sell}

-----------------------------------------------------------------------------
(* What the repository's documentation says of the rule, in exact numbers. *)

\* More than 55% of the size of both sides.
Skewed(a, b) == 100 * a > 55 * (a + b)

Documented(book, buyVolume, sellVolume) ==
  LET bids == Total(book.bid, TopBids(book))
      asks == Total(book.ask, TopAsks(book))
  IN  {o \in Orders :
         /\ ~NoQuote(book) /\ Take(o, book)
         /\ \/ o.type = "buy" /\ Skewed(bids, asks) /\ buyVolume > sellVolume
            \/ o.type = "sell" /\ Skewed(asks, bids) /\ sellVolume > buyVolume}

\* The products of the rule fit the type.
Fits(book) ==
  /\ 11 * Total(book.bid, TopBids(book)) <= UintMax
  /\ 11 * Total(book.ask, TopAsks(book)) <= UintMax
=============================================================================
