------------------------------ MODULE MCTrader ------------------------------
\* Model checking of Trader: a market with bids at price 1 and asks at prices 2
\* and 3 or, when a bid is still to be removed, at price 1.
EXTENDS Trader

Row(s, p, q, more) ==
  [kind |-> "row", hasMore |-> more, side |-> s, price |-> p, quantity |-> q,
   ts |-> 0, isBuyerMaker |-> FALSE]
TradeOf(t, maker, q) ==
  [kind |-> "trade", hasMore |-> FALSE, side |-> "bid", price |-> 0, quantity |-> q,
   ts |-> t, isBuyerMaker |-> maker]

MCMessages ==
  { << Row("bid", 1, 5, FALSE) >>, << Row("bid", 1, 0, TRUE), Row("ask", 2, 6, FALSE) >>,
    << Row("ask", 1, 4, FALSE) >>, << TradeOf(1, FALSE, 1) >>, << TradeOf(1, TRUE, 2) >>,
    << TradeOf(3, FALSE, 1) >> }

MCSnapshots ==
  { [bid |-> [p \in Prices |-> IF p = 1 THEN b ELSE 0],
     ask |-> [p \in Prices |-> CASE p = 1 -> 0 [] p = 2 -> a [] p = 3 -> 6]] : b \in {0, 5}, a \in {4, 5} }
=============================================================================
