-------------------------- MODULE TradeSaxHandler --------------------------
(***************************************************************************)
(* The handler that collects a trade from the callbacks of a JSON reader   *)
(* (TradeSaxHandler in lib/binance/parser.cpp), laid out as module         *)
(* DepthSaxHandler.  It has no callbacks for arrays: those it inherits     *)
(* take them for granted.                                                  *)
(***************************************************************************)
EXTENDS Integers, Sequences

CONSTANTS
  Price(_), Quantity(_), NotADecimal,   \* see FixedDecimal
  Symbols     \* strings that are known symbols

VARIABLES
  trade,      \* the members of the handler
  accepted

kUnknown == <<>>
SymbolFromString(string) == IF string \in Symbols THEN string ELSE kUnknown

TradeKeys == {"e", "E", "s", "p", "q", "m"}

NoTrade == [symbol |-> kUnknown, price |-> 0, quantity |-> 0, isBuyerMaker |-> FALSE]

Fresh ==
  [objects |-> 0, pending |-> "none", validType |-> FALSE, havePrice |-> FALSE,
   haveQty |-> FALSE, haveMaker |-> FALSE, out |-> NoTrade]

TradeInit  == trade = Fresh
TradeReset == trade' = Fresh

Take(members)     == trade' = members /\ accepted' = TRUE
RefuseAs(members) == trade' = members /\ accepted' = FALSE
Refuse            == RefuseAs(trade)

NotPending == [trade EXCEPT !.pending = "none"]

TradeString(string) ==
  \/ /\ trade.pending = "e" /\ string = <<"trade">>
     /\ Take([NotPending EXCEPT !.validType = TRUE])
  \/ /\ trade.pending = "s"
     /\ Take([NotPending EXCEPT !.out.symbol = SymbolFromString(string)])
  \/ /\ trade.pending = "p" /\ Price(string) # NotADecimal
     /\ Take([NotPending EXCEPT !.out.price = Price(string), !.havePrice = TRUE])
  \/ /\ trade.pending = "q" /\ Quantity(string) # NotADecimal
     /\ Take([NotPending EXCEPT !.out.quantity = Quantity(string), !.haveQty = TRUE])
  \/ /\ \/ trade.pending = "e" /\ string # <<"trade">>
        \/ trade.pending = "p" /\ Price(string) = NotADecimal
        \/ trade.pending = "q" /\ Quantity(string) = NotADecimal
     /\ RefuseAs(NotPending)
  \/ /\ trade.pending \notin {"e", "s", "p", "q"}
     /\ Take(NotPending)

TradeBool(bool) ==
  IF trade.pending = "m"
  THEN Take([NotPending EXCEPT !.out.isBuyerMaker = bool, !.haveMaker = TRUE])
  ELSE Take(NotPending)

\* The time of the event, or a number nobody asked for.
TradeNumber == Take(NotPending)

TradeKey(key) ==
  IF trade.objects # 1
  THEN Refuse
  ELSE Take([trade EXCEPT !.pending = IF key \in TradeKeys THEN key ELSE "none"])

TradeStartObject ==
  IF trade.objects > 0 THEN Refuse ELSE Take([trade EXCEPT !.objects = 1])

TradeEndObject ==
  IF trade.validType /\ trade.havePrice /\ trade.haveQty /\ trade.haveMaker
  THEN Take([trade EXCEPT !.objects = 0])
  ELSE RefuseAs([trade EXCEPT !.objects = 0])

TradeArray == Take(trade)

TradeRelease == trade.out

=============================================================================
