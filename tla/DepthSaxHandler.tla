-------------------------- MODULE DepthSaxHandler --------------------------
(***************************************************************************)
(* The handler that collects the levels of a depth event from the          *)
(* callbacks of a JSON reader (DepthSaxHandler in lib/binance/parser.cpp). *)
(* One action per callback; accepted' is what the callback returns, and    *)
(* the reader stops at the first FALSE.                                    *)
(*                                                                         *)
(* The reader sees to it that objects and arrays nest, so the checks for   *)
(* an end without a beginning are left out.                                *)
(***************************************************************************)
EXTENDS Integers, Sequences

CONSTANTS
  Price(_), Quantity(_), NotADecimal,   \* see FixedDecimal
  Row0Cap,    \* kRow0Cap: characters that row0_storage_ holds
  MaxLevels,  \* kMaxDepthLevelsPerSide
  Symbols     \* strings that are known symbols

VARIABLES
  depth,      \* the members of the handler
  accepted

kUnknown == <<>>
SymbolFromString(string) == IF string \in Symbols THEN string ELSE kUnknown

DepthKeys == {"e", "E", "s", "U", "u", "b", "a"}

DepthInit ==
  depth = [objects |-> 0, arrays |-> 0, pending |-> "none", validType |-> FALSE,
           first |-> 0, last |-> 0, symbol |-> kUnknown,
           isBid |-> FALSE, stop |-> FALSE, index |-> 0, row0 |-> <<>>,
           bids |-> <<>>, asks |-> <<>>]

\* Faulty: the levels of the last message stay.
DepthResetNotLevels ==
  depth' = [depth EXCEPT !.objects = 0, !.arrays = 0, !.pending = "none",
              !.validType = FALSE, !.first = 0, !.last = 0, !.symbol = kUnknown,
              !.isBid = FALSE, !.stop = FALSE, !.index = 0]

DepthReset ==
  depth' = [depth EXCEPT !.objects = 0, !.arrays = 0, !.pending = "none",
              !.validType = FALSE, !.first = 0, !.last = 0, !.symbol = kUnknown,
              !.isBid = FALSE, !.stop = FALSE, !.index = 0, !.bids = <<>>, !.asks = <<>>]

Take(members)     == depth' = members /\ accepted' = TRUE
RefuseAs(members) == depth' = members /\ accepted' = FALSE
Refuse            == RefuseAs(depth)

NotPending == [depth EXCEPT !.pending = "none"]

\* The second string of a row: a level, unless one of the two is no decimal.
RowEnd(string) ==
  LET row   == [depth EXCEPT !.index = 0]
      level == [price |-> Price(depth.row0), quantity |-> Quantity(string)]
  IN  IF NotADecimal \in {level.price, level.quantity}
      THEN Take([row EXCEPT !.stop = TRUE])
      ELSE IF Len(IF depth.isBid THEN depth.bids ELSE depth.asks) >= MaxLevels
      THEN Refuse
      ELSE Take(IF depth.isBid THEN [row EXCEPT !.bids = Append(@, level)]
                               ELSE [row EXCEPT !.asks = Append(@, level)])

RowString(string) ==
  \/ /\ depth.stop
     /\ Take(depth)
  \/ /\ ~depth.stop /\ depth.index = 0
     /\ Take(IF Len(string) > Row0Cap THEN [depth EXCEPT !.stop = TRUE]
             ELSE [depth EXCEPT !.row0 = string, !.index = 1])
  \/ /\ ~depth.stop /\ depth.index = 1
     /\ RowEnd(string)

FieldString(string) ==
  \/ /\ depth.pending = "e" /\ string = <<"depthUpdate">>
     /\ Take([NotPending EXCEPT !.validType = TRUE])
  \/ /\ depth.pending = "e" /\ string # <<"depthUpdate">>
     /\ RefuseAs(NotPending)
  \/ /\ depth.pending = "s"
     /\ Take([NotPending EXCEPT !.symbol = SymbolFromString(string)])
  \/ /\ depth.pending \notin {"e", "s"}
     /\ Take(NotPending)

DepthString(string) ==
  \/ depth.arrays = 2 /\ RowString(string)
  \/ depth.arrays # 2 /\ FieldString(string)

DepthNumber(number) ==
  Take(IF depth.pending = "U" THEN [NotPending EXCEPT !.first = number]
       ELSE IF depth.pending = "u" THEN [NotPending EXCEPT !.last = number]
       ELSE NotPending)

DepthKey(key) ==
  IF depth.objects # 1 \/ depth.arrays # 0
  THEN Refuse
  ELSE Take([depth EXCEPT !.pending = IF key \in DepthKeys THEN key ELSE "none"])

DepthStartObject ==
  IF depth.objects > 0 THEN Refuse ELSE Take([depth EXCEPT !.objects = 1])

DepthEndObject ==
  IF depth.validType THEN Take([depth EXCEPT !.objects = 0])
                     ELSE RefuseAs([depth EXCEPT !.objects = 0])

DepthStartArray ==
  \/ /\ depth.arrays = 0 /\ depth.pending \in {"b", "a"}
     /\ Take([NotPending EXCEPT !.isBid = (depth.pending = "b"), !.stop = FALSE, !.arrays = 1])
  \/ /\ depth.arrays = 0 /\ depth.pending \notin {"b", "a"}
     /\ Refuse
  \/ /\ depth.arrays = 1
     /\ Take([depth EXCEPT !.arrays = 2, !.index = 0])
  \/ /\ depth.arrays = 2
     /\ Refuse

\* A row with an odd number of strings ends the side.
DepthEndArray ==
  \/ /\ depth.arrays = 2
     /\ Take([depth EXCEPT !.stop = @ \/ depth.index # 0, !.index = 0, !.arrays = 1])
  \/ /\ depth.arrays = 1
     /\ Take([depth EXCEPT !.arrays = 0])

\* The rows that are called back, bids first; every one but the last of the
\* event has more behind it.
DepthRelease ==
  LET levels == depth.bids \o depth.asks
  IN  [i \in DOMAIN levels |->
         [isBid |-> i <= Len(depth.bids), level |-> levels[i], symbol |-> depth.symbol,
          first |-> depth.first, last |-> depth.last, hasMore |-> i < Len(levels)]]

=============================================================================
