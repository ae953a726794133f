------------------------- MODULE SnapshotSaxHandler -------------------------
(***************************************************************************)
(* The handler that collects an order book snapshot from the callbacks of  *)
(* a JSON reader (SnapshotSaxHandler in lib/binance/parser.cpp), laid out  *)
(* as module DepthSaxHandler.  Unlike that one it ignores a row's odd      *)
(* string, and levels beyond the depth of the book.                        *)
(***************************************************************************)
EXTENDS Integers, Sequences

CONSTANTS
  Price(_), Quantity(_), NotADecimal,   \* see FixedDecimal
  Row0Cap,    \* kRow0Cap: characters that row0_storage_ holds
  BookDepth   \* kOrderBookDepth

VARIABLES
  snapshot,   \* the members of the handler
  accepted

SnapshotKeys == {"lastUpdateId", "bids", "asks"}
Sides        == {"bids", "asks"}

Fresh ==
  [objects |-> 0, arrays |-> 0, pending |-> "none", side |-> "none",
   done |-> {}, index |-> 0, row0 |-> <<>>,
   out |-> [lastUpdateId |-> 0, bids |-> <<>>, asks |-> <<>>]]

SnapshotInit  == snapshot = Fresh
SnapshotReset == snapshot' = [Fresh EXCEPT !.row0 = snapshot.row0]

Take(members)     == snapshot' = members /\ accepted' = TRUE
RefuseAs(members) == snapshot' = members /\ accepted' = FALSE
Refuse            == RefuseAs(snapshot)

NotPending == [snapshot EXCEPT !.pending = "none"]

\* A string that cannot be used ends the side.
SideDone == [snapshot EXCEPT !.done = @ \union {snapshot.side}, !.index = 0]

\* Faulty: the side may have one level too many.
FullLate == Len(snapshot.out[snapshot.side]) > BookDepth

Full == Len(snapshot.out[snapshot.side]) >= BookDepth

RowString(string) ==
  \/ /\ snapshot.side \in snapshot.done \/ Full
     /\ Take(snapshot)
  \/ /\ snapshot.side \notin snapshot.done /\ ~Full /\ snapshot.index = 0
     /\ Take(IF Len(string) > Row0Cap THEN SideDone
             ELSE [snapshot EXCEPT !.row0 = string, !.index = 1])
  \/ /\ snapshot.side \notin snapshot.done /\ ~Full /\ snapshot.index = 1
     /\ LET level == [price |-> Price(snapshot.row0), quantity |-> Quantity(string)]
        IN  Take(IF NotADecimal \in {level.price, level.quantity} THEN SideDone
                 ELSE [snapshot EXCEPT !.index = 0,
                                       !.out[snapshot.side] = Append(@, level)])

SnapshotString(string) ==
  \/ snapshot.arrays = 2 /\ RowString(string)
  \/ snapshot.arrays # 2 /\ Take(NotPending)

SnapshotNumber(number) ==
  Take(IF snapshot.pending = "lastUpdateId"
       THEN [NotPending EXCEPT !.out.lastUpdateId = number] ELSE NotPending)

SnapshotKey(key) ==
  IF snapshot.objects # 1 \/ snapshot.arrays # 0
  THEN Refuse
  ELSE Take([snapshot EXCEPT !.pending = IF key \in SnapshotKeys THEN key ELSE "none"])

SnapshotStartObject ==
  IF snapshot.objects > 0 THEN Refuse ELSE Take([snapshot EXCEPT !.objects = 1])

SnapshotEndObject == Take([snapshot EXCEPT !.objects = 0])

SnapshotStartArray ==
  \/ /\ snapshot.pending \in Sides
     /\ Take([NotPending EXCEPT !.side = snapshot.pending, !.arrays = @ + 1])
  \/ /\ snapshot.pending \notin Sides /\ snapshot.arrays = 1
     /\ Take([snapshot EXCEPT !.arrays = 2, !.index = 0])
  \/ /\ snapshot.pending \notin Sides /\ snapshot.arrays # 1
     /\ Refuse

SnapshotEndArray ==
  Take(IF snapshot.arrays = 2
       THEN [snapshot EXCEPT !.index = 0, !.arrays = 1]
       ELSE [snapshot EXCEPT !.side = "none", !.arrays = 0])

SnapshotRelease == snapshot.out

=============================================================================
