--------------------------- MODULE OrderBookSide ---------------------------
(***************************************************************************)
(* One side of the local order book (lib/local_order_book.hpp): an array   *)
(* of at most Depth rows, sorted from the best price to the worst.  The    *)
(* array is the pair of functions price and quantity, of which the first   *)
(* count values are the rows; what lies beyond is left over.               *)
(***************************************************************************)
EXTENDS Integers

CONSTANTS
  Depth,      \* capacity of the array
  Ascending   \* the side of asks, whose best price is the lowest

ASSUME SideAssumption == Depth \in Nat \ {0} /\ Ascending \in BOOLEAN

VARIABLES price, quantity, count

side == <<price, quantity, count>>

Slots == 0 .. Depth - 1
Rows  == 0 .. count - 1

\* The rows are sorted by this relation.
Before(p, q) == IF Ascending THEN p < q ELSE p > q

Empty == price = [i \in Slots |-> 0] /\ quantity = [i \in Slots |-> 0] /\ count = 0

\* Init: the rows are the first levels of a snapshot, of which there are n.
Load(prices, quantities, n) ==
  /\ count' = IF n > Depth THEN Depth ELSE n
  /\ price'    = [i \in Slots |-> IF i < count' THEN prices[i + 1] ELSE price[i]]
  /\ quantity' = [i \in Slots |-> IF i < count' THEN quantities[i + 1] ELSE quantity[i]]

\* What std::lower_bound returns of sorted rows.
LowerBound(p) ==
  CHOOSE pos \in 0 .. count : \A i \in Rows : Before(price[i], p) <=> i < pos

Found(p, pos) == pos < count /\ price[pos] = p

\* The array with rows pos .. last - 1 moved up by one slot and x in slot pos.
Inserted(array, pos, last, x) ==
  [i \in Slots |-> IF i = pos THEN x
                   ELSE IF pos < i /\ i <= last THEN array[i - 1] ELSE array[i]]

\* The array with the rows from pos + 1 moved down by one slot.
Removed(array, pos) ==
  [i \in Slots |-> IF pos <= i /\ i < count - 1 THEN array[i + 1] ELSE array[i]]

RemoveAt(pos) ==
  /\ price' = Removed(price, pos) /\ quantity' = Removed(quantity, pos)
  /\ count' = count - 1

\* Faulty: the rows behind the new one are overwritten, not moved.
InsertAtOverwriting(pos, p, q) ==
  /\ pos < Depth
  /\ price' = [price EXCEPT ![pos] = p] /\ quantity' = [quantity EXCEPT ![pos] = q]
  /\ count' = IF count < Depth THEN count + 1 ELSE count

\* A full side loses its last row, or does not take the new one.
InsertAt(pos, p, q) ==
  \/ /\ count < Depth
     /\ price' = Inserted(price, pos, count, p)
     /\ quantity' = Inserted(quantity, pos, count, q)
     /\ count' = count + 1
  \/ /\ count = Depth /\ pos >= Depth
     /\ UNCHANGED side
  \/ /\ count = Depth /\ pos < Depth
     /\ price' = Inserted(price, pos, Depth - 1, p)
     /\ quantity' = Inserted(quantity, pos, Depth - 1, q)
     /\ UNCHANGED count

\* Faulty: the row at the place of an absent price is removed.
UpdateRemovesNeighbour(p, q) ==
  LET pos == LowerBound(p) IN
    \/ q = 0 /\ pos < count /\ RemoveAt(pos)
    \/ q = 0 /\ pos = count /\ UNCHANGED side
    \/ q # 0 /\ Found(p, pos) /\ quantity' = [quantity EXCEPT ![pos] = q] /\ UNCHANGED <<price, count>>
    \/ q # 0 /\ ~Found(p, pos) /\ InsertAt(pos, p, q)

Update(p, q) ==
  LET pos == LowerBound(p) IN
    \/ /\ q = 0 /\ Found(p, pos)
       /\ RemoveAt(pos)
    \/ /\ q = 0 /\ ~Found(p, pos)
       /\ UNCHANGED side
    \/ /\ q # 0 /\ Found(p, pos)
       /\ quantity' = [quantity EXCEPT ![pos] = q] /\ UNCHANGED <<price, count>>
    \/ /\ q # 0 /\ ~Found(p, pos)
       /\ InsertAt(pos, p, q)

-----------------------------------------------------------------------------
HasRow(p) == \E i \in Rows : price[i] = p

\* The quantity at a price, 0 when there is no row.
QuantityAt(p) ==
  IF HasRow(p) THEN quantity[CHOOSE i \in Rows : price[i] = p] ELSE 0

\* The rows are sorted, and no price has two rows.
Sorted == \A i, j \in Rows : i < j => Before(price[i], price[j])

=============================================================================
