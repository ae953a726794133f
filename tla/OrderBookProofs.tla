--------------------------- MODULE OrderBookProofs ---------------------------
(***************************************************************************)
(* Proofs about one side of the local order book, for every depth and both *)
(* orders: the binary search finds what it looks for, an update keeps the  *)
(* rows sorted and changes no level but its own, and the side has what it  *)
(* was told of every level that was never crowded out.                     *)
(*                                                                         *)
(* The rows are looked at as a relation of prices and quantities, RowAt,   *)
(* so that the slots only matter in the lemmas about the arrays.           *)
(***************************************************************************)
EXTENDS LocalOrderBook, FiniteSetTheorems, FunctionTheorems, WellFoundedInduction, TLAPS

-----------------------------------------------------------------------------
\* The order of prices.

\* The relation the rows are sorted by is a strict total order.
LEMMA BeforeIsOrder ==
  /\ \A p \in Int : ~Before(p, p)
  /\ \A p, q, r \in Int : Before(p, q) /\ Before(q, r) => Before(p, r)
  /\ \A p, q \in Int : p # q => Before(p, q) \/ Before(q, p)
BY DEF Before

\* A set of numbers that is not empty has a smallest element.
LEMMA Smallest ==
  ASSUME NEW T \in SUBSET Nat, T # {}
  PROVE  \E m \in T : \A n \in T : m <= n
<1>1. IsWellFoundedOn(OpToRel(<, Nat), Nat)
  BY NatLessThanWellFounded
<1>2. PICK m \in T : \A n \in T : ~(<<n, m>> \in OpToRel(<, Nat))
  BY <1>1, WFMin
<1>3. \A n \in T : ~(n < m)
  BY <1>2 DEF OpToRel
<1> QED BY <1>3

-----------------------------------------------------------------------------
\* A side.

\* The arrays hold values of P and Q and the rows are sorted.
SideIn(P, Q) ==
  /\ price \in [Slots -> P] /\ quantity \in [Slots -> Q]
  /\ count \in 0 .. Depth /\ Sorted

\* There is a row of this price and quantity.
RowAt(x, v) == \E i \in Rows : price[i] = x /\ quantity[i] = v

\* The side is full of better rows.
Full(x) == count = Depth /\ \A i \in Rows : Before(price[i], x)

\* The rows are among the slots.
LEMMA RowsAreSlots ==
  ASSUME NEW P \in SUBSET Int, NEW Q, SideIn(P, Q)
  PROVE  /\ count \in Nat /\ count <= Depth
         /\ \A i : i \in Rows <=> i \in Nat /\ i < count
         /\ \A i \in Rows : i \in Slots /\ price[i] \in P /\ price[i] \in Int /\ quantity[i] \in Q
<1>1. /\ count \in Nat /\ count <= Depth
      /\ price \in [Slots -> P] /\ quantity \in [Slots -> Q]
  BY SideAssumption DEF SideIn
<1>2. \A i : i \in Rows <=> i \in Nat /\ i < count
  BY <1>1 DEF Rows
<1>3. \A i \in Rows : i \in Slots
  BY <1>1, <1>2, SideAssumption DEF Slots
<1>4. \A i \in Rows : price[i] \in P /\ quantity[i] \in Q
  BY <1>1, <1>3
<1> QED BY <1>1, <1>2, <1>3, <1>4

\* A price has at most one row, and QuantityAt is what this row says.
LEMMA RowsAreLevels ==
  ASSUME NEW P \in SUBSET Int, NEW Q, SideIn(P, Q)
  PROVE  /\ \A x, v : RowAt(x, v) => HasRow(x) /\ QuantityAt(x) = v
         /\ \A x : HasRow(x) => RowAt(x, QuantityAt(x))
         /\ \A x : ~HasRow(x) => QuantityAt(x) = 0
<1>1. \A i \in Rows : i \in Slots /\ price[i] \in Int
  BY RowsAreSlots
<1>2. ASSUME NEW i \in Rows, NEW j \in Rows, price[i] = price[j]
      PROVE  i = j
  <2>1. i \in Int /\ j \in Int /\ (i < j \/ j < i \/ i = j)
    BY DEF Rows
  <2>2. /\ i < j => Before(price[i], price[j])
        /\ j < i => Before(price[j], price[i])
    BY DEF SideIn, Sorted
  <2> QED BY <1>1, <1>2, <2>1, <2>2, BeforeIsOrder
<1>3. ASSUME NEW x, HasRow(x)
      PROVE  \E i \in Rows : price[i] = x /\ QuantityAt(x) = quantity[i]
  <2> DEFINE i == CHOOSE i \in Rows : price[i] = x
  <2>1. i \in Rows /\ price[i] = x
    BY <1>3 DEF HasRow
  <2> QED BY <1>3, <2>1 DEF QuantityAt
<1>4. ASSUME NEW x, NEW v, RowAt(x, v)
      PROVE  HasRow(x) /\ QuantityAt(x) = v
  <2>1. PICK i \in Rows : price[i] = x /\ quantity[i] = v
    BY <1>4 DEF RowAt
  <2>2. HasRow(x)
    BY <2>1 DEF HasRow
  <2>3. PICK j \in Rows : price[j] = x /\ QuantityAt(x) = quantity[j]
    BY <1>3, <2>2
  <2> QED BY <1>2, <2>1, <2>2, <2>3
<1>5. \A x : HasRow(x) => RowAt(x, QuantityAt(x))
  BY <1>3 DEF RowAt
<1> QED BY <1>4, <1>5 DEF QuantityAt

\* std::lower_bound is defined of sorted rows: there is a place before which
\* all rows are better and from which on none is.
LEMMA LowerBoundExists ==
  ASSUME NEW P \in SUBSET Int, NEW Q, SideIn(P, Q), NEW p \in Int
  PROVE  /\ LowerBound(p) \in 0 .. count
         /\ \A i \in Rows : Before(price[i], p) <=> i < LowerBound(p)
<1>1. count \in Nat /\ \A i \in Rows : i \in Nat /\ i < count /\ price[i] \in Int
  BY RowsAreSlots
<1> SUFFICES \E pos \in 0 .. count : \A i \in Rows : Before(price[i], p) <=> i < pos
  BY DEF LowerBound
<1> DEFINE T == {i \in Rows : ~Before(price[i], p)}
<1>2. CASE T = {}
  <2>1. \A i \in Rows : Before(price[i], p) <=> i < count
    BY <1>1, <1>2
  <2> QED BY <1>1, <2>1
<1>3. CASE T # {}
  <2>1. T \in SUBSET Nat
    BY <1>1
  <2>2. PICK m \in T : \A n \in T : m <= n
    BY <1>3, <2>1, Smallest
  <2>3. m \in 0 .. count /\ m \in Rows
    BY <1>1, <2>2
  <2>4. ASSUME NEW i \in Rows
        PROVE  Before(price[i], p) <=> i < m
    <3>1. CASE i < m
      BY <1>1, <2>2, <2>3, <3>1
    <3>2. CASE i = m
      BY <1>1, <2>2, <2>3, <3>2
    <3>3. CASE i > m
      <4>1. Before(price[m], price[i])
        BY <2>3, <3>3 DEF SideIn, Sorted
      <4>2. ~Before(price[m], p)
        BY <2>2
      <4> QED BY <1>1, <2>3, <3>3, <4>1, <4>2, BeforeIsOrder
    <3> QED BY <1>1, <2>3, <3>1, <3>2, <3>3
  <2> QED BY <2>3, <2>4
<1> QED BY <1>2, <1>3

\* The search finds a price exactly if it has a row.
LEMMA SearchFinds ==
  ASSUME NEW P \in SUBSET Int, NEW Q, SideIn(P, Q), NEW p \in Int
  PROVE  Found(p, LowerBound(p)) <=> HasRow(p)
<1> DEFINE pos == LowerBound(p)
<1>1. /\ pos \in 0 .. count
      /\ \A i \in Rows : Before(price[i], p) <=> i < pos
  BY LowerBoundExists
<1>2. count \in Nat /\ \A i \in Rows : i \in Nat /\ i < count /\ price[i] \in Int
  BY RowsAreSlots
<1> HIDE DEF pos
<1>3. pos < count => pos \in Rows
  BY <1>1, <1>2 DEF Rows
<1>4. ASSUME NEW i \in Rows, price[i] = p
      PROVE  pos < count /\ price[pos] = p
  <2>1. ~(i < pos) /\ pos < count /\ pos \in Rows
    BY <1>1, <1>2, <1>3, <1>4, BeforeIsOrder
  <2>2. CASE pos < i
    <3>1. Before(price[pos], p)
      BY <1>4, <2>1, <2>2 DEF SideIn, Sorted
    <3> QED BY <1>1, <1>2, <2>1, <3>1
  <2> QED BY <1>1, <1>2, <1>4, <2>1, <2>2
<1> QED BY <1>3, <1>4 DEF Found, HasRow, pos

-----------------------------------------------------------------------------
\* What the operations do to the rows.

\* RemoveAt takes one row out and keeps the order of the others.
LEMMA RemoveAtEffect ==
  ASSUME NEW P \in SUBSET Int, NEW Q, SideIn(P, Q), NEW pos \in Rows, RemoveAt(pos)
  PROVE  /\ SideIn(P, Q)'
         /\ \A x, v : RowAt(x, v)' <=> RowAt(x, v) /\ x # price[pos]
<1> DEFINE from(i) == IF i < pos THEN i ELSE i + 1
<1>1. /\ count \in Nat /\ count <= Depth /\ pos \in Nat /\ pos < count
      /\ \A i : i \in Rows <=> i \in Nat /\ i < count
      /\ \A i \in Rows : i \in Slots /\ price[i] \in P /\ price[i] \in Int /\ quantity[i] \in Q
  BY RowsAreSlots
<1>2. /\ price \in [Slots -> P] /\ quantity \in [Slots -> Q]
      /\ \A i, j \in Rows : i < j => Before(price[i], price[j])
  BY DEF SideIn, Sorted
<1>3. /\ price' = Removed(price, pos) /\ quantity' = Removed(quantity, pos)
      /\ count' = count - 1
  BY DEF RemoveAt
<1>4. count' \in 0 .. Depth /\ \A i : i \in Rows' <=> i \in Nat /\ i < count - 1
  BY <1>1, <1>3, SideAssumption DEF Rows
<1>5. ASSUME NEW A, NEW array \in [Slots -> A]
      PROVE  /\ Removed(array, pos) \in [Slots -> A]
             /\ \A i \in Rows' : Removed(array, pos)[i] = array[from(i)]
  <2>1. ASSUME NEW i \in Slots, pos <= i, i < count - 1
        PROVE  i + 1 \in Slots
    BY <1>1, <2>1, SideAssumption DEF Slots
  <2>2. \A i \in Rows' : i \in Slots /\ (pos <= i <=> ~(i < pos))
    BY <1>1, <1>4, SideAssumption DEF Slots
  <2>3. Removed(array, pos) \in [Slots -> A]
    BY <2>1 DEF Removed
  <2> QED BY <1>4, <2>2, <2>3 DEF Removed
<1>6. \A i \in Rows' : /\ from(i) \in Rows /\ from(i) # pos
                       /\ price'[i] = price[from(i)] /\ quantity'[i] = quantity[from(i)]
  <2>1. \A i \in Rows' : from(i) \in Rows /\ from(i) # pos
    BY <1>1, <1>4
  <2> HIDE DEF from
  <2>2. \A i \in Rows' : price'[i] = price[from(i)]
    BY <1>2, <1>3, <1>5
  <2>3. \A i \in Rows' : quantity'[i] = quantity[from(i)]
    BY <1>2, <1>3, <1>5
  <2> QED BY <2>1, <2>2, <2>3
<1>7. \A i, j \in Rows' : i < j => from(i) < from(j)
  BY <1>1, <1>4
<1>8. \A j \in Rows : j # pos => \E i \in Rows' : from(i) = j
  <2> SUFFICES ASSUME NEW j \in Rows, j # pos PROVE \E i \in Rows' : from(i) = j
    OBVIOUS
  <2>1. CASE j < pos
    <3>1. j \in Rows' /\ from(j) = j
      BY <1>1, <1>4, <2>1
    <3> QED BY <3>1
  <2>2. CASE ~(j < pos)
    <3>1. j - 1 \in Rows' /\ from(j - 1) = j
      BY <1>1, <1>4, <2>2
    <3> QED BY <3>1
  <2> QED BY <2>1, <2>2
<1> HIDE DEF from
<1>9. Sorted'
  BY <1>2, <1>6, <1>7 DEF Sorted, Before
<1>10. SideIn(P, Q)'
  BY <1>2, <1>3, <1>4, <1>5, <1>9 DEF SideIn, Slots
<1>11. \A i \in Rows : i # pos => price[i] # price[pos]
  <2> SUFFICES ASSUME NEW i \in Rows, i # pos PROVE price[i] # price[pos]
    OBVIOUS
  <2>1. i < pos \/ pos < i
    BY <1>1
  <2>2. Before(price[i], price[pos]) \/ Before(price[pos], price[i])
    BY <1>2, <2>1
  <2> QED BY <1>1, <2>2, BeforeIsOrder
<1>12. ASSUME NEW x, NEW v
       PROVE  RowAt(x, v)' <=> RowAt(x, v) /\ x # price[pos]
  <2>1. ASSUME RowAt(x, v)' PROVE RowAt(x, v) /\ x # price[pos]
    <3>1. PICK i \in Rows' : price'[i] = x /\ quantity'[i] = v
      BY <2>1 DEF RowAt
    <3> QED BY <1>6, <1>11, <3>1 DEF RowAt
  <2>2. ASSUME RowAt(x, v), x # price[pos] PROVE RowAt(x, v)'
    <3>1. PICK j \in Rows : price[j] = x /\ quantity[j] = v
      BY <2>2 DEF RowAt
    <3>2. PICK i \in Rows' : from(i) = j
      BY <1>8, <2>2, <3>1
    <3> QED BY <1>6, <3>1, <3>2 DEF RowAt
  <2> QED BY <2>1, <2>2
<1> QED BY <1>10, <1>12

\* An array with a new value has the values of its type.
LEMMA InsertedType ==
  ASSUME NEW A, NEW array \in [Slots -> A], NEW a \in A,
         NEW last \in 0 .. Depth - 1, NEW pos \in 0 .. last
  PROVE  Inserted(array, pos, last, a) \in [Slots -> A]
<1>1. \A i \in Slots : pos < i /\ i <= last => i - 1 \in Slots
  BY SideAssumption DEF Slots
<1> QED BY <1>1 DEF Inserted

\* InsertAt puts a row in its place, and drops those from slot last on, of
\* which there is at most one.
LEMMA InsertEffect ==
  ASSUME NEW P \in SUBSET Int, NEW Q, SideIn(P, Q), NEW p \in P, NEW q \in Q,
         NEW last \in 0 .. Depth - 1, last <= count, NEW pos \in 0 .. last,
         \A i \in Rows : Before(price[i], p) <=> i < pos, ~HasRow(p),
         price' = Inserted(price, pos, last, p),
         quantity' = Inserted(quantity, pos, last, q), count' = last + 1
  PROVE  /\ SideIn(P, Q)'
         /\ \A x, v : RowAt(x, v)' <=>
              \/ x = p /\ v = q
              \/ \E i \in Rows : i < last /\ price[i] = x /\ quantity[i] = v
<1> DEFINE from(i) == IF i < pos THEN i ELSE i - 1
<1>1. /\ count \in Nat /\ count <= Depth
      /\ pos \in Nat /\ last \in Nat /\ pos <= last /\ last < Depth
      /\ \A i : i \in Rows <=> i \in Nat /\ i < count
      /\ \A i \in Rows : i \in Slots /\ price[i] \in P /\ price[i] \in Int /\ quantity[i] \in Q
  BY RowsAreSlots, SideAssumption DEF Slots
<1>2. /\ price \in [Slots -> P] /\ quantity \in [Slots -> Q]
      /\ \A i, j \in Rows : i < j => Before(price[i], price[j])
  BY DEF SideIn, Sorted
<1>3. /\ \A i : i \in Rows' <=> i \in Nat /\ i <= last
      /\ pos \in Rows' /\ count' \in 0 .. Depth
  BY <1>1, SideAssumption DEF Rows
<1>4. /\ price'[pos] = p /\ quantity'[pos] = q
      /\ \A i \in Rows' : i # pos =>
           /\ from(i) \in Rows /\ from(i) < last
           /\ price'[i] = price[from(i)] /\ quantity'[i] = quantity[from(i)]
  <2>1. \A i \in Rows' : i # pos => from(i) \in Rows /\ from(i) < last
    BY <1>1, <1>3
  <2>2. /\ pos \in Slots
        /\ \A i \in Rows' : i # pos =>
             /\ i \in Slots
             /\ \/ pos < i /\ i <= last /\ from(i) = i - 1
                \/ ~(pos < i) /\ from(i) = i
    BY <1>1, <1>3, SideAssumption DEF Slots
  <2> HIDE DEF from
  <2>3. /\ price'[pos] = p
        /\ \A i \in Rows' : i # pos => price'[i] = price[from(i)]
    BY <2>2 DEF Inserted
  <2>4. /\ quantity'[pos] = q
        /\ \A i \in Rows' : i # pos => quantity'[i] = quantity[from(i)]
    BY <2>2 DEF Inserted
  <2> QED BY <2>1, <2>3, <2>4
<1>5. /\ \A i, j \in Rows' : i # pos /\ j # pos /\ i < j => from(i) < from(j)
      /\ \A i \in Rows' : i # pos => (from(i) < pos <=> i < pos)
  BY <1>1, <1>3
<1>6. \A j \in Rows : j < last => \E i \in Rows' : i # pos /\ from(i) = j
  <2> SUFFICES ASSUME NEW j \in Rows, j < last PROVE \E i \in Rows' : i # pos /\ from(i) = j
    OBVIOUS
  <2>1. CASE j < pos
    <3>1. j \in Rows' /\ j # pos /\ from(j) = j
      BY <1>1, <1>3, <2>1
    <3> QED BY <3>1
  <2>2. CASE ~(j < pos)
    <3>1. j + 1 \in Rows' /\ j + 1 # pos /\ from(j + 1) = j
      BY <1>1, <1>3, <2>2
    <3> QED BY <3>1
  <2> QED BY <2>1, <2>2
<1> HIDE DEF from
<1>7. \A i \in Rows : i >= pos => Before(p, price[i])
  <2> SUFFICES ASSUME NEW i \in Rows, i >= pos PROVE Before(p, price[i])
    OBVIOUS
  <2>1. ~Before(price[i], p) /\ price[i] # p
    BY <1>1 DEF HasRow
  <2> QED BY <1>1, <2>1, BeforeIsOrder
<1>8. ASSUME NEW i \in Rows', NEW j \in Rows', i < j
      PROVE  Before(price'[i], price'[j])
  <2>1. CASE i # pos /\ j # pos
    BY <1>2, <1>4, <1>5, <1>8, <2>1
  <2>2. CASE i = pos
    <3>1. j # pos /\ ~(j < pos)
      BY <1>1, <1>3, <1>8, <2>2
    <3>2. from(j) \in Rows /\ from(j) >= pos
      BY <1>1, <1>4, <1>5, <3>1
    <3> QED BY <1>4, <1>7, <2>2, <3>1, <3>2
  <2>3. CASE j = pos
    <3>1. i # pos /\ i < pos
      BY <1>1, <1>3, <1>8, <2>3
    <3>2. from(i) \in Rows /\ from(i) < pos
      BY <1>1, <1>4, <1>5, <3>1
    <3> QED BY <1>4, <2>3, <3>1, <3>2
  <2> QED BY <2>1, <2>2, <2>3
<1>9. SideIn(P, Q)'
  <2>1. Sorted'
    BY <1>8 DEF Sorted, Before
  <2>2. price' \in [Slots -> P] /\ quantity' \in [Slots -> Q]
    BY <1>2, InsertedType
  <2> QED BY <1>3, <2>1, <2>2 DEF SideIn, Slots
<1>10. ASSUME NEW x, NEW v
       PROVE  RowAt(x, v)' <=>
                \/ x = p /\ v = q
                \/ \E i \in Rows : i < last /\ price[i] = x /\ quantity[i] = v
  <2>1. ASSUME RowAt(x, v)'
        PROVE  \/ x = p /\ v = q
               \/ \E i \in Rows : i < last /\ price[i] = x /\ quantity[i] = v
    <3>1. PICK i \in Rows' : price'[i] = x /\ quantity'[i] = v
      BY <2>1 DEF RowAt
    <3> QED BY <1>4, <3>1
  <2>2. ASSUME x = p, v = q PROVE RowAt(x, v)'
    BY <1>3, <1>4, <2>2 DEF RowAt
  <2>3. ASSUME NEW j \in Rows, j < last, price[j] = x, quantity[j] = v
        PROVE  RowAt(x, v)'
    <3>1. PICK i \in Rows' : i # pos /\ from(i) = j
      BY <1>6, <2>3
    <3> QED BY <1>4, <2>3, <3>1 DEF RowAt
  <2> QED BY <2>1, <2>2, <2>3
<1> QED BY <1>9, <1>10

\* Update gives its price the row it is told, or none, and changes no other
\* row; a row that is missing then has a side full of better rows before it.
LEMMA UpdateEffect ==
  ASSUME NEW P \in SUBSET Int, NEW Q, SideIn(P, Q), NEW p \in P, NEW q \in Q, Update(p, q)
  PROVE  /\ SideIn(P, Q)'
         /\ \A x, v : RowAt(x, v)' =>
              (x = p /\ v = q /\ q # 0) \/ (x # p /\ RowAt(x, v))
         /\ \A x, v : RowAt(x, v) /\ x # p => (RowAt(x, v)' \/ Full(x)')
         /\ q # 0 => RowAt(p, q)' \/ Full(p)'
<1> DEFINE pos == LowerBound(p)
<1>1. /\ pos \in 0 .. count
      /\ \A i \in Rows : Before(price[i], p) <=> i < pos
  BY LowerBoundExists
<1>2. Found(p, pos) <=> HasRow(p)
  BY SearchFinds
<1>3. /\ count \in Nat /\ count <= Depth
      /\ \A i : i \in Rows <=> i \in Nat /\ i < count
      /\ \A i \in Rows : i \in Slots /\ price[i] \in P /\ price[i] \in Int /\ quantity[i] \in Q
  BY RowsAreSlots
<1>4. \/ q = 0 /\ Found(p, pos) /\ RemoveAt(pos)
      \/ q = 0 /\ ~Found(p, pos) /\ UNCHANGED side
      \/ /\ q # 0 /\ Found(p, pos)
         /\ quantity' = [quantity EXCEPT ![pos] = q] /\ UNCHANGED <<price, count>>
      \/ q # 0 /\ ~Found(p, pos) /\ InsertAt(pos, p, q)
  BY DEF Update
<1> HIDE DEF pos
<1>5. Found(p, pos) => pos \in Rows /\ price[pos] = p
  BY <1>1, <1>3 DEF Found
<1>6. ~HasRow(p) => \A x, v : RowAt(x, v) => x # p
  BY DEF HasRow, RowAt
<1>7. ASSUME UNCHANGED side
      PROVE  SideIn(P, Q)' /\ \A x, v : RowAt(x, v)' <=> RowAt(x, v)
  <2>1. SideIn(P, Q)'
    BY <1>7 DEF SideIn, Sorted, Rows, side
  <2>2. \A x, v : RowAt(x, v)' <=> RowAt(x, v)
    BY <1>7 DEF RowAt, Rows, side
  <2> QED BY <2>1, <2>2
<1>8. CASE q = 0 /\ Found(p, pos) /\ RemoveAt(pos)
  <2>1. /\ SideIn(P, Q)'
        /\ \A x, v : RowAt(x, v)' <=> RowAt(x, v) /\ x # price[pos]
    BY <1>5, <1>8, RemoveAtEffect
  <2> QED BY <1>5, <1>8, <2>1
<1>9. CASE q = 0 /\ ~Found(p, pos) /\ UNCHANGED side
  BY <1>2, <1>6, <1>7, <1>9
<1>10. CASE /\ q # 0 /\ Found(p, pos)
            /\ quantity' = [quantity EXCEPT ![pos] = q] /\ UNCHANGED <<price, count>>
  <2>1. price \in [Slots -> P] /\ quantity \in [Slots -> Q] /\ pos \in Slots
    BY <1>3, <1>5, <1>10 DEF SideIn
  <2>2. /\ quantity'[pos] = q
        /\ \A i \in Rows : i # pos => quantity'[i] = quantity[i]
        /\ price' = price /\ Rows' = Rows /\ quantity' \in [Slots -> Q]
    BY <1>3, <1>10, <2>1 DEF Rows
  <2>3. SideIn(P, Q)'
    BY <1>10, <2>2 DEF SideIn, Sorted
  <2>4. \A i \in Rows : price[i] = p => i = pos
    <3> SUFFICES ASSUME NEW i \in Rows, price[i] = p PROVE i = pos
      OBVIOUS
    <3>1. i < pos \/ pos < i \/ i = pos
      BY <1>1, <1>3
    <3>2. ~(i < pos)
      BY <1>1, <1>3, BeforeIsOrder
    <3>3. CASE pos < i
      <4>1. Before(price[pos], price[i])
        BY <1>5, <1>10, <3>3 DEF SideIn, Sorted
      <4> QED BY <1>3, <1>5, <1>10, <4>1, BeforeIsOrder
    <3> QED BY <3>1, <3>2, <3>3
  <2>5. \A x, v : RowAt(x, v)' => (x = p /\ v = q) \/ (x # p /\ RowAt(x, v))
    <3> SUFFICES ASSUME NEW x, NEW v, RowAt(x, v)'
                 PROVE  (x = p /\ v = q) \/ (x # p /\ RowAt(x, v))
      OBVIOUS
    <3>1. PICK i \in Rows' : price'[i] = x /\ quantity'[i] = v
      BY DEF RowAt
    <3>2. i \in Rows /\ price[i] = x
      BY <2>2, <3>1
    <3>3. CASE i = pos
      <4>1. x = p
        BY <1>5, <1>10, <3>2, <3>3
      <4>2. v = q
        BY <2>2, <3>1, <3>3
      <4> QED BY <4>1, <4>2
    <3>4. CASE i # pos
      BY <2>2, <2>4, <3>1, <3>2, <3>4 DEF RowAt
    <3> QED BY <3>3, <3>4
  <2>6. \A x, v : RowAt(x, v) /\ x # p => RowAt(x, v)'
    BY <1>5, <1>10, <2>2 DEF RowAt
  <2>7. RowAt(p, q)'
    BY <1>5, <1>10, <2>2 DEF RowAt
  <2> QED BY <1>10, <2>3, <2>5, <2>6, <2>7
<1>11. CASE q # 0 /\ ~Found(p, pos) /\ InsertAt(pos, p, q)
  <2>1. /\ ~HasRow(p) /\ Depth \in Nat \ {0}
        /\ \A x, v : RowAt(x, v) => x # p
    BY <1>2, <1>6, <1>11, SideAssumption
  <2>2. CASE /\ count < Depth
             /\ price' = Inserted(price, pos, count, p)
             /\ quantity' = Inserted(quantity, pos, count, q)
             /\ count' = count + 1
    <3>1. count \in 0 .. Depth - 1 /\ count <= count
      BY <1>3, <2>1, <2>2
    <3>2. /\ SideIn(P, Q)'
          /\ \A x, v : RowAt(x, v)' <=>
               \/ x = p /\ v = q
               \/ \E i \in Rows : i < count /\ price[i] = x /\ quantity[i] = v
      BY <1>1, <2>1, <2>2, <3>1, InsertEffect
    <3>3. \A x, v : RowAt(x, v)' <=> (x = p /\ v = q) \/ RowAt(x, v)
      <4>1. ASSUME NEW x, NEW v
            PROVE  RowAt(x, v) <=> \E i \in Rows : i < count /\ price[i] = x /\ quantity[i] = v
        <5>1. \A i \in Rows : i < count
          BY <1>3 DEF Rows
        <5> QED BY <5>1, Zenon DEF RowAt
      <4> QED BY <3>2, <4>1, Zenon
    <3>4. ASSUME NEW x, NEW v, RowAt(x, v)'
          PROVE  (x = p /\ v = q) \/ (x # p /\ RowAt(x, v))
      <4>1. CASE x = p /\ v = q
        BY <4>1
      <4>2. CASE RowAt(x, v)
        BY <2>1, <4>2
      <4> QED BY <3>3, <3>4, <4>1, <4>2
    <3>5. RowAt(p, q)' /\ \A x, v : RowAt(x, v) => RowAt(x, v)'
      BY <3>3
    <3> QED BY <1>11, <3>2, <3>4, <3>5
  <2>3. CASE count = Depth /\ pos >= Depth /\ UNCHANGED side
    <3>1. Full(p)
      BY <1>1, <1>3, <2>3 DEF Full
    <3>2. Full(p)'
      BY <2>3, <3>1 DEF Full, Rows, Before, side
    <3> QED BY <1>7, <2>1, <2>3, <3>2
  <2>4. CASE /\ count = Depth /\ pos < Depth
             /\ price' = Inserted(price, pos, Depth - 1, p)
             /\ quantity' = Inserted(quantity, pos, Depth - 1, q)
             /\ UNCHANGED count
    <3> DEFINE last == Depth - 1
    <3>1. /\ last \in 0 .. Depth - 1 /\ last <= count /\ pos \in 0 .. last
          /\ count' = last + 1 /\ last \in Rows
      BY <1>1, <1>3, <2>1, <2>4
    <3>2. /\ price' = Inserted(price, pos, last, p)
          /\ quantity' = Inserted(quantity, pos, last, q)
      BY <2>4
    <3> HIDE DEF last
    <3>3. /\ SideIn(P, Q)'
          /\ \A x, v : RowAt(x, v)' <=>
               \/ x = p /\ v = q
               \/ \E i \in Rows : i < last /\ price[i] = x /\ quantity[i] = v
      BY <1>1, <2>1, <3>1, <3>2, InsertEffect
    <3>4. PICK worst : worst = price[last]
      OBVIOUS
    <3>5. \A i \in Rows : i < last => Before(price[i], worst)
      BY <3>1, <3>4 DEF SideIn, Sorted
    <3>6. Before(p, worst)
      <4>1. ~Before(worst, p) /\ worst # p /\ worst \in Int
        BY <1>1, <1>3, <2>1, <3>1, <3>4 DEF HasRow
      <4> QED BY <1>3, <4>1, BeforeIsOrder
    <3>7. \A x, v : RowAt(x, v)' => Before(x, worst)
      BY <3>3, <3>5, <3>6
    <3>8. Full(worst)'
      <4>1. count' = Depth
        BY <2>4
      <4>2. \A i \in Rows' : Before(price'[i], worst)
        BY <3>7 DEF RowAt
      <4> QED BY <4>1, <4>2 DEF Full, Before
    <3>9. ASSUME NEW x, NEW v, RowAt(x, v)
          PROVE  RowAt(x, v)' \/ Full(x)'
      <4>1. PICK i \in Rows : price[i] = x /\ quantity[i] = v
        BY <3>9 DEF RowAt
      <4>2. i < last \/ i = last
        BY <1>3, <2>1, <2>4, <4>1 DEF last
      <4>3. CASE i < last
        BY <3>3, <4>1, <4>3
      <4>4. CASE i = last
        BY <3>4, <3>8, <4>1, <4>4
      <4> QED BY <4>2, <4>3, <4>4
    <3>10. ASSUME NEW x, NEW v, RowAt(x, v)'
           PROVE  (x = p /\ v = q) \/ (x # p /\ RowAt(x, v))
      <4>1. CASE x = p /\ v = q
        BY <4>1
      <4>2. CASE RowAt(x, v)
        BY <2>1, <4>2
      <4>3. (x = p /\ v = q) \/ RowAt(x, v)
        BY <3>3, <3>10 DEF RowAt
      <4> QED BY <4>1, <4>2, <4>3
    <3>11. RowAt(p, q)'
      BY <3>3
    <3> QED BY <1>11, <3>3, <3>9, <3>10, <3>11
  <2> QED BY <1>11, <2>2, <2>3, <2>4 DEF InsertAt
<1> QED BY <1>4, <1>8, <1>9, <1>10, <1>11

-----------------------------------------------------------------------------
\* Snapshots, whose levels come best first.

\* How many prices of a set are before a price.
Rank(S, p) == Cardinality({l \in S : Before(l, p)})

\* The prices before one of a finite set of n are 0 to n - 1 in number.
LEMMA RankType ==
  ASSUME NEW S \in SUBSET Int, IsFiniteSet(S), NEW p \in S
  PROVE  Rank(S, p) \in 0 .. Cardinality(S) - 1
<1> DEFINE T == {l \in S : Before(l, p)}
<1>1. T \in SUBSET S /\ p \notin T
  BY BeforeIsOrder
<1> HIDE DEF T
<1>2. /\ IsFiniteSet(T) /\ Cardinality(T) \in Nat /\ Cardinality(S) \in Nat
      /\ Cardinality(T) <= Cardinality(S)
  BY <1>1, FS_Subset, FS_CardinalityType
<1>3. Cardinality(T) # Cardinality(S)
  BY <1>1, FS_Subset
<1>4. Cardinality(T) \in 0 .. Cardinality(S) - 1
  BY <1>2, <1>3
<1> QED BY <1>4 DEF Rank, T

\* The better of two prices has the lower rank.
LEMMA RankOrder ==
  ASSUME NEW S \in SUBSET Int, IsFiniteSet(S), NEW p \in S, NEW q \in S, Before(p, q)
  PROVE  Rank(S, p) < Rank(S, q)
<1> DEFINE T == {l \in S : Before(l, p)}
<1> DEFINE U == {l \in S : Before(l, q)}
<1>1. T \in SUBSET U /\ U \in SUBSET S /\ p \in U /\ p \notin T
  BY BeforeIsOrder
<1> HIDE DEF T, U
<1>2. IsFiniteSet(U)
  BY <1>1, FS_Subset
<1>3. /\ IsFiniteSet(T) /\ Cardinality(T) \in Nat /\ Cardinality(U) \in Nat
      /\ Cardinality(T) <= Cardinality(U)
  BY <1>1, <1>2, FS_Subset, FS_CardinalityType
<1>4. Cardinality(T) # Cardinality(U)
  BY <1>1, <1>2, FS_Subset
<1>5. Cardinality(T) < Cardinality(U)
  BY <1>3, <1>4
<1> QED BY <1>5 DEF Rank, T, U

\* Every rank is that of a price: as many ranks as prices, and all different.
LEMMA RankOnto ==
  ASSUME NEW S \in SUBSET Int, IsFiniteSet(S), NEW k \in 0 .. Cardinality(S) - 1
  PROVE  \E p \in S : Rank(S, p) = k
<1> DEFINE n == Cardinality(S)
<1> DEFINE T == 0 .. n - 1
<1> DEFINE f == [p \in S |-> Rank(S, p)]
<1>1. n \in Nat
  BY FS_CardinalityType
<1>2. IsFiniteSet(T) /\ Cardinality(T) = n
  <2>1. IsFiniteSet(0 .. n - 1) /\ Cardinality(0 .. n - 1) = IF 0 > n - 1 THEN 0 ELSE n - 1 - 0 + 1
    <3> HIDE DEF n
    <3> QED BY <1>1, FS_Interval
  <2> HIDE DEF n
  <2> QED BY <1>1, <2>1
<1>3. f \in [S -> T]
  BY RankType
<1>4. \A p, q \in S : f[p] = f[q] => p = q
  <2> SUFFICES ASSUME NEW p \in S, NEW q \in S, Rank(S, p) = Rank(S, q) PROVE p = q
    OBVIOUS
  <2>1. Rank(S, p) \in Int
    BY RankType
  <2>2. ~Before(p, q) /\ ~Before(q, p)
    BY <2>1, RankOrder
  <2> QED BY <2>2, BeforeIsOrder
<1>5. f \in Injection(S, T)
  <2> HIDE DEF f, T
  <2> QED BY <1>3, <1>4, Fun_IsInj
<1>6. f \in Surjection(S, T)
  <2> HIDE DEF f, T
  <2> QED BY <1>2, <1>5, FS_Injection DEF n
<1>7. \E p \in S : f[p] = k
  <2>1. \A t \in T : \E p \in S : f[p] = t
    <3> HIDE DEF f, T
    <3> QED BY <1>6, Fun_SurjectionProperties
  <2> HIDE DEF f
  <2> QED BY <2>1
<1> QED BY <1>7

\* The sequence of a snapshot's prices has each where its rank says.
LEMMA BestFirstRanks ==
  ASSUME NEW S \in SUBSET Int, IsFiniteSet(S), NEW i \in 1 .. Cardinality(S)
  PROVE  BestFirst(S)[i] \in S /\ Rank(S, BestFirst(S)[i]) = i - 1
<1>1. Cardinality(S) \in Nat
  BY FS_CardinalityType
<1>2. i - 1 \in 0 .. Cardinality(S) - 1
  BY <1>1
<1>3. \E p \in S : Rank(S, p) = i - 1
  BY <1>2, RankOnto
<1>4. BestFirst(S)[i] = CHOOSE p \in S : Rank(S, p) = i - 1
  BY DEF BestFirst, Rank
<1> QED BY <1>3, <1>4

\* The snapshot with these prices and this quantity of each is loaded.
LoadLevels(S, value) ==
  Load(BestFirst(S), [i \in 1 .. Cardinality(S) |-> value[BestFirst(S)[i]]], Cardinality(S))

\* Load makes rows of the levels of a snapshot and of nothing else; a level it
\* does not take has a side full of better rows before it.
LEMMA LoadEffect ==
  ASSUME NEW P \in SUBSET Int, NEW Q, price \in [Slots -> P], quantity \in [Slots -> Q],
         NEW S \in SUBSET P, IsFiniteSet(S), NEW value, \A x \in S : value[x] \in Q,
         LoadLevels(S, value)
  PROVE  /\ SideIn(P, Q)'
         /\ \A x, v : RowAt(x, v)' => x \in S /\ v = value[x]
         /\ \A x \in S : RowAt(x, value[x])' \/ Full(x)'
<1> DEFINE n == Cardinality(S)
<1> DEFINE first == BestFirst(S)
<1>1. n \in Nat /\ Depth \in Nat \ {0}
  BY FS_CardinalityType, SideAssumption
<1>2. \A i \in 1 .. n : first[i] \in S /\ Rank(S, first[i]) = i - 1
  BY BestFirstRanks
<1>3. /\ count' = IF n > Depth THEN Depth ELSE n
      /\ price' = [i \in Slots |-> IF i < count' THEN first[i + 1] ELSE price[i]]
      /\ quantity' = [i \in Slots |->
                        IF i < count' THEN [j \in 1 .. n |-> value[first[j]]][i + 1]
                        ELSE quantity[i]]
  BY DEF LoadLevels, Load
<1> HIDE DEF n, first
<1>4. /\ count' \in 0 .. Depth /\ count' <= n /\ (count' = Depth \/ count' = n)
      /\ \A i : i \in Rows' <=> i \in Nat /\ i < count'
  BY <1>1, <1>3 DEF Rows
<1>5. \A i \in Slots : i < count' => i + 1 \in 1 .. n
  BY <1>1, <1>4 DEF Slots
<1>6. \A i \in Rows' : i \in Slots /\ i + 1 \in 1 .. n
  BY <1>1, <1>4 DEF Slots
<1>7. \A i \in Rows' : price'[i] = first[i + 1] /\ quantity'[i] = value[first[i + 1]]
  BY <1>3, <1>4, <1>6
<1>8. \A i \in Rows' : price'[i] \in S /\ Rank(S, price'[i]) = i
  <2> SUFFICES ASSUME NEW i \in Rows' PROVE price'[i] \in S /\ Rank(S, price'[i]) = i
    OBVIOUS
  <2>1. first[i + 1] \in S /\ Rank(S, first[i + 1]) = (i + 1) - 1
    BY <1>2, <1>6
  <2>2. (i + 1) - 1 = i
    BY <1>4
  <2> QED BY <1>7, <2>1, <2>2
<1>9. S \in SUBSET Int
  OBVIOUS
<1>10. price' \in [Slots -> P] /\ quantity' \in [Slots -> Q]
  <2>1. \A i \in Slots : i < count' => first[i + 1] \in P /\ value[first[i + 1]] \in Q
    BY <1>2, <1>5
  <2>2. price' \in [Slots -> P]
    BY <1>3, <2>1
  <2>3. quantity' \in [Slots -> Q]
    BY <1>3, <1>5, <2>1
  <2> QED BY <2>2, <2>3
<1>11. ASSUME NEW i \in Rows', NEW x \in S, i < Rank(S, x)
       PROVE  Before(price'[i], x)
  <2>1. price'[i] \in S /\ Rank(S, price'[i]) = i /\ i \in Nat
    BY <1>4, <1>8
  <2>2. Rank(S, x) \in Int
    BY <1>9, RankType
  <2>3. price'[i] # x
    BY <1>11, <2>1
  <2>4. ~Before(x, price'[i])
    <3> SUFFICES ASSUME Before(x, price'[i]) PROVE FALSE
      OBVIOUS
    <3>1. Rank(S, x) < Rank(S, price'[i])
      BY <1>9, <2>1, RankOrder
    <3> QED BY <1>11, <2>1, <2>2, <3>1
  <2> QED BY <1>9, <2>1, <2>3, <2>4, BeforeIsOrder
<1>12. Sorted'
  <2>1. ASSUME NEW i \in Rows', NEW j \in Rows', i < j
        PROVE  Before(price'[i], price'[j])
    BY <1>8, <1>11, <2>1
  <2> QED BY <2>1 DEF Sorted, Before
<1>13. SideIn(P, Q)'
  BY <1>4, <1>10, <1>12 DEF SideIn, Slots
<1>14. ASSUME NEW x, NEW v, RowAt(x, v)'
       PROVE  x \in S /\ v = value[x]
  BY <1>7, <1>8, <1>14 DEF RowAt
<1>15. ASSUME NEW x \in S
       PROVE  RowAt(x, value[x])' \/ Full(x)'
  <2> DEFINE r == Rank(S, x)
  <2>1. r \in Nat /\ r < n
    BY <1>1, <1>9, RankType DEF n
  <2>2. CASE r < count'
    <3>1. r \in Rows'
      BY <1>4, <2>1, <2>2
    <3>2. price'[r] \in S /\ Rank(S, price'[r]) = r
      BY <1>8, <3>1
    <3>3. price'[r] = x
      <4>1. ~Before(price'[r], x) /\ ~Before(x, price'[r])
        <5>1. ~(Rank(S, price'[r]) < Rank(S, x)) /\ ~(Rank(S, x) < Rank(S, price'[r]))
          BY <2>1, <3>2
        <5> HIDE DEF r
        <5> QED BY <1>9, <3>2, <5>1, RankOrder
      <4> QED BY <1>9, <3>2, <4>1, BeforeIsOrder
    <3>4. quantity'[r] = value[x]
      BY <1>7, <3>1, <3>3
    <3> HIDE DEF r
    <3> QED BY <3>1, <3>3, <3>4 DEF RowAt
  <2>3. CASE ~(r < count')
    <3>1. count' = Depth
      BY <1>4, <2>1, <2>3
    <3>2. \A i \in Rows' : i < r
      BY <1>4, <2>1, <2>3
    <3>3. \A i \in Rows' : Before(price'[i], x)
      BY <1>11, <3>2
    <3> QED BY <3>1, <3>3 DEF Full, Before
  <2> QED BY <2>2, <2>3
<1> QED BY <1>13, <1>14, <1>15

-----------------------------------------------------------------------------
\* The side against what it was told.

\* What the theorems are about, and all they need: together the two properties
\* are inductive.
BookInv == SortedAsTold /\ MissingWereCrowdedOut

\* Prices of rows, and 0 where there never was one.
Cells == Prices \cup {0}

\* The type of the arrays as the lemmas about them have it.
LEMMA CellsAreNumbers == Cells \in SUBSET Int /\ Prices \in SUBSET Cells
BY BookAssumption DEF Cells

\* SortedAsTold in terms of rows.
ToldInRows ==
  /\ SideIn(Cells, Quantities)
  /\ told \in [Prices -> Quantities] /\ crowded \subseteq Prices
  /\ updates \in 0 .. MaxUpdates
  /\ \A x, v : RowAt(x, v) => x \in Levels /\ told[x] = v

\* They are the same, in a state and in its successor.
LEMMA ToldRows == (SortedAsTold <=> ToldInRows) /\ (SortedAsTold' <=> ToldInRows')
<1>1. RowsAsTold <=> \A x, v : RowAt(x, v) => x \in Levels /\ told[x] = v
  BY DEF RowsAsTold, RowAt
<1>2. SortedAsTold <=> ToldInRows
  BY <1>1 DEF SortedAsTold, TypeOK, SideIn, Cells, ToldInRows
<1> QED BY <1>2, PTL

\* Depth rows ahead of a level are Depth levels ahead of it.
LEMMA FullIsAhead ==
  ASSUME NEW x \in Prices, NEW L \in SUBSET Prices, SideIn(Cells, Quantities)',
         \A p, v : RowAt(p, v)' => p \in L, Full(x)'
  PROVE  Cardinality({l \in L : Before(l, x)}) >= Depth
<1> DEFINE S == 0 .. Depth - 1
<1> DEFINE T == {l \in L : Before(l, x)}
<1> DEFINE f == [i \in S |-> price'[i]]
<1>1. Depth \in Nat \ {0} /\ count' = Depth /\ Rows' = S
  BY SideAssumption DEF Full, Rows
<1>2. \A i, j \in S : i < j => Before(price'[i], price'[j])
  BY <1>1 DEF SideIn, Sorted, Before
<1>3. \A i \in S : price'[i] \in L /\ Before(price'[i], x) /\ price'[i] \in Int
  <2>1. \A i \in S : price'[i] \in L
    BY <1>1 DEF RowAt
  <2>2. \A p \in L : p \in Int
    BY BookAssumption
  <2> QED BY <1>1, <2>1, <2>2 DEF Full, Before
<1>4. f \in [S -> T]
  BY <1>3
<1>5. \A i, j \in S : f[i] = f[j] => i = j
  <2> SUFFICES ASSUME NEW i \in S, NEW j \in S, price'[i] = price'[j] PROVE i = j
    OBVIOUS
  <2>1. i < j \/ j < i \/ i = j
    BY <1>1
  <2>2. ~(i < j) /\ ~(j < i)
    BY <1>2, <1>3, BeforeIsOrder
  <2> QED BY <2>1, <2>2
<1>6. IsFiniteSet(T)
  <2>1. T \in SUBSET Prices
    OBVIOUS
  <2> HIDE DEF T
  <2> QED BY <2>1, BookAssumption, FS_Subset
<1>7. f \in Injection(S, T)
  <2> HIDE DEF f, T, S
  <2> QED BY <1>4, <1>5, Fun_IsInj
<1>8. Cardinality(S) <= Cardinality(T)
  <2> HIDE DEF f, T, S
  <2> QED BY <1>6, <1>7, FS_Injection
<1>9. Cardinality(S) = Depth
  <2>1. Cardinality(0 .. Depth - 1) = IF 0 > Depth - 1 THEN 0 ELSE Depth - 1 - 0 + 1
    BY <1>1, FS_Interval
  <2> QED BY <1>1, <2>1
<1>10. Cardinality(T) \in Nat
  <2> HIDE DEF T
  <2> QED BY <1>6, FS_CardinalityType
<1> HIDE DEF S, T
<1>11. Cardinality(T) >= Depth
  BY <1>1, <1>8, <1>9, <1>10
<1> QED BY <1>11 DEF T

\* So a side that is full of better rows is of more prices than it has slots.
LEMMA FullIsMany ==
  ASSUME NEW x \in Prices, SideIn(Cells, Quantities)',
         \A p, v : RowAt(p, v)' => p \in Prices, Full(x)'
  PROVE  Cardinality(Prices) > Depth
<1> DEFINE T == {l \in Prices : Before(l, x)}
<1>1. Cardinality(T) >= Depth
  BY FullIsAhead
<1>2. T \in SUBSET (Prices \ {x})
  BY BookAssumption, BeforeIsOrder
<1> HIDE DEF T
<1>3. IsFiniteSet(Prices \ {x}) /\ Cardinality(Prices \ {x}) = Cardinality(Prices) - 1
  BY BookAssumption, FS_RemoveElement
<1>4. /\ Cardinality(T) <= Cardinality(Prices \ {x})
      /\ Cardinality(T) \in Nat /\ Cardinality(Prices) \in Nat /\ Depth \in Nat
  BY <1>2, <1>3, BookAssumption, SideAssumption, FS_Subset, FS_CardinalityType
<1> QED BY <1>1, <1>3, <1>4

\* The same of the levels that were told.
LEMMA FullIsCrowded ==
  ASSUME NEW x \in Prices, SideIn(Cells, Quantities)',
         \A p, v : RowAt(p, v)' => p \in Levels', Full(x)'
  PROVE  Cardinality(Ahead(x)') >= Depth
<1>1. PICK L : L = Levels'
  OBVIOUS
<1>2. L \in SUBSET Prices
  BY <1>1 DEF Levels
<1>3. Cardinality({l \in L : Before(l, x)}) >= Depth
  BY <1>1, <1>2, FullIsAhead
<1>4. Ahead(x)' = {l \in L : Before(l, x)}
  BY <1>1 DEF Ahead, Before
<1> QED BY <1>3, <1>4

-----------------------------------------------------------------------------
\* A side by the quantities it shows, for whoever keeps two of them.

\* The rows are of prices.
SideOfPrices == SideIn(Cells, Quantities) /\ \A x, v : RowAt(x, v) => x \in Prices

\* The side has this quantity, or none because it has too few slots for all prices.
HasQuantity(x, v) == QuantityAt(x) = v \/ (QuantityAt(x) = 0 /\ Cardinality(Prices) > Depth)

\* QuantityAt in terms of rows.
QuantityInRows ==
  SideIn(Cells, Quantities) =>
    \A x, v : /\ QuantityAt(x) = v => RowAt(x, v) \/ (v = 0 /\ \A w : ~RowAt(x, w))
              /\ RowAt(x, v) => QuantityAt(x) = v

\* It has that meaning, in a state and in its successor.
LEMMA QuantityOfRow == QuantityInRows /\ QuantityInRows'
<1>1. QuantityInRows
  <2> SUFFICES ASSUME SideIn(Cells, Quantities), NEW x, NEW v
               PROVE  /\ QuantityAt(x) = v => RowAt(x, v) \/ (v = 0 /\ \A w : ~RowAt(x, w))
                      /\ RowAt(x, v) => QuantityAt(x) = v
    BY DEF QuantityInRows
  <2>1. ~HasRow(x) => \A w : ~RowAt(x, w)
    BY DEF HasRow, RowAt
  <2> QED BY <2>1, CellsAreNumbers, RowsAreLevels
<1> QED BY <1>1, PTL

\* A new side has nothing, in a state and in its successor.
LEMMA EmptyShows == (Empty => SideOfPrices) /\ (Empty' => SideOfPrices')
<1>1. Empty => SideOfPrices
  <2> SUFFICES ASSUME Empty PROVE SideOfPrices
    OBVIOUS
  <2>1. count = 0 /\ Rows = {} /\ count \in 0 .. Depth
    BY SideAssumption DEF Rows, Empty
  <2>2. price \in [Slots -> Cells] /\ quantity \in [Slots -> Quantities]
    BY BookAssumption DEF Cells, Empty
  <2> QED BY <2>1, <2>2 DEF SideOfPrices, SideIn, Sorted, RowAt
<1> QED BY <1>1, PTL

\* An update gives its price the quantity and leaves those of the others.
LEMMA UpdateShows ==
  ASSUME SideOfPrices, NEW p \in Prices, NEW q \in Quantities, Update(p, q)
  PROVE  /\ SideOfPrices'
         /\ HasQuantity(p, q)'
         /\ \A x \in Prices : \A v : x # p /\ HasQuantity(x, v) => HasQuantity(x, v)'
<1>1. /\ SideIn(Cells, Quantities)'
      /\ \A x, v : RowAt(x, v)' => (x = p /\ v = q /\ q # 0) \/ (x # p /\ RowAt(x, v))
      /\ \A x, v : RowAt(x, v) /\ x # p => (RowAt(x, v)' \/ Full(x)')
      /\ q # 0 => RowAt(p, q)' \/ Full(p)'
  BY CellsAreNumbers, UpdateEffect DEF SideOfPrices
<1>2. \A x, v : RowAt(x, v)' => x \in Prices
  BY <1>1 DEF SideOfPrices
<1>3. \A x \in Prices : Full(x)' => Cardinality(Prices) > Depth
  BY <1>1, <1>2, FullIsMany
<1>4. \A x, v : /\ QuantityAt(x) = v => RowAt(x, v) \/ (v = 0 /\ \A w : ~RowAt(x, w))
                /\ RowAt(x, v) => QuantityAt(x) = v
  BY QuantityOfRow DEF QuantityInRows, SideOfPrices
<1>5. \A x, v : /\ QuantityAt(x)' = v => RowAt(x, v)' \/ (v = 0 /\ \A w : ~RowAt(x, w)')
                /\ RowAt(x, v)' => QuantityAt(x)' = v
  BY <1>1, QuantityOfRow DEF QuantityInRows
<1>6. SideOfPrices'
  BY <1>1, <1>2 DEF SideOfPrices
<1>7. QuantityAt(p)' = q \/ (QuantityAt(p)' = 0 /\ Cardinality(Prices) > Depth)
  BY <1>1, <1>3, <1>5
<1>8. ASSUME NEW x \in Prices, x # p
      PROVE  QuantityAt(x)' = QuantityAt(x)
               \/ (QuantityAt(x)' = 0 /\ Cardinality(Prices) > Depth)
  BY <1>1, <1>3, <1>4, <1>5, <1>8
<1>9. \A x \in Prices : \A v : x # p /\ HasQuantity(x, v) => HasQuantity(x, v)'
  BY <1>8 DEF HasQuantity
<1> QED BY <1>6, <1>7, <1>9 DEF HasQuantity

\* A snapshot gives every price its quantity.
LEMMA LoadShows ==
  ASSUME SideOfPrices, NEW value \in [Prices -> Quantities],
         LoadLevels({p \in Prices : value[p] # 0}, value)
  PROVE  /\ SideOfPrices'
         /\ \A x \in Prices : HasQuantity(x, value[x])'
<1> DEFINE S == {p \in Prices : value[p] # 0}
<1>1. /\ S \in SUBSET Prices /\ S \in SUBSET Cells /\ IsFiniteSet(S)
      /\ \A x \in S : value[x] \in Quantities
  BY BookAssumption, FS_Subset DEF Cells
<1>2. price \in [Slots -> Cells] /\ quantity \in [Slots -> Quantities]
  BY DEF SideOfPrices, SideIn
<1>3. LoadLevels(S, value)
  OBVIOUS
<1>4. \A x \in Prices : x \in S <=> value[x] # 0
  OBVIOUS
<1> HIDE DEF S
<1>5. /\ SideIn(Cells, Quantities)'
      /\ \A x, v : RowAt(x, v)' => x \in S /\ v = value[x]
      /\ \A x \in S : RowAt(x, value[x])' \/ Full(x)'
  BY <1>1, <1>2, <1>3, CellsAreNumbers, LoadEffect
<1>6. \A x, v : RowAt(x, v)' => x \in Prices
  BY <1>1, <1>5
<1>7. \A x \in Prices : Full(x)' => Cardinality(Prices) > Depth
  BY <1>5, <1>6, FullIsMany
<1>8. \A x, v : /\ QuantityAt(x)' = v => RowAt(x, v)' \/ (v = 0 /\ \A w : ~RowAt(x, w)')
                /\ RowAt(x, v)' => QuantityAt(x)' = v
  BY <1>5, QuantityOfRow DEF QuantityInRows
<1>9. SideOfPrices'
  BY <1>5, <1>6 DEF SideOfPrices
<1>10. ASSUME NEW x \in Prices
       PROVE  QuantityAt(x)' = value[x] \/ (QuantityAt(x)' = 0 /\ Cardinality(Prices) > Depth)
  BY <1>4, <1>5, <1>7, <1>8
<1> QED BY <1>9, <1>10 DEF HasQuantity

\* A new side.
LEMMA InitBook == Init => BookInv
<1> SUFFICES ASSUME Init PROVE BookInv
  OBVIOUS
<1>1. count = 0 /\ Rows = {} /\ told = [p \in Prices |-> 0] /\ Levels = {}
  BY DEF Init, Empty, Rows, Levels
<1>2. price \in [Slots -> Cells] /\ quantity \in [Slots -> Quantities]
  BY BookAssumption DEF Init, Empty, Cells
<1>3. SortedAsTold
  BY <1>1, <1>2, BookAssumption, SideAssumption
     DEF Init, SortedAsTold, TypeOK, Sorted, RowsAsTold, Cells
<1> QED BY <1>1, <1>3 DEF BookInv, MissingWereCrowdedOut

\* A level that is told and has no row is now crowded out.
LEMMA MissingIsCrowded ==
  ASSUME NEW x \in Levels', SideIn(Cells, Quantities)',
         \A p, v : RowAt(p, v)' => p \in Levels', Full(x)'
  PROVE  x \in CrowdedOut'
<1>1. x \in Prices
  BY DEF Levels
<1>2. Cardinality(Ahead(x)') >= Depth
  BY <1>1, FullIsCrowded
<1> QED BY <1>2 DEF CrowdedOut

\* An update of a level keeps all other levels as they were told.
LEMMA UpdateBook ==
  ASSUME BookInv, NEW p \in Prices, NEW q \in Quantities, OnUpdate(p, q)
  PROVE  BookInv'
<1>1. /\ SideIn(Cells, Quantities)
      /\ told \in [Prices -> Quantities] /\ crowded \subseteq Prices
      /\ updates \in 0 .. MaxUpdates
      /\ \A x, v : RowAt(x, v) => x \in Levels /\ told[x] = v
  BY ToldRows DEF BookInv, ToldInRows
<1>2. /\ updates < MaxUpdates /\ updates' = updates + 1 /\ Update(p, q)
      /\ told' = [told EXCEPT ![p] = q] /\ crowded' = (crowded \ {p}) \cup CrowdedOut'
  BY DEF OnUpdate
<1>3. /\ SideIn(Cells, Quantities)'
      /\ \A x, v : RowAt(x, v)' => (x = p /\ v = q /\ q # 0) \/ (x # p /\ RowAt(x, v))
      /\ \A x, v : RowAt(x, v) /\ x # p => (RowAt(x, v)' \/ Full(x)')
      /\ q # 0 => RowAt(p, q)' \/ Full(p)'
  BY <1>1, <1>2, CellsAreNumbers, UpdateEffect
<1>4. /\ told' \in [Prices -> Quantities] /\ told'[p] = q
      /\ \A x \in Prices : x # p => told'[x] = told[x]
  BY <1>1, <1>2
<1>5. \A x \in Prices : x \in Levels' <=> (x = p /\ q # 0) \/ (x # p /\ x \in Levels)
  BY <1>4 DEF Levels
<1>6. ASSUME NEW x, NEW v, RowAt(x, v)'
      PROVE  x \in Levels' /\ told'[x] = v
  <2>1. CASE x = p /\ v = q /\ q # 0
    BY <1>4, <1>5, <2>1
  <2>2. CASE x # p /\ RowAt(x, v)
    <3>1. x \in Levels /\ told[x] = v /\ x \in Prices
      BY <1>1, <2>2 DEF Levels
    <3> QED BY <1>4, <1>5, <2>2, <3>1
  <2> QED BY <1>3, <1>6, <2>1, <2>2
<1>7. CrowdedOut' \subseteq Prices
  BY DEF CrowdedOut, Levels
<1>8. ToldInRows'
  <2>1. updates' \in 0 .. MaxUpdates
    BY <1>1, <1>2, BookAssumption
  <2> QED BY <1>1, <1>2, <1>3, <1>4, <1>6, <1>7, <2>1 DEF ToldInRows
<1>9. ASSUME NEW x \in Levels', ~HasRow(x)', x \notin CrowdedOut'
      PROVE  x \in crowded \ {p}
  <2>1. ~Full(x)'
    BY <1>3, <1>6, <1>9, MissingIsCrowded
  <2>2. \A v : ~RowAt(x, v)'
    BY <1>9 DEF HasRow, RowAt
  <2>3. x # p /\ x \in Levels
    <3>1. x \in Prices
      BY DEF Levels
    <3> QED BY <1>3, <1>5, <2>1, <2>2, <3>1
  <2>4. ~HasRow(x)
    <3>1. HasRow(x) => RowAt(x, QuantityAt(x))
      BY <1>1, CellsAreNumbers, RowsAreLevels
    <3> QED BY <1>3, <2>1, <2>2, <2>3, <3>1
  <2> QED BY <2>3, <2>4 DEF BookInv, MissingWereCrowdedOut
<1>10. MissingWereCrowdedOut'
  BY <1>2, <1>9 DEF MissingWereCrowdedOut
<1> QED BY <1>8, <1>10, ToldRows DEF BookInv

\* A snapshot replaces what was told before.
LEMMA SnapshotBook ==
  ASSUME BookInv, NEW levels \in [Prices -> Quantities], OnSnapshot(levels)
  PROVE  BookInv'
<1> DEFINE S == {p \in Prices : levels[p] # 0}
<1>1. /\ SideIn(Cells, Quantities)
      /\ updates \in 0 .. MaxUpdates
  BY ToldRows DEF BookInv, ToldInRows
<1>2. /\ updates < MaxUpdates /\ updates' = updates + 1
      /\ LoadLevels(S, levels)
      /\ told' = levels /\ crowded' = CrowdedOut'
  BY DEF OnSnapshot, LoadLevels
<1>3. /\ S \in SUBSET Prices /\ S \in SUBSET Cells /\ IsFiniteSet(S)
      /\ \A x \in S : levels[x] \in Quantities
      /\ price \in [Slots -> Cells] /\ quantity \in [Slots -> Quantities]
  <2>1. S \in SUBSET Prices /\ \A x \in S : levels[x] \in Quantities
    OBVIOUS
  <2> HIDE DEF S
  <2> QED BY <1>1, <2>1, CellsAreNumbers, BookAssumption, FS_Subset DEF SideIn
<1>4. Levels' = S
  BY <1>2 DEF Levels
<1> HIDE DEF S
<1>5. /\ SideIn(Cells, Quantities)'
      /\ \A x, v : RowAt(x, v)' => x \in S /\ v = levels[x]
      /\ \A x \in S : RowAt(x, levels[x])' \/ Full(x)'
  BY <1>2, <1>3, CellsAreNumbers, LoadEffect
<1>6. CrowdedOut' \subseteq Prices
  BY DEF CrowdedOut, Levels
<1>7. ToldInRows'
  <2>1. updates' \in 0 .. MaxUpdates
    BY <1>1, <1>2, BookAssumption
  <2> QED BY <1>2, <1>4, <1>5, <1>6, <2>1 DEF ToldInRows
<1>8. ASSUME NEW x \in Levels', ~HasRow(x)'
      PROVE  x \in CrowdedOut'
  <2>1. \A v : ~RowAt(x, v)'
    BY <1>8 DEF HasRow, RowAt
  <2>2. Full(x)'
    BY <1>4, <1>5, <2>1
  <2> QED BY <1>4, <1>5, <2>2, MissingIsCrowded
<1>9. MissingWereCrowdedOut'
  BY <1>2, <1>8 DEF MissingWereCrowdedOut
<1> QED BY <1>7, <1>9, ToldRows DEF BookInv

\* Every step keeps the two properties.
THEOREM BookStep == BookInv /\ [Next]_vars => BookInv'
<1> SUFFICES ASSUME BookInv, [Next]_vars PROVE BookInv'
  OBVIOUS
<1>1. ASSUME NEW levels \in [Prices -> Quantities], OnSnapshot(levels)
      PROVE  BookInv'
  BY <1>1, SnapshotBook
<1>2. ASSUME NEW p \in Prices, NEW q \in Quantities, OnUpdate(p, q)
      PROVE  BookInv'
  BY <1>2, UpdateBook
<1>3. CASE UNCHANGED vars
  BY <1>3 DEF vars, side, BookInv, SortedAsTold, MissingWereCrowdedOut, TypeOK, Sorted,
              RowsAsTold, HasRow, Rows, Levels
<1> QED BY <1>1, <1>2, <1>3 DEF Next

\* The side is sorted, without duplicates, and says of every level it has what
\* it was last told (UpdateBid, UpdateAsk and Init of LocalOrderBook): the
\* binary search of an update is defined whatever came before.
THEOREM BookSortedAsTold == Spec => []SortedAsTold
<1>1. BookInv => SortedAsTold
  BY DEF BookInv
<1> QED BY <1>1, InitBook, BookStep, PTL DEF Spec

\* What is missing from a side was, at some time since it was told, behind a
\* full side of better levels: nothing else is ever forgotten.
THEOREM BookMissingWereCrowdedOut == Spec => []MissingWereCrowdedOut
<1>1. BookInv => MissingWereCrowdedOut
  BY DEF BookInv
<1> QED BY <1>1, InitBook, BookStep, PTL DEF Spec

=============================================================================
