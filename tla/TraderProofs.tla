---------------------------- MODULE TraderProofs ----------------------------
(***************************************************************************)
(* Proofs, for every book, window, sequence of messages and pace of the    *)
(* three processes: stamps are in order wherever they are, so the parts of *)
(* a latency add up; an order is only written on news; every event is      *)
(* decided on; and every turn orders what the README says is due, as long  *)
(* as the products of the rule fit the type.                               *)
(*                                                                         *)
(* The first three use nothing of the book and the window but that the     *)
(* rule comes to at most one order, and to none on an empty book; for the  *)
(* last, the volumes of a book have to be numbers, which takes an          *)
(* induction over the sets that are summed.                                *)
(***************************************************************************)
EXTENDS Trader, FiniteSetTheorems, WellFoundedInduction, TLAPS

\* The two products are compared as the README's share of 55% is, for every width of
\* the type in which they fit.
THEOREM HeavyIsSkewed ==
  ASSUME NEW a \in Nat, NEW b \in Nat, 11 * a <= UintMax, 11 * b <= UintMax
  PROVE  Heavy(a, b) <=> Skewed(a, b)
<1>1. UintMax \in Nat
  BY OrderAssumption
<1>2. \A n \in 0 .. UintMax : Uint(n) = n
  BY <1>1 DEF Uint
<1>3. 9 * a \in 0 .. UintMax /\ 11 * b \in 0 .. UintMax
  BY <1>1
<1>4. Uint(9 * a) = 9 * a /\ Uint(11 * b) = 11 * b
  BY <1>2, <1>3
<1> QED BY <1>4 DEF Heavy, Skewed

\* A book that both sides find heavy is one whose products wrapped around: within the
\* type, buying and selling never compete.
THEOREM NeverBothHeavy ==
  ASSUME NEW a \in Nat, NEW b \in Nat, 11 * a <= UintMax, 11 * b <= UintMax
  PROVE  ~(Heavy(a, b) /\ Heavy(b, a))
<1>1. (Heavy(a, b) <=> Skewed(a, b)) /\ (Heavy(b, a) <=> Skewed(b, a))
  BY HeavyIsSkewed
<1> QED BY <1>1 DEF Skewed

\* The rule comes to one order at most, whatever wraps around.
LEMMA OneWanted ==
  ASSUME NEW b, NEW x, NEW y, NEW o1 \in Wanted(b, x, y), NEW o2 \in Wanted(b, x, y)
  PROVE  o1 = o2
BY DEF Wanted, Orders, Take

\* ... and on an empty book to none.
LEMMA NoneWanted ==
  ASSUME NEW x, NEW y
  PROVE  Wanted([bid |-> NoLevels, ask |-> NoLevels], x, y) = {}
<1> DEFINE b == [bid |-> NoLevels, ask |-> NoLevels]
<1>1. Levels(b.bid) = {}
  BY OrderAssumption DEF Levels, NoLevels
<1>2. NoQuote(b)
  BY <1>1 DEF NoQuote, BestBid
<1> HIDE DEF b
<1>3. Wanted(b, x, y) = {}
  BY <1>2 DEF Wanted
<1> QED BY <1>3 DEF b

-----------------------------------------------------------------------------
(* Sums over sets, as in TradeFlowWindowProofs.                            *)

\* G is a sum of values of f over the subsets of S: it does not matter which element
\* of a set is added last.
Additive(f, S, G) ==
  /\ G \in [SUBSET S -> Nat] /\ G[{}] = 0
  /\ \A T \in SUBSET S : \A x \in T : G[T] = f[x] + G[T \ {x}]

\* Among finite sets there is one that no other is a part of: induction over sets.
LEMMA SmallestSet ==
  ASSUME NEW S, NEW Q \in SUBSET FiniteSubsetsOf(S), Q # {}
  PROVE  \E T \in Q : \A U \in Q : ~(U \subseteq T /\ U # T)
<1>1. IsWellFoundedOn(StrictSubsetOrdering(S), FiniteSubsetsOf(S))
  BY FS_StrictSubsetOrderingWellFounded
<1>2. PICK T \in Q : \A U \in Q : ~(<<U, T>> \in StrictSubsetOrdering(S))
  BY <1>1, WFMin
<1>3. ASSUME NEW U \in Q, U \subseteq T, U # T PROVE FALSE
  <2>1. U \in SUBSET S /\ T \in SUBSET S
    BY DEF FiniteSubsetsOf
  <2> QED BY <1>2, <1>3, <2>1 DEF StrictSubsetOrdering
<1> QED BY <1>3

\* From a sum over all elements but one, a sum over all.
LEMMA AddOne ==
  ASSUME NEW f, NEW S, NEW x0 \in S, \A x \in S : f[x] \in Nat, NEW H, Additive(f, S \ {x0}, H)
  PROVE  \E G : Additive(f, S, G)
<1> DEFINE G == [T \in SUBSET S |-> H[T \ {x0}] + (IF x0 \in T THEN f[x0] ELSE 0)]
<1>1. /\ H \in [SUBSET (S \ {x0}) -> Nat] /\ H[{}] = 0
      /\ \A T \in SUBSET (S \ {x0}) : \A x \in T : H[T] = f[x] + H[T \ {x}]
  BY DEF Additive
<1>2. G \in [SUBSET S -> Nat]
  BY <1>1
<1>3. G[{}] = 0
  <2>1. {} \ {x0} = {} /\ {} \in SUBSET S
    OBVIOUS
  <2> QED BY <1>1, <2>1
<1>4. ASSUME NEW T \in SUBSET S, NEW x \in T PROVE G[T] = f[x] + G[T \ {x}]
  <2>1. /\ T \ {x0} \in SUBSET (S \ {x0}) /\ H[T \ {x0}] \in Nat /\ T \ {x} \in SUBSET S
        /\ (T \ {x}) \ {x0} \in SUBSET (S \ {x0}) /\ H[(T \ {x}) \ {x0}] \in Nat
    BY <1>1
  <2>2. CASE x = x0
    <3>1. (T \ {x}) \ {x0} = T \ {x0} /\ ~(x0 \in T \ {x})
      BY <2>2
    <3>2. G[T \ {x}] = H[T \ {x0}] /\ G[T] = H[T \ {x0}] + f[x0]
      BY <2>1, <2>2, <3>1
    <3> QED BY <2>1, <2>2, <3>2
  <2>3. CASE x # x0
    <3>1. /\ x \in T \ {x0} /\ (T \ {x}) \ {x0} = (T \ {x0}) \ {x}
          /\ (x0 \in T \ {x} <=> x0 \in T)
      BY <2>3
    <3>2. H[T \ {x0}] = f[x] + H[(T \ {x}) \ {x0}]
      BY <1>1, <2>1, <3>1
    <3> DEFINE c == IF x0 \in T THEN f[x0] ELSE 0
    <3>3. G[T \ {x}] = H[(T \ {x}) \ {x0}] + c /\ G[T] = H[T \ {x0}] + c /\ c \in Nat
      BY <2>1, <3>1
    <3>4. f[x] \in Nat
      OBVIOUS
    <3> HIDE DEF c, G
    <3> QED BY <2>1, <3>2, <3>3, <3>4
  <2> QED BY <2>2, <2>3
<1> HIDE DEF G
<1> QED BY <1>2, <1>3, <1>4 DEF Additive

\* There is a sum over every finite set: none is the smallest without one.
LEMMA AdditiveExists ==
  ASSUME NEW f, NEW S, IsFiniteSet(S), \A x \in S : f[x] \in Nat
  PROVE  \E G : Additive(f, S, G)
<1> DEFINE Q == {T \in FiniteSubsetsOf(S) : ~\E G : Additive(f, T, G)}
<1>1. SUFFICES Q = {}
  BY DEF FiniteSubsetsOf
<1>2. SUFFICES ASSUME Q # {} PROVE FALSE
  OBVIOUS
<1>3. PICK T \in Q : \A U \in Q : ~(U \subseteq T /\ U # T)
  <2>1. Q \in SUBSET FiniteSubsetsOf(S)
    OBVIOUS
  <2> HIDE DEF Q
  <2> QED BY <1>2, <2>1, SmallestSet
<1>4. T \in SUBSET S /\ IsFiniteSet(T) /\ ~\E G : Additive(f, T, G)
  BY DEF FiniteSubsetsOf
<1>5. CASE T = {}
  <2>1. Additive(f, {}, [U \in SUBSET {} |-> 0])
    BY DEF Additive
  <2> QED BY <1>4, <1>5, <2>1
<1>6. ASSUME NEW x \in T PROVE FALSE
  <2>1. T \ {x} \subseteq T /\ T \ {x} # T /\ T \ {x} \in SUBSET S /\ IsFiniteSet(T \ {x})
    BY <1>4, FS_RemoveElement
  <2>2. PICK H : Additive(f, T \ {x}, H)
    BY <1>3, <2>1 DEF FiniteSubsetsOf
  <2>3. \A y \in T : f[y] \in Nat
    BY <1>4
  <2> QED BY <1>4, <2>2, <2>3, AddOne
<1> QED BY <1>5, <1>6

\* SumFunctionOnSet, a recursion that takes any element first, is that sum.
LEMMA FoldIsSum ==
  ASSUME NEW f, NEW S, IsFiniteSet(S), NEW G, Additive(f, S, G)
  PROVE  SumFunctionOnSet(f, S) = G[S]
<1> DEFINE Step(h) == [T \in SUBSET S |->
                         IF T = {} THEN 0
                         ELSE f[CHOOSE x \in T : TRUE] + h[T \ {CHOOSE x \in T : TRUE}]]
<1> DEFINE I == CHOOSE h : h = Step(h)
<1>1. SumFunctionOnSet(f, S) = I[S]
  BY DEF SumFunctionOnSet, FoldFunctionOnSet, MapThenFoldSet
<1>2. \A T \in SUBSET S : T # {} => (CHOOSE x \in T : TRUE) \in T
  OBVIOUS
<1>3. G = Step(G)
  <2>1. \A T \in SUBSET S :
          G[T] = IF T = {} THEN 0
                 ELSE f[CHOOSE x \in T : TRUE] + G[T \ {CHOOSE x \in T : TRUE}]
    BY <1>2 DEF Additive
  <2> QED BY <2>1 DEF Additive
<1>4. I = Step(I)
  BY <1>3
<1>5. \A T \in SUBSET S :
        I[T] = IF T = {} THEN 0
               ELSE f[CHOOSE x \in T : TRUE] + I[T \ {CHOOSE x \in T : TRUE}]
  <2> HIDE DEF I
  <2> QED BY <1>4
<1> HIDE DEF I
<1> DEFINE Q == {T \in FiniteSubsetsOf(S) : I[T] # G[T]}
<1>6. ASSUME Q # {} PROVE FALSE
  <2>1. Q \in SUBSET FiniteSubsetsOf(S)
    OBVIOUS
  <2>2. PICK T \in Q : \A U \in Q : ~(U \subseteq T /\ U # T)
    <3> HIDE DEF Q
    <3> QED BY <1>6, <2>1, SmallestSet
  <2>3. T \in SUBSET S /\ IsFiniteSet(T) /\ I[T] # G[T]
    BY DEF FiniteSubsetsOf
  <2>4. T # {}
    BY <1>5, <2>3 DEF Additive
  <2>5. PICK x : x = CHOOSE y \in T : TRUE
    OBVIOUS
  <2>6. /\ x \in T /\ I[T] = f[x] + I[T \ {x}]
    BY <1>5, <2>3, <2>4, <2>5
  <2>7. /\ T \ {x} \in SUBSET S /\ T \ {x} \subseteq T /\ T \ {x} # T
        /\ IsFiniteSet(T \ {x})
    BY <2>3, <2>6, FS_RemoveElement
  <2>8. I[T \ {x}] = G[T \ {x}]
    BY <2>2, <2>7 DEF FiniteSubsetsOf
  <2>9. G[T] = f[x] + G[T \ {x}]
    BY <2>3, <2>6 DEF Additive
  <2> QED BY <2>3, <2>6, <2>8, <2>9
<1>7. S \in FiniteSubsetsOf(S)
  BY DEF FiniteSubsetsOf
<1> QED BY <1>1, <1>6, <1>7

\* ... so that it is a number, whatever it takes first.
LEMMA SumExists ==
  ASSUME NEW f, NEW S, IsFiniteSet(S), \A x \in S : f[x] \in Nat
  PROVE  \E G : Additive(f, S, G) /\ SumFunctionOnSet(f, S) = G[S]
BY AdditiveExists, FoldIsSum

\* The quantities of the top rows of a side have a sum.
LEMMA TotalType ==
  ASSUME NEW b \in Books
  PROVE  Total(b.bid, TopBids(b)) \in Nat /\ Total(b.ask, TopAsks(b)) \in Nat
<1>1. ASSUME NEW side \in [Prices -> Nat], NEW S \in SUBSET Prices
      PROVE  SumFunctionOnSet(side, S) \in Nat
  <2>1. IsFiniteSet(S)
    BY OrderAssumption, FS_Subset
  <2>2. \A p \in S : side[p] \in Nat
    OBVIOUS
  <2>3. PICK G : Additive(side, S, G) /\ SumFunctionOnSet(side, S) = G[S]
    BY <2>1, <2>2, SumExists
  <2> QED BY <2>3 DEF Additive
<1>2. b.bid \in [Prices -> Nat] /\ b.ask \in [Prices -> Nat]
  BY DEF Books
<1>3. TopBids(b) \in SUBSET Prices /\ TopAsks(b) \in SUBSET Prices
  BY DEF TopBids, TopAsks, Levels
<1> QED BY <1>1, <1>2, <1>3 DEF Total

\* As long as no product wraps around, the rule is the one that is documented.  The
\* code looks at the asks only if it does not buy: no case is lost, as the two sides
\* are never both heavy.
LEMMA WantedIsDocumented ==
  ASSUME NEW b \in Books, NEW x, NEW y, Fits(b)
  PROVE  Wanted(b, x, y) = Documented(b, x, y)
<1> DEFINE bids == Total(b.bid, TopBids(b))
<1> DEFINE asks == Total(b.ask, TopAsks(b))
<1>1. bids \in Nat /\ asks \in Nat /\ 11 * bids <= UintMax /\ 11 * asks <= UintMax
  BY TotalType DEF Fits
<1>2. /\ SumQuantities(b.bid, TopBids(b)) = Uint(bids)
      /\ SumQuantities(b.ask, TopAsks(b)) = Uint(asks)
  BY DEF SumQuantities
<1> HIDE DEF bids, asks
<1>3. Uint(bids) = bids /\ Uint(asks) = asks
  BY <1>1, OrderAssumption DEF Uint
<1>4. /\ Heavy(bids, asks) <=> Skewed(bids, asks)
      /\ Heavy(asks, bids) <=> Skewed(asks, bids)
      /\ ~(Heavy(bids, asks) /\ Heavy(asks, bids))
  BY <1>1, HeavyIsSkewed, NeverBothHeavy
<1>5. Wanted(b, x, y) = {o \in Orders :
         /\ ~NoQuote(b) /\ Take(o, b)
         /\ \/ o.type = "buy" /\ Heavy(bids, asks) /\ x > y
            \/ o.type = "sell" /\ ~(Heavy(bids, asks) /\ x > y) /\ Heavy(asks, bids) /\ y > x}
  BY <1>2, <1>3 DEF Wanted
<1>6. Documented(b, x, y) = {o \in Orders :
         /\ ~NoQuote(b) /\ Take(o, b)
         /\ \/ o.type = "buy" /\ Skewed(bids, asks) /\ x > y
            \/ o.type = "sell" /\ Skewed(asks, bids) /\ y > x}
  BY DEF Documented, bids, asks
<1> QED BY <1>4, <1>5, <1>6

-----------------------------------------------------------------------------
(* The invariant.                                                          *)

LEMMA InitIInv == Init => IInv
<1> SUFFICES ASSUME Init PROVE IInv
  OBVIOUS
<1>1. TypeOK
  <2>1. /\ outbox = <<>> /\ bookRing = <<>> /\ tradeRing = <<>> /\ orderRing = <<>>
        /\ clock = 1 /\ feederRead = 0 /\ received = 0 /\ pc = "book"
        /\ hasMore = FALSE /\ news = FALSE /\ owed = FALSE
    BY DEF Init
  <2>2. stamps \in Stamps
    BY DEF Init, Stamps, NoStamps
  <2>3. outbox \in Seq(Items) /\ bookRing \in Seq(Stamped) /\ tradeRing \in Seq(Stamped)
    BY <2>1
  <2>4. orderRing \in Seq(Sent)
    BY <2>1
  <2>5. clock \in Nat \ {0} /\ feederRead \in Nat /\ received \in Nat
    BY <2>1
  <2>6. book \in Books
    BY OrderAssumption DEF Init, Books, NoLevels
  <2> QED BY <2>1, <2>2, <2>3, <2>4, <2>5, <2>6, Zenon DEF TypeOK
<1>4. StampsInOrder
  <2>1. ASSUME NEW ring \in {bookRing, tradeRing} PROVE Len(ring) = 0
    BY <2>1 DEF Init
  <2>2. Len(orderRing) = 0
    BY DEF Init
  <2> QED BY <2>1, <2>2 DEF Init, StampsInOrder, NoStamps
<1>2. Settled
  BY NoneWanted DEF Init, Settled, New
<1>3. EventsWhole
  BY DEF Init, EventsWhole
<1> QED BY <1>1, <1>2, <1>3, <1>4 DEF IInv

\* Reading an item leaves the stamps in order.
LEMMA StampsStayInOrder ==
  ASSUME TypeOK, StampsInOrder,
         NEW s \in Stamped,
         0 < s.read, s.read <= s.write, s.write <= clock, UpdateStamps(s)
  PROVE  /\ stamps' \in Stamps /\ 0 < stamps'.read
         /\ stamps'.read <= stamps'.write /\ stamps'.write <= stamps'.traderRead
         /\ stamps'.traderRead = clock
<1>1. /\ clock \in Nat /\ s.read \in Nat /\ s.write \in Nat
      /\ stamps.read \in Nat /\ stamps.write \in Nat /\ stamps.traderRead \in Nat
  BY DEF TypeOK, Stamps, Stamped
<1>2. /\ stamps.read <= stamps.write /\ stamps.write <= stamps.traderRead
      /\ stamps.traderRead <= clock
  BY DEF StampsInOrder
<1> DEFINE r == Larger(stamps.read, s.read)
           w == Larger(stamps.write, s.write)
<1>3. r \in Nat /\ w \in Nat /\ 0 < r /\ r <= w /\ w <= clock
  BY <1>1, <1>2 DEF Larger
<1> HIDE DEF r, w
<1>4. stamps' = [read |-> r, write |-> w, traderRead |-> clock]
  BY DEF UpdateStamps, r, w
<1> QED BY <1>1, <1>3, <1>4 DEF Stamps

\* The elements of a queue after its head has been taken.
LEMMA AfterHead ==
  ASSUME NEW S, NEW q \in Seq(S), q # <<>>
  PROVE  /\ Head(q) \in S /\ Head(q) = q[1] /\ Tail(q) \in Seq(S)
         /\ Len(q) \in Nat \ {0} /\ Len(Tail(q)) = Len(q) - 1
         /\ \A i \in 1 .. Len(Tail(q)) : Tail(q)[i] = q[i + 1] /\ i + 1 \in 1 .. Len(q)
OBVIOUS

\* ... and after an element was appended.
LEMMA AfterAppend ==
  ASSUME NEW S, NEW q \in Seq(S), NEW e \in S
  PROVE  /\ Append(q, e) \in Seq(S) /\ Len(q) \in Nat /\ Len(Append(q, e)) = Len(q) + 1
         /\ Append(q, e) # <<>> /\ Append(q, e)[Len(q) + 1] = e
         /\ \A i \in 1 .. Len(q) : Append(q, e)[i] = q[i]
         /\ \A i \in 1 .. Len(q) + 1 : i \in 1 .. Len(q) \/ i = Len(q) + 1
<1>1. Append(q, e) \in Seq(S) /\ Len(q) \in Nat /\ Len(Append(q, e)) = Len(q) + 1
  OBVIOUS
<1>2. Append(q, e)[Len(q) + 1] = e /\ \A i \in 1 .. Len(q) : Append(q, e)[i] = q[i]
  OBVIOUS
<1>3. \A i \in 1 .. Len(q) + 1 : i \in 1 .. Len(q) \/ i = Len(q) + 1
  BY <1>1
<1>4. Append(q, e) # <<>>
  BY <1>1
<1> QED BY <1>1, <1>2, <1>3, <1>4

LEMMA TypeStep == ASSUME IInv, [Next]_vars PROVE TypeOK'
<1> USE TraderAssumption
<1>0. TypeOK /\ StampsInOrder
  BY DEF IInv
<1>1. CASE UNCHANGED vars
  BY <1>0, <1>1 DEF TypeOK, vars, feeder, trader
<1>2. CASE Tick
  BY <1>0, <1>2 DEF TypeOK, Tick, feeder, trader
<1>3. CASE ReadMessage
  BY <1>0, <1>3 DEF TypeOK, ReadMessage, trader
<1>4. CASE Callback
  <2> DEFINE stamped == [item |-> Head(outbox), read |-> feederRead, write |-> clock]
  <2>1. outbox # <<>> /\ outbox \in Seq(Items) /\ clock \in Nat /\ feederRead \in Nat
    BY <1>0, <1>4 DEF TypeOK, Callback
  <2>2. stamped \in Stamped /\ outbox' \in Seq(Items)
    BY <1>4, <2>1, AfterHead DEF Callback, Stamped
  <2>3. bookRing \in Seq(Stamped) /\ tradeRing \in Seq(Stamped)
    BY <1>0 DEF TypeOK
  <2>4. /\ bookRing' \in {bookRing, Append(bookRing, stamped)}
        /\ tradeRing' \in {tradeRing, Append(tradeRing, stamped)}
    BY <1>4 DEF Callback
  <2> HIDE DEF stamped
  <2>5. Append(bookRing, stamped) \in Seq(Stamped) /\ Append(tradeRing, stamped) \in Seq(Stamped)
    BY <2>2, <2>3
  <2>6. bookRing' \in Seq(Stamped) /\ tradeRing' \in Seq(Stamped)
    BY <2>3, <2>4, <2>5
  <2> QED BY <1>0, <1>4, <2>2, <2>6 DEF TypeOK, Callback, trader
<1>5. CASE ReadRow
  <2> DEFINE s == Head(bookRing)
  <2>1. bookRing \in Seq(Stamped) /\ bookRing # <<>>
    BY <1>0, <1>5 DEF TypeOK, ReadRow
  <2>2. s \in Stamped /\ Tail(bookRing) \in Seq(Stamped) /\ s = bookRing[1] /\ 1 \in 1 .. Len(bookRing)
    BY <2>1, AfterHead
  <2>3. 0 < s.read /\ s.read <= s.write /\ s.write <= clock /\ UpdateStamps(s)
    BY <1>0, <1>5, <2>2 DEF StampsInOrder, ReadRow
  <2> HIDE DEF s
  <2>4. stamps' \in Stamps
    BY <1>0, <2>2, <2>3, StampsStayInOrder
  <2>5. s.item.hasMore \in BOOLEAN
    BY <2>2 DEF Stamped, Items
  <2>6. hasMore' \in BOOLEAN /\ owed' \in BOOLEAN /\ pc' \in {"book", "trade"}
    BY <1>5, <2>5 DEF ReadRow, NextAfter, s
  <2>7. bookRing' \in Seq(Stamped)
    BY <1>5, <2>2 DEF ReadRow
  <2>8. UNCHANGED <<clock, outbox, feederRead, received, tradeRing, orderRing>> /\ news' = TRUE
    BY <1>5 DEF ReadRow, feeder
  <2>9. book' \in Books
    <3>1. ApplyUpdate(s.item)
      BY <1>5 DEF ReadRow, s
    <3>2. s.item.quantity \in Nat /\ s.item.side \in {"bid", "ask"}
      BY <2>2 DEF Stamped, Items
    <3>3. ASSUME book' = [book EXCEPT ![s.item.side][s.item.price] = s.item.quantity]
          PROVE  book' \in Books
      BY <1>0, <3>2, <3>3 DEF TypeOK, Books
    <3> QED BY <1>0, <3>1, <3>3 DEF ApplyUpdate, TypeOK
  <2> QED BY <1>0, <2>4, <2>6, <2>7, <2>8, <2>9 DEF TypeOK
<1>6. CASE ReadNoRow
  BY <1>0, <1>6 DEF TypeOK, ReadNoRow, feeder
<1>7. CASE ProcessTrade
  <2> DEFINE s == Head(tradeRing)
  <2>1. UNCHANGED <<clock, outbox, feederRead, received, bookRing, hasMore, owed, orderRing,
                    book>>
    BY <1>7 DEF ProcessTrade, feeder
  <2>2. CASE tradeRing = <<>>
    BY <1>0, <1>7, <2>1, <2>2 DEF TypeOK, ProcessTrade
  <2>3. CASE tradeRing # <<>>
    <3>1. tradeRing \in Seq(Stamped)
      BY <1>0 DEF TypeOK
    <3>2. s \in Stamped /\ Tail(tradeRing) \in Seq(Stamped) /\ s = tradeRing[1] /\ 1 \in 1 .. Len(tradeRing)
      BY <2>3, <3>1, AfterHead
    <3>3. 0 < s.read /\ s.read <= s.write /\ s.write <= clock /\ UpdateStamps(s)
      BY <1>0, <1>7, <2>3, <3>2 DEF StampsInOrder, ProcessTrade
    <3> HIDE DEF s
    <3>4. stamps' \in Stamps
      BY <1>0, <3>2, <3>3, StampsStayInOrder
    <3>5. tradeRing' = Tail(tradeRing) /\ news' = TRUE /\ pc' = "order"
      BY <1>7, <2>3 DEF ProcessTrade
    <3> QED BY <1>0, <2>1, <3>2, <3>4, <3>5 DEF TypeOK
  <2> QED BY <2>2, <2>3
<1>8. CASE CreateOrder
  <2>1. ASSUME NEW o \in New, Order(o) PROVE orderRing' \in Seq(Sent)
    <3>1. o \in Orders
      BY DEF New, Wanted
    <3>2. [order |-> o, stamps |-> stamps, traderWrite |-> clock] \in Sent
      BY <1>0, <3>1 DEF TypeOK, Sent
    <3> QED BY <1>0, <2>1, <3>2 DEF TypeOK, Order
  <2>2. orderRing' \in Seq(Sent)
    BY <1>0, <1>8, <2>1 DEF TypeOK, CreateOrder
  <2> QED BY <1>0, <1>8, <2>2 DEF TypeOK, CreateOrder, feeder
<1>9. CASE Exit
  BY <1>0, <1>9 DEF TypeOK, Exit, feeder
<1>10. CASE ReadOrder
  <2>1. orderRing' \in Seq(Sent)
    BY <1>0, <1>10, AfterHead DEF TypeOK, ReadOrder
  <2> QED BY <1>0, <1>10, <2>1 DEF TypeOK, ReadOrder, feeder, trader
<1> QED BY <1>1, <1>2, <1>3, <1>4, <1>5, <1>6, <1>7, <1>8, <1>9, <1>10 DEF Next

LEMMA StampsStep == ASSUME IInv, [Next]_vars PROVE StampsInOrder'
<1>0. TypeOK /\ StampsInOrder /\ TypeOK'
  BY TypeStep DEF IInv
<1>1. /\ clock \in Nat /\ clock' \in Nat /\ feederRead \in Nat
      /\ bookRing \in Seq(Stamped) /\ tradeRing \in Seq(Stamped) /\ orderRing \in Seq(Sent)
  BY <1>0 DEF TypeOK
\* What the clock has passed it has passed later.
<1>2. ASSUME clock <= clock',
             UNCHANGED <<feederRead, outbox, bookRing, tradeRing, stamps, news, orderRing>>
      PROVE  StampsInOrder'
  <2>1. ASSUME NEW n \in Nat, n <= clock PROVE n <= clock'
    BY <1>1, <1>2, <2>1
  <2>2. ASSUME NEW ring \in {bookRing, tradeRing}, NEW i \in 1 .. Len(ring)
        PROVE  0 < ring[i].read /\ ring[i].read <= ring[i].write /\ ring[i].write <= clock'
    <3>1. 0 < ring[i].read /\ ring[i].read <= ring[i].write /\ ring[i].write <= clock
      BY <1>0 DEF StampsInOrder
    <3>2. ring[i] \in Stamped
      BY <1>1
    <3>3. ring[i].write \in Nat
      BY <3>2 DEF Stamped
    <3> QED BY <2>1, <3>1, <3>3
  <2>3. ASSUME NEW i \in 1 .. Len(orderRing)
        PROVE  LET o == orderRing[i]
               IN  /\ 0 < o.stamps.read /\ o.stamps.read <= o.stamps.write
                   /\ o.stamps.write <= o.stamps.traderRead
                   /\ o.stamps.traderRead <= o.traderWrite /\ o.traderWrite <= clock'
    <3>2. orderRing[i] \in Sent
      BY <1>1
    <3>3. orderRing[i].traderWrite \in Nat
      BY <3>2 DEF Sent
    <3> QED BY <1>0, <2>1, <3>3 DEF StampsInOrder
  <2>4. /\ feederRead <= clock' /\ stamps.traderRead <= clock'
    BY <1>0, <2>1 DEF StampsInOrder, TypeOK, Stamps
  <2> QED BY <1>0, <1>2, <2>2, <2>3, <2>4 DEF StampsInOrder
<1>3. clock <= clock
  BY <1>1
<1>4. CASE UNCHANGED vars
  BY <1>2, <1>3, <1>4 DEF vars, feeder, trader
<1>5. CASE Tick
  <2>1. clock <= clock'
    BY <1>1, <1>5 DEF Tick
  <2> QED BY <1>2, <1>5, <2>1 DEF Tick, feeder, trader
<1>6. CASE ReadMessage
  <2>1. feederRead' = clock /\ clock' = clock /\ 0 < clock
    BY <1>0, <1>6 DEF ReadMessage, TypeOK
  <2>2. UNCHANGED <<bookRing, tradeRing, stamps, news, orderRing>>
    BY <1>6 DEF ReadMessage, trader
  <2> QED BY <1>0, <1>3, <2>1, <2>2 DEF StampsInOrder
<1>7. CASE Callback
  <2> DEFINE stamped == [item |-> Head(outbox), read |-> feederRead, write |-> clock]
  <2>1. 0 < stamped.read /\ stamped.read <= stamped.write /\ stamped.write <= clock
    BY <1>0, <1>1, <1>3, <1>7 DEF StampsInOrder, Callback
  <2>2. stamped \in Stamped
    BY <1>0, <1>1, <1>7, AfterHead DEF Callback, TypeOK, Stamped
  <2>3. /\ bookRing' \in {bookRing, Append(bookRing, stamped)}
        /\ tradeRing' \in {tradeRing, Append(tradeRing, stamped)}
        /\ UNCHANGED <<clock, feederRead, stamps, news, orderRing>> /\ outbox # <<>>
    BY <1>7 DEF Callback, trader
  <2> HIDE DEF stamped
  <2>4. ASSUME NEW q \in {bookRing, tradeRing}, NEW i \in 1 .. Len(Append(q, stamped))
        PROVE  LET s == Append(q, stamped)[i]
               IN  0 < s.read /\ s.read <= s.write /\ s.write <= clock
    <3>1. q \in Seq(Stamped)
      BY <1>1
    <3>2. CASE i \in 1 .. Len(q)
      <4>1. Append(q, stamped)[i] = q[i]
        BY <2>2, <3>1, <3>2, AfterAppend
      <4> QED BY <1>0, <3>2, <4>1 DEF StampsInOrder
    <3>3. CASE i = Len(q) + 1
      <4>1. Append(q, stamped)[i] = stamped
        BY <2>2, <3>1, <3>3, AfterAppend
      <4> QED BY <2>1, <4>1
    <3>4. i \in 1 .. Len(q) \/ i = Len(q) + 1
      BY <2>2, <3>1, AfterAppend
    <3> QED BY <3>2, <3>3, <3>4
  <2>5. ASSUME NEW q \in {bookRing', tradeRing'}, NEW i \in 1 .. Len(q)
        PROVE  0 < q[i].read /\ q[i].read <= q[i].write /\ q[i].write <= clock
    <3>1. CASE q \in {bookRing, tradeRing}
      BY <1>0, <2>5, <3>1 DEF StampsInOrder
    <3>2. CASE \E r \in {bookRing, tradeRing} : q = Append(r, stamped)
      BY <2>4, <3>2
    <3> QED BY <2>3, <2>5, <3>1, <3>2
  <2> QED BY <1>0, <2>3, <2>5 DEF StampsInOrder
\* A read from one of the market data rings.
<1>8. ASSUME NEW q \in {bookRing, tradeRing}, q # <<>>, UpdateStamps(Head(q)),
             bookRing' \in {bookRing, Tail(q)}, tradeRing' \in {tradeRing, Tail(q)},
             UNCHANGED <<clock, feederRead, outbox, orderRing>>
      PROVE  StampsInOrder'
  <2> DEFINE s == Head(q)
  <2>1. q \in Seq(Stamped)
    BY <1>1
  <2>2. /\ s \in Stamped /\ s = q[1] /\ 1 \in 1 .. Len(q)
        /\ \A i \in 1 .. Len(Tail(q)) : Tail(q)[i] = q[i + 1] /\ i + 1 \in 1 .. Len(q)
    BY <1>8, <2>1, AfterHead
  <2>3. 0 < s.read /\ s.read <= s.write /\ s.write <= clock
    BY <1>0, <2>2 DEF StampsInOrder
  <2>4. UpdateStamps(s)
    BY <1>8
  <2> HIDE DEF s
  <2>5. /\ 0 < stamps'.read /\ stamps'.read <= stamps'.write
        /\ stamps'.write <= stamps'.traderRead /\ stamps'.traderRead = clock
    BY <1>0, <2>2, <2>3, <2>4, StampsStayInOrder
  <2>6. ASSUME NEW r \in {bookRing', tradeRing'}, NEW i \in 1 .. Len(r)
        PROVE  0 < r[i].read /\ r[i].read <= r[i].write /\ r[i].write <= clock
    <3>1. CASE r \in {bookRing, tradeRing}
      BY <1>0, <2>6, <3>1 DEF StampsInOrder
    <3>2. CASE r = Tail(q)
      <4>1. r[i] = q[i + 1] /\ i + 1 \in 1 .. Len(q)
        BY <2>2, <2>6, <3>2
      <4> QED BY <1>0, <4>1 DEF StampsInOrder
    <3> QED BY <1>8, <2>6, <3>1, <3>2
  <2> QED BY <1>0, <1>3, <1>8, <2>5, <2>6 DEF StampsInOrder
<1>9. CASE ReadRow
  BY <1>8, <1>9 DEF ReadRow, feeder
<1>10. CASE ReadNoRow
  BY <1>2, <1>3, <1>10 DEF ReadNoRow, feeder
<1>11. CASE ProcessTrade
  <2>1. CASE tradeRing # <<>>
    BY <1>8, <1>11, <2>1 DEF ProcessTrade, feeder
  <2>2. CASE tradeRing = <<>>
    BY <1>2, <1>3, <1>11, <2>2 DEF ProcessTrade, feeder
  <2> QED BY <2>1, <2>2
<1>12. CASE CreateOrder
  <2>1. CASE \E o \in New : Order(o)
    <3> PICK o \in New : Order(o)
      BY <2>1
    <3> DEFINE e == [order |-> o, stamps |-> stamps, traderWrite |-> clock]
    <3>1. news
      <4>1. New # {}
        OBVIOUS
      <4> QED BY <1>0, <4>1 DEF IInv, Settled, TypeOK
    <3>2. /\ 0 < e.stamps.read /\ e.stamps.read <= e.stamps.write
          /\ e.stamps.write <= e.stamps.traderRead
          /\ e.stamps.traderRead <= e.traderWrite /\ e.traderWrite <= clock
      BY <1>0, <1>3, <3>1 DEF StampsInOrder
    <3>3. e \in Sent
      <4>1. o \in Orders
        BY DEF New, Wanted
      <4> QED BY <1>0, <4>1 DEF Sent, TypeOK
    <3>4. orderRing' = Append(orderRing, e)
      BY DEF Order
    <3> HIDE DEF e
    <3>5. ASSUME NEW i \in 1 .. Len(orderRing')
          PROVE  LET s == orderRing'[i]
                 IN  /\ 0 < s.stamps.read /\ s.stamps.read <= s.stamps.write
                     /\ s.stamps.write <= s.stamps.traderRead
                     /\ s.stamps.traderRead <= s.traderWrite /\ s.traderWrite <= clock
      <4>1. CASE i \in 1 .. Len(orderRing)
        <5>1. orderRing'[i] = orderRing[i]
          BY <1>1, <3>3, <3>4, <4>1, AfterAppend
        <5> QED BY <1>0, <4>1, <5>1 DEF StampsInOrder
      <4>2. CASE i = Len(orderRing) + 1
        <5>1. orderRing'[i] = e
          BY <1>1, <3>3, <3>4, <4>2, AfterAppend
        <5> QED BY <3>2, <5>1
      <4>3. i \in 1 .. Len(orderRing) \/ i = Len(orderRing) + 1
        BY <1>1, <3>3, <3>4, <3>5, AfterAppend
      <4> QED BY <4>1, <4>2, <4>3
    <3>6. UNCHANGED <<clock, feederRead, outbox, bookRing, tradeRing, stamps>> /\ news' = FALSE
      BY <1>12 DEF CreateOrder, feeder
    <3> QED BY <1>0, <3>5, <3>6 DEF StampsInOrder
  <2>2. CASE UNCHANGED orderRing
    <3>1. UNCHANGED <<clock, feederRead, outbox, bookRing, tradeRing, stamps>> /\ news' = FALSE
      BY <1>12 DEF CreateOrder, feeder
    <3> QED BY <1>0, <2>2, <3>1 DEF StampsInOrder
  <2> QED BY <1>12, <2>1, <2>2 DEF CreateOrder
<1>13. CASE Exit
  BY <1>2, <1>3, <1>13 DEF Exit, feeder
<1>14. CASE ReadOrder
  <2>1. /\ orderRing' = Tail(orderRing)
        /\ \A i \in 1 .. Len(Tail(orderRing)) :
             Tail(orderRing)[i] = orderRing[i + 1] /\ i + 1 \in 1 .. Len(orderRing)
    BY <1>1, <1>14, AfterHead DEF ReadOrder
  <2>2. UNCHANGED <<clock, feederRead, outbox, bookRing, tradeRing, stamps, news>>
    BY <1>14 DEF ReadOrder, feeder, trader
  <2>3. ASSUME NEW i \in 1 .. Len(orderRing')
        PROVE  LET s == orderRing'[i]
               IN  /\ 0 < s.stamps.read /\ s.stamps.read <= s.stamps.write
                   /\ s.stamps.write <= s.stamps.traderRead
                   /\ s.stamps.traderRead <= s.traderWrite /\ s.traderWrite <= clock
    <3>1. orderRing'[i] = orderRing[i + 1] /\ i + 1 \in 1 .. Len(orderRing)
      BY <2>1, <2>3
    <3> QED BY <1>0, <3>1 DEF StampsInOrder
  <2> QED BY <1>0, <2>2, <2>3 DEF StampsInOrder
<1> QED BY <1>4, <1>5, <1>6, <1>7, <1>9, <1>10, <1>11, <1>12, <1>13, <1>14 DEF Next

LEMMA SettledStep == ASSUME IInv, [Next]_vars PROVE Settled'
<1>0. TypeOK /\ Settled
  BY DEF IInv
\* Nothing the rule looks at has changed.
<1>1. ASSUME UNCHANGED <<book, window, lastOrder, news>> PROVE Settled'
  <2>1. New' = New
    BY <1>1 DEF New, AggressiveBuyVolume, AggressiveSellVolume
  <2> QED BY <1>0, <1>1, <2>1 DEF Settled
<1>2. CASE UNCHANGED vars
  BY <1>1, <1>2 DEF vars, trader
<1>3. CASE Tick
  BY <1>1, <1>3 DEF Tick, trader
<1>4. CASE ReadMessage
  BY <1>1, <1>4 DEF ReadMessage, trader
<1>5. CASE Callback
  BY <1>1, <1>5 DEF Callback, trader
<1>6. CASE ReadRow
  BY <1>6 DEF ReadRow, Settled
<1>7. CASE ReadNoRow
  BY <1>1, <1>7 DEF ReadNoRow
<1>8. CASE ProcessTrade
  <2>1. CASE tradeRing # <<>>
    BY <1>8, <2>1 DEF ProcessTrade, Settled
  <2>2. CASE tradeRing = <<>>
    BY <1>1, <1>8, <2>2 DEF ProcessTrade
  <2> QED BY <2>1, <2>2
<1>9. CASE CreateOrder
  <2>1. UNCHANGED <<book, window>>
    BY <1>9 DEF CreateOrder
  <2>2. New' = Wanted(book, AggressiveBuyVolume, AggressiveSellVolume) \ {lastOrder'}
    BY <2>1 DEF New, AggressiveBuyVolume, AggressiveSellVolume
  <2>3. CASE \E o \in New : Order(o)
    <3> PICK o \in New : Order(o)
      BY <2>3
    <3>1. lastOrder' = o /\ o \in Wanted(book, AggressiveBuyVolume, AggressiveSellVolume)
      BY DEF Order, New
    <3> QED BY <2>2, <3>1, OneWanted DEF Settled
  <2>4. CASE New = {} /\ UNCHANGED lastOrder
    BY <2>2, <2>4 DEF Settled, New
  <2> QED BY <1>9, <2>3, <2>4 DEF CreateOrder
<1>10. CASE Exit
  BY <1>1, <1>10 DEF Exit
<1>11. CASE ReadOrder
  BY <1>1, <1>11 DEF ReadOrder, trader
<1> QED BY <1>2, <1>3, <1>4, <1>5, <1>6, <1>7, <1>8, <1>9, <1>10, <1>11 DEF Next

LEMMA EventsStep == ASSUME IInv, [Next]_vars PROVE EventsWhole'
<1>0. TypeOK /\ EventsWhole
  BY DEF IInv
<1>1. outbox \in Seq(Items) /\ bookRing \in Seq(Stamped)
  BY <1>0 DEF TypeOK
\* Neither the outbox nor the ring, and the turn goes on without a debt.
<1>2. ASSUME UNCHANGED <<outbox, bookRing, hasMore>>, owed' => pc' # "book" PROVE EventsWhole'
  BY <1>0, <1>2 DEF EventsWhole
<1>3. CASE UNCHANGED vars
  BY <1>0, <1>2, <1>3 DEF vars, feeder, trader, EventsWhole
<1>4. CASE Tick
  BY <1>0, <1>2, <1>4 DEF Tick, feeder, trader, EventsWhole
<1>5. CASE ReadMessage
  <2>1. UNCHANGED <<bookRing, hasMore, pc, owed>> /\ outbox = <<>>
    BY <1>5 DEF ReadMessage, trader
  <2>2. PICK m \in Messages : outbox' = m
    BY <1>5 DEF ReadMessage
  <2>3. \A i \in 1 .. Len(outbox') :
          outbox'[i].hasMore = (i < Len(outbox')) /\ outbox'[i].kind = outbox'[1].kind
    BY <2>2, TraderAssumption DEF TraderAssumption
  <2> QED BY <1>0, <2>1, <2>3 DEF EventsWhole
<1>6. CASE Callback
  <2> DEFINE s == [item |-> Head(outbox), read |-> feederRead, write |-> clock]
  <2>1. /\ outbox # <<>> /\ outbox' = Tail(outbox) /\ UNCHANGED <<hasMore, pc, owed>>
        /\ \/ s.item.kind = "row" /\ bookRing' = Append(bookRing, s)
           \/ s.item.kind = "trade" /\ bookRing' = bookRing
    BY <1>6 DEF Callback, trader
  <2>2. /\ Head(outbox) = outbox[1] /\ Len(outbox) \in Nat \ {0}
        /\ outbox' \in Seq(Items) /\ Len(outbox') = Len(outbox) - 1
        /\ \A i \in 1 .. Len(outbox') : outbox'[i] = outbox[i + 1] /\ i + 1 \in 1 .. Len(outbox)
    BY <1>1, <2>1, AfterHead
  <2>3. s \in Stamped /\ s.item = outbox[1]
    BY <1>0, <1>1, <2>1, AfterHead DEF TypeOK, Stamped
  <2>4. /\ outbox[1].hasMore = (1 < Len(outbox))
        /\ \A i \in 1 .. Len(outbox) :
             outbox[i].hasMore = (i < Len(outbox)) /\ outbox[i].kind = outbox[1].kind
    BY <1>0, <2>2 DEF EventsWhole
  <2>5. ASSUME NEW i \in 1 .. Len(outbox')
        PROVE  outbox'[i].hasMore = (i < Len(outbox')) /\ outbox'[i].kind = outbox'[1].kind
    <3>1. 1 \in 1 .. Len(outbox')
      BY <2>2
    <3>2. outbox'[i] = outbox[i + 1] /\ outbox'[1] = outbox[2]
      BY <2>2, <3>1
    <3>3. i + 1 \in 1 .. Len(outbox) /\ 2 \in 1 .. Len(outbox)
      BY <2>2, <3>1
    <3>4. outbox[i + 1].kind = outbox[1].kind /\ outbox[2].kind = outbox[1].kind
      BY <2>4, <3>3
    <3>5. outbox[i + 1].hasMore = (i + 1 < Len(outbox))
      BY <2>4, <3>3
    <3>6. (i + 1 < Len(outbox)) = (i < Len(outbox'))
      BY <2>2
    <3> QED BY <3>2, <3>4, <3>5, <3>6
  <2> HIDE DEF s
  <2>6. CASE s.item.kind = "row" /\ bookRing' = Append(bookRing, s)
    <3>1. bookRing' # <<>> /\ bookRing'[Len(bookRing')] = s
      BY <1>1, <2>3, <2>6, AfterAppend
    <3>2. ASSUME s.item.hasMore PROVE outbox' # <<>> /\ outbox'[1].kind = "row"
      <4>1. 1 < Len(outbox)
        BY <2>3, <2>4, <3>2
      <4>2. 1 \in 1 .. Len(outbox') /\ 2 \in 1 .. Len(outbox)
        BY <2>2, <4>1
      <4>3. outbox'[1] = outbox[2] /\ outbox[2].kind = outbox[1].kind
        BY <2>2, <2>4, <4>2
      <4>4. outbox' # <<>>
        BY <4>2
      <4> QED BY <2>3, <2>6, <4>3, <4>4
    <3> QED BY <1>0, <2>1, <2>5, <3>1, <3>2 DEF EventsWhole
  <2>7. CASE s.item.kind = "trade" /\ bookRing' = bookRing
    <3>1. outbox[1].kind # "row"
      BY <2>3, <2>7
    <3> QED BY <1>0, <2>1, <2>5, <2>7, <3>1 DEF EventsWhole
  <2> QED BY <2>1, <2>6, <2>7
<1>7. CASE ReadRow
  <2> DEFINE s == Head(bookRing)
  <2>1. bookRing # <<>> /\ bookRing' = Tail(bookRing) /\ UNCHANGED outbox
    BY <1>7 DEF ReadRow, feeder
  <2>2. /\ s = bookRing[1] /\ s \in Stamped /\ Len(bookRing) \in Nat \ {0}
        /\ bookRing' \in Seq(Stamped) /\ Len(bookRing') = Len(bookRing) - 1
        /\ \A i \in 1 .. Len(bookRing') : bookRing'[i] = bookRing[i + 1]
    BY <1>1, <2>1, AfterHead
  <2>3. hasMore' = s.item.hasMore /\ pc' = NextAfter(s.item) /\ owed' = ~s.item.hasMore
    BY <1>7 DEF ReadRow
  <2> HIDE DEF s
  <2>4. s.item.hasMore \in BOOLEAN
    BY <2>2 DEF Stamped, Items
  <2>5. owed' => pc' # "book"
    BY <2>3, <2>4 DEF NextAfter
  <2>6. (IF bookRing' = <<>> THEN hasMore' ELSE bookRing'[Len(bookRing')].item.hasMore)
          = bookRing[Len(bookRing)].item.hasMore
    <3>1. CASE bookRing' = <<>>
      <4>1. Len(bookRing) = 1
        BY <2>2, <3>1
      <4> QED BY <2>2, <2>3, <3>1, <4>1
    <3>2. CASE bookRing' # <<>>
      <4>1. Len(bookRing') \in 1 .. Len(bookRing') /\ Len(bookRing') + 1 = Len(bookRing)
        BY <2>2, <3>2
      <4>2. bookRing'[Len(bookRing')] = bookRing[Len(bookRing)]
        BY <2>2, <4>1
      <4> QED BY <3>2, <4>2
    <3> QED BY <3>1, <3>2
  <2> QED BY <1>0, <2>1, <2>5, <2>6 DEF EventsWhole
<1>8. CASE ReadNoRow
  BY <1>2, <1>8 DEF ReadNoRow, feeder
<1>9. CASE ProcessTrade
  BY <1>2, <1>9 DEF ProcessTrade, feeder
<1>10. CASE CreateOrder
  BY <1>2, <1>10 DEF CreateOrder, feeder
<1>11. CASE Exit
  BY <1>2, <1>11 DEF Exit, feeder
<1>12. CASE ReadOrder
  BY <1>0, <1>2, <1>12 DEF ReadOrder, feeder, trader, EventsWhole
<1> QED BY <1>3, <1>4, <1>5, <1>6, <1>7, <1>8, <1>9, <1>10, <1>11, <1>12 DEF Next

\* On every ring and in every hand no stamp is later than the next one's, an idle turn
\* has nothing to order, and the rows of an event stay together.
THEOREM Invariant == Spec => []IInv
<1>1. Init => IInv
  BY InitIInv
<1>2. IInv /\ [Next]_vars => IInv'
  BY TypeStep, StampsStep, SettledStep, EventsStep DEF IInv
<1> QED BY <1>1, <1>2, PTL DEF Spec

-----------------------------------------------------------------------------
(* What follows from it.                                                   *)

\* The parts of every latency sample add up, for every schedule of the processes.
THEOREM SamplesAddUp == Spec => []PartsAddUp
<1>1. Init => PartsAddUp
  BY DEF Init, PartsAddUp, NoSample
<1>2. ASSUME IInv, PartsAddUp, [Next]_vars PROVE PartsAddUp'
  <2>1. CASE UNCHANGED sample
    BY <1>2, <2>1 DEF PartsAddUp
  <2>2. CASE ReadOrder
    <3> DEFINE o == Head(orderRing)
               s == o.stamps
    <3>1. orderRing \in Seq(Sent) /\ orderRing # <<>> /\ clock \in Nat
      BY <1>2, <2>2 DEF ReadOrder, IInv, TypeOK
    <3>2. o \in Sent /\ o = orderRing[1] /\ 1 \in 1 .. Len(orderRing)
      BY <3>1, AfterHead
    <3>3. /\ 0 < s.read /\ s.read <= s.write /\ s.write <= s.traderRead
          /\ s.traderRead <= o.traderWrite /\ o.traderWrite <= clock
      BY <1>2, <3>2 DEF IInv, StampsInOrder
    <3>4. /\ s.read \in Nat /\ s.write \in Nat /\ s.traderRead \in Nat /\ o.traderWrite \in Nat
      BY <3>2 DEF Sent, Stamps
    <3>5. sample' = [total      |-> MonotonicDelta(clock, s.read),
                     feeder     |-> MonotonicDelta(s.write, s.read),
                     mdQueue    |-> MonotonicDelta(s.traderRead, s.write),
                     trader     |-> MonotonicDelta(o.traderWrite, s.traderRead),
                     orderQueue |-> MonotonicDelta(clock, o.traderWrite)]
      BY <2>2 DEF ReadOrder
    <3> HIDE DEF o, s
    <3>6. /\ MonotonicDelta(clock, s.read) = clock - s.read
          /\ MonotonicDelta(s.write, s.read) = s.write - s.read
          /\ MonotonicDelta(s.traderRead, s.write) = s.traderRead - s.write
          /\ MonotonicDelta(o.traderWrite, s.traderRead) = o.traderWrite - s.traderRead
          /\ MonotonicDelta(clock, o.traderWrite) = clock - o.traderWrite
      BY <3>1, <3>3, <3>4 DEF MonotonicDelta
    <3> QED BY <3>1, <3>4, <3>5, <3>6 DEF PartsAddUp
  <2>3. UNCHANGED sample \/ ReadOrder
    BY <1>2 DEF Next, vars, Tick, ReadMessage, Callback, ReadRow, ReadNoRow, ProcessTrade,
                CreateOrder, Exit
  <2> QED BY <2>1, <2>2, <2>3
<1> QED BY <1>1, <1>2, Invariant, PTL DEF Spec

\* For every rule that comes to one order at most, an order is only written on news.
THEOREM OrdersOnlyOnNews == Spec => OnlyOnNews
<1>1. ASSUME IInv, [Next]_vars PROVE [Len(orderRing') > Len(orderRing) => news]_vars
  <2>1. orderRing \in Seq(Sent) /\ Len(orderRing) \in Nat /\ Settled /\ news \in BOOLEAN
    BY <1>1 DEF IInv, TypeOK
  <2>2. CASE UNCHANGED orderRing
    BY <2>1, <2>2
  <2>3. CASE CreateOrder
    <3>1. New = {} => UNCHANGED orderRing
      BY <2>3 DEF CreateOrder
    <3> QED BY <2>1, <2>2, <3>1 DEF Settled
  <2>4. CASE ReadOrder
    <3>1. orderRing # <<>> /\ orderRing' = Tail(orderRing)
      BY <2>4 DEF ReadOrder
    <3>2. Len(orderRing') = Len(orderRing) - 1
      BY <2>1, <3>1, AfterHead
    <3> QED BY <2>1, <3>2
  <2>5. UNCHANGED orderRing \/ CreateOrder \/ ReadOrder
    BY <1>1 DEF Next, vars, Tick, ReadMessage, Callback, ReadRow, ReadNoRow, ProcessTrade, Exit
  <2> QED BY <2>2, <2>3, <2>4, <2>5
<1> QED BY <1>1, Invariant, PTL DEF Spec, OnlyOnNews

\* Every event is decided on, for every sequence of messages and every pace.
THEOREM EveryEventDecided == Spec => EventsDecided
<1> DEFINE A == /\ Len(bookRing') < Len(bookRing) => ~owed
                /\ pc = "book" /\ pc' = "trade" /\ hasMore'
                     => outbox # <<>> /\ Head(outbox).kind = "row"
<1>1. ASSUME IInv, [Next]_vars PROVE [A]_vars
  <2>1. /\ bookRing \in Seq(Stamped) /\ Len(bookRing) \in Nat /\ outbox \in Seq(Items)
        /\ EventsWhole /\ owed \in BOOLEAN
    BY <1>1 DEF IInv, TypeOK
  <2>2. CASE ReadRow
    <3>1. pc = "book" /\ ~owed
      BY <2>1, <2>2 DEF ReadRow, EventsWhole
    <3>2. hasMore' => pc' = "book"
      BY <2>2 DEF ReadRow, NextAfter
    <3> QED BY <3>1, <3>2
  <2>3. CASE ReadNoRow
    <3>1. bookRing = <<>> /\ UNCHANGED <<bookRing, hasMore, outbox>>
      BY <2>3 DEF ReadNoRow, feeder
    <3>2. hasMore => outbox # <<>> /\ outbox[1].kind = "row"
      BY <2>1, <3>1 DEF EventsWhole
    <3>3. outbox # <<>> => Head(outbox) = outbox[1]
      BY <2>1, AfterHead
    <3>4. ~(Len(bookRing') < Len(bookRing))
      BY <2>1, <3>1
    <3> QED BY <3>1, <3>2, <3>3, <3>4
  <2>4. CASE Callback
    <3>1. UNCHANGED pc
      BY <2>4 DEF Callback, trader
    <3>2. Len(bookRing') = Len(bookRing) \/ Len(bookRing') = Len(bookRing) + 1
      BY <2>1, <2>4 DEF Callback
    <3>3. ~(Len(bookRing') < Len(bookRing))
      BY <2>1, <3>2
    <3> QED BY <3>1, <3>3
  <2>5. CASE UNCHANGED bookRing /\ (UNCHANGED pc \/ pc' # "trade")
    <3>1. ~(Len(bookRing') < Len(bookRing))
      BY <2>1, <2>5
    <3> QED BY <2>5, <3>1
  <2>6. ReadRow \/ ReadNoRow \/ Callback \/ (UNCHANGED bookRing /\ (UNCHANGED pc \/ pc' # "trade"))
    BY <1>1 DEF Next, vars, Tick, ReadMessage, ProcessTrade, CreateOrder, Exit, ReadOrder,
                trader, feeder
  <2> QED BY <2>2, <2>3, <2>4, <2>5, <2>6
<1> QED BY <1>1, Invariant, PTL DEF Spec, EventsDecided

\* As long as no product wraps around, every turn writes the order that is due by the
\* README's rule, and none if that is the last one or there is none.
THEOREM OrdersDocumented == Spec => OrdersAsDocumented
<1> DEFINE due == Documented(book, AggressiveBuyVolume, AggressiveSellVolume) \ {lastOrder}
<1> DEFINE A == pc = "order" /\ Fits(book) =>
                  IF due = {} THEN orderRing' = orderRing ELSE lastOrder' \in due
<1>1. ASSUME IInv, [Next]_vars PROVE [A]_pc
  <2> SUFFICES ASSUME pc' # pc, pc = "order", Fits(book)
               PROVE  IF due = {} THEN orderRing' = orderRing ELSE lastOrder' \in due
    OBVIOUS
  <2>1. CreateOrder
    BY <1>1 DEF Next, vars, trader, Tick, ReadMessage, Callback, ReadRow, ReadNoRow,
                ProcessTrade, Exit, ReadOrder
  <2>2. book \in Books
    BY <1>1 DEF IInv, TypeOK
  <2>3. New = due
    BY <2>2, WantedIsDocumented DEF New
  <2> HIDE DEF due
  <2> QED BY <2>1, <2>3 DEF CreateOrder, Order
<1> QED BY <1>1, Invariant, PTL DEF Spec, OrdersAsDocumented
=============================================================================
