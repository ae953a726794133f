------------------------- MODULE OrderBookSyncProofs -------------------------
(***************************************************************************)
(* Proofs about the synchronisation of the order book, for every exchange, *)
(* ring, depth of the book, age of the snapshots and number of losses and  *)
(* restarts: what makes the trader ask for a snapshot, that it is caught   *)
(* up when everything is read, and what its book can be wrong about.       *)
(***************************************************************************)
EXTENDS OrderBookSync, FiniteSetTheorems, FunctionTheorems, SequenceTheorems, TLAPS

\* The lemmas about a side, of each of the two.
BidSide == INSTANCE OrderBookProofs WITH
  Ascending <- FALSE, price <- bidPrice, quantity <- bidQuantity, count <- bidCount,
  told <- [p \in Prices |-> 0], crowded <- {}, updates <- 0, MaxUpdates <- 0

AskSide == INSTANCE OrderBookProofs WITH
  Ascending <- TRUE, price <- askPrice, quantity <- askQuantity, count <- askCount,
  told <- [p \in Prices |-> 0], crowded <- {}, updates <- 0, MaxUpdates <- 0

-----------------------------------------------------------------------------
\* The invariant, by its parts.

Books  == [Levels -> Quantities]
RowSet == [level : Levels, quantity : Quantities, first : Nat, last : Nat, hasMore : BOOLEAN]

\* The variables are in their types, and the exchange's book changes with its number.
Types ==
  /\ ledger \in Seq(Books) /\ published \in 1 .. Now /\ lastLost \in 0 .. published
  /\ \A id \in 2 .. Now : ledger[id] # ledger[id - 1]
  /\ outbox \in Seq(RowSet) /\ ring \in Seq(RowSet) /\ Len(ring) <= RingLength
  /\ enabled \in BOOLEAN /\ pc \in {"read", "snapshot", "down"}
  /\ pc = "snapshot" => row \in RowSet
  /\ lastUpdateId \in 0 .. Now /\ partial \in BOOLEAN /\ missed \subseteq Levels
  /\ stale \in BOOLEAN

\* A row has the quantity of its level after its event.
RowTrue(r) ==
  /\ 2 <= r.first /\ r.first <= r.last /\ r.last <= published
  /\ r.quantity = ledger[r.last][r.level]

RowsTrue ==
  /\ enabled => \A i \in 1 .. Len(Coming) : RowTrue(Coming[i])
  /\ \A i \in 1 .. Len(outbox) : RowTrue(outbox[i])
  /\ pc = "snapshot" => RowTrue(row)

\* The feeder writes the rows of the last event published.
OneEvent ==
  /\ \A i \in 1 .. Len(outbox) : outbox[i].last = published
  /\ \A i, j \in 1 .. Len(outbox) :
       i < j => outbox[i].first = outbox[j].first /\ outbox[i].hasMore

\* The rows come event by event, and all but the last of an event say so.
Events ==
  enabled =>
    /\ \A i, j \in 1 .. Len(Coming) : i < j =>
         /\ Coming[i].last <= Coming[j].last
         /\ Coming[i].last = Coming[j].last =>
              Coming[i].first = Coming[j].first /\ Coming[i].hasMore
    /\ pc = "snapshot" =>
         \A i \in 1 .. Len(Coming) : Coming[i].last = row.last => Coming[i].first = row.first

\* What begins with first is what comes after last, or after a loss.
Follows(first, last) == first <= last + 1 \/ first <= lastLost + 1

\* No change is left out between a row and the next, and after the last.
Chain ==
  enabled =>
    /\ \A i \in 1 .. Len(Coming) - 1 : Follows(Coming[i + 1].first, Coming[i].last)
    /\ Coming # <<>> => Follows(published + 1, Coming[Len(Coming)].last)

\* The change the trader is at, or at least was asked to be at by the row in hand.
At == IF pc = "snapshot" THEN row.last ELSE lastUpdateId

\* Nor between what the trader has read and what comes.
ReadOn ==
  enabled /\ (pc = "snapshot" \/ (pc = "read" /\ lastUpdateId > 0 /\ ~stale)) =>
    /\ Coming = <<>> => Follows(published + 1, At)
    /\ Coming # <<>> => Follows(Coming[1].first, At)

ComingRows == {Coming[i] : i \in 1 .. Len(Coming)}

\* The rows that come of the event of r include all that it changed.
Complete(r) ==
  \A l \in Levels, id \in r.first - 1 .. r.last - 1 :
    ledger[r.last][l] # ledger[id][l] => l \in ToCome(r.last)

\* They do, of any event of which no row was read.
Completes ==
  enabled =>
    \A r \in ComingRows :
      \/ r.last # Coming[1].last
      \/ pc = "snapshot" /\ r.last # row.last
      => Complete(r)

\* A book in the middle of the next event gets the changes it lacks, or misses them.
HeadCovered ==
  pc = "read" /\ lastUpdateId > 0 /\ enabled =>
    \A r \in ComingRows, l \in Levels :
      /\ r = Coming[1] /\ r.first - 1 <= lastUpdateId /\ lastUpdateId < r.last
      /\ ledger[r.last][l] # ledger[lastUpdateId][l]
      => l \in ToCome(r.last) \cup missed

\* The rest of the event that the book has in part is first of what comes.
InPart(l, id) ==
  partial /\ (enabled => Coming # <<>> /\ Coming[1].last = id /\ l \in ToCome(id))

\* What is not missed is right, but for the rest of the event being applied.
AsSent ==
  pc = "read" =>
    \A id \in DOMAIN ledger, l \in Levels, q \in Quantities :
      lastUpdateId = id /\ l \notin missed /\ ledger[id][l] = q => Shows(l, q) \/ InPart(l, id)

\* What orders the rows and keeps the trader reading.
OrderInv == Types /\ RowsTrue /\ OneEvent /\ Events /\ Chain /\ ReadOn

\* Both sides are sorted and of prices.
SidesIn == BidSide!SideOfPrices /\ AskSide!SideOfPrices

\* What keeps the book that of the exchange.
BookInv == OrderInv /\ SidesIn /\ Completes /\ HeadCovered /\ AsSent

-----------------------------------------------------------------------------
\* The two sides of the book.

\* Sets are counted alike everywhere.
LEMMA SameCounts ==
  /\ \A S : BidSide!IsFiniteSet(S) <=> IsFiniteSet(S)
  /\ \A S : AskSide!IsFiniteSet(S) <=> IsFiniteSet(S)
  /\ \A S : BidSide!Cardinality(S) = Cardinality(S)
  /\ \A S : AskSide!Cardinality(S) = Cardinality(S)
<1>1. \A S : BidSide!IsFiniteSet(S) <=> IsFiniteSet(S)
  BY DEF IsFiniteSet, BidSide!IsFiniteSet
<1>2. \A S : AskSide!IsFiniteSet(S) <=> IsFiniteSet(S)
  BY DEF IsFiniteSet, AskSide!IsFiniteSet
<1>3. \A S : BidSide!Cardinality(S) = Cardinality(S)
  BY DEF Cardinality, BidSide!Cardinality
<1>4. \A S : AskSide!Cardinality(S) = Cardinality(S)
  BY DEF Cardinality, AskSide!Cardinality
<1> QED BY <1>1, <1>2, <1>3, <1>4

\* The instances show what the book shows, in a state and in its successor.
SidesShow ==
  /\ \A x \in Prices : \A v : BidSide!HasQuantity(x, v) <=> Shows(<<"bid", x>>, v)
  /\ \A x \in Prices : \A v : AskSide!HasQuantity(x, v) <=> Shows(<<"ask", x>>, v)

\* They do: they are of the same variables.
LEMMA SidesAreShown == SidesShow /\ SidesShow'
<1>1. SidesShow
  <2>1. \A x : LocalBook(<<"bid", x>>) = Bids!QuantityAt(x)
    BY DEF LocalBook
  <2>2. \A x : LocalBook(<<"ask", x>>) = Asks!QuantityAt(x)
    BY DEF LocalBook
  <2>3. \A x : BidSide!QuantityAt(x) = Bids!QuantityAt(x)
    BY DEF BidSide!QuantityAt, Bids!QuantityAt, BidSide!HasRow, Bids!HasRow,
           BidSide!Rows, Bids!Rows
  <2>4. \A x : AskSide!QuantityAt(x) = Asks!QuantityAt(x)
    BY DEF AskSide!QuantityAt, Asks!QuantityAt, AskSide!HasRow, Asks!HasRow,
           AskSide!Rows, Asks!Rows
  <2> QED BY <2>1, <2>2, <2>3, <2>4, SameCounts
          DEF SidesShow, Shows, BidSide!HasQuantity, AskSide!HasQuantity
<1> QED BY <1>1, PTL

\* What the lemmas about a side assume.
LEMMA SideConstants ==
  /\ BidSide!SideAssumption /\ BidSide!BookAssumption
  /\ AskSide!SideAssumption /\ AskSide!BookAssumption
BY SyncAssumption, SameCounts
   DEF BidSide!SideAssumption, BidSide!BookAssumption,
       AskSide!SideAssumption, AskSide!BookAssumption

\* Update of the bids.
LEMMA BidsUpdated ==
  ASSUME SidesIn, NEW p \in Prices, NEW q \in Quantities, Bids!Update(p, q),
         UNCHANGED <<askPrice, askQuantity, askCount>>
  PROVE  /\ SidesIn'
         /\ Shows(<<"bid", p>>, q)'
         /\ \A l \in Levels : \A v : l # <<"bid", p>> /\ Shows(l, v) => Shows(l, v)'
<1>1. BidSide!Update(p, q)
  BY DEF Bids!Update, BidSide!Update, Bids!LowerBound, BidSide!LowerBound,
         Bids!Found, BidSide!Found, Bids!RemoveAt, BidSide!RemoveAt,
         Bids!InsertAt, BidSide!InsertAt, Bids!Inserted, BidSide!Inserted,
         Bids!Removed, BidSide!Removed, Bids!Slots, BidSide!Slots,
         Bids!Rows, BidSide!Rows, Bids!Before, BidSide!Before, Bids!side, BidSide!side
<1>2. /\ BidSide!SideOfPrices'
      /\ BidSide!HasQuantity(p, q)'
      /\ \A x \in Prices : \A v : x # p /\ BidSide!HasQuantity(x, v) => BidSide!HasQuantity(x, v)'
  BY <1>1, SideConstants, BidSide!UpdateShows DEF SidesIn
<1>3. SidesIn'
  <2>1. AskSide!SideOfPrices'
    BY DEF SidesIn, AskSide!SideOfPrices, AskSide!SideIn, AskSide!Sorted, AskSide!RowAt,
           AskSide!Rows, AskSide!Slots, AskSide!Before, AskSide!Cells
  <2> QED BY <1>2, <2>1 DEF SidesIn
<1>4. Shows(<<"bid", p>>, q)'
  BY <1>2, SidesAreShown DEF SidesShow
<1>5. \A x \in Prices : \A v : x # p /\ Shows(<<"bid", x>>, v) => Shows(<<"bid", x>>, v)'
  BY <1>2, SidesAreShown DEF SidesShow
<1>6. \A x \in Prices : \A v : Shows(<<"ask", x>>, v) => Shows(<<"ask", x>>, v)'
  BY DEF Shows, LocalBook, Asks!QuantityAt, Asks!HasRow, Asks!Rows
<1>7. \A l \in Levels : \E x \in Prices : l = <<"bid", x>> \/ l = <<"ask", x>>
  BY DEF Levels
<1>8. ASSUME NEW l \in Levels, NEW v, l # <<"bid", p>>, Shows(l, v)
      PROVE  Shows(l, v)'
  <2>1. PICK x \in Prices : l = <<"bid", x>> \/ l = <<"ask", x>>
    BY <1>7
  <2>2. CASE l = <<"bid", x>>
    BY <1>5, <1>8, <2>2
  <2>3. CASE l = <<"ask", x>>
    BY <1>6, <1>8, <2>3
  <2> QED BY <2>1, <2>2, <2>3
<1> QED BY <1>3, <1>4, <1>8

\* Update of the asks.
LEMMA AsksUpdated ==
  ASSUME SidesIn, NEW p \in Prices, NEW q \in Quantities, Asks!Update(p, q),
         UNCHANGED <<bidPrice, bidQuantity, bidCount>>
  PROVE  /\ SidesIn'
         /\ Shows(<<"ask", p>>, q)'
         /\ \A l \in Levels : \A v : l # <<"ask", p>> /\ Shows(l, v) => Shows(l, v)'
<1>1. AskSide!Update(p, q)
  BY DEF Asks!Update, AskSide!Update, Asks!LowerBound, AskSide!LowerBound,
         Asks!Found, AskSide!Found, Asks!RemoveAt, AskSide!RemoveAt,
         Asks!InsertAt, AskSide!InsertAt, Asks!Inserted, AskSide!Inserted,
         Asks!Removed, AskSide!Removed, Asks!Slots, AskSide!Slots,
         Asks!Rows, AskSide!Rows, Asks!Before, AskSide!Before, Asks!side, AskSide!side
<1>2. /\ AskSide!SideOfPrices'
      /\ AskSide!HasQuantity(p, q)'
      /\ \A x \in Prices : \A v : x # p /\ AskSide!HasQuantity(x, v) => AskSide!HasQuantity(x, v)'
  BY <1>1, SideConstants, AskSide!UpdateShows DEF SidesIn
<1>3. SidesIn'
  <2>1. BidSide!SideOfPrices'
    BY DEF SidesIn, BidSide!SideOfPrices, BidSide!SideIn, BidSide!Sorted, BidSide!RowAt,
           BidSide!Rows, BidSide!Slots, BidSide!Before, BidSide!Cells
  <2> QED BY <1>2, <2>1 DEF SidesIn
<1>4. Shows(<<"ask", p>>, q)'
  BY <1>2, SidesAreShown DEF SidesShow
<1>5. \A x \in Prices : \A v : x # p /\ Shows(<<"ask", x>>, v) => Shows(<<"ask", x>>, v)'
  BY <1>2, SidesAreShown DEF SidesShow
<1>6. \A x \in Prices : \A v : Shows(<<"bid", x>>, v) => Shows(<<"bid", x>>, v)'
  BY DEF Shows, LocalBook, Bids!QuantityAt, Bids!HasRow, Bids!Rows
<1>7. \A l \in Levels : \E x \in Prices : l = <<"ask", x>> \/ l = <<"bid", x>>
  BY DEF Levels
<1>8. ASSUME NEW l \in Levels, NEW v, l # <<"ask", p>>, Shows(l, v)
      PROVE  Shows(l, v)'
  <2>1. PICK x \in Prices : l = <<"ask", x>> \/ l = <<"bid", x>>
    BY <1>7
  <2>2. CASE l = <<"ask", x>>
    BY <1>5, <1>8, <2>2
  <2>3. CASE l = <<"bid", x>>
    BY <1>6, <1>8, <2>3
  <2> QED BY <2>1, <2>2, <2>3
<1> QED BY <1>3, <1>4, <1>8

\* A row changes its level and no other.
LEMMA ApplyShows ==
  ASSUME SidesIn, NEW r \in RowSet, ApplyToBook(r)
  PROVE  /\ SidesIn'
         /\ Shows(r.level, r.quantity)'
         /\ \A l \in Levels : \A v : l # r.level /\ Shows(l, v) => Shows(l, v)'
<1>1. PICK p \in Prices, q \in Quantities :
        q = r.quantity /\ p = r.level[2] /\ (r.level = <<"bid", p>> \/ r.level = <<"ask", p>>)
  BY DEF RowSet, Levels
<1>2. CASE r.level[1] = "bid"
  <2>1. Bids!Update(p, q) /\ UNCHANGED <<askPrice, askQuantity, askCount>> /\ r.level = <<"bid", p>>
    BY <1>1, <1>2 DEF ApplyToBook
  <2> QED BY <1>1, <2>1, BidsUpdated
<1>3. CASE r.level[1] = "ask"
  <2>1. Asks!Update(p, q) /\ UNCHANGED <<bidPrice, bidQuantity, bidCount>> /\ r.level = <<"ask", p>>
    BY <1>1, <1>3 DEF ApplyToBook
  <2> QED BY <1>1, <2>1, AsksUpdated
<1> QED BY <1>2, <1>3 DEF ApplyToBook

\* A snapshot of the bids.
LEMMA BidsLoaded ==
  ASSUME SidesIn, NEW snapshot \in Books, LoadBook(snapshot)
  PROVE  /\ BidSide!SideOfPrices'
         /\ \A x \in Prices : Shows(<<"bid", x>>, snapshot[<<"bid", x>>])'
<1> DEFINE value == [p \in Prices |-> snapshot[<<"bid", p>>]]
<1> DEFINE S == {p \in Prices : snapshot[<<"bid", p>>] # 0}
<1> DEFINE listed == Listed(S, FALSE)
<1>1. Bids!Load(listed, [i \in DOMAIN listed |-> snapshot[<<"bid", listed[i]>>]], Len(listed))
  BY DEF LoadBook
<1>2. value \in [Prices -> Quantities]
  BY DEF Books, Levels
<1>3. S = {p \in Prices : value[p] # 0} /\ S \in SUBSET Prices
  OBVIOUS
<1>4. IsFiniteSet(S) /\ Cardinality(S) \in Nat
  <2> HIDE DEF S
  <2> QED BY <1>3, SyncAssumption, FS_Subset, FS_CardinalityType
<1>5. listed = BidSide!BestFirst(S)
  <2> HIDE DEF S
  <2> QED BY DEF Listed, BidSide!BestFirst, BidSide!Before, Cardinality, BidSide!Cardinality
<1> HIDE DEF listed
<1>6. \A i \in 1 .. Cardinality(S) : listed[i] \in S
  <2> HIDE DEF S
  <2>1. /\ S \in SUBSET Int
        /\ BidSide!IsFiniteSet(S) /\ BidSide!Cardinality(S) = Cardinality(S)
    <3>1. S \in SUBSET Int
      <4>1. \A x \in Prices : x \in Int
        BY SyncAssumption
      <4>2. \A x \in S : x \in Prices
        BY <1>3
      <4> QED BY <4>1, <4>2
    <3>2. BidSide!IsFiniteSet(S) /\ BidSide!Cardinality(S) = Cardinality(S)
      BY <1>4, SameCounts
    <3> QED BY <3>1, <3>2
  <2>2. \A i \in 1 .. BidSide!Cardinality(S) : BidSide!BestFirst(S)[i] \in S
    BY <2>1, SideConstants, BidSide!BestFirstRanks
  <2> QED BY <1>5, <2>1, <2>2
<1>7. Len(listed) = Cardinality(S) /\ DOMAIN listed = 1 .. Cardinality(S)
  <2> HIDE DEF S
  <2> QED BY <1>4, <1>5, SameCounts DEF BidSide!BestFirst
<1>8. [i \in DOMAIN listed |-> snapshot[<<"bid", listed[i]>>]]
        = [i \in 1 .. BidSide!Cardinality(S) |-> value[BidSide!BestFirst(S)[i]]]
  BY <1>3, <1>5, <1>6, <1>7, SameCounts
<1>9. BidSide!LoadLevels(S, value)
  <2> HIDE DEF S, value
  <2>1. ASSUME NEW prices, NEW quantities, NEW n, Bids!Load(prices, quantities, n)
        PROVE  BidSide!Load(prices, quantities, n)
    BY <2>1 DEF BidSide!Load, Bids!Load, BidSide!Slots, Bids!Slots
  <2>2. BidSide!Load(listed, [i \in DOMAIN listed |-> snapshot[<<"bid", listed[i]>>]],
                     Len(listed))
    BY <1>1, <2>1
  <2>3. Len(listed) = BidSide!Cardinality(S)
    BY <1>7, SameCounts
  <2> QED BY <1>5, <1>8, <2>2, <2>3 DEF BidSide!LoadLevels
<1>10. BidSide!SideOfPrices' /\ \A x \in Prices : BidSide!HasQuantity(x, value[x])'
  <2> HIDE DEF value
  <2> QED BY <1>2, <1>3, <1>9, SideConstants, BidSide!LoadShows DEF SidesIn
<1>11. \A x \in Prices : value[x] = snapshot[<<"bid", x>>]
  OBVIOUS
<1>12. \A x \in Prices : Shows(<<"bid", x>>, snapshot[<<"bid", x>>])'
  <2> HIDE DEF value
  <2> QED BY <1>10, <1>11, SidesAreShown DEF SidesShow
<1> QED BY <1>10, <1>12

\* A snapshot of the asks.
LEMMA AsksLoaded ==
  ASSUME SidesIn, NEW snapshot \in Books, LoadBook(snapshot)
  PROVE  /\ AskSide!SideOfPrices'
         /\ \A x \in Prices : Shows(<<"ask", x>>, snapshot[<<"ask", x>>])'
<1> DEFINE value == [p \in Prices |-> snapshot[<<"ask", p>>]]
<1> DEFINE S == {p \in Prices : snapshot[<<"ask", p>>] # 0}
<1> DEFINE listed == Listed(S, TRUE)
<1>1. Asks!Load(listed, [i \in DOMAIN listed |-> snapshot[<<"ask", listed[i]>>]], Len(listed))
  BY DEF LoadBook
<1>2. value \in [Prices -> Quantities]
  BY DEF Books, Levels
<1>3. S = {p \in Prices : value[p] # 0} /\ S \in SUBSET Prices
  OBVIOUS
<1>4. IsFiniteSet(S) /\ Cardinality(S) \in Nat
  <2> HIDE DEF S
  <2> QED BY <1>3, SyncAssumption, FS_Subset, FS_CardinalityType
<1>5. listed = AskSide!BestFirst(S)
  <2> HIDE DEF S
  <2> QED BY DEF Listed, AskSide!BestFirst, AskSide!Before, Cardinality, AskSide!Cardinality
<1> HIDE DEF listed
<1>6. \A i \in 1 .. Cardinality(S) : listed[i] \in S
  <2> HIDE DEF S
  <2>1. /\ S \in SUBSET Int
        /\ AskSide!IsFiniteSet(S) /\ AskSide!Cardinality(S) = Cardinality(S)
    <3>1. S \in SUBSET Int
      <4>1. \A x \in Prices : x \in Int
        BY SyncAssumption
      <4>2. \A x \in S : x \in Prices
        BY <1>3
      <4> QED BY <4>1, <4>2
    <3>2. AskSide!IsFiniteSet(S) /\ AskSide!Cardinality(S) = Cardinality(S)
      BY <1>4, SameCounts
    <3> QED BY <3>1, <3>2
  <2>2. \A i \in 1 .. AskSide!Cardinality(S) : AskSide!BestFirst(S)[i] \in S
    BY <2>1, SideConstants, AskSide!BestFirstRanks
  <2> QED BY <1>5, <2>1, <2>2
<1>7. Len(listed) = Cardinality(S) /\ DOMAIN listed = 1 .. Cardinality(S)
  <2> HIDE DEF S
  <2> QED BY <1>4, <1>5, SameCounts DEF AskSide!BestFirst
<1>8. [i \in DOMAIN listed |-> snapshot[<<"ask", listed[i]>>]]
        = [i \in 1 .. AskSide!Cardinality(S) |-> value[AskSide!BestFirst(S)[i]]]
  BY <1>3, <1>5, <1>6, <1>7, SameCounts
<1>9. AskSide!LoadLevels(S, value)
  <2> HIDE DEF S, value
  <2>1. ASSUME NEW prices, NEW quantities, NEW n, Asks!Load(prices, quantities, n)
        PROVE  AskSide!Load(prices, quantities, n)
    BY <2>1 DEF AskSide!Load, Asks!Load, AskSide!Slots, Asks!Slots
  <2>2. AskSide!Load(listed, [i \in DOMAIN listed |-> snapshot[<<"ask", listed[i]>>]],
                     Len(listed))
    BY <1>1, <2>1
  <2>3. Len(listed) = AskSide!Cardinality(S)
    BY <1>7, SameCounts
  <2> QED BY <1>5, <1>8, <2>2, <2>3 DEF AskSide!LoadLevels
<1>10. AskSide!SideOfPrices' /\ \A x \in Prices : AskSide!HasQuantity(x, value[x])'
  <2> HIDE DEF value
  <2> QED BY <1>2, <1>3, <1>9, SideConstants, AskSide!LoadShows DEF SidesIn
<1>11. \A x \in Prices : value[x] = snapshot[<<"ask", x>>]
  OBVIOUS
<1>12. \A x \in Prices : Shows(<<"ask", x>>, snapshot[<<"ask", x>>])'
  <2> HIDE DEF value
  <2> QED BY <1>10, <1>11, SidesAreShown DEF SidesShow
<1> QED BY <1>10, <1>12

\* After a snapshot the book shows it.
LEMMA SnapshotShows ==
  ASSUME SidesIn, NEW snapshot \in Books, LoadBook(snapshot)
  PROVE  SidesIn' /\ \A l \in Levels : Shows(l, snapshot[l])'
<1>1. \A l \in Levels : \E x \in Prices : l = <<"bid", x>> \/ l = <<"ask", x>>
  BY DEF Levels
<1>2. /\ BidSide!SideOfPrices' /\ AskSide!SideOfPrices'
      /\ \A x \in Prices : Shows(<<"bid", x>>, snapshot[<<"bid", x>>])'
      /\ \A x \in Prices : Shows(<<"ask", x>>, snapshot[<<"ask", x>>])'
  BY BidsLoaded, AsksLoaded
<1>3. SidesIn'
  BY <1>2 DEF SidesIn
<1>4. ASSUME NEW l \in Levels PROVE Shows(l, snapshot[l])'
  BY <1>1, <1>2
<1> QED BY <1>3, <1>4

-----------------------------------------------------------------------------
\* The rows that come, action by action.

QueueTypes == ring \in Seq(RowSet) /\ outbox \in Seq(RowSet)

\* Two sequences of rows, one behind the other.
LEMMA Joined ==
  ASSUME NEW s \in Seq(RowSet), NEW t \in Seq(RowSet)
  PROVE  /\ s \o t \in Seq(RowSet) /\ Len(s) \in Nat /\ Len(t) \in Nat
         /\ Len(s \o t) = Len(s) + Len(t) /\ DOMAIN (s \o t) = 1 .. Len(s) + Len(t)
         /\ \A i \in 1 .. Len(s) : (s \o t)[i] = s[i]
         /\ \A i \in 1 .. Len(t) : (s \o t)[Len(s) + i] = t[i]
<1>1. /\ s \o t \in Seq(RowSet) /\ Len(s \o t) = Len(s) + Len(t)
      /\ \A i \in 1 .. Len(s) + Len(t) :
           (s \o t)[i] = IF i <= Len(s) THEN s[i] ELSE t[i - Len(s)]
  BY ConcatProperties
<1>2. Len(s) \in Nat /\ Len(t) \in Nat
  BY LenProperties
<1>3. DOMAIN (s \o t) = 1 .. Len(s) + Len(t)
  BY <1>1, LenProperties
<1>4. ASSUME NEW i \in 1 .. Len(s) PROVE (s \o t)[i] = s[i]
  BY <1>1, <1>2
<1>5. ASSUME NEW i \in 1 .. Len(t) PROVE (s \o t)[Len(s) + i] = t[i]
  <2>1. Len(s) + i \in 1 .. Len(s) + Len(t) /\ ~(Len(s) + i <= Len(s))
    BY <1>2
  <2>2. Len(s) + i - Len(s) = i
    BY <1>2
  <2> QED BY <1>1, <2>1, <2>2
<1> QED BY <1>1, <1>2, <1>3, <1>4, <1>5

\* A row that is read is the first that comes.
LEMMA ReadTakesFirst ==
  ASSUME QueueTypes, ReadRow
  PROVE  /\ QueueTypes' /\ Len(ring') < Len(ring)
         /\ Coming \in Seq(RowSet) /\ Coming # <<>> /\ Head(ring) = Coming[1]
         /\ Coming' \in Seq(RowSet) /\ Len(Coming') = Len(Coming) - 1
         /\ \A i \in 1 .. Len(Coming') : Coming'[i] = Coming[i + 1]
<1>1. /\ ring # <<>> /\ ring' = Tail(ring) /\ outbox' = outbox
      /\ ring \in Seq(RowSet) /\ outbox \in Seq(RowSet)
  BY DEF ReadRow, QueueTypes
<1>2. /\ Tail(ring) \in Seq(RowSet) /\ Len(Tail(ring)) = Len(ring) - 1 /\ Head(ring) = ring[1]
      /\ \A i \in 1 .. Len(Tail(ring)) : Tail(ring)[i] = ring[i + 1]
      /\ Len(ring) \in Nat \ {0}
  BY <1>1, HeadTailProperties, EmptySeq, LenProperties
<1>3. /\ Coming \in Seq(RowSet) /\ Len(Coming) = Len(ring) + Len(outbox)
      /\ \A i \in 1 .. Len(ring) : Coming[i] = ring[i]
      /\ \A i \in 1 .. Len(outbox) : Coming[Len(ring) + i] = outbox[i]
      /\ Len(outbox) \in Nat
  BY <1>1, Joined DEF Coming
<1>4. Coming' = Tail(ring) \o outbox
  BY <1>1 DEF Coming
<1>5. /\ Coming' \in Seq(RowSet) /\ Len(Coming') = Len(Tail(ring)) + Len(outbox)
      /\ \A i \in 1 .. Len(Tail(ring)) : Coming'[i] = Tail(ring)[i]
      /\ \A i \in 1 .. Len(outbox) : Coming'[Len(Tail(ring)) + i] = outbox[i]
  BY <1>1, <1>2, <1>4, Joined
<1>6. ASSUME NEW i \in 1 .. Len(Coming') PROVE Coming'[i] = Coming[i + 1]
  <2>1. CASE i <= Len(Tail(ring))
    <3>1. i \in 1 .. Len(Tail(ring)) /\ i + 1 \in 1 .. Len(ring)
      BY <1>2, <1>3, <2>1
    <3> QED BY <1>2, <1>3, <1>5, <3>1
  <2>2. CASE i > Len(Tail(ring))
    <3> DEFINE j == i - Len(Tail(ring))
    <3>1. j \in 1 .. Len(outbox) /\ i = Len(Tail(ring)) + j /\ i + 1 = Len(ring) + j
      BY <1>2, <1>3, <1>5, <2>2
    <3> HIDE DEF j
    <3> QED BY <1>3, <1>5, <3>1
  <2>3. i \in Int /\ Len(Tail(ring)) \in Int
    BY <1>2
  <2> QED BY <2>1, <2>2, <2>3
<1>7. Head(ring) = Coming[1] /\ Coming # <<>> /\ Len(Coming') = Len(Coming) - 1
  <2>1. 1 \in 1 .. Len(ring) /\ Len(Coming) # 0
    BY <1>2, <1>3
  <2> QED BY <1>2, <1>3, <1>5, <2>1
<1> QED BY <1>1, <1>2, <1>3, <1>5, <1>6, <1>7 DEF QueueTypes

\* A row that is written changes nothing of what comes, unless the ring is full.
LEMMA WriteMovesRow ==
  ASSUME QueueTypes, Len(ring) <= RingLength, WriteRow
  PROVE  /\ QueueTypes' /\ Len(ring') <= RingLength
         /\ outbox # <<>> /\ Len(outbox') = Len(outbox) - 1
         /\ \A i \in 1 .. Len(outbox') : outbox'[i] = outbox[i + 1]
         /\ enabled' => enabled /\ Coming' = Coming
<1>1. /\ outbox # <<>> /\ outbox' = Tail(outbox)
      /\ ring \in Seq(RowSet) /\ outbox \in Seq(RowSet)
  BY DEF WriteRow, QueueTypes
<1>2. /\ Tail(outbox) \in Seq(RowSet) /\ Len(Tail(outbox)) = Len(outbox) - 1
      /\ Head(outbox) = outbox[1] /\ Head(outbox) \in RowSet
      /\ \A i \in 1 .. Len(Tail(outbox)) : Tail(outbox)[i] = outbox[i + 1]
      /\ Len(outbox) \in Nat \ {0} /\ Len(ring) \in Nat
  BY <1>1, HeadTailProperties, EmptySeq, LenProperties
<1>3. CASE enabled /\ Len(ring) < RingLength /\ ring' = Append(ring, Head(outbox))
  <2>1. /\ ring' \in Seq(RowSet) /\ Len(ring') = Len(ring) + 1
        /\ \A i \in 1 .. Len(ring) : ring'[i] = ring[i]
        /\ ring'[Len(ring) + 1] = outbox[1]
    BY <1>1, <1>2, <1>3, AppendProperties
  <2>2. Len(ring') <= RingLength
    BY <1>2, <1>3, <2>1, SyncAssumption
  <2>3. /\ Coming \in Seq(RowSet) /\ Len(Coming) = Len(ring) + Len(outbox)
        /\ \A i \in 1 .. Len(ring) : Coming[i] = ring[i]
        /\ \A i \in 1 .. Len(outbox) : Coming[Len(ring) + i] = outbox[i]
    BY <1>1, Joined DEF Coming
  <2>4. /\ Coming' \in Seq(RowSet) /\ Len(Coming') = Len(ring') + Len(outbox')
        /\ \A i \in 1 .. Len(ring') : Coming'[i] = ring'[i]
        /\ \A i \in 1 .. Len(outbox') : Coming'[Len(ring') + i] = outbox'[i]
    <3>1. ring' \in Seq(RowSet) /\ outbox' \in Seq(RowSet)
      BY <1>1, <1>2, <2>1
    <3>2. Coming' = ring' \o outbox'
      BY DEF Coming
    <3> QED BY <3>1, <3>2, Joined
  <2>5. ASSUME NEW i \in 1 .. Len(Coming') PROVE Coming'[i] = Coming[i]
    <3>1. CASE i \in 1 .. Len(ring)
      <4>1. i \in 1 .. Len(ring')
        BY <1>2, <2>1, <3>1
      <4> QED BY <2>1, <2>3, <2>4, <3>1, <4>1
    <3>2. CASE i = Len(ring) + 1
      <4>1. i \in 1 .. Len(ring') /\ 1 \in 1 .. Len(outbox)
        BY <1>2, <2>1, <3>2
      <4> QED BY <2>1, <2>3, <2>4, <3>2, <4>1
    <3>3. CASE i > Len(ring) + 1
      <4> DEFINE j == i - (Len(ring) + 1)
      <4>1. /\ j \in 1 .. Len(outbox') /\ i = Len(ring') + j
            /\ j + 1 \in 1 .. Len(outbox) /\ i = Len(ring) + (j + 1)
        BY <1>1, <1>2, <2>1, <2>4, <3>3
      <4> HIDE DEF j
      <4> QED BY <1>1, <1>2, <2>3, <2>4, <4>1
    <3> QED BY <1>2, <3>1, <3>2, <3>3
  <2>6. Len(Coming') = Len(Coming)
    BY <1>1, <1>2, <2>1, <2>3, <2>4
  <2>7. Coming' = Coming
    BY <2>3, <2>4, <2>5, <2>6, SeqEqual
  <2> QED BY <1>1, <1>2, <1>3, <2>1, <2>2, <2>7 DEF QueueTypes
<1>4. CASE ring' = ring /\ ~enabled'
  BY <1>1, <1>2, <1>4 DEF QueueTypes
<1> QED BY <1>3, <1>4 DEF WriteRow

\* The levels of an event are those that changed, each once.
LEMMA OrderedLevels ==
  ASSUME NEW S \in SUBSET Levels, NEW order \in Orders(S)
  PROVE  /\ order \in Seq(Levels) /\ DOMAIN order = 1 .. Len(order)
         /\ Len(order) \in Nat
         /\ \A l \in S : \E i \in 1 .. Len(order) : order[i] = l
<1> DEFINE n == Cardinality(S)
<1>1. IsFiniteSet(S) /\ n \in Nat
  <2>1. IsFiniteSet({"bid", "ask"}) /\ IsFiniteSet(Prices)
    <3>1. {"bid", "ask"} = {"bid"} \cup {"ask"}
      OBVIOUS
    <3>2. IsFiniteSet({"bid"} \cup {"ask"})
      BY FS_Singleton, FS_AddElement
    <3> QED BY <3>1, <3>2, SyncAssumption
  <2>2. IsFiniteSet(Levels)
    BY <2>1, FS_Product DEF Levels
  <2> QED BY <2>2, FS_Subset, FS_CardinalityType
<1>2. /\ order \in [1 .. n -> S]
      /\ \A i, j \in 1 .. n : i < j => order[i] # order[j]
  BY DEF Orders
<1>3. order \in Injection(1 .. n, S)
  <2>1. \A i, j \in 1 .. n : order[i] = order[j] => i = j
    <3> SUFFICES ASSUME NEW i \in 1 .. n, NEW j \in 1 .. n, order[i] = order[j] PROVE i = j
      OBVIOUS
    <3> HIDE DEF n
    <3>1. i < j \/ j < i \/ i = j
      BY <1>1
    <3> QED BY <1>2, <3>1
  <2> HIDE DEF n
  <2> QED BY <1>2, <2>1, Fun_IsInj
<1>4. Cardinality(1 .. n) = n
  <2>1. Cardinality(1 .. n) = IF 1 > n THEN 0 ELSE n - 1 + 1
    <3> HIDE DEF n
    <3> QED BY <1>1, FS_Interval
  <2> HIDE DEF n
  <2> QED BY <1>1, <2>1
<1>5. order \in Surjection(1 .. n, S)
  BY <1>1, <1>3, <1>4, FS_Injection
<1>6. \A l \in S : \E i \in 1 .. n : order[i] = l
  <2> HIDE DEF n
  <2> QED BY <1>5 DEF Surjection
<1> HIDE DEF n
<1>7. order \in [1 .. n -> Levels]
  BY <1>2
<1>8. order \in Seq(Levels) /\ Len(order) = n /\ DOMAIN order = 1 .. n
  BY <1>1, <1>7
<1> QED BY <1>1, <1>6, <1>8

\* A level that differs from what it was since the last event is one of the next.
LEMMA DifferentIsChanged ==
  ASSUME Types, NEW l \in Levels, NEW id \in published .. Now - 1,
         ledger[Now][l] # ledger[id][l]
  PROVE  l \in Changed
<1> DEFINE T == {k \in Nat : id <= k /\ k <= Now /\ ledger[k][l] # ledger[id][l]}
<1>1. Now \in Nat /\ published \in Nat /\ id \in Nat /\ id < Now /\ published <= id
  BY LenProperties DEF Types, Now
<1>2. T \in SUBSET Nat /\ Now \in T
  BY <1>1
<1>3. PICK m \in T : \A k \in T : m <= k
  <2> HIDE DEF T
  <2> QED BY <1>2, BidSide!Smallest, SideConstants
<1>4. /\ m \in Nat /\ id <= m /\ m <= Now /\ ledger[m][l] # ledger[id][l]
      /\ m # id
  BY <1>1, <1>3
<1>5. m - 1 \in Nat /\ m - 1 < m /\ m - 1 >= id /\ m - 1 <= Now
  BY <1>1, <1>4
<1>6. m - 1 \notin T
  BY <1>3, <1>4, <1>5
<1>7. ledger[m - 1][l] = ledger[id][l]
  BY <1>5, <1>6
<1>8. m \in published + 1 .. Now
  BY <1>1, <1>4
<1> QED BY <1>4, <1>7, <1>8 DEF Changed

\* Something changed since the last event, if the number did.
LEMMA SomethingChanged ==
  ASSUME Types, published < Now
  PROVE  Changed # {}
<1>1. Now \in Nat /\ published \in Nat /\ published >= 1 /\ ledger \in [1 .. Now -> Books]
  BY LenProperties DEF Types, Now
<1>2. /\ published + 1 \in 2 .. Now /\ published + 1 \in 1 .. Now /\ published \in 1 .. Now
      /\ published + 1 - 1 = published
  BY <1>1
<1>3. ledger[published + 1] # ledger[published]
  BY <1>2 DEF Types
<1>4. ledger[published + 1] \in Books /\ ledger[published] \in Books
  BY <1>1, <1>2
<1>5. PICK l \in Levels : ledger[published + 1][l] # ledger[published][l]
  BY <1>3, <1>4 DEF Books
<1> QED BY <1>1, <1>2, <1>5 DEF Changed

\* The rows of an event are behind what came before.
LEMMA PublishAdds ==
  ASSUME Types, Publish
  PROVE  /\ QueueTypes' /\ Len(outbox') \in Nat \ {0}
         /\ \A i \in 1 .. Len(outbox') :
              /\ outbox'[i].first = published + 1 /\ outbox'[i].last = Now
              /\ outbox'[i].quantity = ledger[Now][outbox'[i].level]
              /\ outbox'[i].hasMore <=> i < Len(outbox')
         /\ \A l \in Changed : \E i \in 1 .. Len(outbox') : outbox'[i].level = l
         /\ Coming \in Seq(RowSet) /\ Coming' \in Seq(RowSet)
         /\ Len(Coming') = Len(Coming) + Len(outbox')
         /\ \A i \in 1 .. Len(Coming) : Coming'[i] = Coming[i]
         /\ \A i \in 1 .. Len(outbox') : Coming'[Len(Coming) + i] = outbox'[i]
<1>1. /\ published < Now /\ outbox = <<>> /\ ring' = ring
      /\ ring \in Seq(RowSet) /\ outbox \in Seq(RowSet)
  BY DEF Publish, Types
<1>2. PICK order \in Orders(Changed) :
        outbox' = [i \in 1 .. Len(order) |->
                    [level |-> order[i], quantity |-> ledger[Now][order[i]],
                     first |-> published + 1, last |-> Now, hasMore |-> i < Len(order)]]
  BY DEF Publish
<1>3. Changed \in SUBSET Levels
  BY DEF Changed
<1>4. /\ order \in Seq(Levels) /\ DOMAIN order = 1 .. Len(order) /\ Len(order) \in Nat
      /\ \A l \in Changed : \E i \in 1 .. Len(order) : order[i] = l
  BY <1>3, OrderedLevels
<1>5. Len(order) # 0
  BY <1>1, <1>4, SomethingChanged
<1>6. /\ Now \in Nat /\ published \in Nat /\ ledger[Now] \in Books
  <2>1. Now \in Nat /\ published \in Nat /\ published >= 1 /\ ledger \in [1 .. Now -> Books]
    BY LenProperties DEF Types, Now
  <2> QED BY <1>1, <2>1
<1>7. \A i \in 1 .. Len(order) :
        [level |-> order[i], quantity |-> ledger[Now][order[i]],
         first |-> published + 1, last |-> Now, hasMore |-> i < Len(order)] \in RowSet
  <2> SUFFICES ASSUME NEW i \in 1 .. Len(order)
               PROVE  [level |-> order[i], quantity |-> ledger[Now][order[i]],
                       first |-> published + 1, last |-> Now, hasMore |-> i < Len(order)]
                        \in RowSet
    OBVIOUS
  <2>1. order[i] \in Levels
    BY <1>4, ElementOfSeq
  <2>2. ledger[Now][order[i]] \in Quantities
    BY <1>6, <2>1 DEF Books
  <2>3. published + 1 \in Nat /\ (i < Len(order)) \in BOOLEAN
    BY <1>4, <1>6
  <2> QED BY <1>6, <2>1, <2>2, <2>3 DEF RowSet
<1>8. /\ outbox' \in Seq(RowSet) /\ Len(outbox') = Len(order)
      /\ \A i \in 1 .. Len(order) : outbox'[i] =
           [level |-> order[i], quantity |-> ledger[Now][order[i]],
            first |-> published + 1, last |-> Now, hasMore |-> i < Len(order)]
  BY <1>2, <1>4, <1>7
<1>9. Coming \in Seq(RowSet) /\ Coming = ring /\ Coming' = ring \o outbox'
  BY <1>1, ConcatEmptySeq DEF Coming
<1>10. /\ Coming' \in Seq(RowSet) /\ Len(Coming') = Len(ring) + Len(outbox')
       /\ \A i \in 1 .. Len(ring) : Coming'[i] = ring[i]
       /\ \A i \in 1 .. Len(outbox') : Coming'[Len(ring) + i] = outbox'[i]
  <2>1. ring \in Seq(RowSet) /\ outbox' \in Seq(RowSet)
    BY <1>1, <1>8
  <2> QED BY <1>9, <2>1, Joined
<1>11. ASSUME NEW i \in 1 .. Len(outbox')
       PROVE  /\ outbox'[i].first = published + 1 /\ outbox'[i].last = Now
              /\ outbox'[i].quantity = ledger[Now][outbox'[i].level]
              /\ outbox'[i].level = order[i]
              /\ outbox'[i].hasMore <=> i < Len(outbox')
  <2> DEFINE more == i < Len(outbox')
  <2>1. outbox'[i] = [level |-> order[i], quantity |-> ledger[Now][order[i]],
                      first |-> published + 1, last |-> Now, hasMore |-> more]
    BY <1>8
  <2> HIDE DEF more
  <2>2. /\ outbox'[i].first = published + 1 /\ outbox'[i].last = Now
        /\ outbox'[i].quantity = ledger[Now][order[i]] /\ outbox'[i].level = order[i]
    BY <2>1
  <2>3. outbox'[i].hasMore = more
    BY <2>1
  <2> QED BY <2>2, <2>3 DEF more
<1>12. \A l \in Changed : \E i \in 1 .. Len(outbox') : outbox'[i].level = l
  BY <1>4, <1>8, <1>11
<1> QED BY <1>1, <1>4, <1>5, <1>8, <1>9, <1>10, <1>11, <1>12 DEF QueueTypes

-----------------------------------------------------------------------------
\* The order of the rows, action by action.

\* The types as the steps need them.
LEMMA TypesOfRows ==
  ASSUME Types
  PROVE  /\ QueueTypes /\ Coming \in Seq(RowSet) /\ Len(Coming) \in Nat
         /\ Len(ring) \in Nat /\ Len(outbox) \in Nat
         /\ \A i \in 1 .. Len(Coming) :
              /\ Coming[i] \in RowSet /\ Coming[i].level \in Levels
              /\ Coming[i].first \in Nat /\ Coming[i].last \in Nat
         /\ Now \in Nat /\ published \in Nat /\ published >= 1 /\ published <= Now
         /\ lastLost \in Nat /\ lastLost <= published
         /\ lastUpdateId \in Nat /\ lastUpdateId <= Now
         /\ \A id \in 1 .. Now : ledger[id] \in Books
<1>1. ring \in Seq(RowSet) /\ outbox \in Seq(RowSet)
  BY DEF Types
<1>2. Coming \in Seq(RowSet) /\ Len(Coming) \in Nat /\ Len(ring) \in Nat /\ Len(outbox) \in Nat
  BY <1>1, Joined, LenProperties DEF Coming
<1>3. \A i \in 1 .. Len(Coming) : Coming[i] \in RowSet
  BY <1>2, ElementOfSeq
<1>4. \A r \in RowSet : r.level \in Levels /\ r.first \in Nat /\ r.last \in Nat
  BY DEF RowSet
<1>5. Now \in Nat /\ \A id \in 1 .. Now : ledger[id] \in Books
  BY LenProperties, ElementOfSeq DEF Types, Now
<1>6. /\ published \in Nat /\ published >= 1 /\ published <= Now
      /\ lastLost \in Nat /\ lastLost <= published
      /\ lastUpdateId \in Nat /\ lastUpdateId <= Now
  BY <1>5 DEF Types
<1> QED BY <1>1, <1>2, <1>3, <1>4, <1>5, <1>6 DEF QueueTypes

\* A change of the exchange's book is none of the books before.
LEMMA ChangeAppends ==
  ASSUME Types, NEW l \in Levels, NEW q \in Quantities, Change(l, q)
  PROVE  /\ ledger' \in Seq(Books) /\ Now' = Now + 1
         /\ \A id \in 1 .. Now : ledger'[id] = ledger[id]
         /\ ledger'[Now + 1] # ledger'[Now]
<1>1. /\ Now \in Nat /\ Now >= 1 /\ ledger[Now] \in Books /\ ledger \in Seq(Books)
  BY TypesOfRows DEF Types
<1>2. /\ ledger' = Append(ledger, [ledger[Now] EXCEPT ![l] = q]) /\ ledger[Now][l] # q
  BY DEF Change
<1>3. [ledger[Now] EXCEPT ![l] = q] \in Books /\ [ledger[Now] EXCEPT ![l] = q][l] = q
  BY <1>1 DEF Books
<1>4. /\ ledger' \in Seq(Books) /\ Len(ledger') = Now + 1
      /\ \A id \in 1 .. Now : ledger'[id] = ledger[id]
      /\ ledger'[Now + 1] = [ledger[Now] EXCEPT ![l] = q]
  BY <1>1, <1>2, <1>3, AppendProperties DEF Now
<1>5. ledger'[Now] = ledger[Now]
  BY <1>1, <1>4
<1>6. Now' = Now + 1
  BY <1>4 DEF Now
<1> QED BY <1>2, <1>3, <1>4, <1>5, <1>6

\* A row that is true stays so.
LEMMA RowStaysTrue ==
  ASSUME Types, NEW r \in RowSet, RowTrue(r), published' \in Nat, published <= published',
         \A id \in 1 .. published : ledger'[id] = ledger[id]
  PROVE  RowTrue(r)'
<1>1. r.first \in Nat /\ r.last \in Nat /\ published \in Nat
  BY TypesOfRows DEF RowSet
<1>2. r.last \in 1 .. published
  BY <1>1 DEF RowTrue
<1> QED BY <1>1, <1>2 DEF RowTrue

\* So the rows that come do, while they and the row in hand are the same.
LEMMA SameRowsTrue ==
  ASSUME Types, RowsTrue, Coming' = Coming, outbox' = outbox, enabled' => enabled,
         pc' = "snapshot" => pc = "snapshot" /\ row' = row,
         \A r \in RowSet : RowTrue(r) => RowTrue(r)'
  PROVE  RowsTrue'
<1>1. ASSUME enabled', NEW i \in 1 .. Len(Coming') PROVE RowTrue(Coming[i])'
  <2>1. PICK r : r = Coming[i]
    OBVIOUS
  <2>2. r \in RowSet /\ RowTrue(r)
    BY <1>1, <2>1, TypesOfRows DEF RowsTrue
  <2>3. RowTrue(r)'
    BY <2>2
  <2> QED BY <2>1, <2>3 DEF RowTrue
<1>2. ASSUME NEW i \in 1 .. Len(outbox') PROVE RowTrue(outbox[i])'
  <2>1. PICK r : r = outbox[i]
    OBVIOUS
  <2>2. r \in RowSet /\ RowTrue(r)
    BY <2>1, ElementOfSeq DEF RowsTrue, Types
  <2>3. RowTrue(r)'
    BY <2>2
  <2> QED BY <2>1, <2>3 DEF RowTrue
<1>3. ASSUME pc' = "snapshot" PROVE RowTrue(row)'
  <2>1. PICK r : r = row
    OBVIOUS
  <2>2. r \in RowSet /\ RowTrue(r) /\ row' = r
    BY <1>3, <2>1 DEF RowsTrue, Types
  <2>3. RowTrue(r)'
    BY <2>2
  <2> QED BY <2>2, <2>3 DEF RowTrue
<1> QED BY <1>1, <1>2, <1>3 DEF RowsTrue

\* A change of the exchange's book leaves the rows as they are.
LEMMA OrderChange ==
  ASSUME OrderInv, NEW l \in Levels, NEW q \in Quantities, Change(l, q)
  PROVE  OrderInv'
<1>1. /\ UNCHANGED <<published, lastLost, channel, trader>>
      /\ UNCHANGED <<outbox, ring, enabled, pc, row, lastUpdateId, partial, missed, stale>>
      /\ Coming' = Coming
  BY DEF Change, channel, trader, Coming
<1>2. /\ ledger' \in Seq(Books) /\ Now' = Now + 1
      /\ \A id \in 1 .. Now : ledger'[id] = ledger[id]
      /\ ledger'[Now + 1] # ledger'[Now]
  BY ChangeAppends DEF OrderInv
<1>3. /\ Now \in Nat /\ published \in Nat /\ published <= Now
  BY TypesOfRows DEF OrderInv
<1>4. Types'
  <2>1. \A id \in 2 .. Now' : ledger'[id] # ledger'[id - 1]
    <3> SUFFICES ASSUME NEW id \in 2 .. Now' PROVE ledger'[id] # ledger'[id - 1]
      OBVIOUS
    <3>1. CASE id = Now + 1
      BY <1>2, <1>3, <3>1
    <3>2. CASE id # Now + 1
      <4>1. id \in 2 .. Now /\ id \in 1 .. Now /\ id - 1 \in 1 .. Now
        BY <1>2, <1>3, <3>2
      <4> QED BY <1>2, <4>1 DEF OrderInv, Types
    <3> QED BY <3>1, <3>2
  <2> QED BY <1>1, <1>2, <1>3, <2>1 DEF OrderInv, Types
<1>5. RowsTrue'
  <2>1. \A r \in RowSet : RowTrue(r) => RowTrue(r)'
    BY <1>1, <1>2, <1>3, RowStaysTrue DEF OrderInv
  <2> QED BY <1>1, <2>1, SameRowsTrue DEF OrderInv
<1>6. OneEvent' /\ Events' /\ Chain' /\ ReadOn'
  BY <1>1 DEF OrderInv, OneEvent, Events, Chain, ReadOn, Follows, At
<1> QED BY <1>4, <1>5, <1>6 DEF OrderInv

\* A lost event is none of the rows, and is known to be lost.
LEMMA OrderLose ==
  ASSUME OrderInv, Lose
  PROVE  OrderInv'
<1>1. /\ published < Now /\ outbox = <<>>
      /\ published' = Now /\ lastLost' = Now
      /\ UNCHANGED <<ledger, outbox, ring, enabled>>
      /\ UNCHANGED <<pc, row, lastUpdateId, partial, missed, stale>>
      /\ Coming' = Coming /\ Now' = Now
  BY DEF Lose, channel, trader, Coming, Now
<1>2. /\ Now \in Nat /\ published \in Nat /\ published >= 1 /\ lastLost \in Nat
      /\ lastLost <= published /\ Len(Coming) \in Nat
      /\ \A i \in 1 .. Len(Coming) : Coming[i].first \in Nat /\ Coming[i].last \in Nat
  BY TypesOfRows DEF OrderInv
<1>3. Types'
  BY <1>1, <1>2 DEF OrderInv, Types
<1>4. RowsTrue'
  <2>1. \A r \in RowSet : RowTrue(r) => RowTrue(r)'
    BY <1>1, <1>2, RowStaysTrue DEF OrderInv
  <2> QED BY <1>1, <2>1, SameRowsTrue DEF OrderInv
<1>5. OneEvent'
  BY <1>1 DEF OneEvent
<1>6. Events'
  BY <1>1 DEF OrderInv, Events
<1>9. Chain'
  <2>1. ASSUME enabled, NEW i \in 1 .. Len(Coming) - 1
        PROVE  Follows(Coming[i + 1].first, Coming[i].last)'
    <3>1. i \in 1 .. Len(Coming) /\ i + 1 \in 1 .. Len(Coming)
      BY <1>2
    <3>2. Follows(Coming[i + 1].first, Coming[i].last)
      BY <2>1 DEF OrderInv, Chain
    <3> QED BY <1>1, <1>2, <3>1, <3>2 DEF Follows
  <2>2. Follows(published + 1, Coming[Len(Coming)].last)'
    BY <1>1, <1>2 DEF Follows
  <2> QED BY <1>1, <2>1, <2>2 DEF Chain
<1>10. ReadOn'
  <2>1. Follows(published + 1, At)'
    BY <1>1, <1>2 DEF Follows
  <2>2. Coming # <<>> => 1 \in 1 .. Len(Coming)
    BY <1>2, TypesOfRows, EmptySeq DEF OrderInv
  <2>4. Coming # <<>> /\ Follows(Coming[1].first, At) => Follows(Coming[1].first, At)'
    BY <1>1, <1>2, <2>2 DEF Follows, At
  <2> QED BY <1>1, <2>1, <2>4 DEF OrderInv, ReadOn
<1> QED BY <1>3, <1>4, <1>5, <1>6, <1>9, <1>10 DEF OrderInv

\* A trader that ends has no row in hand.
LEMMA OrderExit ==
  ASSUME OrderInv, Exit
  PROVE  OrderInv'
<1>1. /\ UNCHANGED <<ledger, published, lastLost, outbox, ring, enabled>>
      /\ UNCHANGED <<lastUpdateId, partial, missed, stale>>
      /\ Coming' = Coming /\ Now' = Now /\ pc' = "down"
  BY DEF Exit, exchange, channel, Coming, Now
<1>2. Types' /\ OneEvent' /\ Events' /\ Chain' /\ ReadOn'
  BY <1>1 DEF OrderInv, Types, OneEvent, Events, Chain, ReadOn, Follows
<1>3. RowsTrue'
  BY <1>1 DEF OrderInv, RowsTrue, RowTrue
<1> QED BY <1>2, <1>3 DEF OrderInv

\* Writing a row changes nothing of the order, or ends it for this consumer.
LEMMA OrderWrite ==
  ASSUME OrderInv, WriteRow
  PROVE  OrderInv'
<1>1. /\ UNCHANGED <<ledger, published, lastLost>>
      /\ UNCHANGED <<pc, row, lastUpdateId, partial, missed, stale>> /\ Now' = Now
  BY DEF WriteRow, exchange, trader, Now
<1>2. /\ QueueTypes' /\ Len(ring') <= RingLength
      /\ outbox # <<>> /\ Len(outbox') = Len(outbox) - 1
      /\ \A i \in 1 .. Len(outbox') : outbox'[i] = outbox[i + 1]
      /\ enabled' => enabled /\ Coming' = Coming
  BY TypesOfRows, WriteMovesRow DEF OrderInv, Types
<1>3. /\ Len(outbox) \in Nat /\ Len(Coming) \in Nat
      /\ \A i \in 1 .. Len(outbox') : i + 1 \in 1 .. Len(outbox)
  BY <1>2, TypesOfRows DEF OrderInv
<1>4. enabled' \in BOOLEAN
  BY DEF WriteRow, OrderInv, Types
<1>5. Types'
  BY <1>1, <1>2, <1>4 DEF OrderInv, Types, QueueTypes
<1>6. RowsTrue'
  <2>1. ASSUME NEW i \in 1 .. Len(outbox') PROVE RowTrue(outbox[i])'
    <3>1. RowTrue(outbox[i + 1])
      BY <1>3 DEF OrderInv, RowsTrue
    <3> QED BY <1>1, <1>2, <3>1 DEF RowTrue
  <2>2. ASSUME enabled', NEW i \in 1 .. Len(Coming') PROVE RowTrue(Coming[i])'
    <3>1. RowTrue(Coming[i])
      BY <1>2, <2>2 DEF OrderInv, RowsTrue
    <3> QED BY <1>1, <1>2, <2>2, <3>1 DEF RowTrue
  <2>3. pc' = "snapshot" => RowTrue(row)'
    BY <1>1 DEF OrderInv, RowsTrue, RowTrue
  <2> QED BY <2>1, <2>2, <2>3 DEF RowsTrue
<1>7. OneEvent'
  <2>1. \A i \in 1 .. Len(outbox') : outbox'[i].last = published'
    BY <1>1, <1>2, <1>3 DEF OrderInv, OneEvent
  <2>2. ASSUME NEW i \in 1 .. Len(outbox'), NEW j \in 1 .. Len(outbox'), i < j
        PROVE  outbox'[i].first = outbox'[j].first /\ outbox'[i].hasMore
    <3>1. i + 1 \in 1 .. Len(outbox) /\ j + 1 \in 1 .. Len(outbox) /\ i + 1 < j + 1
      BY <1>3, <2>2
    <3> QED BY <1>2, <3>1 DEF OrderInv, OneEvent
  <2> QED BY <2>1, <2>2 DEF OneEvent
<1>8. CASE ~enabled'
  BY <1>5, <1>6, <1>7, <1>8 DEF OrderInv, Events, Chain, ReadOn
<1>9. CASE enabled'
  <2>1. UNCHANGED <<ledger, published, lastLost, pc, row, lastUpdateId, stale, enabled, Coming>>
    BY <1>1, <1>2, <1>9, <1>4 DEF OrderInv, Types
  <2>2. Events'
    BY <2>1 DEF OrderInv, Events
  <2>3. Chain'
    BY <2>1 DEF OrderInv, Chain, Follows
  <2>4. ReadOn'
    BY <2>1 DEF OrderInv, ReadOn, Follows, At
  <2> QED BY <1>5, <1>6, <1>7, <2>2, <2>3, <2>4 DEF OrderInv
<1> QED BY <1>8, <1>9

\* A new trader finds what is left of one event.
LEMMA OrderRestart ==
  ASSUME OrderInv, Restart
  PROVE  OrderInv'
<1>1. /\ UNCHANGED <<ledger, published, lastLost, outbox>> /\ Now' = Now
      /\ ring' = <<>> /\ enabled' = TRUE /\ pc' = "read" /\ lastUpdateId' = 0
      /\ partial' = FALSE /\ missed' = {} /\ stale' = FALSE
  BY DEF Restart, exchange, Now
<1>2. /\ outbox \in Seq(RowSet) /\ Coming' = outbox /\ Len(outbox) \in Nat
      /\ \A i \in 1 .. Len(outbox) : outbox[i].first \in Nat /\ outbox[i].last \in Nat
  <2>1. outbox \in Seq(RowSet)
    BY DEF OrderInv, Types
  <2>2. Coming' = outbox
    BY <1>1, <2>1, ConcatEmptySeq DEF Coming
  <2>3. \A i \in 1 .. Len(outbox) : outbox[i] \in RowSet
    BY <2>1, ElementOfSeq
  <2>4. Len(outbox) \in Nat
    BY <2>1, LenProperties
  <2> QED BY <2>1, <2>2, <2>3, <2>4 DEF RowSet
<1>3. Types'
  <2>1. ring' \in Seq(RowSet) /\ Len(ring') = 0
    BY <1>1, EmptySeq
  <2>2. Len(ring') <= RingLength
    BY <2>1, SyncAssumption
  <2>3. lastUpdateId' \in 0 .. Now' /\ missed' \subseteq Levels
    BY <1>1, TypesOfRows DEF OrderInv
  <2> QED BY <1>1, <2>1, <2>2, <2>3 DEF OrderInv, Types
<1>4. RowsTrue'
  BY <1>1, <1>2 DEF OrderInv, RowsTrue, RowTrue
<1>5. OneEvent'
  BY <1>1 DEF OrderInv, OneEvent
<1>6. Events'
  BY <1>1, <1>2 DEF OrderInv, OneEvent, Events
<1>7. /\ published \in Nat /\ \A i \in 1 .. Len(outbox) : outbox[i].last = published
      /\ \A i \in 1 .. Len(outbox) : outbox[i].first <= outbox[i].last
  BY TypesOfRows DEF OrderInv, OneEvent, RowsTrue, RowTrue
<1>8. Chain'
  <2>1. ASSUME NEW i \in 1 .. Len(Coming') - 1
        PROVE  Follows(Coming[i + 1].first, Coming[i].last)'
    <3>1. i \in 1 .. Len(outbox) /\ i + 1 \in 1 .. Len(outbox)
      BY <1>2
    <3> QED BY <1>2, <1>7, <3>1 DEF Follows
  <2>2. Coming' # <<>> => Follows(published + 1, Coming[Len(Coming)].last)'
    <3>1. Coming' # <<>> => Len(outbox) \in 1 .. Len(outbox)
      BY <1>2, EmptySeq
    <3> QED BY <1>1, <1>2, <1>7, <3>1 DEF Follows
  <2> QED BY <2>1, <2>2 DEF Chain
<1>9. ReadOn'
  BY <1>1 DEF ReadOn
<1> QED BY <1>3, <1>4, <1>5, <1>6, <1>8, <1>9 DEF OrderInv

\* The rows of an event by their place among those that come.
LEMMA PublishedRows ==
  ASSUME Types, Publish
  PROVE  /\ Len(Coming) \in Nat /\ Len(Coming') \in Nat /\ Len(Coming) < Len(Coming')
         /\ \A i \in 1 .. Len(Coming) : i \in 1 .. Len(Coming') /\ Coming'[i] = Coming[i]
         /\ \A i \in 1 .. Len(Coming') : i > Len(Coming) =>
              /\ Coming'[i] \in RowSet
              /\ Coming'[i].first = published + 1 /\ Coming'[i].last = Now
              /\ Coming'[i].quantity = ledger[Now][Coming'[i].level]
              /\ Coming'[i].hasMore <=> i < Len(Coming')
         /\ \A l \in Changed : \E i \in 1 .. Len(Coming') :
              i > Len(Coming) /\ Coming'[i].level = l
<1>1. /\ Len(outbox') \in Nat \ {0} /\ Len(Coming) \in Nat
      /\ \A i \in 1 .. Len(outbox') :
           /\ outbox'[i].first = published + 1 /\ outbox'[i].last = Now
           /\ outbox'[i].quantity = ledger[Now][outbox'[i].level]
           /\ outbox'[i].hasMore <=> i < Len(outbox')
      /\ \A l \in Changed : \E i \in 1 .. Len(outbox') : outbox'[i].level = l
      /\ Coming' \in Seq(RowSet) /\ Len(Coming') = Len(Coming) + Len(outbox')
      /\ \A i \in 1 .. Len(Coming) : Coming'[i] = Coming[i]
      /\ \A i \in 1 .. Len(outbox') : Coming'[Len(Coming) + i] = outbox'[i]
  BY PublishAdds, TypesOfRows
<1>2. ASSUME NEW i \in 1 .. Len(Coming'), i > Len(Coming)
      PROVE  /\ Coming'[i] \in RowSet
             /\ Coming'[i].first = published + 1 /\ Coming'[i].last = Now
             /\ Coming'[i].quantity = ledger[Now][Coming'[i].level]
             /\ Coming'[i].hasMore <=> i < Len(Coming')
  <2> DEFINE k == i - Len(Coming)
  <2>1. k \in 1 .. Len(outbox') /\ i = Len(Coming) + k /\ (k < Len(outbox') <=> i < Len(Coming'))
    BY <1>1, <1>2
  <2> HIDE DEF k
  <2>2. Coming'[i] = outbox'[k]
    BY <1>1, <2>1
  <2>3. Coming'[i] \in RowSet
    BY <1>1, ElementOfSeq
  <2> QED BY <1>1, <2>1, <2>2, <2>3
<1>3. ASSUME NEW l \in Changed
      PROVE  \E i \in 1 .. Len(Coming') : i > Len(Coming) /\ Coming'[i].level = l
  <2>1. PICK k \in 1 .. Len(outbox') : outbox'[k].level = l
    BY <1>1
  <2>2. Len(Coming) + k \in 1 .. Len(Coming') /\ Len(Coming) + k > Len(Coming)
    BY <1>1
  <2> QED BY <1>1, <2>1, <2>2
<1>4. /\ Len(Coming') \in Nat /\ Len(Coming) < Len(Coming')
      /\ \A i \in 1 .. Len(Coming) : i \in 1 .. Len(Coming')
  BY <1>1
<1> QED BY <1>1, <1>2, <1>3, <1>4

\* An event follows what was published, and is behind what came before.
LEMMA OrderPublish ==
  ASSUME OrderInv, Publish
  PROVE  OrderInv'
<1>1. /\ published < Now /\ published' = Now
      /\ UNCHANGED <<ledger, lastLost, ring, enabled>> /\ Now' = Now
      /\ UNCHANGED <<pc, row, lastUpdateId, partial, missed, stale>>
  BY DEF Publish, trader, Now
<1>2. /\ Now \in Nat /\ published \in Nat /\ published >= 1 /\ lastLost \in Nat
      /\ \A i \in 1 .. Len(Coming) : Coming[i].first \in Nat /\ Coming[i].last \in Nat
  BY TypesOfRows DEF OrderInv
<1>3. /\ QueueTypes' /\ Len(outbox') \in Nat \ {0}
      /\ \A i \in 1 .. Len(outbox') :
           /\ outbox'[i].first = published + 1 /\ outbox'[i].last = Now
           /\ outbox'[i].quantity = ledger[Now][outbox'[i].level]
           /\ outbox'[i].hasMore <=> i < Len(outbox')
  BY PublishAdds DEF OrderInv
<1>4. /\ Len(Coming) \in Nat /\ Len(Coming') \in Nat /\ Len(Coming) < Len(Coming')
      /\ \A i \in 1 .. Len(Coming) : i \in 1 .. Len(Coming') /\ Coming'[i] = Coming[i]
      /\ \A i \in 1 .. Len(Coming') : i > Len(Coming) =>
           /\ Coming'[i].first = published + 1 /\ Coming'[i].last = Now
           /\ Coming'[i].quantity = ledger[Now][Coming'[i].level]
           /\ Coming'[i].hasMore <=> i < Len(Coming')
  BY PublishedRows DEF OrderInv
<1>5. Types'
  <2>1. lastLost' \in 0 .. published' /\ published' \in 1 .. Now'
    BY <1>1, <1>2 DEF OrderInv, Types
  <2> QED BY <1>1, <1>3, <2>1 DEF OrderInv, Types, QueueTypes
<1>6. RowsTrue'
  <2>1. \A r \in RowSet : RowTrue(r) => RowTrue(r)'
    BY <1>1, <1>2, RowStaysTrue DEF OrderInv
  <2>2. ASSUME enabled', NEW i \in 1 .. Len(Coming') PROVE RowTrue(Coming[i])'
    <3>1. CASE i \in 1 .. Len(Coming)
      <4>1. PICK r : r = Coming[i]
        OBVIOUS
      <4>2. r \in RowSet /\ RowTrue(r)
        BY <1>1, <2>2, <3>1, <4>1, TypesOfRows DEF OrderInv, RowsTrue
      <4>3. RowTrue(r)' /\ Coming'[i] = r
        BY <1>4, <2>1, <3>1, <4>1, <4>2
      <4> QED BY <4>3 DEF RowTrue
    <3>2. CASE i > Len(Coming)
      BY <1>1, <1>2, <1>4, <3>2 DEF RowTrue
    <3> QED BY <1>4, <3>1, <3>2
  <2>3. ASSUME NEW i \in 1 .. Len(outbox') PROVE RowTrue(outbox[i])'
    BY <1>1, <1>2, <1>3 DEF RowTrue
  <2>4. ASSUME pc' = "snapshot" PROVE RowTrue(row)'
    <3>1. PICK r : r = row
      OBVIOUS
    <3>2. r \in RowSet /\ RowTrue(r) /\ row' = r
      BY <1>1, <2>4, <3>1 DEF OrderInv, RowsTrue, Types
    <3>3. RowTrue(r)'
      BY <2>1, <3>2
    <3> QED BY <3>2, <3>3 DEF RowTrue
  <2> QED BY <2>2, <2>3, <2>4 DEF RowsTrue
<1>7. OneEvent'
  BY <1>1, <1>3 DEF OneEvent
<1>8. enabled => \A i \in 1 .. Len(Coming) : Coming[i].last <= published
  BY DEF OrderInv, RowsTrue, RowTrue
<1>9. Events'
  <2>1. ASSUME enabled, NEW i \in 1 .. Len(Coming'), NEW j \in 1 .. Len(Coming'), i < j
        PROVE  /\ Coming'[i].last <= Coming'[j].last
               /\ Coming'[i].last = Coming'[j].last =>
                    Coming'[i].first = Coming'[j].first /\ Coming'[i].hasMore
    <3>1. CASE j <= Len(Coming)
      <4>1. i \in 1 .. Len(Coming) /\ j \in 1 .. Len(Coming)
        BY <1>4, <2>1, <3>1
      <4> QED BY <1>4, <2>1, <4>1 DEF OrderInv, Events
    <3>2. CASE i <= Len(Coming) /\ j > Len(Coming)
      <4>1. i \in 1 .. Len(Coming)
        BY <1>4, <3>2
      <4> QED BY <1>1, <1>2, <1>4, <1>8, <2>1, <3>2, <4>1
    <3>3. CASE i > Len(Coming)
      <4>1. j > Len(Coming) /\ i < Len(Coming')
        BY <1>4, <2>1, <3>3
      <4> QED BY <1>2, <1>4, <3>3, <4>1
    <3> QED BY <1>4, <2>1, <3>1, <3>2, <3>3
  <2>2. ASSUME enabled, pc = "snapshot", NEW i \in 1 .. Len(Coming'), Coming'[i].last = row.last
        PROVE  Coming'[i].first = row.first
    <3>1. row.last <= published /\ row.last \in Nat
      BY <2>2 DEF OrderInv, RowsTrue, RowTrue, Types, RowSet
    <3>2. i \in 1 .. Len(Coming)
      BY <1>1, <1>2, <1>4, <2>2, <3>1
    <3> QED BY <1>4, <2>2, <3>2 DEF OrderInv, Events
  <2> QED BY <1>1, <2>1, <2>2 DEF Events
<1>10. Chain'
  <2>1. ASSUME enabled, NEW i \in 1 .. Len(Coming') - 1
        PROVE  Follows(Coming[i + 1].first, Coming[i].last)'
    <3>1. CASE i < Len(Coming)
      <4>1. i \in 1 .. Len(Coming) - 1 /\ i \in 1 .. Len(Coming) /\ i + 1 \in 1 .. Len(Coming)
        BY <1>4, <3>1
      <4>2. Follows(Coming[i + 1].first, Coming[i].last)
        BY <2>1, <4>1 DEF OrderInv, Chain
      <4> QED BY <1>1, <1>4, <4>1, <4>2 DEF Follows
    <3>2. CASE i = Len(Coming)
      <4>1. i \in 1 .. Len(Coming) /\ i + 1 \in 1 .. Len(Coming') /\ i + 1 > Len(Coming)
        BY <1>4, <3>2
      <4>2. Coming # <<>>
        BY <4>1, EmptySeq
      <4>3. Follows(published + 1, Coming[i].last)
        BY <2>1, <3>2, <4>2 DEF OrderInv, Chain
      <4> QED BY <1>1, <1>4, <4>1, <4>3 DEF Follows
    <3>3. CASE i > Len(Coming)
      <4>1. i \in 1 .. Len(Coming') /\ i + 1 \in 1 .. Len(Coming') /\ i + 1 > Len(Coming)
        BY <1>4, <3>3
      <4> QED BY <1>1, <1>2, <1>4, <3>3, <4>1 DEF Follows
    <3> QED BY <1>4, <3>1, <3>2, <3>3
  <2>2. Follows(published + 1, Coming[Len(Coming)].last)'
    <3>1. Len(Coming') \in 1 .. Len(Coming') /\ Len(Coming') > Len(Coming)
      BY <1>4
    <3> QED BY <1>1, <1>2, <1>4, <3>1 DEF Follows
  <2> QED BY <1>1, <2>1, <2>2 DEF Chain
<1>11. ReadOn'
  <2>1. At' = At /\ Coming' # <<>> /\ 1 \in 1 .. Len(Coming')
    BY <1>1, <1>4, EmptySeq DEF At
  <2>2. CASE Len(Coming) = 0
    <3>1. Coming = <<>> /\ 1 > Len(Coming)
      BY <2>2, TypesOfRows, EmptySeq DEF OrderInv
    <3>2. Coming'[1].first = published + 1
      BY <1>4, <2>1, <3>1
    <3> QED BY <1>1, <2>1, <3>1, <3>2 DEF OrderInv, ReadOn, Follows
  <2>3. CASE Len(Coming) # 0
    <3>1. Coming # <<>> /\ 1 \in 1 .. Len(Coming)
      BY <1>4, <2>3, EmptySeq
    <3>2. Coming'[1] = Coming[1]
      BY <1>4, <3>1
    <3> QED BY <1>1, <2>1, <3>1, <3>2 DEF OrderInv, ReadOn, Follows
  <2> QED BY <2>2, <2>3
<1> QED BY <1>5, <1>6, <1>7, <1>9, <1>10, <1>11 DEF OrderInv

\* What is done with the row that is read.
LEMMA ReadCases ==
  ASSUME Types, ReadRow
  PROVE  \E r \in RowSet :
           /\ r = Coming[1] /\ r = Head(ring)
           /\ pc = "read" /\ enabled /\ partial' = r.hasMore
           /\ UNCHANGED <<ledger, published, lastLost, outbox, enabled>> /\ Now' = Now
           /\ \/ /\ Gap(r)
                 /\ pc' = "snapshot" /\ row' = r /\ UNCHANGED <<book, lastUpdateId, missed, stale>>
              \/ /\ ~Gap(r) /\ TooOld(r)
                 /\ UNCHANGED <<pc, row, book, lastUpdateId, missed, stale>>
              \/ /\ ~Gap(r) /\ ~TooOld(r) /\ UNCHANGED <<pc, row>>
                 /\ ApplyToBook(r) /\ missed' = missed \ {r.level} /\ stale' = FALSE
<1>1. PICK r : r = Head(ring)
  OBVIOUS
<1>2. r = Coming[1]
  BY <1>1, TypesOfRows, ReadTakesFirst
<1>3. r \in RowSet
  <2>1. Len(Coming) # 0 /\ Len(Coming) \in Nat
    BY TypesOfRows, ReadTakesFirst, EmptySeq
  <2>2. 1 \in 1 .. Len(Coming)
    BY <2>1
  <2> QED BY <1>2, <2>2, TypesOfRows
<1>4. /\ pc = "read" /\ enabled /\ partial' = r.hasMore
      /\ UNCHANGED <<ledger, published, lastLost, outbox, enabled>> /\ Now' = Now
  BY <1>1 DEF ReadRow, exchange, Now
<1>5. \/ /\ Gap(r)
         /\ pc' = "snapshot" /\ row' = r /\ UNCHANGED <<book, lastUpdateId, missed, stale>>
      \/ /\ ~Gap(r) /\ TooOld(r)
         /\ UNCHANGED <<pc, row, book, lastUpdateId, missed, stale>>
      \/ /\ ~Gap(r) /\ ~TooOld(r) /\ UNCHANGED <<pc, row>>
         /\ ApplyToBook(r) /\ missed' = missed \ {r.level} /\ stale' = FALSE
  BY <1>1 DEF ReadRow
<1> QED BY <1>1, <1>2, <1>3, <1>4, <1>5

\* The row that is read is followed by what comes, whatever is done with it.
LEMMA OrderRead ==
  ASSUME OrderInv, ReadRow
  PROVE  OrderInv'
<1>1. PICK r \in RowSet :
        /\ r = Coming[1] /\ r = Head(ring)
        /\ pc = "read" /\ enabled /\ partial' = r.hasMore
        /\ UNCHANGED <<ledger, published, lastLost, outbox, enabled>> /\ Now' = Now
        /\ \/ /\ Gap(r)
              /\ pc' = "snapshot" /\ row' = r /\ UNCHANGED <<book, lastUpdateId, missed, stale>>
           \/ /\ ~Gap(r) /\ TooOld(r)
              /\ UNCHANGED <<pc, row, book, lastUpdateId, missed, stale>>
           \/ /\ ~Gap(r) /\ ~TooOld(r) /\ UNCHANGED <<pc, row>>
              /\ ApplyToBook(r) /\ missed' = missed \ {r.level} /\ stale' = FALSE
  BY ReadCases DEF OrderInv
<1>2. /\ QueueTypes' /\ Len(ring') < Len(ring)
      /\ Coming \in Seq(RowSet) /\ Coming # <<>> /\ Coming' \in Seq(RowSet)
      /\ Len(Coming') = Len(Coming) - 1
      /\ \A i \in 1 .. Len(Coming') : Coming'[i] = Coming[i + 1]
  BY ReadTakesFirst, TypesOfRows DEF OrderInv
<1>3. /\ Len(Coming) \in Nat \ {0} /\ Len(ring) \in Nat /\ Len(ring') \in Nat
      /\ Now \in Nat /\ published \in Nat /\ published <= Now /\ lastLost \in Nat
      /\ lastUpdateId \in Nat /\ lastUpdateId <= Now
      /\ \A i \in 1 .. Len(Coming) : Coming[i].first \in Nat /\ Coming[i].last \in Nat
  BY <1>2, TypesOfRows, EmptySeq, LenProperties DEF OrderInv, QueueTypes
<1>4. 1 \in 1 .. Len(Coming) /\ \A i \in 1 .. Len(Coming') : i + 1 \in 1 .. Len(Coming)
  BY <1>2, <1>3
<1>5. RowTrue(r) /\ r.last \in Nat /\ r.first \in Nat /\ r.last <= published
  BY <1>1, <1>4 DEF OrderInv, RowsTrue, RowTrue, RowSet
<1>6. Types'
  <2>1. lastUpdateId' \in 0 .. Now'
    BY <1>1, <1>3, <1>5 DEF ApplyToBook
  <2>2. Len(ring') <= RingLength
    <3>1. Len(ring) <= RingLength
      BY DEF OrderInv, Types
    <3> QED BY <1>2, <1>3, <3>1, SyncAssumption
  <2>3. partial' \in BOOLEAN
    BY <1>1 DEF RowSet
  <2>4. pc' = "snapshot" => row' \in RowSet
    BY <1>1 DEF OrderInv, Types
  <2>5. missed' \subseteq Levels /\ pc' \in {"read", "snapshot", "down"} /\ stale' \in BOOLEAN
    BY <1>1 DEF OrderInv, Types
  <2> QED BY <1>1, <1>2, <2>1, <2>2, <2>3, <2>4, <2>5 DEF OrderInv, Types, QueueTypes
<1>7. RowsTrue'
  <2>1. ASSUME NEW i \in 1 .. Len(Coming') PROVE RowTrue(Coming[i])'
    <3>1. RowTrue(Coming[i + 1])
      BY <1>1, <1>4 DEF OrderInv, RowsTrue
    <3> QED BY <1>1, <1>2, <3>1 DEF RowTrue
  <2>2. \A i \in 1 .. Len(outbox') : RowTrue(outbox[i])'
    BY <1>1 DEF OrderInv, RowsTrue, RowTrue
  <2>3. pc' = "snapshot" => RowTrue(row)'
    BY <1>1, <1>5 DEF RowTrue
  <2> QED BY <2>1, <2>2, <2>3 DEF RowsTrue
<1>8. OneEvent'
  BY <1>1 DEF OrderInv, OneEvent
<1>9. Events'
  <2>1. ASSUME NEW i \in 1 .. Len(Coming'), NEW j \in 1 .. Len(Coming'), i < j
        PROVE  /\ Coming'[i].last <= Coming'[j].last
               /\ Coming'[i].last = Coming'[j].last =>
                    Coming'[i].first = Coming'[j].first /\ Coming'[i].hasMore
    <3>1. i + 1 \in 1 .. Len(Coming) /\ j + 1 \in 1 .. Len(Coming) /\ i + 1 < j + 1
      BY <1>4, <2>1
    <3>2. /\ Coming[i + 1].last <= Coming[j + 1].last
          /\ Coming[i + 1].last = Coming[j + 1].last =>
               Coming[i + 1].first = Coming[j + 1].first /\ Coming[i + 1].hasMore
      BY <1>1, <3>1 DEF OrderInv, Events
    <3>3. Coming'[i] = Coming[i + 1] /\ Coming'[j] = Coming[j + 1]
      BY <1>2
    <3> QED BY <3>2, <3>3
  <2>2. ASSUME pc' = "snapshot", NEW i \in 1 .. Len(Coming'), Coming'[i].last = row'.last
        PROVE  Coming'[i].first = row'.first
    <3>1. row' = Coming[1] /\ i + 1 \in 1 .. Len(Coming) /\ 1 < i + 1
      BY <1>1, <1>4, <2>2
    <3> QED BY <1>1, <1>2, <1>4, <2>2, <3>1 DEF OrderInv, Events
  <2> QED BY <2>1, <2>2 DEF Events
<1>10. Chain'
  <2>1. ASSUME NEW i \in 1 .. Len(Coming') - 1
        PROVE  Follows(Coming[i + 1].first, Coming[i].last)'
    <3>1. /\ i \in 1 .. Len(Coming') /\ i + 1 \in 1 .. Len(Coming')
          /\ i + 1 \in 1 .. Len(Coming) - 1
      BY <1>2, <1>3
    <3>2. Follows(Coming[(i + 1) + 1].first, Coming[i + 1].last)
      BY <1>1, <3>1 DEF OrderInv, Chain
    <3> QED BY <1>1, <1>2, <3>1, <3>2 DEF Follows
  <2>2. Coming' # <<>> => Follows(published + 1, Coming[Len(Coming)].last)'
    <3> SUFFICES ASSUME Coming' # <<>> PROVE Follows(published + 1, Coming[Len(Coming)].last)'
      OBVIOUS
    <3>1. Len(Coming') \in 1 .. Len(Coming') /\ Len(Coming') + 1 = Len(Coming)
      BY <1>2, <1>3, EmptySeq
    <3>2. Follows(published + 1, Coming[Len(Coming)].last)
      BY <1>1, <1>2 DEF OrderInv, Chain
    <3> QED BY <1>1, <1>2, <3>1, <3>2 DEF Follows
  <2> QED BY <2>1, <2>2 DEF Chain
<1>11. ReadOn'
  <2>1. Coming' = <<>> => Follows(published + 1, r.last)
    <3> SUFFICES ASSUME Coming' = <<>> PROVE Follows(published + 1, r.last)
      OBVIOUS
    <3>1. Len(Coming) = 1
      BY <1>2, <1>3, EmptySeq
    <3> QED BY <1>1, <1>2, <3>1 DEF OrderInv, Chain
  <2>2. Coming' # <<>> => Follows(Coming'[1].first, r.last)
    <3> SUFFICES ASSUME Coming' # <<>> PROVE Follows(Coming'[1].first, r.last)
      OBVIOUS
    <3>1. 1 \in 1 .. Len(Coming') /\ 1 \in 1 .. Len(Coming) - 1
      BY <1>2, <1>3, EmptySeq
    <3> QED BY <1>1, <1>2, <3>1 DEF OrderInv, Chain
  <2>3. CASE At' = r.last
    BY <1>1, <2>1, <2>2, <2>3 DEF ReadOn, Follows
  <2>4. CASE TooOld(r) /\ UNCHANGED <<pc, row, lastUpdateId, stale>>
    <3>1. At' = lastUpdateId /\ r.last < lastUpdateId
      BY <1>1, <2>4 DEF At, TooOld
    <3>2. Coming' # <<>> => Coming'[1].first \in Nat
      BY <1>2, <1>3, <1>4, EmptySeq
    <3> QED BY <1>1, <1>3, <1>5, <2>1, <2>2, <3>1, <3>2 DEF ReadOn, Follows
  <2> QED BY <1>1, <2>3, <2>4 DEF At, ApplyToBook
<1> QED BY <1>6, <1>7, <1>8, <1>9, <1>10, <1>11 DEF OrderInv

\* A snapshot is not older than the row that asked for it, or is noted as stale.
LEMMA OrderSnapshot ==
  ASSUME OrderInv, NEW id \in DOMAIN ledger, SnapshotArrives(id)
  PROVE  OrderInv'
<1>1. /\ pc = "snapshot" /\ pc' = "read" /\ lastUpdateId' = id
      /\ stale' = (row.last > id)
      /\ UNCHANGED <<ledger, published, lastLost, outbox, ring, enabled, partial>>
      /\ Coming' = Coming /\ Now' = Now
  BY DEF SnapshotArrives, exchange, channel, Coming, Now
<1>2. /\ Now \in Nat /\ id \in 1 .. Now /\ row.last \in Nat
      /\ published \in Nat /\ lastLost \in Nat
      /\ \A i \in 1 .. Len(Coming) : Coming[i].first \in Nat /\ Coming[i].last \in Nat
  <2>1. id \in 1 .. Now
    BY LenProperties DEF OrderInv, Types, Now
  <2> QED BY <1>1, <2>1, TypesOfRows DEF OrderInv, Types, RowSet
<1>3. Types'
  <2>1. missed' \subseteq Levels
    BY DEF SnapshotArrives
  <2>2. stale' \in BOOLEAN
    BY <1>1
  <2>3. lastUpdateId' \in 0 .. Now'
    BY <1>1, <1>2
  <2> QED BY <1>1, <2>1, <2>2, <2>3 DEF OrderInv, Types
<1>4. RowsTrue' /\ OneEvent' /\ Chain'
  BY <1>1 DEF OrderInv, RowsTrue, RowTrue, OneEvent, Chain, Follows
<1>5. Events'
  BY <1>1 DEF OrderInv, Events
<1>6. ReadOn'
  <2> SUFFICES ASSUME enabled, ~stale'
               PROVE  /\ Coming = <<>> => Follows(published + 1, id)'
                      /\ Coming # <<>> => Follows(Coming[1].first, id)'
    BY <1>1 DEF ReadOn, At
  <2>1. row.last <= id
    <3>1. ~(row.last > id)
      BY <1>1
    <3> QED BY <1>2, <3>1
  <2>2. /\ Coming = <<>> => Follows(published + 1, row.last)
        /\ Coming # <<>> => Follows(Coming[1].first, row.last)
    BY <1>1 DEF OrderInv, ReadOn, At
  <2>3. Coming # <<>> => Coming[1].first \in Nat
    BY <1>2, TypesOfRows, EmptySeq DEF OrderInv
  <2> QED BY <1>1, <1>2, <2>1, <2>2, <2>3 DEF Follows
<1> QED BY <1>3, <1>4, <1>5, <1>6 DEF OrderInv

\* Nothing comes at first.
LEMMA InitOrder == Init => OrderInv
<1> SUFFICES ASSUME Init PROVE OrderInv
  OBVIOUS
<1>1. PICK initial \in Books : ledger = <<initial>>
  BY DEF Init, Books
<1>2. /\ published = 1 /\ lastLost = 0 /\ outbox = <<>> /\ ring = <<>> /\ enabled = TRUE
      /\ pc = "read" /\ lastUpdateId = 0 /\ partial = FALSE /\ missed = {} /\ stale = FALSE
  BY DEF Init
<1>3. ledger \in Seq(Books) /\ Now = 1
  BY <1>1 DEF Now
<1>4. /\ <<>> \in Seq(RowSet) /\ Len(<<>>) = 0 /\ 0 <= RingLength
      /\ Coming = <<>>
  BY <1>2, EmptySeq, ConcatEmptySeq, SyncAssumption DEF Coming
<1>5. Types
  <2>1. \A id \in 2 .. Now : FALSE
    BY <1>3
  <2>2. published \in 1 .. Now /\ lastLost \in 0 .. published /\ lastUpdateId \in 0 .. Now
    BY <1>2, <1>3
  <2>3. outbox \in Seq(RowSet) /\ ring \in Seq(RowSet) /\ Len(ring) <= RingLength
    BY <1>2, <1>4
  <2> QED BY <1>2, <1>3, <2>1, <2>2, <2>3 DEF Types
<1>6. RowsTrue /\ OneEvent /\ Events /\ Chain /\ ReadOn
  BY <1>2, <1>4 DEF RowsTrue, OneEvent, Events, Chain, ReadOn
<1> QED BY <1>5, <1>6 DEF OrderInv

\* No step disturbs the order of the rows.
LEMMA NextOrder == OrderInv /\ [Next]_vars => OrderInv'
<1> SUFFICES ASSUME OrderInv, [Next]_vars PROVE OrderInv'
  OBVIOUS
<1>1. ASSUME NEW l \in Levels, NEW q \in Quantities, Change(l, q) PROVE OrderInv'
  BY <1>1, OrderChange
<1>2. CASE Publish
  BY <1>2, OrderPublish
<1>3. CASE Lose
  BY <1>3, OrderLose
<1>4. CASE WriteRow
  BY <1>4, OrderWrite
<1>5. CASE ReadRow
  BY <1>5, OrderRead
<1>6. ASSUME NEW id \in DOMAIN ledger, SnapshotArrives(id) PROVE OrderInv'
  BY <1>6, OrderSnapshot
<1>7. CASE Exit
  BY <1>7, OrderExit
<1>8. CASE Restart
  BY <1>8, OrderRestart
<1>9. CASE UNCHANGED vars
  <2>1. /\ UNCHANGED <<ledger, published, lastLost, outbox, ring, enabled>>
        /\ UNCHANGED <<pc, row, lastUpdateId, partial, missed, stale>>
        /\ Coming' = Coming /\ Now' = Now
    BY <1>9 DEF vars, exchange, channel, trader, Coming, Now
  <2>2. Types' /\ RowsTrue' /\ OneEvent'
    BY <2>1 DEF OrderInv, Types, RowsTrue, RowTrue, OneEvent
  <2>3. Events' /\ Chain' /\ ReadOn'
    BY <2>1 DEF OrderInv, Events, Chain, ReadOn, Follows, At
  <2> QED BY <2>2, <2>3 DEF OrderInv
<1> QED BY <1>1, <1>2, <1>3, <1>4, <1>5, <1>6, <1>7, <1>8, <1>9 DEF Next

\* When a trader with a snapshot that was not too old has read every row, and
\* nothing was lost since, it has what the last event told.
THEOREM SyncCaughtUp == Spec => []CaughtUp
<1>1. OrderInv => CaughtUp
  <2> SUFFICES ASSUME OrderInv, Settled, ~stale, outbox = <<>>, ring = <<>>, enabled,
                      published # lastLost
               PROVE  lastUpdateId >= published
    BY DEF CaughtUp
  <2>1. Coming = <<>>
    BY ConcatEmptySeq DEF OrderInv, Types, Coming
  <2>2. Follows(published + 1, lastUpdateId)
    BY <2>1 DEF OrderInv, ReadOn, Settled, At
  <2>3. published \in Nat /\ lastLost \in Nat /\ lastLost <= published /\ lastUpdateId \in Nat
    BY TypesOfRows DEF OrderInv
  <2> QED BY <2>2, <2>3 DEF Follows
<1> QED BY <1>1, InitOrder, NextOrder, PTL DEF Spec

\* Reading on never makes a trader ask: only a new book does, a lost event
\* after what the book has, or a snapshot that was too old.
THEOREM SyncAsksOnlyForGap == Spec => SnapshotOnlyForGap
<1>1. ASSUME OrderInv, [Next]_vars, pc = "read", pc' = "snapshot"
      PROVE  lastUpdateId = 0 \/ lastLost > lastUpdateId \/ stale
  <2>1. ReadRow
    BY <1>1 DEF Next, vars, trader, Change, Publish, Lose, WriteRow, SnapshotArrives, Exit, Restart
  <2>2. PICK r \in RowSet : r = Coming[1] /\ enabled /\ Gap(r) /\ Coming # <<>>
    BY <1>1, <2>1, ReadCases, ReadTakesFirst, TypesOfRows DEF OrderInv
  <2>3. lastUpdateId > 0 /\ ~stale => Follows(r.first, lastUpdateId)
    BY <1>1, <2>2 DEF OrderInv, ReadOn, At
  <2>4. lastUpdateId \in Nat /\ lastLost \in Nat /\ r.first \in Nat
    BY <1>1, TypesOfRows DEF OrderInv, RowSet
  <2> QED BY <2>2, <2>3, <2>4 DEF Follows, Gap
<1>2. OrderInv /\ [Next]_vars =>
        [pc = "read" /\ pc' = "snapshot" =>
           lastUpdateId = 0 \/ lastLost > lastUpdateId \/ stale]_vars
  BY <1>1
<1> QED BY <1>2, InitOrder, NextOrder, PTL DEF Spec, SnapshotOnlyForGap

-----------------------------------------------------------------------------
\* The content of the book, action by action.

\* ToCome by places.
ToComeRows ==
  \A l, last : l \in ToCome(last) <=>
    \E i \in 1 .. Len(Coming) : Coming[i].last = last /\ Coming[i].level = l

\* It has that meaning, in a state and in its successor.
LEMMA ToComeMeaning == (Types => ToComeRows) /\ (Types' => ToComeRows')
<1>1. Types => ToComeRows
  <2> SUFFICES ASSUME Types PROVE ToComeRows
    OBVIOUS
  <2>1. DOMAIN Coming = 1 .. Len(Coming)
    BY TypesOfRows, LenProperties
  <2> QED BY <2>1 DEF ToComeRows, ToCome
<1> QED BY <1>1, PTL

\* An event whose rows stay among those that come stays complete.
LEMMA CompleteStays ==
  ASSUME Types, NEW r \in RowSet, RowTrue(r), Complete(r),
         \A id \in 1 .. published : ledger'[id] = ledger[id],
         \A l \in Levels : l \in ToCome(r.last) => l \in ToCome(r.last)'
  PROVE  Complete(r)'
<1>1. r.first \in Nat /\ r.last \in Nat /\ published \in Nat /\ published >= 1
  BY TypesOfRows DEF RowSet
<1>2. \A id \in r.first - 1 .. r.last - 1 : id \in 1 .. published
  BY <1>1 DEF RowTrue
<1>3. r.last \in 1 .. published
  BY <1>1 DEF RowTrue
<1> SUFFICES ASSUME NEW l \in Levels, NEW id \in r.first - 1 .. r.last - 1,
                    ledger'[r.last][l] # ledger'[id][l]
             PROVE  l \in ToCome(r.last)'
  BY DEF Complete
<1>4. ledger[r.last][l] # ledger[id][l]
  BY <1>2, <1>3
<1> QED BY <1>4 DEF Complete

\* The rows that come are true.
LEMMA ComingTrue ==
  ASSUME OrderInv
  PROVE  /\ \A r \in ComingRows : r \in RowSet /\ (enabled => RowTrue(r))
         /\ Coming # <<>> => Coming[1] \in ComingRows
         /\ ComingRows # {} => Coming # <<>>
<1>1. Len(Coming) \in Nat /\ \A i \in 1 .. Len(Coming) : Coming[i] \in RowSet
  BY TypesOfRows DEF OrderInv
<1>2. Coming # <<>> => Len(Coming) # 0
  BY TypesOfRows, EmptySeq DEF OrderInv
<1>3. Coming # <<>> => 1 \in 1 .. Len(Coming)
  BY <1>1, <1>2
<1>4. ComingRows # {} => Coming # <<>>
  BY EmptySeq DEF ComingRows
<1> QED BY <1>1, <1>3, <1>4 DEF OrderInv, RowsTrue, ComingRows

\* Sides that are left alone.
LEMMA SidesKept ==
  ASSUME SidesIn, UNCHANGED book
  PROVE  SidesIn' /\ \A l, v : Shows(l, v) => Shows(l, v)'
<1>1. BidSide!SideOfPrices'
  BY DEF book, SidesIn, BidSide!SideOfPrices, BidSide!SideIn, BidSide!Sorted, BidSide!RowAt,
         BidSide!Rows, BidSide!Slots, BidSide!Before, BidSide!Cells
<1>2. AskSide!SideOfPrices'
  BY DEF book, SidesIn, AskSide!SideOfPrices, AskSide!SideIn, AskSide!Sorted, AskSide!RowAt,
         AskSide!Rows, AskSide!Slots, AskSide!Before, AskSide!Cells
<1>3. \A l, v : Shows(l, v) => Shows(l, v)'
  BY DEF book, Shows, LocalBook, Bids!QuantityAt, Bids!HasRow, Bids!Rows,
         Asks!QuantityAt, Asks!HasRow, Asks!Rows
<1> QED BY <1>1, <1>2, <1>3 DEF SidesIn

\* A step that neither the book nor the rows that come take part in, of the
\* exchange, of the feeder or of a trader that ends.
LEMMA ContentKept ==
  ASSUME BookInv, OrderInv', UNCHANGED book, UNCHANGED <<lastUpdateId, partial, missed>>,
         \A id \in 1 .. Now : ledger'[id] = ledger[id],
         enabled' => enabled /\ Coming' = Coming,
         pc' = "down" \/ UNCHANGED <<pc, row>>
  PROVE  BookInv'
<1>1. /\ Now \in Nat /\ published \in Nat /\ published <= Now
      /\ lastUpdateId \in Nat /\ lastUpdateId <= Now
  BY TypesOfRows DEF BookInv, OrderInv
<1>2. \A id \in 1 .. published : ledger'[id] = ledger[id]
  BY <1>1
<1>3. SidesIn' /\ \A l, v : Shows(l, v) => Shows(l, v)'
  BY SidesKept DEF BookInv
<1>4. enabled' => ComingRows' = ComingRows /\ \A l, last : l \in ToCome(last) => l \in ToCome(last)'
  BY DEF ComingRows, ToCome
<1>5. Completes'
  <2> SUFFICES ASSUME enabled', NEW r \in ComingRows',
                      r.last # Coming'[1].last \/ (pc' = "snapshot" /\ r.last # row'.last)
               PROVE  Complete(r)'
    BY DEF Completes
  <2>1. r \in ComingRows /\ r \in RowSet /\ RowTrue(r)
    BY <1>4, ComingTrue DEF BookInv
  <2>2. Complete(r)
    BY <2>1 DEF BookInv, Completes
  <2> QED BY <1>2, <1>4, <2>1, <2>2, CompleteStays DEF BookInv, OrderInv
<1>6. HeadCovered'
  <2> SUFFICES ASSUME pc' = "read", lastUpdateId' > 0, enabled', NEW r \in ComingRows',
                      NEW l \in Levels, r = Coming'[1],
                      r.first - 1 <= lastUpdateId', lastUpdateId' < r.last,
                      ledger'[r.last][l] # ledger'[lastUpdateId'][l]
               PROVE  l \in ToCome(r.last)' \cup missed'
    BY DEF HeadCovered
  <2>1. r \in ComingRows /\ r \in RowSet /\ RowTrue(r) /\ r.last \in Nat
    BY <1>4, ComingTrue DEF BookInv, RowSet
  <2>2. r.last \in 1 .. Now /\ lastUpdateId \in 1 .. Now
    BY <1>1, <2>1 DEF RowTrue
  <2>3. l \in ToCome(r.last) \cup missed
    BY <2>1, <2>2 DEF BookInv, HeadCovered
  <2> QED BY <1>4, <2>3
<1>7. AsSent'
  <2> SUFFICES ASSUME pc' = "read", NEW id \in DOMAIN ledger', NEW l \in Levels,
                      NEW q \in Quantities,
                      lastUpdateId' = id, l \notin missed', ledger'[id][l] = q
               PROVE  Shows(l, q)' \/ InPart(l, id)'
    BY DEF AsSent
  <2>1. id \in 1 .. Now /\ id \in DOMAIN ledger
    <3>1. DOMAIN ledger' = 1 .. Now' /\ DOMAIN ledger = 1 .. Now
      BY LenProperties DEF BookInv, OrderInv, Types, Now
    <3> QED BY <1>1, <3>1, LenProperties DEF BookInv, OrderInv, Types, Now
  <2>2. Shows(l, q) \/ InPart(l, id)
    BY <2>1 DEF BookInv, AsSent
  <2>3. InPart(l, id) => InPart(l, id)'
    BY <1>4 DEF InPart
  <2> QED BY <1>3, <2>2, <2>3
<1> QED BY <1>3, <1>5, <1>6, <1>7 DEF BookInv

\* The rows of a new event include all that it changed.
LEMMA ContentPublish ==
  ASSUME BookInv, OrderInv', Publish
  PROVE  BookInv'
<1>1. /\ published' = Now /\ Now' = Now
      /\ UNCHANGED <<ledger, enabled, pc, row, lastUpdateId, partial, missed>> /\ UNCHANGED book
  BY DEF Publish, trader, Now
<1>2. /\ Types /\ Types' /\ OrderInv
      /\ Now \in Nat /\ published \in Nat /\ lastUpdateId \in Nat
  BY TypesOfRows DEF BookInv, OrderInv
<1>3. /\ Len(Coming) \in Nat /\ Len(Coming') \in Nat /\ Len(Coming) < Len(Coming')
      /\ \A i \in 1 .. Len(Coming) : i \in 1 .. Len(Coming') /\ Coming'[i] = Coming[i]
      /\ \A i \in 1 .. Len(Coming') : i > Len(Coming) =>
           Coming'[i].first = published + 1 /\ Coming'[i].last = Now
      /\ \A l \in Changed : \E i \in 1 .. Len(Coming') :
           i > Len(Coming) /\ Coming'[i].level = l
  BY <1>2, PublishedRows
<1>4. ToComeRows /\ ToComeRows'
  BY <1>2, ToComeMeaning
<1>5. \A l, last : l \in ToCome(last) => l \in ToCome(last)'
  <2> SUFFICES ASSUME NEW l, NEW last, l \in ToCome(last) PROVE l \in ToCome(last)'
    OBVIOUS
  <2>1. PICK i \in 1 .. Len(Coming) : Coming[i].last = last /\ Coming[i].level = l
    BY <1>4 DEF ToComeRows
  <2>2. i \in 1 .. Len(Coming') /\ Coming'[i] = Coming[i]
    BY <1>3
  <2> QED BY <1>4, <2>1, <2>2 DEF ToComeRows
<1>6. ASSUME NEW l \in Changed, NEW last, last = Now PROVE l \in ToCome(last)'
  <2>1. PICK i \in 1 .. Len(Coming') : Coming'[i].last = last /\ Coming'[i].level = l
    BY <1>3, <1>6
  <2> QED BY <1>4, <2>1 DEF ToComeRows
<1>7. ASSUME NEW r, r.first = published + 1, r.last = Now PROVE Complete(r)'
  <2> SUFFICES ASSUME NEW l \in Levels, NEW id \in r.first - 1 .. r.last - 1,
                      ledger'[r.last][l] # ledger'[id][l]
               PROVE  l \in ToCome(r.last)'
    BY DEF Complete
  <2>1. id \in published .. Now - 1
    BY <1>2, <1>7
  <2>2. l \in Changed
    BY <1>1, <1>2, <1>7, <2>1, DifferentIsChanged
  <2> QED BY <1>6, <1>7, <2>2
<1>8. \A id \in 1 .. published : ledger'[id] = ledger[id]
  BY <1>1
<1>9. ASSUME NEW r \in ComingRows, enabled, Complete(r) PROVE Complete(r)'
  <2>1. r \in RowSet /\ RowTrue(r)
    BY <1>2, <1>9, ComingTrue
  <2>2. \A l \in Levels : l \in ToCome(r.last) => l \in ToCome(r.last)'
    BY <1>5
  <2> QED BY <1>2, <1>8, <1>9, <2>1, <2>2, CompleteStays
<1>10. Coming # <<>> => Coming' # <<>> /\ Coming'[1] = Coming[1] /\ Coming[1] \in ComingRows
  BY <1>2, <1>3, TypesOfRows, EmptySeq DEF ComingRows
<1>11. SidesIn' /\ \A l, v : Shows(l, v) => Shows(l, v)'
  BY <1>1, SidesKept DEF BookInv
<1>12. Completes'
  <2> SUFFICES ASSUME enabled', NEW i \in 1 .. Len(Coming'), NEW r, r = Coming'[i],
                      r.last # Coming'[1].last \/ (pc' = "snapshot" /\ r.last # row'.last)
               PROVE  Complete(r)'
    BY DEF Completes, ComingRows
  <2>1. CASE i > Len(Coming)
    BY <1>3, <1>7, <2>1
  <2>2. CASE i \in 1 .. Len(Coming)
    <3>1. r = Coming[i] /\ r \in ComingRows /\ Coming # <<>>
      BY <1>3, <2>2, EmptySeq DEF ComingRows
    <3>2. Complete(r)
      BY <1>1, <1>10, <3>1 DEF BookInv, Completes
    <3> QED BY <1>1, <1>9, <3>1, <3>2
  <2> QED BY <1>3, <2>1, <2>2
<1>13. HeadCovered'
  <2> SUFFICES ASSUME pc' = "read", lastUpdateId' > 0, enabled', NEW r,
                      NEW l \in Levels, r = Coming'[1],
                      r.first - 1 <= lastUpdateId', lastUpdateId' < r.last,
                      ledger'[r.last][l] # ledger'[lastUpdateId'][l]
               PROVE  l \in ToCome(r.last)' \cup missed'
    BY DEF HeadCovered
  <2>1. CASE Coming = <<>>
    <3>1. 1 \in 1 .. Len(Coming') /\ 1 > Len(Coming)
      BY <1>3, <2>1, EmptySeq
    <3>2. r.first = published + 1 /\ r.last = Now
      BY <1>3, <3>1
    <3>3. Complete(r)'
      BY <1>7, <3>2
    <3>4. lastUpdateId \in r.first - 1 .. r.last - 1
      BY <1>1, <1>2, <3>2
    <3> QED BY <1>1, <3>3, <3>4 DEF Complete
  <2>2. CASE Coming # <<>>
    <3>1. r = Coming[1] /\ r \in ComingRows
      BY <1>10, <2>2
    <3>2. l \in ToCome(r.last) \cup missed
      BY <1>1, <3>1 DEF BookInv, HeadCovered
    <3> QED BY <1>1, <1>5, <3>2
  <2> QED BY <2>1, <2>2
<1>14. AsSent'
  <2> SUFFICES ASSUME pc' = "read", NEW id \in DOMAIN ledger', NEW l \in Levels,
                      NEW q \in Quantities,
                      lastUpdateId' = id, l \notin missed', ledger'[id][l] = q
               PROVE  Shows(l, q)' \/ InPart(l, id)'
    BY DEF AsSent
  <2>1. Shows(l, q) \/ InPart(l, id)
    BY <1>1 DEF BookInv, AsSent
  <2>2. InPart(l, id) => InPart(l, id)'
    BY <1>1, <1>5, <1>10 DEF InPart
  <2> QED BY <1>11, <2>1, <2>2
<1> QED BY <1>11, <1>12, <1>13, <1>14 DEF BookInv

\* The rest of the event of a row that is read is then first of what comes.
LEMMA RestComes ==
  ASSUME OrderInv, ReadRow, NEW r, r = Coming[1],
         NEW l, l \in ToCome(r.last), l # r.level
  PROVE  /\ r.hasMore /\ Coming' # <<>> /\ Coming'[1].last = r.last
         /\ l \in ToCome(r.last)'
<1>1. /\ Types /\ Types' /\ enabled
  BY OrderRead DEF OrderInv, ReadRow
<1>2. /\ Len(Coming) \in Nat /\ Len(Coming') = Len(Coming) - 1
      /\ \A i \in 1 .. Len(Coming') : Coming'[i] = Coming[i + 1]
      /\ \A i \in 1 .. Len(Coming) : Coming[i].last \in Nat
  BY <1>1, ReadTakesFirst, TypesOfRows
<1>3. PICK i \in 1 .. Len(Coming) : Coming[i].last = r.last /\ Coming[i].level = l
  BY <1>1, ToComeMeaning DEF ToComeRows
<1>4. i # 1
  BY <1>3
<1>5. /\ i - 1 \in 1 .. Len(Coming') /\ 1 \in 1 .. Len(Coming') /\ (i - 1) + 1 = i
      /\ 1 \in 1 .. Len(Coming) /\ 2 \in 1 .. Len(Coming) /\ 1 < i /\ 1 < 2
  BY <1>2, <1>3, <1>4
<1>6. r.hasMore
  BY <1>1, <1>3, <1>5 DEF OrderInv, Events
<1>7. l \in ToCome(r.last)'
  <2>1. Coming'[i - 1].last = r.last /\ Coming'[i - 1].level = l
    BY <1>2, <1>3, <1>5
  <2> QED BY <1>1, <1>5, <2>1, ToComeMeaning DEF ToComeRows
<1>8. Coming[2].last = r.last
  <2>1. r.last <= Coming[2].last
    BY <1>1, <1>5 DEF OrderInv, Events
  <2>2. i = 2 \/ 2 < i
    BY <1>3, <1>5
  <2>3. Coming[2].last <= Coming[i].last
    BY <1>1, <1>2, <1>3, <1>5, <2>2 DEF OrderInv, Events
  <2> QED BY <1>2, <1>3, <1>5, <2>1, <2>3
<1>9. Coming'[1] = Coming[2]
  BY <1>2, <1>5
<1>10. Coming' # <<>>
  BY <1>5, EmptySeq
<1> QED BY <1>6, <1>7, <1>8, <1>9, <1>10

\* The rows of other events that come are as before.
LEMMA OthersCome ==
  ASSUME OrderInv, ReadRow, NEW r, r = Coming[1], NEW last, last # r.last
  PROVE  \A l : l \in ToCome(last) => l \in ToCome(last)'
<1>1. /\ Types /\ Types'
  BY OrderRead DEF OrderInv
<1>2. /\ Len(Coming) \in Nat /\ Len(Coming') = Len(Coming) - 1
      /\ \A i \in 1 .. Len(Coming') : Coming'[i] = Coming[i + 1]
  BY <1>1, ReadTakesFirst, TypesOfRows
<1> SUFFICES ASSUME NEW l, l \in ToCome(last) PROVE l \in ToCome(last)'
  OBVIOUS
<1>3. PICK i \in 1 .. Len(Coming) : Coming[i].last = last /\ Coming[i].level = l
  BY <1>1, ToComeMeaning DEF ToComeRows
<1>4. i - 1 \in 1 .. Len(Coming') /\ (i - 1) + 1 = i
  BY <1>2, <1>3
<1>5. Coming'[i - 1].last = last /\ Coming'[i - 1].level = l
  BY <1>2, <1>3, <1>4
<1> QED BY <1>1, <1>4, <1>5, ToComeMeaning DEF ToComeRows

\* The row that is read is of the first event, and the other events are complete.
LEMMA OthersComplete ==
  ASSUME BookInv, ReadRow, NEW r, r = Coming[1]
  PROVE  /\ \A x \in ComingRows' : x \in ComingRows /\ (x.last # r.last => Complete(x)')
         /\ \A x \in ComingRows' : x.last = r.last => Coming'[1].last = r.last
<1>1. /\ OrderInv /\ Types /\ enabled /\ UNCHANGED <<ledger, published>>
  BY DEF BookInv, OrderInv, ReadRow, exchange
<1>2. /\ Len(Coming) \in Nat /\ Len(Coming') = Len(Coming) - 1
      /\ \A i \in 1 .. Len(Coming') : Coming'[i] = Coming[i + 1]
      /\ \A i \in 1 .. Len(Coming) : Coming[i].last \in Nat
  BY <1>1, ReadTakesFirst, TypesOfRows
<1>3. \A i \in 1 .. Len(Coming') : i + 1 \in 1 .. Len(Coming)
  BY <1>2
<1>4. ASSUME NEW x \in ComingRows' PROVE x \in ComingRows
  BY <1>2, <1>3 DEF ComingRows
<1>5. ASSUME NEW x \in ComingRows', x.last # r.last PROVE Complete(x)'
  <2>1. x \in ComingRows /\ x \in RowSet /\ RowTrue(x)
    BY <1>1, <1>4, ComingTrue
  <2>2. Complete(x)
    BY <1>1, <1>5, <2>1 DEF BookInv, Completes
  <2>3. \A l \in Levels : l \in ToCome(x.last) => l \in ToCome(x.last)'
    BY <1>1, <1>5, OthersCome
  <2>4. \A id \in 1 .. published : ledger'[id] = ledger[id]
    BY <1>1
  <2> QED BY <1>1, <2>1, <2>2, <2>3, <2>4, CompleteStays
<1>6. ASSUME NEW x \in ComingRows', x.last = r.last PROVE Coming'[1].last = r.last
  <2>1. PICK i \in 1 .. Len(Coming') : x = Coming'[i]
    BY DEF ComingRows
  <2>2. /\ i + 1 \in 1 .. Len(Coming) /\ 1 \in 1 .. Len(Coming) /\ 2 \in 1 .. Len(Coming)
        /\ 1 \in 1 .. Len(Coming') /\ 1 < 2 /\ (i + 1 = 2 \/ 2 < i + 1)
    BY <1>2, <2>1
  <2>3. r.last <= Coming[2].last /\ Coming[i + 1].last = r.last
    BY <1>1, <1>2, <1>6, <2>1, <2>2 DEF OrderInv, Events
  <2>4. Coming[2].last <= Coming[i + 1].last
    BY <1>1, <1>2, <2>2 DEF OrderInv, Events
  <2>5. Coming'[1] = Coming[2] /\ Coming[2].last \in Nat
    BY <1>2, <2>2
  <2>6. r.last \in Nat
    BY <1>2, <2>2
  <2> QED BY <2>3, <2>4, <2>5, <2>6
<1> QED BY <1>4, <1>5, <1>6

\* A row that is applied shows in the book; what its event changed besides comes
\* with the rest of it, unless it was missed.
LEMMA ContentRead ==
  ASSUME BookInv, OrderInv', ReadRow
  PROVE  BookInv'
<1>1. PICK r \in RowSet :
        /\ r = Coming[1]
        /\ pc = "read" /\ enabled /\ partial' = r.hasMore
        /\ UNCHANGED <<ledger, published, lastLost, outbox, enabled>> /\ Now' = Now
        /\ \/ /\ Gap(r)
              /\ pc' = "snapshot" /\ row' = r /\ UNCHANGED <<book, lastUpdateId, missed, stale>>
           \/ /\ ~Gap(r) /\ TooOld(r)
              /\ UNCHANGED <<pc, row, book, lastUpdateId, missed, stale>>
           \/ /\ ~Gap(r) /\ ~TooOld(r) /\ UNCHANGED <<pc, row>>
              /\ ApplyToBook(r) /\ missed' = missed \ {r.level} /\ stale' = FALSE
  BY ReadCases DEF BookInv, OrderInv
<1>2. /\ OrderInv /\ SidesIn
      /\ \A x \in ComingRows' : x \in ComingRows /\ (x.last # r.last => Complete(x)')
      /\ \A x \in ComingRows' : x.last = r.last => Coming'[1].last = r.last
  BY <1>1, OthersComplete DEF BookInv
<1>3. /\ Now \in Nat /\ published \in Nat /\ published <= Now
      /\ lastUpdateId \in Nat /\ lastUpdateId <= Now /\ DOMAIN ledger = 1 .. Now
  BY <1>2, TypesOfRows, LenProperties DEF OrderInv, Types, Now
<1>4. Coming # <<>> /\ r \in ComingRows
  BY <1>1, <1>2, ReadTakesFirst, TypesOfRows, ComingTrue DEF OrderInv
<1>5. RowTrue(r) /\ r.first \in Nat /\ r.last \in Nat /\ r.level \in Levels
  BY <1>1, <1>2, <1>4, ComingTrue DEF RowSet
<1>6. ASSUME NEW x \in ComingRows' PROVE x.first \in Nat /\ x.last \in Nat
  BY <1>2, <1>6, ComingTrue DEF RowSet
<1>7. SidesIn'
  <2>1. CASE UNCHANGED book
    BY <1>2, <2>1, SidesKept
  <2>2. CASE ApplyToBook(r)
    BY <1>2, <2>2, ApplyShows
  <2> QED BY <1>1, <2>1, <2>2
<1>8. Completes'
  <2> SUFFICES ASSUME NEW x \in ComingRows',
                      x.last # Coming'[1].last \/ (pc' = "snapshot" /\ x.last # row'.last)
               PROVE  Complete(x)'
    BY DEF Completes
  <2>1. pc' = "snapshot" => row' = r
    BY <1>1
  <2>2. x.last # r.last
    BY <1>2, <2>1
  <2> QED BY <1>2, <2>2
<1>9. HeadCovered'
  <2> SUFFICES ASSUME pc' = "read", NEW x \in ComingRows',
                      NEW l \in Levels,
                      x.first - 1 <= lastUpdateId', lastUpdateId' < x.last,
                      ledger'[x.last][l] # ledger'[lastUpdateId'][l]
               PROVE  l \in ToCome(x.last)' \cup missed'
    BY DEF HeadCovered
  <2>1. r.last <= lastUpdateId' /\ lastUpdateId' \in Nat
    BY <1>1, <1>3, <1>5 DEF ApplyToBook, TooOld
  <2>2. x.last # r.last
    BY <1>5, <1>6, <2>1
  <2>3. Complete(x)'
    BY <1>2, <2>2
  <2>4. lastUpdateId' \in x.first - 1 .. x.last - 1
    BY <1>6, <2>1
  <2> QED BY <2>3, <2>4 DEF Complete
<1>10. AsSent'
  <2> SUFFICES ASSUME pc' = "read", NEW id \in DOMAIN ledger', NEW l \in Levels,
                      NEW q \in Quantities,
                      lastUpdateId' = id, l \notin missed', ledger'[id][l] = q
               PROVE  Shows(l, q)' \/ InPart(l, id)'
    BY DEF AsSent
  <2>1. id \in DOMAIN ledger /\ ledger[id][l] = q
    BY <1>1
  <2>2. CASE TooOld(r) /\ UNCHANGED <<book, lastUpdateId, missed>>
    <3>1. r.last # id
      BY <1>3, <1>5, <2>2 DEF TooOld
    <3>2. ~InPart(l, id)
      BY <1>1, <3>1 DEF InPart
    <3>3. Shows(l, q)
      BY <1>1, <2>1, <2>2, <3>2 DEF BookInv, AsSent
    <3> QED BY <1>2, <2>2, <3>3, SidesKept
  <2>3. CASE ~Gap(r) /\ ~TooOld(r) /\ ApplyToBook(r) /\ missed' = missed \ {r.level}
    <3>1. /\ id = r.last
          /\ Shows(r.level, r.quantity)'
          /\ \A v : l # r.level /\ Shows(l, v) => Shows(l, v)'
      BY <1>2, <2>3, ApplyShows DEF ApplyToBook
    <3>2. CASE l = r.level
      BY <1>5, <2>1, <3>1, <3>2 DEF RowTrue
    <3>3. CASE l # r.level
      <4>1. l \notin missed
        BY <2>3, <3>3
      <4>2. r.first - 1 <= lastUpdateId /\ lastUpdateId <= r.last /\ lastUpdateId >= 1
        BY <1>3, <1>5, <2>3 DEF Gap, TooOld, RowTrue
      <4>3. lastUpdateId \in DOMAIN ledger /\ ledger[lastUpdateId][l] \in Quantities
        <5>1. lastUpdateId \in 1 .. Now
          BY <1>3, <4>2
        <5>2. ledger[lastUpdateId] \in Books
          BY <1>2, <5>1, TypesOfRows DEF OrderInv
        <5> QED BY <1>3, <5>1, <5>2 DEF Books
      <4>4. Shows(l, ledger[lastUpdateId][l]) \/ InPart(l, lastUpdateId)
        BY <1>1, <4>1, <4>3 DEF BookInv, AsSent
      <4>5. l \in ToCome(r.last) => InPart(l, id)'
        BY <1>1, <1>2, <3>1, <3>3, RestComes DEF InPart
      <4>6. CASE r.last = lastUpdateId
        BY <1>1, <2>1, <3>1, <3>3, <4>4, <4>5, <4>6 DEF InPart
      <4>7. CASE r.last # lastUpdateId
        <5>1. Shows(l, ledger[lastUpdateId][l])
          BY <1>1, <4>4, <4>7 DEF InPart
        <5>2. lastUpdateId < r.last /\ lastUpdateId > 0
          BY <1>3, <1>5, <4>2, <4>7
        <5>3. ledger[r.last][l] # ledger[lastUpdateId][l] => l \in ToCome(r.last) \cup missed
          BY <1>1, <1>4, <4>2, <5>2 DEF BookInv, HeadCovered
        <5> QED BY <2>1, <3>1, <3>3, <4>1, <4>5, <5>1, <5>3
      <4> QED BY <4>6, <4>7
    <3> QED BY <3>2, <3>3
  <2> QED BY <1>1, <2>2, <2>3
<1> QED BY <1>7, <1>8, <1>9, <1>10 DEF BookInv

\* A snapshot is the exchange's book after its change, and what is missed is noted.
LEMMA ContentSnapshot ==
  ASSUME BookInv, OrderInv', NEW id \in DOMAIN ledger, SnapshotArrives(id)
  PROVE  BookInv'
<1>1. /\ pc = "snapshot" /\ pc' = "read" /\ lastUpdateId' = id /\ LoadBook(ledger[id])
      /\ missed' = {l \in Levels \ ToCome(row.last) :
                      id \in row.first - 1 .. row.last - 1 /\ ledger[row.last][l] # ledger[id][l]}
      /\ UNCHANGED <<ledger, published, outbox, ring, enabled, partial>>
      /\ Coming' = Coming /\ Now' = Now
  BY DEF SnapshotArrives, exchange, channel, Coming, Now
<1>2. OrderInv /\ Types /\ SidesIn
  BY DEF BookInv, OrderInv
<1>3. /\ Now \in Nat /\ DOMAIN ledger = 1 .. Now /\ ledger[id] \in Books
      /\ \A i \in 1 .. Now : ledger[i] \in Books
      /\ row.first \in Nat /\ row.last \in Nat
  BY <1>1, <1>2, TypesOfRows, LenProperties DEF Types, Now, RowSet
<1>4. ComingRows' = ComingRows /\ \A l, last : l \in ToCome(last) => l \in ToCome(last)'
  BY <1>1 DEF ComingRows, ToCome
<1>5. SidesIn' /\ \A l \in Levels : Shows(l, ledger[id][l])'
  <2>1. PICK snapshot \in Books : snapshot = ledger[id]
    BY <1>3
  <2>2. SidesIn' /\ \A l \in Levels : Shows(l, snapshot[l])'
    BY <1>1, <1>2, <2>1, SnapshotShows
  <2> QED BY <1>1, <2>1, <2>2 DEF Shows
<1>6. Completes'
  <2> SUFFICES ASSUME enabled, NEW r \in ComingRows', r.last # Coming'[1].last
               PROVE  Complete(r)'
    BY <1>1 DEF Completes
  <2>1. r \in ComingRows /\ r \in RowSet /\ RowTrue(r)
    BY <1>2, <1>4, ComingTrue
  <2>2. Complete(r)
    BY <1>1, <2>1 DEF BookInv, Completes
  <2>3. /\ \A i \in 1 .. published : ledger'[i] = ledger[i]
        /\ \A l \in Levels : l \in ToCome(r.last) => l \in ToCome(r.last)'
    BY <1>1, <1>4
  <2> QED BY <1>2, <2>1, <2>2, <2>3, CompleteStays
<1>7. HeadCovered'
  <2> SUFFICES ASSUME enabled, NEW r \in ComingRows', NEW l \in Levels, r = Coming'[1],
                      r.first - 1 <= id, id < r.last, ledger[r.last][l] # ledger[id][l]
               PROVE  l \in ToCome(r.last)' \cup missed'
    BY <1>1 DEF HeadCovered
  <2>1. r \in ComingRows /\ r.first \in Nat /\ r.last \in Nat /\ r = Coming[1] /\ id \in Nat
    BY <1>1, <1>2, <1>3, <1>4, ComingTrue DEF RowSet
  <2>2. id \in r.first - 1 .. r.last - 1
    BY <2>1
  <2>3. CASE r.last # row.last
    <3>1. Complete(r)
      BY <1>1, <2>1, <2>3 DEF BookInv, Completes
    <3> QED BY <1>4, <2>2, <3>1 DEF Complete
  <2>4. CASE r.last = row.last
    <3>1. 1 \in 1 .. Len(Coming)
      BY <1>2, <2>1, TypesOfRows, EmptySeq DEF ComingRows
    <3>2. r.first = row.first
      BY <1>1, <1>2, <2>1, <2>4, <3>1 DEF OrderInv, Events
    <3>3. l \in ToCome(row.last) \/ l \in missed'
      BY <1>1, <2>2, <2>4, <3>2
    <3> QED BY <1>4, <2>4, <3>3
  <2> QED BY <2>3, <2>4
<1>8. AsSent'
  BY <1>1, <1>5 DEF AsSent
<1> QED BY <1>5, <1>6, <1>7, <1>8 DEF BookInv

\* A new trader has an empty book, and nothing of an event but its rest comes.
LEMMA ContentRestart ==
  ASSUME BookInv, OrderInv', Restart
  PROVE  BookInv'
<1>1. /\ UNCHANGED <<ledger, published, outbox>>
      /\ ring' = <<>> /\ enabled' = TRUE /\ pc' = "read" /\ lastUpdateId' = 0
      /\ bidPrice' = [i \in Bids!Slots |-> 0] /\ bidQuantity' = bidPrice' /\ bidCount' = 0
      /\ askPrice' = [i \in Asks!Slots |-> 0] /\ askQuantity' = askPrice' /\ askCount' = 0
  BY DEF Restart, exchange
<1>2. Coming' = outbox /\ \A i \in 1 .. Len(outbox) : outbox[i].last = published
  BY <1>1, ConcatEmptySeq DEF BookInv, OrderInv, OneEvent, Types, Coming
<1>3. SidesIn'
  <2>1. BidSide!Empty' /\ AskSide!Empty'
    BY <1>1 DEF BidSide!Empty, AskSide!Empty, Bids!Slots, Asks!Slots, BidSide!Slots, AskSide!Slots
  <2> QED BY <2>1, SideConstants, BidSide!EmptyShows, AskSide!EmptyShows DEF SidesIn
<1>4. Completes'
  <2>1. ASSUME NEW i \in 1 .. Len(Coming') PROVE Coming'[i].last = Coming'[1].last
    <3>1. Len(Coming') \in Nat
      BY <1>2, TypesOfRows DEF BookInv, OrderInv
    <3>2. 1 \in 1 .. Len(Coming')
      BY <3>1
    <3> QED BY <1>2, <3>2
  <2> QED BY <1>1, <2>1 DEF Completes, ComingRows
<1>5. HeadCovered'
  BY <1>1 DEF HeadCovered
<1>6. AsSent'
  <2>1. \A id \in DOMAIN ledger : id # 0
    BY LenProperties DEF BookInv, OrderInv, Types
  <2> QED BY <1>1, <2>1 DEF AsSent
<1> QED BY <1>3, <1>4, <1>5, <1>6 DEF BookInv

\* The book is empty at first.
LEMMA InitBook == Init => BookInv
<1> SUFFICES ASSUME Init PROVE BookInv
  OBVIOUS
<1>1. OrderInv
  BY InitOrder
<1>2. /\ ring = <<>> /\ outbox = <<>> /\ lastUpdateId = 0 /\ Bids!Empty /\ Asks!Empty
  BY DEF Init
<1>3. SidesIn
  <2>1. BidSide!Empty /\ AskSide!Empty
    BY <1>2 DEF BidSide!Empty, AskSide!Empty, Bids!Empty, Asks!Empty,
                Bids!Slots, Asks!Slots, BidSide!Slots, AskSide!Slots
  <2> QED BY <2>1, SideConstants, BidSide!EmptyShows, AskSide!EmptyShows DEF SidesIn
<1>4. ComingRows = {}
  <2>1. Coming = <<>>
    BY <1>2, ConcatEmptySeq, EmptySeq DEF Coming
  <2> QED BY <2>1, EmptySeq DEF ComingRows
<1>5. Completes /\ HeadCovered
  BY <1>4 DEF Completes, HeadCovered
<1>6. AsSent
  <2>1. \A id \in DOMAIN ledger : id # 0
    BY <1>1, LenProperties DEF OrderInv, Types
  <2> QED BY <1>2, <2>1 DEF AsSent
<1> QED BY <1>1, <1>3, <1>5, <1>6 DEF BookInv

\* No step disturbs what the book has.
LEMMA NextBook == BookInv /\ [Next]_vars => BookInv'
<1> SUFFICES ASSUME BookInv, [Next]_vars PROVE BookInv'
  OBVIOUS
<1>1. OrderInv' /\ Types
  BY NextOrder DEF BookInv, OrderInv
<1>2. ASSUME NEW l \in Levels, NEW q \in Quantities, Change(l, q) PROVE BookInv'
  <2>1. /\ UNCHANGED book /\ UNCHANGED <<lastUpdateId, partial, missed, enabled, pc, row>>
        /\ Coming' = Coming
    BY <1>2 DEF Change, channel, trader, Coming
  <2>2. \A id \in 1 .. Now : ledger'[id] = ledger[id]
    BY <1>1, <1>2, ChangeAppends
  <2> QED BY <1>1, <2>1, <2>2, ContentKept
<1>3. CASE Publish
  BY <1>1, <1>3, ContentPublish
<1>4. CASE Lose
  <2>1. /\ UNCHANGED book /\ UNCHANGED <<ledger, lastUpdateId, partial, missed, enabled, pc, row>>
        /\ Coming' = Coming
    BY <1>4 DEF Lose, channel, trader, Coming
  <2> QED BY <1>1, <2>1, ContentKept
<1>5. CASE WriteRow
  <2>1. UNCHANGED book /\ UNCHANGED <<ledger, lastUpdateId, partial, missed, pc, row>>
    BY <1>5 DEF WriteRow, exchange, trader
  <2>2. enabled' => enabled /\ Coming' = Coming
    BY <1>1, <1>5, WriteMovesRow, TypesOfRows DEF Types
  <2> QED BY <1>1, <2>1, <2>2, ContentKept
<1>6. CASE ReadRow
  BY <1>1, <1>6, ContentRead
<1>7. ASSUME NEW id \in DOMAIN ledger, SnapshotArrives(id) PROVE BookInv'
  BY <1>1, <1>7, ContentSnapshot
<1>8. CASE Exit
  <2>1. /\ UNCHANGED book /\ UNCHANGED <<ledger, lastUpdateId, partial, missed, enabled>>
        /\ Coming' = Coming /\ pc' = "down"
    BY <1>8 DEF Exit, exchange, channel, Coming
  <2> QED BY <1>1, <2>1, ContentKept
<1>9. CASE Restart
  BY <1>1, <1>9, ContentRestart
<1>10. CASE UNCHANGED vars
  <2>1. /\ UNCHANGED book /\ UNCHANGED <<ledger, lastUpdateId, partial, missed, enabled, pc, row>>
        /\ Coming' = Coming
    BY <1>10 DEF vars, exchange, channel, trader, Coming
  <2> QED BY <1>1, <2>1, ContentKept
<1> QED BY <1>2, <1>3, <1>4, <1>5, <1>6, <1>7, <1>8, <1>9, <1>10 DEF Next

\* Between two events.
LEMMA BetweenEvents ==
  ASSUME BookInv, Settled
  PROVE  \A l \in Levels \ missed : Shows(l, ledger[lastUpdateId][l])
<1>1. pc = "read" /\ ~partial /\ lastUpdateId \in DOMAIN ledger
  BY TypesOfRows, LenProperties DEF BookInv, OrderInv, Types, Settled, Now
<1>2. ledger[lastUpdateId] \in Books
  BY <1>1, ElementOfSeq, LenProperties DEF BookInv, OrderInv, Types
<1> SUFFICES ASSUME NEW l \in Levels \ missed PROVE Shows(l, ledger[lastUpdateId][l])
  OBVIOUS
<1>3. ledger[lastUpdateId][l] \in Quantities
  BY <1>2 DEF Books
<1>4. ~InPart(l, lastUpdateId)
  BY <1>1 DEF InPart
<1> QED BY <1>1, <1>3, <1>4 DEF BookInv, AsSent

\* However many events are lost, however old the snapshots and whenever the
\* trader restarts: between events the book is the exchange's after the last
\* change applied, but for levels that are known to be missed, and both sides
\* are sorted.
THEOREM SyncConsistentButForMissed == Spec => []ConsistentButForMissed
<1>1. BookInv => TypeOK
  <2> SUFFICES ASSUME BookInv PROVE TypeOK
    OBVIOUS
  <2>1. Types /\ SidesIn
    BY DEF BookInv, OrderInv
  <2>2. bidCount \in 0 .. Depth /\ BidSide!Sorted
    BY <2>1 DEF SidesIn, BidSide!SideOfPrices, BidSide!SideIn
  <2>3. askCount \in 0 .. Depth /\ AskSide!Sorted
    BY <2>1 DEF SidesIn, AskSide!SideOfPrices, AskSide!SideIn
  <2>4. Bids!Sorted
    BY <2>2 DEF BidSide!Sorted, Bids!Sorted, BidSide!Rows, Bids!Rows, BidSide!Before, Bids!Before
  <2>5. Asks!Sorted
    BY <2>3 DEF AskSide!Sorted, Asks!Sorted, AskSide!Rows, Asks!Rows, AskSide!Before, Asks!Before
  <2> QED BY <2>1, <2>2, <2>3, <2>4, <2>5 DEF Types, TypeOK
<1>2. BookInv => ConsistentButForMissed
  BY <1>1, BetweenEvents DEF ConsistentButForMissed
<1> QED BY <1>2, InitBook, NextBook, PTL DEF Spec

\* A book that has a slot for every price is exactly the exchange's, between
\* events and but for what is missed: last_update_id does maintain consistency
\* for a trader that missed nothing.
THEOREM SyncBookIsTheExchanges ==
  ASSUME Cardinality(Prices) <= Depth
  PROVE  Spec => [](missed = {} => BookConsistent)
<1>1. BookInv => (missed = {} => BookConsistent)
  <2> SUFFICES ASSUME BookInv, missed = {}, Settled, NEW l \in Levels
               PROVE  LocalBook(l) = ledger[lastUpdateId][l]
    BY DEF BookConsistent
  <2>1. Shows(l, ledger[lastUpdateId][l])
    BY BetweenEvents
  <2>2. Cardinality(Prices) \in Nat /\ Depth \in Nat
    BY SyncAssumption, FS_CardinalityType
  <2> QED BY <2>1, <2>2 DEF Shows
<1> QED BY <1>1, InitBook, NextBook, PTL DEF Spec

=============================================================================
