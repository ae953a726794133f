--------------------------- MODULE LocalOrderBook ---------------------------
(***************************************************************************)
(* One side of the local order book against what it was told, by snapshots *)
(* and updates of levels in any order.  The side keeps Depth levels at     *)
(* most, so levels it was told can be missing from it; the history         *)
(* variables say which may be.                                             *)
(***************************************************************************)
EXTENDS OrderBookSide, FiniteSets

CONSTANTS
  Prices,      \* prices of levels
  Quantities,  \* quantities of levels, 0 for an update that removes one
  MaxUpdates   \* bound: updates in a behaviour

ASSUME BookAssumption ==
  /\ Prices \subseteq Nat \ {0} /\ IsFiniteSet(Prices)
  /\ Quantities \subseteq Nat /\ 0 \in Quantities
  /\ MaxUpdates \in Nat

VARIABLES
  told,     \* the quantity last told of each level, 0 for none
  crowded,  \* levels that, since they were told, had Depth levels ahead of them
  updates   \* updates so far

vars == <<side, told, crowded, updates>>

Levels        == {p \in Prices : told[p] # 0}
Ahead(p)      == {l \in Levels : Before(l, p)}
CrowdedOut    == {p \in Levels : Cardinality(Ahead(p)) >= Depth}

\* The sequence of a set of prices, best first.
BestFirst(S) ==
  [i \in 1 .. Cardinality(S) |-> CHOOSE p \in S : Cardinality({l \in S : Before(l, p)}) = i - 1]

Init ==
  /\ Empty /\ told = [p \in Prices |-> 0] /\ crowded = {} /\ updates = 0

\* A snapshot of all levels of an exchange.
OnSnapshot(levels) ==
  LET S == {p \in Prices : levels[p] # 0} IN
    /\ updates < MaxUpdates /\ updates' = updates + 1
    /\ Load(BestFirst(S), [i \in 1 .. Cardinality(S) |-> levels[BestFirst(S)[i]]],
            Cardinality(S))
    /\ told' = levels /\ crowded' = CrowdedOut'

OnUpdate(p, q) ==
  /\ updates < MaxUpdates /\ updates' = updates + 1
  /\ Update(p, q)
  /\ told' = [told EXCEPT ![p] = q]
  /\ crowded' = (crowded \ {p}) \cup CrowdedOut'

Next ==
  \/ \E levels \in [Prices -> Quantities] : OnSnapshot(levels)
  \/ \E p \in Prices, q \in Quantities : OnUpdate(p, q)

Spec == Init /\ [][Next]_vars

-----------------------------------------------------------------------------
TypeOK ==
  /\ price \in [Slots -> Prices \cup {0}] /\ quantity \in [Slots -> Quantities]
  /\ count \in 0 .. Depth
  /\ told \in [Prices -> Quantities] /\ crowded \subseteq Prices
  /\ updates \in 0 .. MaxUpdates

\* Every row has the quantity last told of its level: a removed level has no
\* row, and no row is of a level the exchange did not tell.
RowsAsTold ==
  \A i \in Rows : price[i] \in Levels /\ told[price[i]] = quantity[i]

\* The invariant that keeps the binary search of Update defined.
SortedAsTold == TypeOK /\ Sorted /\ RowsAsTold

\* A level the side was told is only missing when, at some time since, it had
\* Depth levels ahead of it.
MissingWereCrowdedOut == \A p \in Levels : HasRow(p) \/ p \in crowded

=============================================================================
