-------------------------- MODULE TradeFlowWindow --------------------------
(***************************************************************************)
(* The window of recent trades of which the trader compares the aggressive *)
(* buy and sell volumes (lib/trade_flow_window.cpp): a ring of entries     *)
(* with running sums, from which OnTrade evicts what is older than the     *)
(* window and, when the ring is full, the oldest entry.                    *)
(*                                                                         *)
(* Timestamps are those of the exchange and come in any order: an entry is *)
(* only evicted from the head of the ring, so an old entry behind a recent *)
(* one stays.  The loop of EvictOlderThan is one step per entry.           *)
(***************************************************************************)
EXTENDS Integers, Functions

CONSTANTS
  Capacity,     \* kCapacity
  WindowUs,     \* window_us_
  Timestamps,   \* timestamps of trades
  Quantities,   \* quantities of trades
  MaxTrades     \* bound: trades in a behaviour

ASSUME WindowAssumption ==
  /\ Capacity \in Nat \ {0} /\ WindowUs \in Nat /\ MaxTrades \in Nat
  /\ Timestamps \subseteq Nat /\ Quantities \subseteq Nat

VARIABLES
  \* The members of the class.
  ring, head, tail, size, sumBuy, sumSell,
  \* Where OnTrade is, the entry it adds and what it evicts below.
  pc, entry, cutoff,
  \* History: the trades so far, and the volumes of the first n of them.
  count, trades, cumBuy, cumSell

window  == <<ring, head, tail, size, sumBuy, sumSell>>
call    == <<pc, entry, cutoff>>
history == <<count, trades, cumBuy, cumSell>>
vars    == <<window, call, history>>

Slots     == 0 .. Capacity - 1
Entries   == [ts : Nat, buy : Nat, sell : Nat]
NoEntry   == [ts |-> 0, buy |-> 0, sell |-> 0]
After(i)  == (i + 1) % Capacity
Cutoff(t) == IF t > WindowUs THEN t - WindowUs ELSE 0

Init ==
  /\ ring = [s \in Slots |-> NoEntry]
  /\ head = 0 /\ tail = 0 /\ size = 0 /\ sumBuy = 0 /\ sumSell = 0
  /\ pc = "idle" /\ entry = NoEntry /\ cutoff = 0
  /\ count = 0 /\ trades = [n \in 1 .. MaxTrades |-> NoEntry]
  /\ cumBuy = [n \in 0 .. MaxTrades |-> 0] /\ cumSell = [n \in 0 .. MaxTrades |-> 0]

\* OnTrade is called: a trade whose buyer is the maker is an aggressive sell.
OnTrade(ts, isBuyerMaker, quantity) ==
  /\ pc = "idle" /\ count < MaxTrades
  /\ cutoff' = Cutoff(ts)
  /\ entry' = [ts |-> ts, buy |-> IF isBuyerMaker THEN 0 ELSE quantity,
               sell |-> IF isBuyerMaker THEN quantity ELSE 0]
  /\ pc' = "evict"
  /\ UNCHANGED <<window, history>>

\* Faulty: the volume of sells is not reduced.
PopOldestBuyOnly ==
  /\ sumBuy' = sumBuy - ring[head].buy
  /\ head' = After(head) /\ size' = size - 1
  /\ UNCHANGED <<ring, tail, sumSell, entry, cutoff, history>>

PopOldest ==
  /\ sumBuy' = sumBuy - ring[head].buy
  /\ sumSell' = sumSell - ring[head].sell
  /\ head' = After(head) /\ size' = size - 1
  /\ UNCHANGED <<ring, tail, entry, cutoff, history>>

\* Faulty: an entry as old as the cutoff is evicted.
EvictEqual ==
  /\ pc = "evict" /\ size > 0 /\ ring[head].ts <= cutoff
  /\ PopOldest
  /\ UNCHANGED pc

\* Faulty: one entry is evicted at most.
EvictOnce ==
  /\ pc = "evict" /\ size > 0 /\ ring[head].ts < cutoff
  /\ PopOldest
  /\ pc' = "room"

\* One turn of the loop of EvictOlderThan.
Evict ==
  /\ pc = "evict" /\ size > 0 /\ ring[head].ts < cutoff
  /\ PopOldest
  /\ UNCHANGED pc

\* The loop of EvictOlderThan ends.
EvictDone ==
  /\ pc = "evict" /\ ~(size > 0 /\ ring[head].ts < cutoff)
  /\ pc' = "room"
  /\ UNCHANGED <<window, entry, cutoff, history>>

\* Faulty: a full ring is not noticed.
MakeNoRoom ==
  /\ pc = "room" /\ pc' = "push"
  /\ UNCHANGED <<window, entry, cutoff, history>>

\* A full ring loses its oldest entry.
MakeRoom ==
  /\ pc = "room" /\ pc' = "push"
  /\ \/ size = Capacity /\ PopOldest
     \/ size # Capacity /\ UNCHANGED <<window, entry, cutoff, history>>

Push ==
  /\ pc = "push" /\ pc' = "idle"
  /\ ring' = [ring EXCEPT ![tail] = entry]
  /\ tail' = After(tail) /\ size' = size + 1
  /\ sumBuy' = sumBuy + entry.buy /\ sumSell' = sumSell + entry.sell
  /\ count' = count + 1 /\ trades' = [trades EXCEPT ![count + 1] = entry]
  /\ cumBuy' = [cumBuy EXCEPT ![count + 1] = cumBuy[count] + entry.buy]
  /\ cumSell' = [cumSell EXCEPT ![count + 1] = cumSell[count] + entry.sell]
  /\ UNCHANGED <<head, entry, cutoff>>

Next ==
  \/ \E ts \in Timestamps, isBuyerMaker \in BOOLEAN, quantity \in Quantities :
       OnTrade(ts, isBuyerMaker, quantity)
  \/ Evict \/ EvictDone \/ MakeRoom \/ Push

Spec == Init /\ [][Next]_vars

-----------------------------------------------------------------------------
\* The values of the class's members are those their types and uses allow.
TypeOK ==
  /\ ring \in [Slots -> Entries] /\ head \in Slots /\ tail \in Slots
  /\ size \in 0 .. Capacity /\ sumBuy \in Nat /\ sumSell \in Nat
  /\ pc \in {"idle", "evict", "room", "push"}
  /\ entry \in Entries /\ cutoff \in Nat
  /\ count \in 0 .. MaxTrades /\ trades \in [1 .. MaxTrades -> Entries]
  /\ cumBuy \in [0 .. MaxTrades -> Nat] /\ cumSell \in [0 .. MaxTrades -> Nat]

\* The window holds the last `size' trades, oldest at head, and the volumes
\* AggressiveBuyVolume and AggressiveSellVolume return are the sums of theirs.
WindowIsSuffix ==
  /\ size <= count
  /\ \A i \in 0 .. size - 1 : ring[(head + i) % Capacity] = trades[count - size + 1 + i]
  /\ sumBuy = cumBuy[count] - cumBuy[count - size]
  /\ sumSell = cumSell[count] - cumSell[count - size]

\* A trade is only missing from the window because it was older than the
\* window of some later trade, or because Capacity later trades came.
DroppedWereOld ==
  pc = "idle" =>
    \A n \in 1 .. count - size :
      \/ count - n >= Capacity
      \/ \E m \in n + 1 .. count : trades[n].ts < Cutoff(trades[m].ts)

\* A trade older than the window is only still counted when timestamps went back:
\* before it came one that is not older, and is still in the window, or has just
\* left it to make room.
KeptWereShielded ==
  pc = "idle" =>
    \A n \in count - size + 1 .. count :
      \/ trades[n].ts >= Cutoff(trades[count].ts)
      \/ \E m \in 1 .. n - 1 :
           /\ trades[m].ts >= Cutoff(trades[count].ts)
           /\ m > count - size \/ (m = count - size /\ size = Capacity)

\* When timestamps never go back, the volumes are those of the trades that
\* are, at the last trade, within the window and among the last Capacity.
InWindow ==
  {n \in 1 .. count : n > count - Capacity /\ trades[n].ts >= Cutoff(trades[count].ts)}

BuyVolume(S)  == SumFunction([n \in S |-> trades[n].buy])
SellVolume(S) == SumFunction([n \in S |-> trades[n].sell])

VolumesAreExact ==
  pc = "idle" /\ count > 0 /\ (\A n \in 1 .. count - 1 : trades[n].ts <= trades[n + 1].ts) =>
    sumBuy = BuyVolume(InWindow) /\ sumSell = SellVolume(InWindow)

\* The inductive invariant of MarketDataProofs.
IInv ==
  /\ TypeOK /\ WindowIsSuffix
  /\ tail = (head + size) % Capacity
  /\ pc # "idle" => count < MaxTrades
  /\ pc = "push" => size < Capacity
  /\ \A n \in 1 .. count :
       /\ cumBuy[n] = cumBuy[n - 1] + trades[n].buy
       /\ cumSell[n] = cumSell[n - 1] + trades[n].sell
  /\ \A m, n \in 0 .. count :
       m <= n => cumBuy[m] <= cumBuy[n] /\ cumSell[m] <= cumSell[n]

=============================================================================
