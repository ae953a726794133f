# Verification of the trading stack

TLA+ models of the processes of this repository and of what they share, the
TLC configurations that check them on small instances, and proofs, checked by
TLAPS, of what holds for every value of the constants.

Every module is translated from the code under `src/`; file and line of each
definition are in the `map` of `PROJECT.json`. Comments in a module that begin
with "Faulty:" mark the definitions that the mutants of `PROJECT.json` put in
the place of another one: each is a plausible bug, and shows that a property
would notice it.

## 1. The system

Five kinds of process communicate through POSIX shared memory only.

```
 Binance --websocket--> feeder --market data ring x2--> trader (one per symbol) --order ring--> executor
 Binance ----REST-------------------------------------->   |                                    |
                           |  log ring                     |  log ring         log ring, latency ring
                           +-------------------------------+------> observer <------------------+
```

systemd restarts every process whenever it ends (`Restart=always`, after 60
seconds for feeder and traders, 3 for executor and observer). There is no
other supervision, and nothing is persisted but the observer's files and the
segments themselves, which outlive their processes.

| Component | State | Operations | Hard behaviours | What makes it correct |
|---|---|---|---|---|
| `SpscRingBuffer` | `head_`, `tail_`, `is_active_consumer_`, `data_` in shared memory | `Write`, `Read`, `ResetConsumer` | every interleaving of two processes' accesses; unsynchronised copies; a full ring; crashes of one end; resets racing writes | order, nothing lost or torn while the consumer is enabled; a lagging consumer is disabled before it is overwritten |
| `SharedMemory` | a named segment: `Meta` (magic, version, heartbeat) and the rings | create, open with checks, unlink, `UpdateHeartbeat`, `IsProducerAlive` | opening during construction; segments of an earlier run or another build; a name that is unlinked while the segment stays mapped | no foreign layout, no half-built ring is used; consumers end up on their producer's segment |
| `TradeFlowWindow` | ring of 2048 entries, two running sums | `OnTrade` | eviction by age and by capacity, wrap-around, timestamps out of order | the sums are those of the entries, and the entries those of the window |
| `OrderBook_` / `OrderBookSide` | sorted arrays of 100 rows per side, `last_update_id_` | `Init`, `UpdateBid`, `UpdateAsk`, getters | inserts at both ends and into a full side | rows sorted and as told; what is missing was crowded out |
| `OrderBookProcessor` (trader) | the book, the ring it reads | `ProcessUpdate`, `ApplyUpdate`, `ResetSnapshot` | gaps, overlaps, old and late snapshots, overflow and restarts in the middle of an event | the book is the exchange's after change `last_update_id` |
| trader: main loop, `TradeProcessor`, `OrderProcessor`, `TimestampHandler` | window, book, the last order, largest timestamps | one turn: heartbeats, book, one trade, one order | a decision on half an event; old volumes in a quiet market; 64 bit products; the same order again; a wait or a REST request without a heartbeat | an order follows from a consistent book and a current window, and is not repeated |
| executor | ends of two order rings, a log ring and a latency ring | one turn: liveness of both traders, one order of each, a latency sample | one dead trader makes it exit; it never resets a disabled ring | orders of a live trader are executed, once, in order |
| observer | one thread per log ring and one for latency samples; files | an attempt: open, drain, reset when disabled, let go of dead producers | a `std::exit` in one thread ends all; lines between read and write; batches of 1000 across disabling and death | every line at most once and in order; percentiles of whole batches |
| feeder | log ring, market data rings of both symbols | connect, read, parse, write | blocks in `client.Read` without a heartbeat; logs through a ring that may be gone | every parsed message reaches the rings of its symbol, in order |
| Binance parser | SAX handlers, static and reused | `ParseEvent`, `ParseOrderBookSnapshot` | a parse broken off at any token; a side stopped at a level that fails; more levels than slots; decimal digits at the limit of 64 bits | what is called back is what this message says, exactly |
| `HotPathLogger` | the line under construction, a pointer to the log ring | `<<`, `Endl` | truncation at the end of the line; use before `Init` and after the segment is gone | lines are whole or cut, never mixed |
| Binance clients, `Logger`, configuration, deployment | connections, files, constants | I/O | the network | left out, see section 7 |

How the parts interact: the rings carry everything, by value. A consumer learns of
its producer only by `is_active_consumer_` and by the heartbeat in `Meta`.
Callbacks are synchronous and stay within a process (parser to feeder, snapshot
parser to book). The heartbeats form a chain: a trader exits when the feeder's
is old, the executor exits when either trader's is old, and the observer lets go
of each.

`hazards` in `PROJECT.json` lists what is hard to test, at its line, with the
properties that would notice, or with why there is none.

## 2. The modules

| Module | Models | Composed of |
|---|---|---|
| `LossyChannel` | the abstract specification of a ring: a bounded channel in order whose lagging consumer is disabled | |
| `SpscRingBuffer` | `spsc_ring_buffer.hpp` with the three ways its callers use it | implements `LossyChannel` |
| `SharedMemory` | `shared_memory.hpp` with the start of a producer and the loop of each kind of consumer | a ring as `LossyChannel` has it |
| `TradeFlowWindow` | `trade_flow_window.cpp` | |
| `OrderBookSide` | one side of `local_order_book.hpp` | |
| `LocalOrderBook` | a side against the levels it was told | extends `OrderBookSide` |
| `OrderBookSync` | `OrderBookProcessor` with exchange, feeder, ring and restarts | two instances of `OrderBookSide`, a ring as `LossyChannel` has it |
| `OrderProcessor` | the rule by which a trader orders, and what the documentation says of it | |
| `Trader` | the feeder's callbacks, the turn of `RunTrader`, the executor's read of an order | extends `OrderProcessor`; rings as `LossyChannel` has them for an enabled consumer |
| `Supervision` | heartbeats, exits and restarts of feeder, traders and executor, in ticks of time | segments by the age of their heartbeat |
| `Observer` | the threads of the observer, their rings and files, over runs of the producers | a ring as `LossyChannel` has it |
| `FixedDecimal` | `ParseFixedDecimalString` | |
| `DepthSaxHandler`, `TradeSaxHandler`, `SnapshotSaxHandler` | the handlers of `parser.cpp` | the reading of a decimal is a parameter |
| `BinanceParser` | `ParseEvent` with `CombinedSaxHandler`, and `ParseOrderBookSnapshot` | extends `FixedDecimal`; an instance of each handler |
| `SpscRingBufferProofs`, `SharedMemoryProofs`, `MarketDataProofs`, `OrderBookProofs`, `OrderBookSyncProofs`, `TraderProofs`, `SupervisionProofs`, `ObserverProofs` | the theorems | each extends its module; `MarketDataProofs` has those of `BinanceParser`, `FixedDecimal` and `TradeFlowWindow`, and `OrderBookSyncProofs` takes those of a side from `OrderBookProofs`, once for each side |
| `MC...` | give the constants values in their `.cfg` files | each extends its module |

### SpscRingBuffer

A step touches at most one word that the other process touches. `Write` is
`WriteCheck` (load `tail`), `WriteDisable`, `WriteLo`, `WriteHi` (the copy, two
words for an element of many) and `WritePublish` (store `head`); `Read` is
`ReadActive`, `ReadHead`, `ReadLo`, `ReadHi`, `ReadPublish`; `ResetConsumer` is
`ResetHead`, `ResetTail`, `ResetActive`. Each of them is one atomic access with
the local computation around it. An index that only its owner writes is loaded
with the owner's next step.

`caller` says whose ring it is. A trader resets at its start and exits when it is
disabled; an executor never resets and exits when it is disabled; an observer
resets when it is disabled. Each may crash at any step and is started again on
the same ring.

The atomics are interleaved, that is, taken as sequentially consistent. The code
uses acquire and release on the words that publish a slot, which gives the
order `WritePublish` and `ReadPublish` need. The copies in `Read` and `Write` are
plain: where they meet, C++ leaves the result undefined, and the model takes
the outcome a build on the target machine can produce, a mixture of two elements.

History variables number the elements: `published` and `consumed` count, `synced`
says that the consumer's position is less than a lap behind. `ResetActive` sets
it by whether the producer began a lap of writes between the load of `head` and
the store of `is_active_consumer_`: this is the assumption under which a reset is
sound. Without it the producer's disabling is overwritten, and a consumer that is a lap
behind goes on enabled; the properties are about `Trusted` consumers, those that
are enabled and `synced`. What this excuses is
in section 6.

### SharedMemory

The producer's start is one step per effect another process can see: unlink,
create, truncate, `Meta`, the ring's members, `is_active_consumer_`, heartbeat.
(`Meta`'s magic number and version are one step; nothing distinguishes a consumer
that sees the one without the other, since the version is only compared after
the magic number, and a wrong version would only make it exit and start again.)
The consumer opens, maps and checks the size, checks magic number and version,
and goes on as its `role` does. Segment 0 is what was left under the name by an
earlier run: nothing, or a segment of this build, of another version or of
another size, enabled or disabled, with an element nobody read.

`age` is the number of seconds since a segment's heartbeat, cut at the
threshold; `Tick` is a second. A jump of the system clock, which the code's
heartbeats follow, is not modelled. `Punctual` says that a running
producer's heartbeat does not reach the threshold; the producers that do not
honour it (a feeder blocked in `client.Read`, a trader in a REST request) are in
`Supervision`.

History variable `excused` has the segments of which an element may be passed over: those
whose consumer was disabled by a `Write`, and those that were read before their constructor had
stored `is_active_consumer_`. The latter is a race of an observer with the start of its
producer: it takes itself for disabled, and its reset passes over lines of a ring that did
not overflow. `SkippedExcused` says that there is no third case.

### TradeFlowWindow

`OnTrade` begins a call; `Evict` is one turn of the loop of `EvictOlderThan` and
`EvictDone` its end; `MakeRoom` and `Push` are the rest of the function. History
variables hold all trades and their cumulative volumes. Timestamps come in any order, and the
loop stops at the first entry that is recent: what is old behind it stays
(`KeptWereShielded` says that nothing else does).

### OrderBookSide, LocalOrderBook

A side is the array as the code has it: functions `price` and `quantity` on all
slots, of which the first `count` are rows, moved by `Inserted` and `Removed` as
`memmove` does. `std::lower_bound` is what the standard says it returns on sorted
rows; on unsorted rows `CHOOSE` would have no witness and TLC would stop.
`LocalOrderBook` keeps what the side was `told` of each level and which levels were
`crowded` out, that is, had `Depth` levels ahead of them at some time since. What that
costs is in section 6.

### OrderBookSync

`ledger` is the exchange's book after each of its numbered changes. An event
publishes the levels changed since the last one, each once, with its final
quantity and with the numbers of the first and last change of the event, in any
order with bids first, as `DepthHandler::Release` calls back. `Lose` is an event the
feeder cannot parse. `WriteRow` is the feeder's callback: the ring takes the row,
or is full and disables the trader, and what is written to a disabled trader
is of no consequence because the trader exits at its next read.

`ReadRow` is one turn of the loop of `ProcessUpdate` with `ApplyUpdate`; a request
for a snapshot is under way in `pc = "snapshot"` while everything else goes on, and
`SnapshotArrives(id)` brings the exchange's book after any change from `MaxStale`
changes before the request up to now. `Exit` and `Restart` may come at any point,
and the new trader's reset drops the rows in the ring, in the middle of an event
too. `missed` and `stale` record what a snapshot older than the row that asked
for it leaves out: `missed` the levels, and `stale` that the last snapshot was such a one and no row has been
applied since, so that it excuses the one request that follows and no other. Nothing bounds how
long a request takes: the ring may fill meanwhile and the trader be disabled, which is a restart. The reset is one step here; `SpscRingBuffer` takes it apart.
`Depth` is the number of prices, so nothing is crowded out: that is
`LocalOrderBook`'s question.

### OrderProcessor, Trader

`OrderProcessor` is a function of a book and two volumes. A side is a function from prices
to quantities, so its top rows are those of the best prices: that the array is sorted is
`LocalOrderBook`'s question. `Wanted` is `CreateOrder` up to the comparison with the last
order, with sums and products reduced by `Uint` as the type does; `Documented` is the rule as
README.md:16 states it, in exact numbers. `OrdersAsDocumented` compares the two where `Fits`
holds: where a product wraps around they differ, as `UintMax = 59` lets happen in the run.

`Trader` follows a message through three processes. `ReadMessage` and `Callback` are the
feeder, `ReadRow`, `ReadNoRow`, `ProcessTrade` and `CreateOrder` the parts of a turn of
`RunTrader`, `ReadOrder` the executor; the clock ticks between any two of them. Rings do not
overflow here: a disabled consumer makes the trader exit, and `Exit` may come in every turn.
`ApplyUpdate` may take any of its three branches (`OrderBookSync` says which it takes when). `news`
and `owed` are history: whether something was read since the last decision, and whether the last
row of an event was.

### Supervision

A process is a stage (`pc`), the trader whose segment it creates, opens or reads next (`at`), and, when
down, the ticks until systemd starts it (`wait`, from `RestartSec`). A segment is the age of its
heartbeat; `held` says what its consumer has mapped: nothing, the segment now under the name, or one that
has been unlinked. `Stall` and `Resume` are the calls that block on the exchange: the feeder's
connection and reads, the trader's REST request; waiting for a segment needs no action, it is that
`TraderOpen` or `ExecutorOpen` is not enabled. A tick passes when every process that is not held up has
had its turn (`late`), so a running process's heartbeat is at most one tick old. `Fail` is every exit
and crash that has its reason elsewhere. From `calm` on nothing fails and the exchange answers:
`ComesUp`, `UpInTime` and `ExecutorComesUp` are about what follows. `Overflow` is a trader that
fills its ring while the executor is away; the consumer of that ring is `disabled` until the trader is
started again.

Three things are taken from the deployment. Delays are not below the threshold (60 seconds against 5
in the units of feeder and traders): `DelayAssumption`. A process that exits is started by systemd
after its delay; a manual `systemctl restart` waits for nothing, and a consumer may then hold a segment that
looks alive for up to the threshold. After `build.sh -deploy`, what is left behind is taken to be old:
the script waits four seconds, copies the binaries and reloads systemd before it starts the first
unit, which is about, but nowhere compared with, the threshold of five.

### Observer

Each route has a ring per run of its producer, of which `written` and `tail` count the elements, and a
thread with the run it has `attached` and the `batch` it has in hand: one line, or up to `BatchSize` latency
samples. A call of `Read`, `ResetConsumer` or `Write` is one step. `ReadEmpty` leads to the look at
the heartbeat, which may find it young or old whatever the producer does: `ProducerAlive`,
`ProducerDead`. `Conflict` is the `std::exit` of one thread, which ends all of them; `Crash` does the
same at any point. `LookAtSize` and `WriteOut` are two steps because `Rotate` may come between them:
`csv` and `cut` record whether the latency file begins with a header. `out`, `dropped` and
`overflowed` are history: what is in the files, what was in hand and is gone, and what was in a ring when it
overflowed. A segment left from before is of this version, with one element, or of another; where it is of
this version, its run and the one TLC starts are two runs of the producer.

`Percentile` is `PercentileFromSorted`; nothing in the state machine depends on it, and the
theorems about it are in `ObserverProofs`.

### FixedDecimal, the handlers, BinanceParser

`ParseFixedDecimalString` is a pure operator: a fold of `Read`, one turn of its loop, over
the characters, then `Assemble`. Arithmetic is reduced by `Uint` as the type does.

A handler is one record, its members, and one action per callback of the JSON reader
that says what the members become and what is `accepted`. `BinanceParser` is the reader and
the wrapper: `Begin` is a call up to `Parse`, with the snapshot's check of the root (`RootIsObject`), `ReadToken` is one token with the callback it
causes, `SyntaxError` a token that is no JSON, `Release` the end of a message with
what is called back. The handler of the wrapper passes callbacks on to the
handler of depth events or trades. The handlers are static in the code, so their
members live on from one message to the next until they are reset.

A message has a `root`, an object of typed fields or a bare value; `Tokens` are its tokens. The reader sees to it that
objects and arrays nest, so the handlers' checks for an end without a beginning never
fire and are left out. Event times, and names of streams other than by what they end in, are
left out.

Which messages are considered is `ParserAssumption`: `Objects` and `Events` say what the exchange sends and how
it may be wrong, with fields of any key and any of the types in any order, and as many of them, of rows
and of texts as one likes. A key occurs once in an object; a row has no more strings than the two of a level and a
short one behind them; the stream's name and the data are not an empty object; and an event has no rows where a
trade has a string. Of other messages nothing is said. The handlers do not look at that: a row of four strings
would be two levels, the last of two fields with the same key counts.

The second half of the module says what messages mean without a reader: which levels of a
side are those before the first faulty row, which fields a trade needs, and what number a
text is. The properties compare the two.

## 3. The runs

| Run | Shows | Bounds |
|---|---|---|
| `ring` | `FifoWhileEnabled`, `UnreadIntact`, `NoConcurrentCopy`: order, nothing overwritten and no slot copied by both at once while the consumer is enabled; `IInv`; `IsLossyChannel`: the ring implements `LossyChannel`; `Delivered`, `Reenabled`: what is published is read, and a disabled consumer that resets is enabled again | 4 slots, 8 writes, 1 crash, all three callers |
| `ring_torn` (violation) | `Read` returns `kSuccess` with a mixture of two elements | 2 slots |
| `segment` | `NeverForeign`, `ReadsConstructed`: the checks and the heartbeat keep consumers from foreign and half-built rings; `SkippedExcused`: elements are skipped only for overflow, or where the ring was read before it was enabled; `OrphanLetGo`, `Reattached`: consumers leave replaced segments and end up on the producer's; `IInv` | threshold 2, room for 1 element, 2 segments after the one left behind, 1 crash, all roles |
| `flow` | `IInv`; `DroppedWereOld`: a trade leaves the window only by age or for room; `KeptWereShielded`: an old one stays only if a recent one came before it; `VolumesAreExact`: with timestamps in order, the volumes are those of the trades within the window | 3 entries, window 2, timestamps 1, 3, 4, five trades |
| `book` | `SortedAsTold`: rows sorted, unique and as last told; `MissingWereCrowdedOut` | 3 rows, 5 prices, 5 updates |
| `sync` | `ConsistentButForMissed`: between events the book is the exchange's after change `last_update_id`, but for levels that a too old snapshot made it miss; `CaughtUp`: with all rows read it is as recent as the last event; `SnapshotOnlyForGap`: reading on asks for a snapshot only for a new book, after a lost event, or once after each snapshot that was too old | 2 prices a side, 3 changes, a ring of 2 rows, snapshots of up to 1 change before the request, 1 lost event, 1 restart |
| `sync_inconsistent` (violation) | `BookConsistent` fails with a snapshot of one change ago | no loss, no restart |
| `parser` | `DepthAsSent`, `TradeAsSent`, `SnapshotAsSent`: whatever was parsed before and wherever that was broken off, a message that is whole is passed on exactly, and of any other nothing | 2 messages, the first one of 3, the second an object or a bare value; type limit 255, 1 and 2 decimal places, 2 levels a side, texts of up to 5 characters, sides of up to 3 rows of 8 kinds |
| `trader` | `PartsAddUp`: no stamp of an order is later than the next one's, though they come from two rings; `OnlyOnNews`: an idle trader writes no orders; `OrdersAsDocumented`; `EventsDecided`: every event that has been read whole is decided on before the next, and is left half read only while the feeder has yet to write the rest | 3 messages, each an event of one or two rows or a trade; 3 ticks, 3 prices, 1 level of depth, products up to 59 |
| `supervision` | `FormerRunsAreDead`: no segment of a former run is taken for alive; `ComesUp`: once nothing fails any more, everyone comes up and stays up, but for the executor while a ring of orders that overflowed is left; `UpInTime`: within one restart of each; `IInv`; that the system never stops | 2 traders, threshold 2, delays 3, 3 and 1 ticks |
| `supervision_stuck` (violation) | `ExecutorComesUp` fails: after a ring overflowed while the executor was away, it exits again and again | 1 trader |
| `observer` | `BatchesWhole`, `InOrderOnce`, `Accounted`: rows are of whole batches of one run, the files are in order and have nothing twice, and what was read or skipped is accounted for; `HeaderUnlessCut`; `LinesLostInCrash`: a line that was read is only lost with the process; `Drained`: again and again no line is left behind; `IInv` | a log route and the latency route, batches of 2, rings of 1, 2 lines and 4 samples, 1 run after the one left behind, of which one route's segment has an element nobody read and the other's is of another version, 1 crash |

Why the bounds are enough. Eight writes to four slots are two laps and a half
beyond the first overflow, so a consumer can be overtaken, reset and be overtaken
again. Capacity 1 makes a segment's ring overflow at the second write; two
creations give a segment left behind, one that is replaced and one that stays.
Five trades wrap three entries and evict by age, by room and by both; timestamps 1,
3, 4 give ages below, at and beyond the window, and going back give an old trade behind a recent one. Three rows of five prices have an
insert before, between, behind and off the end. Three changes give an event of two
rows followed or preceded by another, a gap, an overlap, and a restart between two
rows; two rows in the ring overflow within one event of three levels. The two
orders of a side differ in `Before` alone: `book` has bids, `sync` has asks too. The first message of `parser` leaves something in every member of the handlers
and may end at any of its tokens; nothing of it survives a reset but `row0_storage_`, so a
third message adds nothing. The texts include every one of three characters and those around
255 with a dot in each place; prices and quantities have different decimal places, which
the code's do not, so that the one is not taken for the other. Three messages to a trader give an
event before, between and after trades, an order, its repetition and another one; three ticks
tell every two neighbouring stamps apart in some behaviour. In `supervision` a delay is one
tick longer than the threshold, as little as makes a difference, and the executor's is shorter, so that it
comes back too early and exits again, as with 3 seconds against 5; with threshold 3 and delays 4, 5
and 2 the properties hold too. `Outage`, the bound of `UpInTime`, is tight: with one tick less it fails. A latency ring of one element and four samples give a whole batch, a partial one that a
reset, an exit or a crash cuts off; one that would mix runs takes two runs that are read, the one left
behind with a sample and the one after it. A second log route would run like the
first, the threads share nothing but the end of the process.

The passing runs but `supervision` have `CHECK_DEADLOCK FALSE` because every behaviour stops
at its bounds; `supervision` has no bound on its steps and is checked for deadlock.

## 4. Fairness

`SpscRingBuffer!FairSpec` has weak fairness for the consumer's steps and its restart,
taken together: every consumer polls in a loop that never blocks on its
ring, and systemd starts it again. Nothing is assumed of the producer.

`SharedMemory!FairSpec` has weak fairness for the consumer's steps, for the producer's
start, for its `UpdateHeartbeat`, and for time. It does not say that a producer that
has died is started again: `Reattached` is about behaviours in which it runs from some
point on. Crashes are not fair and are bounded.

`Supervision!Fairness` has weak fairness for the steps of each process, which the scheduler runs; for
time; and for the answers of the exchange once it is calm. Before that a call may block for
ever. Nothing makes it become calm: `ComesUp` is about behaviours in which it does.

`Observer!Fairness` has weak fairness for each thread and for the restart of the process; weak fairness for
the next run of a producer, which systemd starts; and strong fairness for `ProducerDead` of a
segment whose producer is gone: the thread looks at the heartbeat again and again, and at some time
it is old. Strong fairness, because a thread is between two looks in other steps.

## 5. What is proved

| Theorem | States |
|---|---|
| `SpscRingBufferProofs!TypeCorrect`, `Invariant` | `[]TypeOK`, `[]IInv` |
| `...!Fifo`, `NoOverflow`, `CopiesApart` | `[]FifoWhileEnabled`, `[]UnreadIntact`, `[]NoConcurrentCopy` |
| `...!Refinement` | `Spec => IsLossyChannel`: each step of the ring is a step of the channel or none |
| `SharedMemoryProofs!Invariant`, `OwnLayout`, `Constructed`, `Excused` | `[]IInv`, `[]NeverForeign`, `[]ReadsConstructed`, `[]SkippedExcused` |
| `MarketDataProofs!Invariant` | `[]IInv`, of which `WindowIsSuffix` is the part a reader wants |
| `...!TradesDroppedWereOld`, `TradesKeptWereShielded`, `TradesInWindow` | `[]DroppedWereOld`, `[]KeptWereShielded`; and with timestamps in order the window is exactly the trades that are recent and among the last that fit |
| `...!VolumesExact` | `[]VolumesAreExact`: with timestamps in order the running sums are the sums over the trades in the window |
| `...!DigitFits`, `DigitAppended`, `AssembleFits` | the parser's checks against overflow refuse exactly what does not fit, and what they let through does not wrap around |
| `...!SnapshotsExact` | `[]SnapshotAsSent`: of a message of any length, whatever was parsed before, `ParseOrderBookSnapshot` returns exactly the snapshot the message means, and nothing if it is cut off or has what no snapshot has |
| `...!TradesExact` | `[]TradeAsSent`: of an event of trades of any length, whatever was parsed before, `ParseEvent` passes on the trade of its own message if that is whole, and nothing otherwise |
| `...!DecimalExact` | for every text, `ParseFixedDecimalString` returns the number its digits make, scaled, if it is a decimal whose number fits the type, and refuses it otherwise |
| `OrderBookProofs!BookSortedAsTold`, `BookMissingWereCrowdedOut` | `[]SortedAsTold`, `[]MissingWereCrowdedOut` |
| `OrderBookSyncProofs!SyncConsistentButForMissed` | `[]ConsistentButForMissed` |
| `...!SyncBookIsTheExchanges` | with as many slots as there are prices, `[](missed = {} => BookConsistent)` |
| `...!SyncCaughtUp`, `SyncAsksOnlyForGap` | `[]CaughtUp`, and `SnapshotOnlyForGap`, about steps |
| `TraderProofs!HeavyIsSkewed`, `NeverBothHeavy` | a side is heavy exactly if it has more than 55% of both, and never both are, as long as no product wraps around |
| `TraderProofs!Invariant`, `SamplesAddUp` | `[]IInv`, `[]PartsAddUp` |
| `TraderProofs!OrdersOnlyOnNews`, `EveryEventDecided` | `OnlyOnNews`, `EventsDecided`, both about steps |
| `TraderProofs!OrdersDocumented` | `OrdersAsDocumented`, about steps: what a trader orders is what the documented rule has for its book and window, and what it leaves out is what it ordered last |
| `SupervisionProofs!Invariant`, `FormerRunsStayDead` | `[]IInv`, `[]FormerRunsAreDead` |
| `...!ComesUpInTime` | `[]UpInTime`, for a threshold of more than one tick |
| `ObserverProofs!Invariant`, `WholeBatches`, `NothingTwice`, `NothingUnaccounted` | `[]IInv`, `[]BatchesWhole`, `[]InOrderOnce`, `[]Accounted` |
| `ObserverProofs!HeaderFirst` | `[]HeaderUnlessCut` |
| `ObserverProofs!OnlyCrashesLose` | `LinesLostInCrash`, about steps |
| `ObserverProofs!PercentilesInOrder`, `NearestRank` | percentiles are elements of the batch in the order of their percentages, and for batches of whole hundreds, as 1000 is, of exactly that rank |

They hold for every length, number of writes, crashes, creations, threshold,
capacity, window, set of timestamps, prices and quantities, messages, number of traders, restart
delay and batch size, under the named assumptions of
the modules: lengths are positive integers, bounds are natural numbers, prices and quantities are
numbers of finitely many (they have 64 bits), and the books of a trader are what a book can be.
Indices are wrapped with `%`, which is what the code's mask does for the powers of
two it asserts.

`SpscRingBuffer!IInv`. What the properties say is not inductive: that unread elements
are in their slots follows from what the slots hold in general, and how far apart
the indices are. `LastLapIntact` speaks of the producer alone: the last
`BufferLength - 1` elements are in the slots behind `head`, whole. `LagIsDistance`
ties the distance of the indices to the numbers of the elements while the consumer
is enabled, and says that a write under way had room; this is where the check of
`tail` against a stale value is shown to be safe, since `tail` only moves away. `ReadIsNext`
says what a read under way has copied. `ResetIsRecent` says where `head` was when a
reset began. The lemmas `IncrementSlot`, `DistSlot` and `BackSlot` are the arithmetic
of the indices.

`SharedMemory!IInv`. `ReadsConstructed` follows from `HeartbeatLast`: a heartbeat within
the threshold is only ever that of a complete segment, because the first
`UpdateHeartbeat` comes after the constructors and a new segment's heartbeat is 0.
`UncreatedSilent` and `CreatedOnly` are needed for the step that creates a segment,
`ChecksPassed` says what a consumer's position in its start implies. For `SkippedExcused` it
takes `DisabledExcused`: a disabled consumer that is attached was disabled by a `Write`, or
came too early.

`TradeFlowWindow!IInv`. `WindowIsSuffix` says that the ring holds the last `size` trades and
that the sums are differences of the cumulative volumes; to be inductive it
needs where `tail` is, that `Push` has room, and the recurrence of the cumulative
volumes, from which it follows that the differences are never negative and the
unsigned sums never wrap below zero.

`Trader!IInv` is proved, and no run repeats it. `StampsInOrder` orders the stamps on every ring, in the hands of feeder and trader
and on the ring of orders, by the clock they share; with it the cases of `MonotonicDeltaNs` that return 0
are never taken and the parts of a sample telescope. It needs that `TimestampHandler` takes the
larger of both stamps: the larger `write` is not before the larger `read`, because each is so for
its own message. `Settled` says that without news there is nothing to order: what `CreateOrder` decides
is a function of book, window and last order, and when it returns it has either ordered that or found
nothing new. `EventsWhole` says that the rows of an event follow each other from the parser to the ring.

`Supervision!IInv`. `FormerRunsAreDead` is not inductive: that a segment is old when its successor is
created follows from `Replaceable`, that whoever is down has at least as long to wait as its segments
are short of the threshold, which is where `DelayAssumption` comes in, and that the feeder, which creates its
segments one after another, has the rest of them old.

`Observer!IInv` holds of each route by itself. `InHand` says that a batch is the last elements that were read of the
attached run and is full exactly when it is about to be written, `Behind` that the file has nothing of a later
run, nor of an element not before those in hand; from these follow `Whole`, `InOrder` and `Somewhere`.
`OverflowKnown` accounts for what a reset passes over.

`UpInTime` speaks of one tick only, so its invariant, `TimeInv` of `SupervisionProofs`, has all ticks before it. `Stages` and `Mapped` say
what belongs to a place in a start. `FeederSoon`, `TraderSoon` and `ExecutorSoon` give each
what it still waits and the ticks of calm together a limit: the feeder reads nobody, so it never exits in calm;
a trader exits at the latest a tick after the feeder is up, `FeederUp`, because by then what it has
mapped is either the present run's or dead for it (`FormerRunsAreDead`); the executor a tick after the traders are,
`TradersUp`. `ReadAlive` is for the executor that looks at one trader after another within a turn: those it has
looked at since the last tick it has not found dead. That a process waits for the exchange, for a segment or for
`RestartSec` when time passes is `IdleInCalm`. A heartbeat must be fresh for more than one
tick: with a threshold of one a producer that is one turn behind is taken for dead, and TLC finds
`UpInTime` violated. The code's five seconds are of a clock that counts seconds, and the loops
take a turn in much less.

`OrderBookProofs`. The binary search is a loop over the rows, modelled by what it finds; on sorted rows it
finds the row of a price or its place (`SortedAsTold` is inductive as it stands, but needs the set of
pairs a side has, `RowAt`, to say what an insertion that shifts rows does to it). `MissingWereCrowdedOut` takes a
cardinality: a full side has `Depth` different prices, so whatever falls off had that many ahead of it.
Sets of prices are finite because prices have 64 bits.

`OrderBookSyncProofs` has its invariant in two parts. `OrderInv` orders the rows: they come event by
event (`OneEvent`, `Events`), each has the quantity its level has after its event (`RowsTrue`), and from the exchange
to the trader no change lies between a row and the next but for a lost event (`Chain`, `ReadOn`). From it follow
`CaughtUp` and `SnapshotOnlyForGap`. `BookInv` adds the content: `Completes`, that the rows to come of an event are
all the levels it changed, `HeadCovered`, that an event the book is in the middle of, after a snapshot or a
restart between its rows, still brings each level the book lacks or has it among the missed ones, and `AsSent`, that
the book `Shows` every other level as the exchange had it at `last_update_id`. What a side shows after an update or a
load comes from `OrderBookProofs`, once for bids and once for asks. `Shows` leaves out
levels that a full side has no slot for; with a slot for every price it is equality, which is
`SyncBookIsTheExchanges`.

`TradeFlowWindow!DroppedWereOld` needs to know of every trade that has left that it left for its age or for room
at that time (`DropInv` of `MarketDataProofs`), and `KeptWereShielded` that the oldest entry, when a call ends, is recent
for that call's trade, or one that was has just made room (`ShieldInv`): the loop stops nowhere else. With timestamps in order it follows that the window is exactly
`InWindow`, and with `WindowIsSuffix` that the running sums are differences of the cumulative
volumes at both ends of `InWindow`.

Induction over numbers, finite sets and texts. `VolumesAreExact`, the quantities of a side in
`OrdersAsDocumented` and the value of a text are defined by recursion, through folds of the community
modules or a recursive function. The induction is done by hand each time: of the numbers, or the finite sets, that
a claim is false of, there is a least one (`Least`, `SmallestSet`, from the well-foundedness of `<` and of
inclusion), and it is not 0 or empty, since the claim holds there, nor has it a predecessor.

* `VolumesExact`: a sum over a set is some function `Additive` in its elements, whatever order the fold takes them in
  (`AdditiveExists`, `FoldIsSum`), so over a run of trades it is the difference of two cumulative volumes
  (`SumOfRun`), which is what the invariant has.
* `OrdersDocumented`: in the same way the sum over the first levels of a side is the one the rule names; the comparison
  of products is `HeavyIsSkewed`, and the rest is that the two branches of `CreateOrder` are the two cases of the rule.
* `DecimalExact`: the loop over a text is a run of locals, one per character (`FoldExists`, `FoldUnique`,
  `ReadingExists`). While the string is valid they are `Counted`: they hold the number of the digits read so far; once it
  is not, it stays so, and either what was read is no beginning of a decimal (`Seen`) or its number does
  not fit, nor does that of more digits (`ValueGrows`). `AssembledIsValue` adds the places that were not
  written. `DigitFits` and `AssembleFits` rest on one lemma, that a number is within a quotient exactly if
  its product is within the dividend, which is the form of each of the checks. What `Scaled` and `IsDecimal` say has no
  overflow, no fold and no locals.

`SnapshotsExact`. The invariant, `InvSnapshot`, says where in the message the reader is, by what is left to be read, and
what the handler knows there. There are six places (`InSnapshot`): before the object, between two fields, before a
value, in an array that nobody expects, between two rows and in a row. Each has a lemma that says what the next token is
and that the callback leads to one of the places, or refuses a message that is no snapshot (`Reached`). What is known after
some of the fields is `AfterFields`: the members are those of the fields read, and where none has come they are as
`Reset` left them, which is what keeps one message out of the next. In a side it is `AfterRows`, which is one of two: nothing
ended the side so far and it has the levels of the rows read (`Open`), or it has all it will have, because a row
spoiled it or the book is full (`Settled`). That `Levels` of more rows begins with those of fewer, `LevelsOfPrefix` and
`LevelsGrow`, is why the two agree at the end. `FlattenSeq`, by which `Tokens` are put together, is a recursive function
on the numbers; `JoinFirst` and `RestNext` take one part off its front. The price and the quantity of a level are those of
the text by `DecimalExact`.

`TradesExact` has an invariant of the same form, `InvTrades`, with one handler inside another. The wrapper has its places
(`InEvent`), and one of them, in the data, holds the places of the handler of trades (`InTrade`), whose tokens have the rest
of the wrapper behind them. What the wrapper knows is `EventAfter`: whether the stream has been named and the
data given, by which the handler of trades is either as the reset left it or done with a whole trade. `TradeAfter` says what
that one knows of the fields so far, and at the end of the data it is that they are a trade (`TradeIsWhole`); a field it
refuses is in no trade (`NoTradeRefused`). Objects in the wrapper and arrays in the data, which either handler lets pass, are
one place each: some of their tokens are left, and none of them changes what is known (`ReadsSome`). An array keeps the key
before it pending, and the strings of a side would be taken for its value; `DataObjects` has no such event, and
`Passed` is where the proof needs it.

Only model-checked:

* the liveness properties (`Delivered`, `Reenabled`, `OrphanLetGo`, `Reattached`, `ComesUp`, `Drained`), because
  the proof system has neither fairness nor `ENABLED`. Of `ComesUp` the bound `UpInTime` is proved;
* `DepthAsSent`, about the handler of depth events and about every wrapper that is none of a trade.

## 6. Where the code and its documentation part

| Run | Documentation | Code |
|---|---|---|
| `ring_torn` | README.md:27, the ring "Can disable or reset a lagging consumer to avoid overflow and corrupted reads" | `Read` checks `is_active_consumer_` before the copy only: a lap of writes during the copy lets a corrupted read through |
| `supervision_stuck` | README.md:17, the executor "Consumes orders from both traders" | it never calls `ResetConsumer`; once one of its rings has overflowed, it exits at its first read after every start until that trader is restarted, and the other trader's orders wait as well |
| `sync_inconsistent` | README.md:29, the book "Uses `last_update_id` to maintain consistency" | the row that asked for a snapshot is dropped even when the snapshot is older than it |

`supervision_stuck` needs a trader that writes 1024 orders while the executor is away, or the
executor to be a ring behind; `ring_torn` a consumer that is overtaken by a whole ring; `sync_inconsistent` a
snapshot from a replica that lags.

Some behaviours are stated by the properties as the code has them and are worth knowing.

* A level that cannot be parsed ends its side without a sign, and the event is released with its
  update numbers (`DepthAsSent`). The test `ParseDepthEvent_NegativeQuantity_SkipsLevel`
  (`tests/test_parser.cpp:434`) has one level only, so it does not tell skipping the level from skipping the
  rest of the side. The trader then takes the event for whole; `OrderBookSync` loses whole events only.
* A full side drops the level it has no row for. When one ahead of it is removed, the row is not filled again until
  the next update of that level or the next snapshot, and what the book exposes are then fewer levels than
  there are, or worse ones told later (`MissingWereCrowdedOut` excuses just these).
* `ResetConsumer` stores the `head` it loaded and then `is_active_consumer_`. After a lap of writes in between the
  consumer is enabled a lap behind, and the `false` of a `Write` that found the ring full is undone: elements it
  has not read are overwritten, and nothing tells it (`synced` in `SpscRingBuffer` excuses just this).
* An observer that comes before the ring's constructor has run skips lines (`excused` in `SharedMemory`).
* A trade that is older than the window is counted on while a recent one is ahead of it, which takes
  timestamps that go back (`KeptWereShielded`).
* A trader decides in the middle of an event when the ring is empty there (`EventsDecided`), and with
  volumes as of the last trade, however long ago: nothing but `OnTrade` evicts, so no property speaks of the
  window's age at the time of a decision.
* The partial latency batch is lost at every end of the executor and at every reset, a line of a log only
  with the observer (`LinesLostInCrash`, `Accounted`); an element read by a thread is lost when
  another thread meets a segment of another version.
* A feeder that waits for a quiet exchange for longer than the threshold makes its traders exit,
  they make the executor exit, and this repeats until a message comes (`ComesUp` is about what follows).

## 7. Not modelled

* Weak memory beyond the atomic accesses, jumps of the system clock, wrap-around
  of the 32 bit heartbeat and of 64 bit update numbers.
* `mlock` and `getrlimit`, the moves of `SharedMemory` handles, and the layout of
  objects in the segment: no step of the protocols depends on them.
* In the parser, fields that come twice in a message, `ParseDepthEvent` and
  `ParseTradeEvent` (called by tests only; the same handlers without a stream), and the
  conversion of event times to microseconds.
* Websocket, REST and TLS clients: their failures appear as lost events, exits and old
  snapshots.
* `Logger`, the names of segments, scripts, hardware tuning, and rotation of files other than the
  latency file.
* `HotPathLogger`: formatting of a line, cut at the end of its array, on its way to the ring of a process's own. Its
  pointer to the ring outlives the segment in the feeder's handler of exceptions (feeder.cpp:94),
  which then ends by a crash instead of a return; for every other process both are `Fail`.
* The split of the feeder's callbacks by symbol, and the third segment of feeder, trader and executor, for
  logs, in `Supervision`: the observer does not influence the others.
* Rings that overflow in `Trader`: a disabled consumer is an exit there.

## 8. Plan

Done: `SpscRingBuffer` with `LossyChannel`, `SharedMemory`, `TradeFlowWindow`, `FixedDecimal`, `OrderBookSide`,
`LocalOrderBook`, `OrderBookSync`, `Trader` with `OrderProcessor`, `Supervision`, `Observer`, each with proofs of
its safety properties; `BinanceParser` with its handlers, its decimals, snapshots and trades proved, its depth events
checked.

Left, in this order:

1. A proof of `DepthAsSent` in the form of `TradesExact`, with the places of wrappers that are refused.
2. That `Observer`, `OrderBookSync` and `Trader` see a ring only through `LossyChannel`, as a refinement.
3. `HotPathLogger`: that a line is cut, never mixed, and the life of its ring.
