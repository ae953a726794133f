----------------------------- MODULE Supervision -----------------------------
(***************************************************************************)
(* How the processes keep each other running: the feeder, the traders and  *)
(* the executor each create their segments, open those of the process they *)
(* read from, and exit when its heartbeat is old; systemd starts whoever   *)
(* has exited again after RestartSec.  A process does not heartbeat while  *)
(* it waits for the exchange, or for a segment to open.                    *)
(*                                                                         *)
(* Time is in ticks: in one tick every process that is not held up takes   *)
(* at least one turn of its loop.  Of a segment there is the age of its    *)
(* heartbeat, and whether its consumer was disabled; SharedMemory has the  *)
(* steps in which it is created and opened, LossyChannel its ring.  A      *)
(* trader resets the rings it opens, so to be disabled on one of those is  *)
(* just a failure.  The observer only follows: see Observer.               *)
(***************************************************************************)
EXTENDS Integers

CONSTANTS
  TraderCount,      \* kTraderIds.size()
  Threshold,        \* kLivenessThresholdSeconds, of traders and executor
  FeederDelay, TraderDelay, ExecutorDelay    \* RestartSec of the units

ASSUME SupervisionAssumption ==
  /\ TraderCount \in Nat \ {0} /\ Threshold \in Nat \ {0}
  /\ FeederDelay \in Nat /\ TraderDelay \in Nat /\ ExecutorDelay \in Nat

\* A segment an enabled consumer still holds is old before the next one is created.
ASSUME DelayAssumption == Threshold <= FeederDelay /\ Threshold <= TraderDelay

VARIABLES
  pc,         \* of each process: "down", or how far it is
  at,         \* of each process: the trader whose segment is next
  wait,       \* of each process that is down: ticks until systemd starts it
  stalled,    \* the processes that wait for the exchange
  late,       \* the processes that have not taken a turn since the last tick
  bound,      \* the names there is a segment under
  age,        \* of each name: ticks since its segment's heartbeat, at most Threshold
  held,       \* of each name: what its consumer has mapped
  oldAge,     \* the same age of a segment that is held but no longer named
  disabled,   \* the named segments whose consumer is disabled
  calm,       \* nothing fails from now on
  quiet       \* ticks since then, at most Outage

process == <<pc, at, wait, stalled, late>>
segment == <<bound, age, held, oldAge, disabled>>
vars    == <<process, segment, calm, quiet>>

Feeder    == 0
Traders   == 1 .. TraderCount
Executor  == TraderCount + 1
Processes == 0 .. TraderCount + 1

\* As long as it can take to come up: everyone is started once after the other, and
\* each exit was noticed up to a tick after its reason.
Outage == FeederDelay + TraderDelay + ExecutorDelay + 3

\* Every trader has a market data segment, which it reads, and one for its orders.
Names         == {"marketData", "order"} \X Traders
MarketData(t) == <<"marketData", t>>
Orders(t)     == <<"order", t>>
Producer(n)   == IF n[1] = "marketData" THEN Feeder ELSE n[2]
Consumer(n)   == IF n[1] = "marketData" THEN n[2] ELSE Executor

\* Faulty: the delay of the executor's unit everywhere.
RestartDelayShort(p) == ExecutorDelay

\* RestartSec
RestartDelay(p) ==
  IF p = Feeder THEN FeederDelay ELSE IF p = Executor THEN ExecutorDelay ELSE TraderDelay

\* After a boot there are no segments; after a deployment there are those of the
\* stopped processes, old by the time it takes to wait and to copy the binaries.
Init ==
  /\ pc = [p \in Processes |-> "down"] /\ at = [p \in Processes |-> 1]
  /\ wait = [p \in Processes |-> 0] /\ stalled = {} /\ late = {}
  /\ bound \in {{}, Names}
  /\ age = [n \in Names |-> Threshold] /\ oldAge = [n \in Names |-> Threshold]
  /\ held = [n \in Names |-> "nothing"]
  /\ disabled \in SUBSET {n \in bound : n[1] = "order"}
  /\ calm = FALSE /\ quiet = 0

-----------------------------------------------------------------------------
\* What the processes do with segments.

\* Faulty: without RemoveSharedMemory, no segment is created under a name in use.
CreateAbsent(n) ==
  /\ n \notin bound /\ bound' = bound \cup {n} /\ age' = [age EXCEPT ![n] = 0]
  /\ UNCHANGED <<held, oldAge, disabled>>

\* RemoveSharedMemory, a new segment and its first heartbeat.
Create(n) ==
  /\ bound' = bound \cup {n} /\ disabled' = disabled \ {n}
  /\ age' = [age EXCEPT ![n] = 0]
  /\ IF held[n] = "current"
     THEN held' = [held EXCEPT ![n] = "old"] /\ oldAge' = [oldAge EXCEPT ![n] = age[n]]
     ELSE UNCHANGED <<held, oldAge>>

\* The segment now under the name is mapped.
Open(n) ==
  /\ n \in bound /\ held' = [held EXCEPT ![n] = "current"]
  /\ UNCHANGED <<bound, age, oldAge, disabled>>

IsProducerAlive(n) == (IF held[n] = "old" THEN oldAge[n] ELSE age[n]) < Threshold

UpdateHeartbeat(ns) ==
  /\ age' = [n \in Names |-> IF n \in ns THEN 0 ELSE age[n]]
  /\ UNCHANGED <<bound, held, oldAge, disabled>>

\* The process is gone, with what it had mapped; systemd waits.
Exit(p) ==
  /\ pc' = [pc EXCEPT ![p] = "down"] /\ wait' = [wait EXCEPT ![p] = RestartDelay(p)]
  /\ at' = [at EXCEPT ![p] = 1] /\ stalled' = stalled \ {p} /\ late' = late \ {p}
  /\ held' = [n \in Names |-> IF Consumer(n) = p THEN "nothing" ELSE held[n]]
  /\ UNCHANGED <<bound, age, oldAge, disabled, calm, quiet>>

GoTo(p, stage) ==
  /\ pc' = [pc EXCEPT ![p] = stage]
  /\ UNCHANGED <<wait, stalled, late, calm, quiet>>

\* The end of a turn of the loop.
TookTurn(p) ==
  /\ late' = late \ {p} /\ UNCHANGED <<pc, wait, stalled, calm, quiet>>

NextTrader(p) == at' = [at EXCEPT ![p] = IF at[p] = TraderCount THEN 1 ELSE at[p] + 1]

-----------------------------------------------------------------------------
\* systemd starts a process that is down.
Started(p) == pc[p] = "down" /\ wait[p] = 0

\* RunFeeder creates a market data segment for every trader, then it connects.
FeederCreate ==
  /\ Started(Feeder) \/ pc[Feeder] = "create"
  /\ Create(MarketData(at[Feeder])) /\ NextTrader(Feeder)
  /\ GoTo(Feeder, IF at[Feeder] = TraderCount THEN "connect" ELSE "create")

FeederConnect ==
  /\ pc[Feeder] = "connect" /\ Feeder \notin stalled
  /\ GoTo(Feeder, "run") /\ UNCHANGED <<at, segment>>

\* Faulty: the heartbeat of the first trader's segment only.
FeederTurnFirst ==
  /\ pc[Feeder] = "run" /\ Feeder \notin stalled
  /\ UpdateHeartbeat({MarketData(1)})
  /\ TookTurn(Feeder) /\ UNCHANGED at

\* A turn ends with a message read.
FeederTurn ==
  /\ pc[Feeder] = "run" /\ Feeder \notin stalled
  /\ UpdateHeartbeat({MarketData(t) : t \in Traders})
  /\ TookTurn(Feeder) /\ UNCHANGED at

\* RunTrader creates its segment for orders ...
TraderCreate(t) ==
  /\ Started(t) /\ Create(Orders(t))
  /\ GoTo(t, "open") /\ UNCHANGED at

\* ... and waits until it can open the one for market data.
TraderOpen(t) ==
  /\ pc[t] = "open" /\ Open(MarketData(t))
  /\ GoTo(t, "run") /\ UNCHANGED at

TraderTurn(t) ==
  /\ pc[t] = "run" /\ t \notin stalled
  /\ \/ /\ IsProducerAlive(MarketData(t))
        /\ UpdateHeartbeat({Orders(t)})
        /\ TookTurn(t) /\ UNCHANGED at
     \/ ~IsProducerAlive(MarketData(t)) /\ Exit(t)

\* RunExecutor waits for the segments of the traders one after another.
ExecutorOpen ==
  /\ Started(Executor) \/ pc[Executor] = "open"
  /\ Open(Orders(at[Executor])) /\ NextTrader(Executor)
  /\ GoTo(Executor, IF at[Executor] = TraderCount THEN "run" ELSE "open")

\* The check of one trader and the read of its ring.
ExecutorRead ==
  LET n == Orders(at[Executor])
  IN  /\ pc[Executor] = "run"
      /\ \/ /\ IsProducerAlive(n) /\ ~(held[n] = "current" /\ n \in disabled)
            /\ NextTrader(Executor) /\ UNCHANGED segment
            /\ IF at[Executor] = TraderCount
               THEN TookTurn(Executor)
               ELSE UNCHANGED <<pc, wait, stalled, late, calm, quiet>>
         \/ /\ ~IsProducerAlive(n) \/ (held[n] = "current" /\ n \in disabled)
            /\ Exit(Executor)

Step(p) ==
  \/ p = Feeder /\ (FeederCreate \/ FeederConnect \/ FeederTurn)
  \/ p \in Traders /\ (TraderCreate(p) \/ TraderOpen(p) \/ TraderTurn(p))
  \/ p = Executor /\ (ExecutorOpen \/ ExecutorRead)

-----------------------------------------------------------------------------
\* What happens to the processes, until it is calm.

\* A crash, an exception, or a disabled consumer of market data.
Fail(p) ==
  /\ ~calm /\ pc[p] # "down" /\ Exit(p)

\* The exchange keeps the feeder waiting for a connection or a message, a trader for
\* a snapshot.
Stall(p) ==
  /\ ~calm /\ p \notin stalled
  /\ \/ p = Feeder /\ pc[p] \in {"connect", "run"}
     \/ p \in Traders /\ pc[p] = "run"
  /\ stalled' = stalled \cup {p}
  /\ UNCHANGED <<pc, at, wait, late, segment, calm, quiet>>

Resume(p) ==
  /\ p \in stalled /\ stalled' = stalled \ {p}
  /\ UNCHANGED <<pc, at, wait, late, segment, calm, quiet>>

\* A trader writes as many orders as its ring is long while the executor is away.
Overflow(t) ==
  /\ ~calm /\ pc[t] = "run" /\ t \notin stalled
  /\ held[Orders(t)] # "current" /\ Orders(t) \notin disabled
  /\ disabled' = disabled \cup {Orders(t)}
  /\ UNCHANGED <<process, bound, age, held, oldAge, calm, quiet>>

CalmDown == ~calm /\ calm' = TRUE /\ UNCHANGED <<process, segment, quiet>>

\* Nothing is left to do for the process before time passes.
Idle(p) ==
  \/ pc[p] = "down" /\ wait[p] > 0
  \/ p \in stalled /\ ~calm
  \/ p \in Traders /\ pc[p] = "open" /\ MarketData(p) \notin bound
  \/ p = Executor /\ (Started(p) \/ pc[p] = "open") /\ Orders(at[p]) \notin bound
  \/ pc[p] = "run" /\ p \notin stalled \cup late

Older(a) == IF a < Threshold THEN a + 1 ELSE Threshold

Tick ==
  /\ \A p \in Processes : Idle(p)
  /\ age' = [n \in Names |-> Older(age[n])] /\ oldAge' = [n \in Names |-> Older(oldAge[n])]
  /\ wait' = [p \in Processes |-> IF wait[p] = 0 THEN 0 ELSE wait[p] - 1]
  /\ late' = {p \in Processes : pc[p] = "run"}
  /\ quiet' = IF calm /\ quiet < Outage THEN quiet + 1 ELSE quiet
  /\ UNCHANGED <<pc, at, stalled, bound, held, disabled, calm>>

Next ==
  \/ \E p \in Processes : Step(p) \/ Fail(p) \/ Stall(p) \/ Resume(p)
  \/ \E t \in Traders : Overflow(t)
  \/ CalmDown \/ Tick

\* The scheduler runs every process, the exchange answers in calm, time passes.
Fairness ==
  /\ \A p \in Processes : WF_vars(Step(p)) /\ WF_vars(calm /\ Resume(p))
  /\ WF_vars(Tick)

Spec == Init /\ [][Next]_vars /\ Fairness

-----------------------------------------------------------------------------
(* Properties.                                                             *)

TypeOK ==
  /\ pc \in [Processes -> {"down", "create", "connect", "open", "run"}]
  /\ at \in [Processes -> Traders] /\ wait \in [Processes -> Nat]
  /\ stalled \subseteq Processes /\ late \subseteq Processes
  /\ bound \subseteq Names /\ disabled \subseteq Names
  /\ age \in [Names -> 0 .. Threshold] /\ oldAge \in [Names -> 0 .. Threshold]
  /\ held \in [Names -> {"nothing", "current", "old"}]
  /\ calm \in BOOLEAN /\ quiet \in Nat

Up(p) ==
  /\ pc[p] = "run"
  /\ \A n \in Names : Consumer(n) = p => held[n] = "current" /\ IsProducerAlive(n)

\* The executor is excused while one of the rings it reads has overflowed.
AllUp == \A p \in Processes : Up(p) \/ (p = Executor /\ disabled # {})

\* A segment of a former run is dead for whoever still holds it: no trader decides on
\* the market data, and the executor reads no order, of a run that has been replaced.
FormerRunsAreDead == \A n \in Names : held[n] = "old" => ~IsProducerAlive(n)

\* Who is down stays down until the segments it left are old, and the feeder creates
\* the next ones in their order.
Replaceable ==
  /\ \A n \in Names : pc[Producer(n)] = "down" => Threshold <= age[n] + wait[Producer(n)]
  /\ pc[Feeder] = "create" =>
       \A t \in Traders : at[Feeder] <= t => age[MarketData(t)] = Threshold

\* What makes that so, in the timing of the units and of the starts.
IInv == TypeOK /\ Replaceable /\ FormerRunsAreDead

\* Once nothing fails any more, everyone comes up, on the segments of the others'
\* present runs, and nobody exits again, the executor only if a ring that overflowed is
\* left: the exits of a feeder, traders and an executor that wait for the exchange, or
\* start too early, do not go on causing each other.
ComesUp == calm ~> []AllUp

\* ... in no more time than it takes systemd to start them once each, though a process
\* that is started too early opens what is left of the former run and exits again.
UpInTime == quiet = Outage => AllUp

\* The executor consumes the orders of all traders, sooner or later, whatever happened
\* before.  The code breaks it when a ring has overflowed: nothing enables its consumer.
ExecutorComesUp == calm ~> []Up(Executor)
=============================================================================
