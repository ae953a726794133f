-------------------------- MODULE SupervisionProofs --------------------------
(***************************************************************************)
(* Proofs, for any number of traders, any threshold and any delays of the  *)
(* units that are not shorter.  What a consumer still holds of a former    *)
(* run is dead for it: the threshold is compared with the time systemd     *)
(* waits, so a process that is down has left only old segments when it is  *)
(* started again.  And once it is calm everyone is up when they all had    *)
(* the time to be started once, one after the other: the feeder exits no   *)
(* more, a trader at the latest a tick after the feeder is up, and the     *)
(* executor a tick after the traders are.                                  *)
(***************************************************************************)
EXTENDS Supervision, TLAPS

\* The names, and who is on either end.
LEMMA NamesFacts ==
  /\ \A t \in Traders : MarketData(t) \in Names /\ Orders(t) \in Names
  /\ \A t \in Traders : Producer(MarketData(t)) = Feeder /\ Producer(Orders(t)) = t
  /\ \A n \in Names : \E t \in Traders : n = MarketData(t) \/ n = Orders(t)
  /\ \A n \in Names : Producer(n) \in Processes /\ Consumer(n) \in Processes
  /\ \A t \in Traders : t \in Processes /\ t # Feeder /\ t # Executor
  /\ Feeder \in Processes /\ Executor \in Processes /\ Feeder # Executor /\ 1 \in Traders
  /\ \A s, t \in Traders : MarketData(s) # Orders(t) /\ (MarketData(s) = MarketData(t) => s = t)
                           /\ (Orders(s) = Orders(t) => s = t)
<1>1. TraderCount \in Nat \ {0}
  BY SupervisionAssumption DEF SupervisionAssumption
<1>2. /\ \A t \in Traders : t \in Processes /\ t # Feeder /\ t # Executor
      /\ Feeder \in Processes /\ Executor \in Processes /\ Feeder # Executor /\ 1 \in Traders
  BY <1>1 DEF Traders, Processes, Feeder, Executor
<1>3. \A t \in Traders : MarketData(t) \in Names /\ Orders(t) \in Names
  BY DEF MarketData, Orders, Names
<1>4. \A t \in Traders : Producer(MarketData(t)) = Feeder /\ Producer(Orders(t)) = t
  BY DEF MarketData, Orders, Producer
<1>5. \A n \in Names : \E t \in Traders : n = MarketData(t) \/ n = Orders(t)
  BY DEF MarketData, Orders, Names
<1>6. \A n \in Names : Producer(n) \in Processes /\ Consumer(n) \in Processes
  BY <1>2 DEF Producer, Consumer, Names
<1>7. \A s, t \in Traders : MarketData(s) # Orders(t) /\ (MarketData(s) = MarketData(t) => s = t)
                            /\ (Orders(s) = Orders(t) => s = t)
  BY DEF MarketData, Orders
<1> QED BY <1>2, <1>3, <1>4, <1>5, <1>6, <1>7

\* What a unit waits is as long as the threshold, but for the executor, which produces
\* nothing anybody here reads.
LEMMA Delays ==
  /\ \A p \in Processes : RestartDelay(p) \in Nat
  /\ \A n \in Names : Threshold <= RestartDelay(Producer(n))
  /\ Threshold \in Nat \ {0} /\ TraderCount \in Nat \ {0}
<1>1. /\ Threshold \in Nat \ {0} /\ TraderCount \in Nat \ {0}
      /\ FeederDelay \in Nat /\ TraderDelay \in Nat /\ ExecutorDelay \in Nat
  BY SupervisionAssumption DEF SupervisionAssumption
<1>2. \A p \in Processes : RestartDelay(p) \in Nat
  BY <1>1 DEF RestartDelay
<1>3. Threshold <= FeederDelay /\ Threshold <= TraderDelay
  BY DelayAssumption DEF DelayAssumption
<1>4. \A n \in Names : Producer(n) = Feeder \/ Producer(n) \in Traders
  BY NamesFacts
<1>5. \A t \in Traders : t # Feeder /\ t # Executor
  BY NamesFacts
<1>6. \A n \in Names : Threshold <= RestartDelay(Producer(n))
  BY <1>3, <1>4, <1>5 DEF RestartDelay
<1> QED BY <1>1, <1>2, <1>6

\* Before anything is started, what there is under the names is old.
LEMMA InitIInv == Init => IInv
<1> SUFFICES ASSUME Init PROVE IInv
  OBVIOUS
<1>1. Threshold \in Nat \ {0} /\ 1 \in Traders
  BY Delays, NamesFacts
<1>2. TypeOK
  <2>1. pc \in [Processes -> {"down", "create", "connect", "open", "run"}]
    BY DEF Init
  <2>2. at \in [Processes -> Traders] /\ wait \in [Processes -> Nat]
    BY <1>1 DEF Init
  <2>3. stalled \subseteq Processes /\ late \subseteq Processes
    BY DEF Init
  <2>4. bound \subseteq Names /\ disabled \subseteq Names
    BY DEF Init
  <2>5. age \in [Names -> 0 .. Threshold] /\ oldAge \in [Names -> 0 .. Threshold]
    BY <1>1 DEF Init
  <2>6. held \in [Names -> {"nothing", "current", "old"}]
    BY DEF Init
  <2>7. calm \in BOOLEAN /\ quiet \in Nat
    BY DEF Init
  <2> QED BY <2>1, <2>2, <2>3, <2>4, <2>5, <2>6, <2>7, Zenon DEF TypeOK
<1>3. Replaceable
  BY <1>1, NamesFacts DEF Init, Replaceable
<1>4. FormerRunsAreDead
  BY DEF Init, FormerRunsAreDead
<1> QED BY <1>2, <1>3, <1>4 DEF IInv

-----------------------------------------------------------------------------
(* What the parts of an action do to the invariant.                        *)

\* A process that exits leaves segments that are old before it is back.
LEMMA ExitKeeps == ASSUME IInv, NEW p \in Processes, Exit(p) PROVE IInv'
<1>1. TypeOK'
  <2>1. wait' \in [Processes -> Nat]
    BY Delays DEF IInv, TypeOK, Exit
  <2>2. at' \in [Processes -> Traders]
    BY NamesFacts DEF IInv, TypeOK, Exit
  <2>3. held' \in [Names -> {"nothing", "current", "old"}]
    BY DEF IInv, TypeOK, Exit
  <2>4. pc' \in [Processes -> {"down", "create", "connect", "open", "run"}]
    BY DEF IInv, TypeOK, Exit
  <2> QED BY <2>1, <2>2, <2>3, <2>4 DEF IInv, TypeOK, Exit
<1>2. Replaceable'
  <2>1. ASSUME NEW n \in Names, pc'[Producer(n)] = "down"
        PROVE  Threshold <= age'[n] + wait'[Producer(n)]
    <3>1. age'[n] = age[n] /\ age[n] \in Nat
      BY Delays DEF IInv, TypeOK, Exit
    <3>2. CASE Producer(n) = p
      <4>1. wait'[p] = RestartDelay(p)
        BY DEF IInv, TypeOK, Exit
      <4>2. Threshold <= RestartDelay(p) /\ RestartDelay(p) \in Nat /\ Threshold \in Nat
        BY <3>2, Delays
      <4> QED BY <3>1, <3>2, <4>1, <4>2
    <3>3. CASE Producer(n) # p
      <4>1. wait'[Producer(n)] = wait[Producer(n)] /\ pc[Producer(n)] = "down"
        BY <2>1, <3>3, NamesFacts DEF IInv, TypeOK, Exit
      <4> QED BY <3>1, <4>1 DEF IInv, Replaceable
    <3> QED BY <3>2, <3>3
  <2>2. ASSUME pc'[Feeder] = "create", NEW t \in Traders, at'[Feeder] <= t
        PROVE  age'[MarketData(t)] = Threshold
    <3>1. p # Feeder
      BY <2>2, NamesFacts DEF IInv, TypeOK, Exit
    <3>2. pc[Feeder] = "create" /\ at'[Feeder] = at[Feeder] /\ age' = age
      BY <2>2, <3>1, NamesFacts DEF IInv, TypeOK, Exit
    <3> QED BY <2>2, <3>2 DEF IInv, Replaceable
  <2> QED BY <2>1, <2>2 DEF Replaceable
<1>3. FormerRunsAreDead'
  <2>1. ASSUME NEW n \in Names, held'[n] = "old" PROVE ~IsProducerAlive(n)'
    <3>1. held[n] = "old" /\ oldAge' = oldAge
      BY <2>1 DEF Exit
    <3> QED BY <2>1, <3>1 DEF IInv, FormerRunsAreDead, IsProducerAlive
  <2> QED BY <2>1 DEF FormerRunsAreDead
<1> QED BY <1>1, <1>2, <1>3 DEF IInv

\* A segment is replaced when it is old.
LEMMA CreateKeeps ==
  ASSUME IInv, NEW n \in Names, age[n] = Threshold, Create(n)
  PROVE  /\ FormerRunsAreDead' /\ bound' \subseteq Names /\ disabled' \subseteq Names
         /\ age' \in [Names -> 0 .. Threshold] /\ oldAge' \in [Names -> 0 .. Threshold]
         /\ held' \in [Names -> {"nothing", "current", "old"}]
         /\ \A m \in Names : m # n => age'[m] = age[m]
<1>1. /\ age \in [Names -> 0 .. Threshold] /\ oldAge \in [Names -> 0 .. Threshold]
      /\ held \in [Names -> {"nothing", "current", "old"}]
      /\ bound \subseteq Names /\ disabled \subseteq Names /\ Threshold \in Nat
  BY Delays DEF IInv, TypeOK
<1>2. /\ age' = [age EXCEPT ![n] = 0] /\ bound' = bound \cup {n} /\ disabled' = disabled \ {n}
  BY DEF Create
<1>3. /\ oldAge' \in [Names -> 0 .. Threshold]
      /\ held' \in [Names -> {"nothing", "current", "old"}]
  BY <1>1 DEF Create
<1>4. ASSUME NEW m \in Names, held'[m] = "old" PROVE ~(oldAge'[m] < Threshold)
  <2>1. CASE held[m] = "old" /\ oldAge'[m] = oldAge[m]
    BY <2>1 DEF IInv, FormerRunsAreDead, IsProducerAlive
  <2>2. CASE m = n /\ oldAge'[m] = Threshold
    BY <1>1, <2>2
  <2>3. \/ held[m] = "old" /\ oldAge'[m] = oldAge[m]
        \/ m = n /\ oldAge'[m] = Threshold
    BY <1>1, <1>4 DEF Create
  <2> QED BY <2>1, <2>2, <2>3
<1>5. FormerRunsAreDead'
  BY <1>4 DEF FormerRunsAreDead, IsProducerAlive
<1>6. age' \in [Names -> 0 .. Threshold] /\ \A m \in Names : m # n => age'[m] = age[m]
  BY <1>1, <1>2
<1>7. bound' \subseteq Names /\ disabled' \subseteq Names
  BY <1>1, <1>2
<1> QED BY <1>3, <1>5, <1>6, <1>7

\* What is opened is what the name stands for.
LEMMA OpenKeeps ==
  ASSUME IInv, NEW n \in Names, Open(n)
  PROVE  /\ FormerRunsAreDead' /\ UNCHANGED <<bound, age, oldAge, disabled>>
         /\ held' \in [Names -> {"nothing", "current", "old"}]
<1>1. held \in [Names -> {"nothing", "current", "old"}] /\ held' = [held EXCEPT ![n] = "current"]
  BY DEF IInv, TypeOK, Open
<1>2. UNCHANGED <<bound, age, oldAge, disabled>>
  BY DEF Open
<1>3. ASSUME NEW m \in Names, held'[m] = "old" PROVE held[m] = "old"
  BY <1>1, <1>3
<1>4. FormerRunsAreDead'
  BY <1>2, <1>3 DEF IInv, FormerRunsAreDead, IsProducerAlive
<1> QED BY <1>1, <1>2, <1>4

\* The heartbeat of a process that runs.
LEMMA HeartbeatKeeps ==
  ASSUME IInv, NEW p \in Processes, pc[p] = "run", NEW ns \in SUBSET Names,
         \A n \in ns : Producer(n) = p,
         UpdateHeartbeat(ns), TookTurn(p), UNCHANGED at
  PROVE  IInv'
<1>1. /\ UNCHANGED <<pc, at, wait, stalled, calm, quiet, bound, held, oldAge, disabled>>
      /\ late' = late \ {p} /\ age' = [n \in Names |-> IF n \in ns THEN 0 ELSE age[n]]
  BY DEF UpdateHeartbeat, TookTurn
<1>2. TypeOK'
  <2>1. age' \in [Names -> 0 .. Threshold]
    BY <1>1, Delays DEF IInv, TypeOK
  <2> QED BY <1>1, <2>1 DEF IInv, TypeOK
<1>3. \A n \in Names : pc[Producer(n)] # "run" => age'[n] = age[n]
  BY <1>1
<1>4. Replaceable'
  <2>1. ASSUME NEW n \in Names, pc'[Producer(n)] = "down"
        PROVE  Threshold <= age'[n] + wait'[Producer(n)]
    BY <1>1, <1>3, <2>1 DEF IInv, Replaceable
  <2>2. ASSUME pc'[Feeder] = "create", NEW t \in Traders, at'[Feeder] <= t
        PROVE  age'[MarketData(t)] = Threshold
    <3>1. Producer(MarketData(t)) = Feeder /\ MarketData(t) \in Names
      BY NamesFacts
    <3> QED BY <1>1, <1>3, <2>2, <3>1 DEF IInv, Replaceable
  <2> QED BY <2>1, <2>2 DEF Replaceable
<1>5. FormerRunsAreDead'
  BY <1>1 DEF IInv, FormerRunsAreDead, IsProducerAlive
<1> QED BY <1>2, <1>4, <1>5 DEF IInv

\* The next trader's turn.
LEMMA NextTraderType ==
  ASSUME at \in [Processes -> Traders], NEW p \in Processes, NextTrader(p)
  PROVE  /\ at' \in [Processes -> Traders] /\ \A q \in Processes : q # p => at'[q] = at[q]
         /\ at[p] # TraderCount => at'[p] = at[p] + 1
<1>1. TraderCount \in Nat \ {0} /\ at[p] \in Traders
  BY Delays
<1>2. (IF at[p] = TraderCount THEN 1 ELSE at[p] + 1) \in Traders
  BY <1>1 DEF Traders
<1>3. at' = [at EXCEPT ![p] = IF at[p] = TraderCount THEN 1 ELSE at[p] + 1]
  BY DEF NextTrader
<1> QED BY <1>2, <1>3

-----------------------------------------------------------------------------
(* The steps.                                                              *)

\* The feeder replaces one segment after the other, the rest still being old.
LEMMA FeederCreateKeeps == ASSUME IInv, FeederCreate PROVE IInv'
<1> DEFINE t == at[Feeder]
           n == MarketData(t)
<1>1. /\ t \in Traders /\ Feeder \in Processes /\ TraderCount \in Nat \ {0}
      /\ Threshold \in Nat \ {0}
  BY NamesFacts, Delays DEF IInv, TypeOK
<1>2. n \in Names /\ Producer(n) = Feeder
  BY <1>1, NamesFacts
<1>3. age[n] = Threshold
  <2>1. age[n] \in 0 .. Threshold
    BY <1>2 DEF IInv, TypeOK
  <2>2. CASE Started(Feeder)
    <3>1. Threshold <= age[n] + 0
      BY <1>2, <2>2 DEF IInv, Replaceable, Started
    <3> QED BY <1>1, <2>1, <3>1
  <2>3. CASE pc[Feeder] = "create"
    <3>1. at[Feeder] <= t
      BY <1>1 DEF Traders
    <3> QED BY <1>1, <2>3, <3>1 DEF IInv, Replaceable
  <2> QED BY <2>2, <2>3 DEF FeederCreate
<1>4. /\ Create(n) /\ NextTrader(Feeder)
      /\ GoTo(Feeder, IF t = TraderCount THEN "connect" ELSE "create")
  BY DEF FeederCreate
<1>5. /\ FormerRunsAreDead' /\ bound' \subseteq Names /\ disabled' \subseteq Names
      /\ age' \in [Names -> 0 .. Threshold] /\ oldAge' \in [Names -> 0 .. Threshold]
      /\ held' \in [Names -> {"nothing", "current", "old"}]
      /\ \A m \in Names : m # n => age'[m] = age[m]
  BY <1>2, <1>3, <1>4, CreateKeeps
<1>6. /\ at' \in [Processes -> Traders]
      /\ t # TraderCount => at'[Feeder] = t + 1
  BY <1>1, <1>4, NextTraderType DEF IInv, TypeOK
<1>7. /\ pc' = [pc EXCEPT ![Feeder] = IF t = TraderCount THEN "connect" ELSE "create"]
      /\ UNCHANGED <<wait, stalled, late, calm, quiet>>
  BY <1>4 DEF GoTo
<1> HIDE DEF n, t
<1>8. TypeOK'
  <2>1. pc' \in [Processes -> {"down", "create", "connect", "open", "run"}]
    BY <1>7 DEF IInv, TypeOK
  <2> QED BY <1>5, <1>6, <1>7, <2>1 DEF IInv, TypeOK
<1>9. ASSUME NEW m \in Names, pc'[Producer(m)] = "down"
      PROVE  Threshold <= age'[m] + wait'[Producer(m)]
  <2>1. Producer(m) \in Processes /\ Producer(m) # Feeder
    BY <1>1, <1>7, <1>9, NamesFacts DEF IInv, TypeOK
  <2>2. pc[Producer(m)] = "down" /\ age'[m] = age[m]
    BY <1>2, <1>5, <1>7, <1>9, <2>1 DEF IInv, TypeOK
  <2> QED BY <1>7, <2>2 DEF IInv, Replaceable
<1>10. ASSUME pc'[Feeder] = "create", NEW s \in Traders, at'[Feeder] <= s
       PROVE  age'[MarketData(s)] = Threshold
  <2>1. t # TraderCount
    BY <1>1, <1>7, <1>10 DEF IInv, TypeOK
  <2>2. t + 1 <= s /\ t \in Nat /\ s \in Nat
    BY <1>1, <1>6, <1>10, <2>1 DEF Traders
  <2>3. s # t
    BY <2>2
  <2>4. MarketData(s) \in Names /\ MarketData(s) # n /\ Producer(MarketData(s)) = Feeder
    BY <1>1, <2>3, NamesFacts DEF n
  <2>5. age'[MarketData(s)] = age[MarketData(s)]
    BY <1>5, <2>4
  <2>6. age[MarketData(s)] = Threshold
    <3>1. age[MarketData(s)] \in 0 .. Threshold
      BY <2>4 DEF IInv, TypeOK
    <3>2. CASE Started(Feeder)
      <4>1. Threshold <= age[MarketData(s)] + 0
        BY <2>4, <3>2 DEF IInv, Replaceable, Started
      <4> QED BY <1>1, <3>1, <4>1
    <3>3. CASE pc[Feeder] = "create"
      <4>1. at[Feeder] <= s
        BY <2>2 DEF t
      <4> QED BY <3>3, <4>1 DEF IInv, Replaceable
    <3> QED BY <3>2, <3>3 DEF FeederCreate
  <2> QED BY <2>5, <2>6
<1> QED BY <1>5, <1>8, <1>9, <1>10 DEF IInv, Replaceable

\* A trader that starts replaces its old segment.
LEMMA TraderCreateKeeps == ASSUME IInv, NEW t \in Traders, TraderCreate(t) PROVE IInv'
<1> DEFINE n == Orders(t)
<1>1. /\ n \in Names /\ Producer(n) = t /\ t \in Processes /\ t # Feeder
      /\ Threshold \in Nat \ {0} /\ \A s \in Traders : MarketData(s) \in Names /\ MarketData(s) # n
  BY NamesFacts, Delays
<1>2. age[n] = Threshold
  <2>1. age[n] \in 0 .. Threshold /\ Threshold <= age[n] + 0
    BY <1>1 DEF IInv, TypeOK, Replaceable, TraderCreate, Started
  <2> QED BY <1>1, <2>1
<1>3. Create(n) /\ GoTo(t, "open") /\ UNCHANGED at
  BY DEF TraderCreate
<1>4. /\ FormerRunsAreDead' /\ bound' \subseteq Names /\ disabled' \subseteq Names
      /\ age' \in [Names -> 0 .. Threshold] /\ oldAge' \in [Names -> 0 .. Threshold]
      /\ held' \in [Names -> {"nothing", "current", "old"}]
      /\ \A m \in Names : m # n => age'[m] = age[m]
  BY <1>1, <1>2, <1>3, CreateKeeps
<1>5. pc' = [pc EXCEPT ![t] = "open"] /\ UNCHANGED <<at, wait, stalled, late, calm, quiet>>
  BY <1>3 DEF GoTo
<1> HIDE DEF n
<1>6. TypeOK'
  <2>1. pc' \in [Processes -> {"down", "create", "connect", "open", "run"}]
    BY <1>5 DEF IInv, TypeOK
  <2> QED BY <1>4, <1>5, <2>1 DEF IInv, TypeOK
<1>7. ASSUME NEW m \in Names, pc'[Producer(m)] = "down"
      PROVE  Threshold <= age'[m] + wait'[Producer(m)]
  <2>1. Producer(m) \in Processes /\ Producer(m) # t
    BY <1>1, <1>5, <1>7, NamesFacts DEF IInv, TypeOK
  <2>2. pc[Producer(m)] = "down" /\ age'[m] = age[m]
    BY <1>1, <1>4, <1>5, <1>7, <2>1 DEF IInv, TypeOK
  <2> QED BY <1>5, <2>2 DEF IInv, Replaceable
<1>8. ASSUME pc'[Feeder] = "create", NEW s \in Traders, at'[Feeder] <= s
      PROVE  age'[MarketData(s)] = Threshold
  <2>1. pc[Feeder] = "create" /\ at[Feeder] <= s
    BY <1>1, <1>5, <1>8, NamesFacts DEF IInv, TypeOK
  <2> QED BY <1>1, <1>4, <2>1 DEF IInv, Replaceable
<1> QED BY <1>4, <1>6, <1>7, <1>8 DEF IInv, Replaceable

\* A process that goes on, neither from where it is down nor to it, and touches no
\* segment but to open it.
LEMMA GoesOn ==
  ASSUME IInv, NEW p \in Processes, NEW stage \in {"connect", "open", "run"},
         GoTo(p, stage), FormerRunsAreDead', UNCHANGED <<bound, age, oldAge, disabled>>,
         held' \in [Names -> {"nothing", "current", "old"}],
         at' \in [Processes -> Traders], \A q \in Processes : q # p => at'[q] = at[q]
  PROVE  IInv'
<1>1. pc' = [pc EXCEPT ![p] = stage] /\ UNCHANGED <<wait, stalled, late, calm, quiet>>
  BY DEF GoTo
<1>2. TypeOK'
  <2>1. pc' \in [Processes -> {"down", "create", "connect", "open", "run"}]
    BY <1>1 DEF IInv, TypeOK
  <2> QED BY <1>1, <2>1 DEF IInv, TypeOK
<1>3. ASSUME NEW q \in Processes, pc'[q] \in {"down", "create"}
      PROVE  pc'[q] = pc[q] /\ at'[q] = at[q]
  BY <1>1, <1>3 DEF IInv, TypeOK
<1>4. Replaceable'
  BY <1>1, <1>3, NamesFacts DEF IInv, Replaceable
<1> QED BY <1>2, <1>4 DEF IInv

\* A step of any process.
LEMMA StepKeeps == ASSUME IInv, NEW p \in Processes, Step(p) PROVE IInv'
<1>0. /\ at \in [Processes -> Traders] /\ held \in [Names -> {"nothing", "current", "old"}]
      /\ FormerRunsAreDead
  BY DEF IInv, TypeOK
<1>1. CASE FeederCreate
  BY <1>1, FeederCreateKeeps
<1>2. CASE FeederConnect
  <2>1. GoTo(Feeder, "run") /\ UNCHANGED <<at, bound, age, held, oldAge, disabled>>
    BY <1>2 DEF FeederConnect, segment
  <2>2. FormerRunsAreDead'
    BY <1>0, <2>1 DEF FormerRunsAreDead, IsProducerAlive
  <2> QED BY <1>0, <2>1, <2>2, GoesOn, NamesFacts
<1>3. CASE FeederTurn
  <2>1. /\ pc[Feeder] = "run" /\ UpdateHeartbeat({MarketData(t) : t \in Traders})
        /\ TookTurn(Feeder) /\ UNCHANGED at
    BY <1>3 DEF FeederTurn
  <2>2. /\ {MarketData(t) : t \in Traders} \in SUBSET Names
        /\ \A n \in {MarketData(t) : t \in Traders} : Producer(n) = Feeder
    BY NamesFacts
  <2> QED BY <2>1, <2>2, HeartbeatKeeps, NamesFacts
<1>4. CASE p \in Traders /\ TraderCreate(p)
  BY <1>4, TraderCreateKeeps
<1>5. CASE p \in Traders /\ TraderOpen(p)
  <2>1. MarketData(p) \in Names /\ Open(MarketData(p)) /\ GoTo(p, "run") /\ UNCHANGED at
    BY <1>5, NamesFacts DEF TraderOpen
  <2>2. /\ FormerRunsAreDead' /\ UNCHANGED <<bound, age, oldAge, disabled>>
        /\ held' \in [Names -> {"nothing", "current", "old"}]
    BY <2>1, OpenKeeps
  <2> QED BY <1>0, <2>1, <2>2, GoesOn
<1>6. CASE p \in Traders /\ TraderTurn(p)
  <2>1. CASE Exit(p)
    BY <2>1, ExitKeeps
  <2>2. CASE UpdateHeartbeat({Orders(p)}) /\ TookTurn(p) /\ UNCHANGED at
    <3>1. {Orders(p)} \in SUBSET Names /\ \A n \in {Orders(p)} : Producer(n) = p
      BY <1>6, NamesFacts
    <3>2. pc[p] = "run"
      BY <1>6 DEF TraderTurn
    <3> QED BY <2>2, <3>1, <3>2, HeartbeatKeeps
  <2> QED BY <1>6, <2>1, <2>2 DEF TraderTurn
<1>7. CASE ExecutorOpen
  <2>1. at[Executor] \in Traders /\ Executor \in Processes
    BY <1>0, NamesFacts
  <2>2. Orders(at[Executor]) \in Names
    BY <2>1, NamesFacts
  <2>3. /\ Open(Orders(at[Executor])) /\ NextTrader(Executor)
        /\ GoTo(Executor, IF at[Executor] = TraderCount THEN "run" ELSE "open")
    BY <1>7 DEF ExecutorOpen
  <2>4. /\ FormerRunsAreDead' /\ UNCHANGED <<bound, age, oldAge, disabled>>
        /\ held' \in [Names -> {"nothing", "current", "old"}]
    BY <2>2, <2>3, OpenKeeps
  <2>5. at' \in [Processes -> Traders] /\ \A q \in Processes : q # Executor => at'[q] = at[q]
    BY <1>0, <2>1, <2>3, NextTraderType
  <2>6. (IF at[Executor] = TraderCount THEN "run" ELSE "open") \in {"connect", "open", "run"}
    OBVIOUS
  <2> QED BY <2>1, <2>3, <2>4, <2>5, <2>6, GoesOn
<1>8. CASE ExecutorRead
  <2>1. CASE Exit(Executor)
    BY <2>1, ExitKeeps, NamesFacts
  <2>2. CASE /\ NextTrader(Executor) /\ UNCHANGED segment
             /\ TookTurn(Executor) \/ UNCHANGED <<pc, wait, stalled, late, calm, quiet>>
    <3>1. at' \in [Processes -> Traders] /\ at'[Feeder] = at[Feeder]
      BY <1>0, <2>2, NextTraderType, NamesFacts
    <3>2. /\ UNCHANGED <<pc, wait, stalled, calm, quiet, bound, age, held, oldAge, disabled>>
          /\ late' = late \/ late' = late \ {Executor}
      BY <2>2 DEF TookTurn, segment
    <3>3. TypeOK'
      BY <3>1, <3>2 DEF IInv, TypeOK
    <3>4. Replaceable' /\ FormerRunsAreDead'
      BY <3>1, <3>2 DEF IInv, Replaceable, FormerRunsAreDead, IsProducerAlive
    <3> QED BY <3>3, <3>4 DEF IInv
  <2> QED BY <1>8, <2>1, <2>2 DEF ExecutorRead
<1> QED BY <1>1, <1>2, <1>3, <1>4, <1>5, <1>6, <1>7, <1>8 DEF Step

\* As a segment grows old, its producer has less to wait.
LEMMA TickKeeps == ASSUME IInv, Tick PROVE IInv'
<1>0. /\ Threshold \in Nat \ {0} /\ Outage \in Nat
      /\ age \in [Names -> 0 .. Threshold] /\ oldAge \in [Names -> 0 .. Threshold]
      /\ wait \in [Processes -> Nat] /\ quiet \in Nat
  BY Delays, SupervisionAssumption DEF IInv, TypeOK, Outage, SupervisionAssumption
<1>1. /\ age' = [n \in Names |-> Older(age[n])] /\ oldAge' = [n \in Names |-> Older(oldAge[n])]
      /\ wait' = [p \in Processes |-> IF wait[p] = 0 THEN 0 ELSE wait[p] - 1]
      /\ late' = {p \in Processes : pc[p] = "run"}
      /\ quiet' = IF calm /\ quiet < Outage THEN quiet + 1 ELSE quiet
      /\ UNCHANGED <<pc, at, stalled, bound, held, disabled, calm>>
  BY DEF Tick
<1>2. \A a \in 0 .. Threshold : Older(a) \in 0 .. Threshold
  BY <1>0 DEF Older
<1>3. TypeOK'
  <2>1. age' \in [Names -> 0 .. Threshold] /\ oldAge' \in [Names -> 0 .. Threshold]
    BY <1>0, <1>1, <1>2
  <2>2. wait' \in [Processes -> Nat] /\ late' \subseteq Processes /\ quiet' \in Nat
    BY <1>0, <1>1
  <2> QED BY <1>1, <2>1, <2>2 DEF IInv, TypeOK
<1>4. ASSUME NEW n \in Names, pc'[Producer(n)] = "down"
      PROVE  Threshold <= age'[n] + wait'[Producer(n)]
  <2> DEFINE a == age[n]
             w == wait[Producer(n)]
  <2>1. Producer(n) \in Processes /\ pc[Producer(n)] = "down"
    BY <1>1, <1>4, NamesFacts
  <2>2. a \in 0 .. Threshold /\ w \in Nat /\ Threshold <= a + w
    BY <1>0, <2>1 DEF IInv, Replaceable
  <2>3. age'[n] = Older(a) /\ wait'[Producer(n)] = IF w = 0 THEN 0 ELSE w - 1
    BY <1>1, <2>1
  <2> HIDE DEF a, w
  <2>4. Threshold <= Older(a) + IF w = 0 THEN 0 ELSE w - 1
    BY <1>0, <2>2 DEF Older
  <2> QED BY <2>3, <2>4
<1>5. ASSUME pc'[Feeder] = "create", NEW t \in Traders, at'[Feeder] <= t
      PROVE  age'[MarketData(t)] = Threshold
  <2>1. age[MarketData(t)] = Threshold /\ MarketData(t) \in Names
    BY <1>1, <1>5, NamesFacts DEF IInv, Replaceable
  <2>2. Older(Threshold) = Threshold
    BY <1>0 DEF Older
  <2> QED BY <1>1, <2>1, <2>2
<1>6. ASSUME NEW n \in Names, held'[n] = "old" PROVE ~(oldAge'[n] < Threshold)
  <2>1. ~(oldAge[n] < Threshold) /\ oldAge[n] \in 0 .. Threshold
    BY <1>0, <1>1, <1>6 DEF IInv, FormerRunsAreDead, IsProducerAlive
  <2>2. oldAge'[n] = Older(oldAge[n]) /\ oldAge[n] = Threshold
    BY <1>0, <1>1, <2>1
  <2> QED BY <1>0, <2>2 DEF Older
<1>7. FormerRunsAreDead'
  BY <1>6 DEF FormerRunsAreDead, IsProducerAlive
<1> QED BY <1>3, <1>4, <1>5, <1>7 DEF IInv, Replaceable

\* No step disturbs that.
LEMMA NextIInv == IInv /\ [Next]_vars => IInv'
<1> SUFFICES ASSUME IInv, [Next]_vars PROVE IInv'
  OBVIOUS
<1>1. ASSUME UNCHANGED <<pc, at, wait, late, quiet>>, UNCHANGED <<bound, age, held, oldAge>>,
             stalled' \subseteq Processes, disabled' \subseteq Names, calm' \in BOOLEAN
      PROVE  IInv'
  BY <1>1 DEF IInv, TypeOK, Replaceable, FormerRunsAreDead, IsProducerAlive
<1>2. stalled \subseteq Processes /\ disabled \subseteq Names /\ calm \in BOOLEAN
  BY DEF IInv, TypeOK
<1>3. ASSUME NEW p \in Processes, Step(p) PROVE IInv'
  BY <1>3, StepKeeps
<1>4. ASSUME NEW p \in Processes, Fail(p) PROVE IInv'
  BY <1>4, ExitKeeps DEF Fail
<1>5. ASSUME NEW p \in Processes, Stall(p) PROVE IInv'
  BY <1>1, <1>2, <1>5 DEF Stall, segment
<1>6. ASSUME NEW p \in Processes, Resume(p) PROVE IInv'
  BY <1>1, <1>2, <1>6 DEF Resume, segment
<1>7. ASSUME NEW t \in Traders, Overflow(t) PROVE IInv'
  <2>1. Orders(t) \in Names
    BY NamesFacts
  <2> QED BY <1>1, <1>2, <1>7, <2>1 DEF Overflow, process
<1>8. CASE CalmDown
  BY <1>1, <1>2, <1>8 DEF CalmDown, process, segment
<1>9. CASE Tick
  BY <1>9, TickKeeps
<1>10. CASE UNCHANGED vars
  BY <1>1, <1>2, <1>10 DEF vars, process, segment
<1> QED BY <1>3, <1>4, <1>5, <1>6, <1>7, <1>8, <1>9, <1>10 DEF Next

\* The timing of the units keeps every former run's segment dead, whatever fails when.
THEOREM Invariant == Spec => []IInv
<1> QED BY InitIInv, NextIInv, PTL DEF Spec

\* No trader decides on the market data of a feeder that has been replaced, and the
\* executor reads no order of a trader that has been: for any number of traders.
THEOREM FormerRunsStayDead == Spec => []FormerRunsAreDead
<1>1. IInv => FormerRunsAreDead
  BY DEF IInv
<1> QED BY <1>1, Invariant, PTL

-----------------------------------------------------------------------------
(* How long it takes to come up.                                           *)

\* The ticks of calm after which the feeder runs, and after which the traders do.
FeederUp  == FeederDelay + 1
TradersUp == FeederUp + TraderDelay + 1

\* What a process has when it is at a stage; nobody waits for the exchange in calm.
Stages ==
  /\ \A p \in Processes : wait[p] <= RestartDelay(p)
  /\ quiet > 0 => calm /\ stalled = {}
  /\ \A p \in stalled : pc[p] \in {"connect", "run"}
  /\ pc[Feeder] # "open" /\ pc[Executor] \in {"down", "open", "run"}
  /\ \A t \in Traders : pc[t] \in {"down", "open", "run"}
  /\ \A p \in {Feeder, Executor} : pc[p] = "down" => at[p] = 1

\* ... of the segments.
Mapped ==
  /\ \A t \in Traders :
       /\ pc[Feeder] \in {"connect", "run"} \/ (pc[Feeder] = "create" /\ t < at[Feeder])
            => MarketData(t) \in bound
       /\ pc[t] # "down" => Orders(t) \in bound
       /\ pc[t] = "run" => held[MarketData(t)] # "nothing"
       /\ pc[Executor] = "run" \/ (pc[Executor] = "open" /\ t < at[Executor])
            => held[Orders(t)] # "nothing"

\* What the executor has read since the last tick was alive and is no former run's.
ReadAlive ==
  pc[Executor] = "run" /\ Executor \notin late =>
    \A t \in Traders : t < at[Executor] =>
      held[Orders(t)] = "current" /\ age[Orders(t)] < Threshold

\* The feeder never exits in calm, and comes up when it has waited.
FeederSoon ==
  /\ pc[Feeder] = "down" => wait[Feeder] + quiet <= FeederDelay
  /\ quiet >= FeederUp => pc[Feeder] = "run"
  /\ quiet >= 1 => \A t \in Traders :
       \/ pc[Feeder] = "create" /\ t < at[Feeder]
       \/ pc[Feeder] = "connect"
       \/ pc[Feeder] = "run" /\ Feeder \notin late
       => age[MarketData(t)] = 0
  /\ quiet >= 2 /\ pc[Feeder] = "run" => \A t \in Traders : age[MarketData(t)] <= 1

\* A trader exits at the latest a tick after the feeder is up.
TraderSoon(t) ==
  /\ pc[t] = "down" => wait[t] + quiet <= FeederUp + TraderDelay
  /\ quiet >= TradersUp => pc[t] = "run"
  /\ quiet >= FeederUp /\ pc[t] = "run" /\ held[MarketData(t)] = "old" =>
       quiet = FeederUp /\ t \in late
  /\ quiet >= FeederUp /\ (pc[t] = "open" \/ (pc[t] = "run" /\ t \notin late)) =>
       age[Orders(t)] = 0
  /\ quiet >= FeederUp + 1 /\ pc[t] = "run" => age[Orders(t)] <= 1

\* The executor exits at the latest a tick after the traders are up.
ExecutorSoon ==
  /\ pc[Executor] = "down" /\ (quiet <= TradersUp \/ disabled = {}) =>
       wait[Executor] + quiet <= TradersUp + ExecutorDelay
  /\ quiet >= Outage /\ disabled = {} => pc[Executor] = "run"
  /\ quiet >= TradersUp => \A t \in Traders :
       /\ pc[Executor] = "run" /\ held[Orders(t)] = "old" =>
            quiet = TradersUp /\ Executor \in late /\ at[Executor] <= t
       /\ pc[Executor] = "open" /\ t < at[Executor] => held[Orders(t)] = "current"

Soon == FeederSoon /\ (\A t \in Traders : TraderSoon(t)) /\ ExecutorSoon

\* The inductive invariant, about the stages and their times.
TimeInv == IInv /\ Stages /\ Mapped /\ ReadAlive /\ Soon

\* The times.
LEMMA Times ==
  /\ FeederDelay \in Nat /\ TraderDelay \in Nat /\ ExecutorDelay \in Nat
  /\ FeederUp \in Nat /\ TradersUp \in Nat /\ Outage \in Nat
  /\ FeederUp = FeederDelay + 1 /\ FeederUp >= 2
  /\ TradersUp = FeederUp + TraderDelay + 1 /\ TradersUp > FeederUp
  /\ Outage = TradersUp + ExecutorDelay + 1 /\ Outage > TradersUp
  /\ RestartDelay(Feeder) = FeederDelay /\ RestartDelay(Executor) = ExecutorDelay
  /\ \A t \in Traders : RestartDelay(t) = TraderDelay
<1>1. /\ FeederDelay \in Nat /\ TraderDelay \in Nat /\ ExecutorDelay \in Nat
      /\ Threshold \in Nat \ {0} /\ Threshold <= FeederDelay
  BY SupervisionAssumption, DelayAssumption DEF SupervisionAssumption, DelayAssumption
<1>2. /\ RestartDelay(Feeder) = FeederDelay /\ RestartDelay(Executor) = ExecutorDelay
      /\ \A t \in Traders : RestartDelay(t) = TraderDelay
  BY NamesFacts DEF RestartDelay
<1> QED BY <1>1, <1>2 DEF FeederUp, TradersUp, Outage

\* Who reads what.
LEMMA Consumers ==
  /\ \A t \in Traders : Consumer(MarketData(t)) = t /\ Consumer(Orders(t)) = Executor
  /\ \A n \in Names : Consumer(n) # Feeder
<1>1. \A t \in Traders : Consumer(MarketData(t)) = t /\ Consumer(Orders(t)) = Executor
  BY DEF Consumer, MarketData, Orders
<1> QED BY <1>1, NamesFacts

\* The types, point by point.
LEMMA Values ==
  ASSUME IInv
  PROVE  /\ \A p \in Processes : wait[p] \in Nat /\ at[p] \in Traders /\ at[p] \in Nat
         /\ \A t \in Traders : t \in Nat /\ 1 <= t /\ t <= TraderCount
         /\ \A n \in Names : age[n] \in Nat /\ age[n] <= Threshold
         /\ quiet \in Nat /\ TraderCount \in Nat \ {0} /\ Threshold \in Nat \ {0}
<1>1. TraderCount \in Nat \ {0} /\ Threshold \in Nat \ {0}
  BY Delays
<1>2. \A t \in Traders : t \in Nat /\ 1 <= t /\ t <= TraderCount
  BY <1>1 DEF Traders
<1>3. \A p \in Processes : wait[p] \in Nat /\ at[p] \in Traders
  BY DEF IInv, TypeOK
<1>4. \A n \in Names : age[n] \in 0 .. Threshold
  BY DEF IInv, TypeOK
<1>5. quiet \in Nat
  BY DEF IInv, TypeOK
<1> QED BY <1>1, <1>2, <1>3, <1>4, <1>5

\* Before the first tick of calm, all that is to be expected is that who waits will start.
AtOnce == IInv /\ Stages /\ quiet = 0 => Soon

\* It holds as the waits are no longer than RestartSec.
LEMMA SoonAtOnce == AtOnce /\ AtOnce'
<1>1. AtOnce
  <2> SUFFICES ASSUME IInv, Stages, quiet = 0 PROVE Soon
    BY DEF AtOnce
  <2>1. /\ FeederDelay \in Nat /\ TraderDelay \in Nat /\ ExecutorDelay \in Nat
        /\ FeederUp \in Nat /\ TradersUp \in Nat /\ Outage \in Nat
        /\ FeederUp >= 2 /\ TradersUp > FeederUp /\ Outage > TradersUp
        /\ TradersUp = FeederUp + TraderDelay + 1
    BY Times
  <2>2. /\ wait[Feeder] \in Nat /\ wait[Feeder] <= FeederDelay
        /\ wait[Executor] \in Nat /\ wait[Executor] <= ExecutorDelay
        /\ \A t \in Traders : wait[t] \in Nat /\ wait[t] <= TraderDelay
    BY Times, Values, NamesFacts DEF Stages
  <2>3. FeederSoon
    BY <2>1, <2>2 DEF FeederSoon
  <2>4. ASSUME NEW t \in Traders PROVE TraderSoon(t)
    BY <2>1, <2>2 DEF TraderSoon
  <2>5. ExecutorSoon
    BY <2>1, <2>2 DEF ExecutorSoon
  <2> QED BY <2>3, <2>4, <2>5 DEF Soon
<1> QED BY <1>1, PTL

-----------------------------------------------------------------------------
(* What the parts of an action change.                                     *)

\* There is a new segment; who had the former one mapped still has something mapped.
LEMMA CreateEffect ==
  ASSUME IInv, NEW n \in Names, Create(n)
  PROVE  /\ bound' = bound \cup {n} /\ disabled' \subseteq disabled /\ age'[n] = 0
         /\ held'[n] = "nothing" <=> held[n] = "nothing"
         /\ \A m \in Names : m # n => age'[m] = age[m] /\ held'[m] = held[m]
<1>1. age \in [Names -> 0 .. Threshold] /\ held \in [Names -> {"nothing", "current", "old"}]
  BY DEF IInv, TypeOK
<1> QED BY <1>1 DEF Create

\* There is a segment to open.
LEMMA OpenEffect ==
  ASSUME IInv, NEW n \in Names, Open(n)
  PROVE  /\ n \in bound /\ UNCHANGED <<bound, age, disabled>> /\ held'[n] = "current"
         /\ \A m \in Names : m # n => held'[m] = held[m]
<1>1. held \in [Names -> {"nothing", "current", "old"}]
  BY DEF IInv, TypeOK
<1> QED BY <1>1 DEF Open

\* One process is at another stage.
LEMMA GoToEffect ==
  ASSUME IInv, NEW p \in Processes, NEW stage, GoTo(p, stage)
  PROVE  /\ pc'[p] = stage /\ \A q \in Processes : q # p => pc'[q] = pc[q]
         /\ UNCHANGED <<wait, stalled, late, calm, quiet>>
<1>1. DOMAIN pc = Processes
  BY DEF IInv, TypeOK
<1> QED BY <1>1 DEF GoTo

\* One process is down and has to wait.
LEMMA ExitEffect ==
  ASSUME IInv, NEW p \in Processes, Exit(p)
  PROVE  /\ pc'[p] = "down" /\ wait'[p] = RestartDelay(p) /\ at'[p] = 1
         /\ stalled' = stalled \ {p} /\ late' = late \ {p}
         /\ \A q \in Processes : q # p => pc'[q] = pc[q] /\ wait'[q] = wait[q] /\ at'[q] = at[q]
         /\ \A n \in Names : Consumer(n) # p => held'[n] = held[n]
         /\ UNCHANGED <<bound, age, disabled, calm, quiet>>
<1>1. DOMAIN pc = Processes /\ DOMAIN wait = Processes /\ DOMAIN at = Processes
  BY DEF IInv, TypeOK
<1> QED BY <1>1 DEF Exit

\* Who is at the next trader, or again at the first.
LEMMA NextTraderEffect ==
  ASSUME IInv, NEW p \in Processes, NextTrader(p)
  PROVE  /\ \A q \in Processes : q # p => at'[q] = at[q]
         /\ at[p] = TraderCount => at'[p] = 1
         /\ at[p] # TraderCount => at'[p] = at[p] + 1
<1>1. DOMAIN at = Processes
  BY DEF IInv, TypeOK
<1> QED BY <1>1 DEF NextTrader

\* What is told of the feeder stays so while others step.
LEMMA FeederKept ==
  ASSUME FeederSoon, quiet' = quiet, pc'[Feeder] = pc[Feeder], wait'[Feeder] = wait[Feeder],
         at'[Feeder] = at[Feeder], Feeder \in late <=> Feeder \in late',
         \A t \in Traders : age'[MarketData(t)] = age[MarketData(t)]
  PROVE  FeederSoon'
BY DEF FeederSoon

\* ... of a trader ...
LEMMA TraderKept ==
  ASSUME NEW t \in Traders, TraderSoon(t), quiet' = quiet, pc'[t] = pc[t], wait'[t] = wait[t],
         t \in late <=> t \in late', held'[MarketData(t)] = held[MarketData(t)],
         age'[Orders(t)] = age[Orders(t)]
  PROVE  TraderSoon(t)'
BY DEF TraderSoon

\* ... and of the executor.
LEMMA ExecutorKept ==
  ASSUME ExecutorSoon, quiet' = quiet, pc'[Executor] = pc[Executor],
         wait'[Executor] = wait[Executor], at'[Executor] = at[Executor],
         Executor \in late <=> Executor \in late', disabled' = disabled,
         \A t \in Traders : held'[Orders(t)] = held[Orders(t)]
  PROVE  ExecutorSoon'
BY DEF ExecutorSoon

\* Until the traders are up, of the executor there is only its wait.
LEMMA ExecutorEarly ==
  ASSUME IInv, ExecutorSoon, quiet < TradersUp, quiet' = quiet, pc'[Executor] = pc[Executor],
         wait'[Executor] = wait[Executor]
  PROVE  ExecutorSoon'
<1>1. quiet \in Nat /\ TradersUp \in Nat /\ Outage \in Nat /\ Outage > TradersUp
  BY Times, Values
<1>2. quiet <= TradersUp /\ ~(quiet >= TradersUp) /\ ~(quiet >= Outage)
  BY <1>1
<1> QED BY <1>2 DEF ExecutorSoon

\* What the executor has read stays alive while heartbeats are only renewed.
LEMMA ReadKept ==
  ASSUME ReadAlive, pc'[Executor] = pc[Executor], at'[Executor] = at[Executor],
         Executor \in late <=> Executor \in late',
         \A t \in Traders : /\ held'[Orders(t)] = held[Orders(t)]
                            /\ age'[Orders(t)] = age[Orders(t)] \/ age'[Orders(t)] = 0
  PROVE  ReadAlive'
BY Delays DEF ReadAlive

-----------------------------------------------------------------------------
(* The steps.                                                              *)

\* The feeder creates a segment.
LEMMA FeederCreateSoon == ASSUME TimeInv, IInv', FeederCreate PROVE TimeInv'
<1> DEFINE t0 == at[Feeder]
<1>1. /\ IInv /\ Stages /\ Mapped /\ ReadAlive /\ FeederSoon /\ ExecutorSoon
      /\ \A t \in Traders : TraderSoon(t)
  BY DEF TimeInv, Soon
<1>2. /\ t0 \in Traders /\ Feeder \in Processes /\ Executor \in Processes /\ Feeder # Executor
      /\ \A t \in Traders : /\ MarketData(t) \in Names /\ Orders(t) \in Names
                            /\ Orders(t) # MarketData(t0) /\ t \in Processes /\ t # Feeder
                            /\ (t # t0 => MarketData(t) # MarketData(t0))
  BY <1>1, Values, NamesFacts
<1>3. /\ pc[Feeder] = "create" \/ (pc[Feeder] = "down" /\ t0 = 1)
      /\ Create(MarketData(t0)) /\ NextTrader(Feeder)
      /\ GoTo(Feeder, IF t0 = TraderCount THEN "connect" ELSE "create")
  BY <1>1 DEF FeederCreate, Started, Stages
<1>4. /\ bound' = bound \cup {MarketData(t0)} /\ age'[MarketData(t0)] = 0
      /\ \A t \in Traders : held'[MarketData(t)] = "nothing" <=> held[MarketData(t)] = "nothing"
      /\ \A t \in Traders : t # t0 => age'[MarketData(t)] = age[MarketData(t)]
      /\ \A t \in Traders : held'[Orders(t)] = held[Orders(t)] /\ age'[Orders(t)] = age[Orders(t)]
  BY <1>1, <1>2, <1>3, CreateEffect
<1>5. /\ pc'[Feeder] = IF t0 = TraderCount THEN "connect" ELSE "create"
      /\ \A q \in Processes : q # Feeder => pc'[q] = pc[q]
      /\ UNCHANGED <<wait, stalled, late, calm, quiet>>
  BY <1>1, <1>2, <1>3, GoToEffect
<1>6. /\ \A q \in Processes : q # Feeder => at'[q] = at[q]
      /\ t0 # TraderCount => at'[Feeder] = t0 + 1
  BY <1>1, <1>2, <1>3, NextTraderEffect
<1>7. /\ quiet \in Nat /\ TraderCount \in Nat /\ t0 \in Nat
      /\ \A t \in Traders : t \in Nat /\ 1 <= t /\ t <= TraderCount
  BY <1>1, <1>2, Values
<1>8. quiet < FeederUp /\ quiet < TradersUp /\ FeederUp \in Nat /\ TradersUp \in Nat
  BY <1>1, <1>3, <1>7, Times DEF FeederSoon
<1> HIDE DEF t0
<1>9. Stages'
  <2>1. \A p \in stalled : p # Feeder /\ p \in Processes
    BY <1>1, <1>3 DEF Stages, IInv, TypeOK
  <2> QED BY <1>1, <1>2, <1>3, <1>5, <1>6, <2>1 DEF Stages
\* Those before are there, and now this one.
<1>10. ASSUME NEW t \in Traders, t # t0,
              pc'[Feeder] = "connect" \/ (pc'[Feeder] = "create" /\ t < at'[Feeder])
       PROVE  pc[Feeder] = "create" /\ t < at[Feeder]
  <2>1. t < t0
    BY <1>5, <1>6, <1>7, <1>10
  <2> QED BY <1>3, <1>7, <2>1 DEF t0
<1>11. Mapped'
  <2>1. ASSUME NEW t \in Traders,
               pc'[Feeder] \in {"connect", "run"} \/ (pc'[Feeder] = "create" /\ t < at'[Feeder])
        PROVE  MarketData(t) \in bound'
    BY <1>1, <1>4, <1>5, <1>10, <2>1 DEF Mapped
  <2> QED BY <1>1, <1>2, <1>4, <1>5, <1>6, <2>1 DEF Mapped
<1>12. ReadAlive'
  BY <1>1, <1>2, <1>4, <1>5, <1>6, ReadKept
<1>13. FeederSoon'
  <2>1. ASSUME quiet' >= 1, NEW t \in Traders,
               pc'[Feeder] = "connect" \/ (pc'[Feeder] = "create" /\ t < at'[Feeder])
        PROVE  age'[MarketData(t)] = 0
    BY <1>1, <1>4, <1>5, <1>10, <2>1 DEF FeederSoon
  <2> QED BY <1>5, <1>7, <1>8, <2>1 DEF FeederSoon
<1>14. ASSUME NEW t \in Traders PROVE TraderSoon(t)'
  BY <1>1, <1>2, <1>5, <1>7, <1>8 DEF TraderSoon
<1>15. ExecutorSoon'
  BY <1>1, <1>2, <1>5, <1>8, ExecutorEarly
<1> QED BY <1>9, <1>11, <1>12, <1>13, <1>14, <1>15 DEF TimeInv, Soon

\* It is connected.
LEMMA FeederConnectSoon == ASSUME TimeInv, IInv', FeederConnect PROVE TimeInv'
<1>1. /\ IInv /\ Stages /\ Mapped /\ ReadAlive /\ FeederSoon /\ ExecutorSoon
      /\ \A t \in Traders : TraderSoon(t)
  BY DEF TimeInv, Soon
<1>2. /\ Feeder \in Processes /\ Executor \in Processes /\ Feeder # Executor
      /\ \A t \in Traders : t \in Processes /\ t # Feeder
  BY NamesFacts
<1>3. /\ pc[Feeder] = "connect" /\ Feeder \notin stalled
      /\ UNCHANGED <<at, bound, age, held, disabled>>
      /\ pc'[Feeder] = "run" /\ \A q \in Processes : q # Feeder => pc'[q] = pc[q]
      /\ UNCHANGED <<wait, stalled, late, calm, quiet>>
  BY <1>1, <1>2, GoToEffect DEF FeederConnect, segment
<1>4. Stages'
  <2>1. \A p \in stalled : p # Feeder /\ p \in Processes
    BY <1>1, <1>3 DEF IInv, TypeOK
  <2> QED BY <1>1, <1>2, <1>3, <2>1 DEF Stages
<1>5. Mapped' /\ ReadAlive'
  BY <1>1, <1>2, <1>3 DEF Mapped, ReadAlive
<1>6. FeederSoon'
  <2>1. quiet >= 1 => \A t \in Traders : age[MarketData(t)] = 0
    BY <1>1, <1>3 DEF FeederSoon
  <2>2. quiet \in Nat
    BY <1>1, Values
  <2> QED BY <1>3, <2>1, <2>2 DEF FeederSoon
<1>7. ASSUME NEW t \in Traders PROVE TraderSoon(t)'
  BY <1>1, <1>2, <1>3, TraderKept
<1>8. ExecutorSoon'
  BY <1>1, <1>2, <1>3, ExecutorKept
<1> QED BY <1>4, <1>5, <1>6, <1>7, <1>8 DEF TimeInv, Soon

\* It reads a message.
LEMMA FeederTurnSoon == ASSUME TimeInv, IInv', FeederTurn PROVE TimeInv'
<1>1. /\ IInv /\ Stages /\ Mapped /\ ReadAlive /\ FeederSoon /\ ExecutorSoon
      /\ \A t \in Traders : TraderSoon(t)
  BY DEF TimeInv, Soon
<1>2. /\ Executor # Feeder
      /\ \A t \in Traders : /\ t # Feeder /\ MarketData(t) \in Names /\ Orders(t) \in Names
                            /\ \A s \in Traders : MarketData(s) # Orders(t)
  BY NamesFacts
<1>3. /\ pc[Feeder] = "run" /\ late' = late \ {Feeder}
      /\ UNCHANGED <<pc, at, wait, stalled, calm, quiet, bound, held, disabled>>
  BY DEF FeederTurn, UpdateHeartbeat, TookTurn
<1>4. \A t \in Traders : age'[MarketData(t)] = 0 /\ age'[Orders(t)] = age[Orders(t)]
  BY <1>2 DEF FeederTurn, UpdateHeartbeat
<1>5. Stages' /\ Mapped'
  BY <1>1, <1>3 DEF Stages, Mapped
<1>6. ReadAlive'
  BY <1>1, <1>2, <1>3, <1>4, ReadKept
<1>7. FeederSoon'
  BY <1>1, <1>3, <1>4 DEF FeederSoon
<1>8. ASSUME NEW t \in Traders PROVE TraderSoon(t)'
  BY <1>1, <1>2, <1>3, <1>4, TraderKept
<1>9. ExecutorSoon'
  BY <1>1, <1>2, <1>3, ExecutorKept
<1> QED BY <1>5, <1>6, <1>7, <1>8, <1>9 DEF TimeInv, Soon

\* A trader that starts replaces its segment, which is old by then.
LEMMA TraderCreateSoon ==
  ASSUME TimeInv, IInv', NEW t \in Traders, TraderCreate(t)
  PROVE  TimeInv'
<1>1. /\ IInv /\ Stages /\ Mapped /\ ReadAlive /\ FeederSoon /\ ExecutorSoon
      /\ \A s \in Traders : TraderSoon(s)
  BY DEF TimeInv, Soon
<1>2. /\ t \in Processes /\ t # Feeder /\ t # Executor
      /\ Feeder \in Processes /\ Executor \in Processes
      /\ Orders(t) \in Names /\ Producer(Orders(t)) = t
      /\ \A s \in Traders : /\ MarketData(s) \in Names /\ Orders(s) \in Names
                            /\ MarketData(s) # Orders(t) /\ s \in Processes
                            /\ (s # t => Orders(s) # Orders(t))
  BY NamesFacts
<1>3. pc[t] = "down" /\ wait[t] = 0 /\ Create(Orders(t)) /\ GoTo(t, "open") /\ UNCHANGED at
  BY DEF TraderCreate, Started
<1>4. /\ bound' = bound \cup {Orders(t)} /\ age'[Orders(t)] = 0
      /\ held'[Orders(t)] = "nothing" <=> held[Orders(t)] = "nothing"
      /\ \A m \in Names : m # Orders(t) => age'[m] = age[m] /\ held'[m] = held[m]
  BY <1>1, <1>2, <1>3, CreateEffect
<1>5. /\ pc'[t] = "open" /\ \A q \in Processes : q # t => pc'[q] = pc[q]
      /\ UNCHANGED <<at, wait, stalled, late, calm, quiet>>
  BY <1>1, <1>2, <1>3, GoToEffect
<1>6. quiet \in Nat /\ Threshold \in Nat /\ age[Orders(t)] \in Nat
  BY <1>1, <1>2, Values
<1>7. age[Orders(t)] = Threshold
  <2>1. Threshold <= age[Orders(t)] + wait[t]
    BY <1>1, <1>2, <1>3 DEF IInv, Replaceable
  <2>2. age[Orders(t)] <= Threshold
    BY <1>1, <1>2, Values
  <2> QED BY <1>3, <1>6, <2>1, <2>2
<1>8. quiet < TradersUp
  BY <1>1, <1>3, <1>6, Times DEF TraderSoon
<1>9. Stages'
  <2>1. \A p \in stalled : p # t /\ p \in Processes
    BY <1>1, <1>3 DEF Stages, IInv, TypeOK
  <2> QED BY <1>1, <1>2, <1>5, <2>1 DEF Stages
<1>10. Mapped'
  BY <1>1, <1>2, <1>4, <1>5 DEF Mapped
<1>11. ReadAlive'
  <2> SUFFICES ASSUME pc[Executor] = "run", Executor \notin late, NEW s \in Traders,
                      s < at[Executor]
               PROVE  held'[Orders(s)] = "current" /\ age'[Orders(s)] < Threshold
    BY <1>2, <1>5 DEF ReadAlive
  <2>1. held[Orders(s)] = "current" /\ age[Orders(s)] < Threshold
    BY <1>1 DEF ReadAlive
  <2>2. s # t
    BY <1>6, <1>7, <2>1
  <2> QED BY <1>2, <1>4, <2>1, <2>2
<1>12. FeederSoon'
  BY <1>1, <1>2, <1>4, <1>5, FeederKept
<1>13. ASSUME NEW s \in Traders PROVE TraderSoon(s)'
  <2>1. CASE s = t
    BY <1>4, <1>5, <1>6, <1>8, <2>1, Times DEF TraderSoon
  <2>2. CASE s # t
    BY <1>1, <1>2, <1>4, <1>5, <2>2, TraderKept
  <2> QED BY <2>1, <2>2
<1>14. ExecutorSoon'
  BY <1>1, <1>2, <1>5, <1>8, ExecutorEarly
<1> QED BY <1>9, <1>10, <1>11, <1>12, <1>13, <1>14 DEF TimeInv, Soon

\* It opens its feeder's.
LEMMA TraderOpenSoon ==
  ASSUME TimeInv, IInv', NEW t \in Traders, TraderOpen(t)
  PROVE  TimeInv'
<1>1. /\ IInv /\ Stages /\ Mapped /\ ReadAlive /\ FeederSoon /\ ExecutorSoon
      /\ \A s \in Traders : TraderSoon(s)
  BY DEF TimeInv, Soon
<1>2. /\ t \in Processes /\ t # Feeder /\ t # Executor
      /\ Feeder \in Processes /\ Executor \in Processes /\ MarketData(t) \in Names
      /\ \A s \in Traders : /\ MarketData(s) \in Names /\ Orders(s) \in Names
                            /\ MarketData(t) # Orders(s) /\ s \in Processes
                            /\ (s # t => MarketData(s) # MarketData(t))
  BY NamesFacts
<1>3. pc[t] = "open" /\ Open(MarketData(t)) /\ GoTo(t, "run") /\ UNCHANGED at
  BY DEF TraderOpen
<1>4. /\ UNCHANGED <<bound, age, disabled>> /\ held'[MarketData(t)] = "current"
      /\ \A m \in Names : m # MarketData(t) => held'[m] = held[m]
  BY <1>1, <1>2, <1>3, OpenEffect
<1>5. /\ pc'[t] = "run" /\ \A q \in Processes : q # t => pc'[q] = pc[q]
      /\ UNCHANGED <<at, wait, stalled, late, calm, quiet>>
  BY <1>1, <1>2, <1>3, GoToEffect
<1>6. quiet \in Nat
  BY <1>1, Values
<1>7. Stages'
  <2>1. \A p \in stalled : p # t /\ p \in Processes
    BY <1>1, <1>3 DEF Stages, IInv, TypeOK
  <2> QED BY <1>1, <1>2, <1>5, <2>1 DEF Stages
<1>8. Mapped'
  BY <1>1, <1>2, <1>3, <1>4, <1>5 DEF Mapped
<1>9. ReadAlive'
  BY <1>1, <1>2, <1>4, <1>5, ReadKept
<1>10. FeederSoon'
  BY <1>1, <1>2, <1>4, <1>5, FeederKept
<1>11. ASSUME NEW s \in Traders PROVE TraderSoon(s)'
  <2>1. CASE s = t
    <3>1. quiet >= FeederUp => age[Orders(t)] = 0
      BY <1>1, <1>3 DEF TraderSoon
    <3>2. quiet >= FeederUp + 1 => quiet >= FeederUp
      BY <1>6, Times
    <3> QED BY <1>4, <1>5, <2>1, <3>1, <3>2 DEF TraderSoon
  <2>2. CASE s # t
    BY <1>1, <1>2, <1>4, <1>5, <2>2, TraderKept
  <2> QED BY <2>1, <2>2
<1>12. ExecutorSoon'
  BY <1>1, <1>2, <1>4, <1>5, ExecutorKept
<1> QED BY <1>7, <1>8, <1>9, <1>10, <1>11, <1>12 DEF TimeInv, Soon

\* A process that exits has nothing, whoever it is.
LEMMA ExitPlaces ==
  ASSUME TimeInv, NEW p \in Processes, Exit(p)
  PROVE  Stages' /\ Mapped' /\ ReadAlive'
<1>1. IInv /\ Stages /\ Mapped /\ ReadAlive
  BY DEF TimeInv
<1>2. /\ pc'[p] = "down" /\ wait'[p] = RestartDelay(p) /\ at'[p] = 1
      /\ stalled' = stalled \ {p} /\ late' = late \ {p}
      /\ \A q \in Processes : q # p => pc'[q] = pc[q] /\ wait'[q] = wait[q] /\ at'[q] = at[q]
      /\ \A n \in Names : Consumer(n) # p => held'[n] = held[n]
      /\ UNCHANGED <<bound, age, disabled, calm, quiet>>
  BY <1>1, ExitEffect
<1>3. /\ Feeder \in Processes /\ Executor \in Processes
      /\ \A t \in Traders : /\ t \in Processes /\ MarketData(t) \in Names /\ Orders(t) \in Names
                            /\ Consumer(MarketData(t)) = t /\ Consumer(Orders(t)) = Executor
  BY NamesFacts, Consumers
<1>4. Stages'
  <2>1. \A q \in Processes : wait'[q] <= RestartDelay(q)
    <3>1. RestartDelay(p) <= RestartDelay(p)
      BY Delays
    <3> QED BY <1>1, <1>2, <3>1 DEF Stages
  <2>2. \A q \in stalled' : pc'[q] \in {"connect", "run"}
    BY <1>1, <1>2 DEF Stages, IInv, TypeOK
  <2>3. \A q \in {Feeder, Executor} : pc'[q] = "down" => at'[q] = 1
    BY <1>1, <1>2, <1>3 DEF Stages
  <2>4. /\ pc'[Feeder] # "open" /\ pc'[Executor] \in {"down", "open", "run"}
        /\ \A t \in Traders : pc'[t] \in {"down", "open", "run"}
    BY <1>1, <1>2, <1>3 DEF Stages
  <2> QED BY <1>1, <1>2, <2>1, <2>2, <2>3, <2>4 DEF Stages
<1>5. Mapped'
  <2> SUFFICES ASSUME NEW t \in Traders
               PROVE  /\ pc'[Feeder] \in {"connect", "run"}
                           \/ (pc'[Feeder] = "create" /\ t < at'[Feeder])
                             => MarketData(t) \in bound'
                      /\ pc'[t] # "down" => Orders(t) \in bound'
                      /\ pc'[t] = "run" => held'[MarketData(t)] # "nothing"
                      /\ pc'[Executor] = "run" \/ (pc'[Executor] = "open" /\ t < at'[Executor])
                           => held'[Orders(t)] # "nothing"
    BY DEF Mapped
  <2>1. \A q \in Processes : pc'[q] # "down" => q # p
    BY <1>2
  <2> QED BY <1>1, <1>2, <1>3, <2>1 DEF Mapped
<1>6. ReadAlive'
  <2>1. CASE p = Executor
    BY <1>2, <2>1 DEF ReadAlive
  <2>2. CASE p # Executor
    BY <1>1, <1>2, <1>3, <2>2, ReadKept
  <2> QED BY <2>1, <2>2
<1> QED BY <1>4, <1>5, <1>6

\* A trader takes a turn, or finds its feeder dead, which it does not once it could know
\* of the feeder that runs.
LEMMA TraderTurnSoon ==
  ASSUME Threshold > 1, TimeInv, IInv', NEW t \in Traders, TraderTurn(t)
  PROVE  TimeInv'
<1>1. /\ IInv /\ Stages /\ Mapped /\ ReadAlive /\ FeederSoon /\ ExecutorSoon
      /\ \A s \in Traders : TraderSoon(s)
  BY DEF TimeInv, Soon
<1>2. /\ t \in Processes /\ t # Feeder /\ t # Executor
      /\ Feeder \in Processes /\ Executor \in Processes /\ MarketData(t) \in Names
      /\ \A s \in Traders : /\ MarketData(s) \in Names /\ Orders(s) \in Names
                            /\ MarketData(s) # Orders(t) /\ s \in Processes
                            /\ (s # t => Orders(s) # Orders(t))
                            /\ Consumer(MarketData(s)) = s /\ Consumer(Orders(s)) = Executor
  BY NamesFacts, Consumers
<1>3. pc[t] = "run" /\ quiet \in Nat
  BY <1>1, Values DEF TraderTurn
<1>4. CASE IsProducerAlive(MarketData(t)) /\ UpdateHeartbeat({Orders(t)}) /\ TookTurn(t) /\ at' = at
  <2>1. /\ late' = late \ {t} /\ UNCHANGED <<pc, at, wait, stalled, calm, quiet>>
        /\ UNCHANGED <<bound, held, disabled>> /\ age'[Orders(t)] = 0
        /\ \A n \in Names : n # Orders(t) => age'[n] = age[n]
    BY <1>2, <1>4 DEF UpdateHeartbeat, TookTurn
  <2>2. held[MarketData(t)] # "old"
    BY <1>1, <1>2, <1>4 DEF IInv, FormerRunsAreDead
  <2>3. Stages' /\ Mapped'
    BY <1>1, <2>1 DEF Stages, Mapped
  <2>4. ReadAlive'
    BY <1>1, <1>2, <2>1, ReadKept
  <2>5. FeederSoon'
    BY <1>1, <1>2, <2>1, FeederKept
  <2>6. ASSUME NEW s \in Traders PROVE TraderSoon(s)'
    <3>1. CASE s = t
      BY <1>1, <2>1, <2>2, <3>1 DEF TraderSoon
    <3>2. CASE s # t
      BY <1>1, <1>2, <2>1, <3>2, TraderKept
    <3> QED BY <3>1, <3>2
  <2>7. ExecutorSoon'
    BY <1>1, <1>2, <2>1, ExecutorKept
  <2> QED BY <2>3, <2>4, <2>5, <2>6, <2>7 DEF TimeInv, Soon
<1>5. CASE ~IsProducerAlive(MarketData(t)) /\ Exit(t)
  <2>1. /\ pc'[t] = "down" /\ wait'[t] = RestartDelay(t) /\ late' = late \ {t}
        /\ \A q \in Processes : q # t => pc'[q] = pc[q] /\ wait'[q] = wait[q] /\ at'[q] = at[q]
        /\ \A n \in Names : Consumer(n) # t => held'[n] = held[n]
        /\ UNCHANGED <<bound, age, disabled, calm, quiet>>
    BY <1>1, <1>2, <1>5, ExitEffect
  <2>2. quiet <= FeederUp
    <3> SUFFICES ASSUME quiet >= FeederUp + 1 PROVE FALSE
      BY <1>3, Times
    <3>1. quiet >= FeederUp /\ quiet >= 2 /\ quiet # FeederUp
      BY <1>3, Times
    <3>2. held[MarketData(t)] # "old"
      BY <1>1, <1>3, <3>1 DEF TraderSoon
    <3>3. age[MarketData(t)] <= 1 /\ age[MarketData(t)] \in Nat
      BY <1>1, <1>2, <3>1, Values DEF FeederSoon
    <3>4. age[MarketData(t)] < Threshold
      BY <3>3, Delays
    <3> QED BY <1>5, <3>2, <3>4 DEF IsProducerAlive
  <2>3. Stages' /\ Mapped' /\ ReadAlive'
    BY <1>2, <1>5, ExitPlaces
  <2>4. FeederSoon'
    BY <1>1, <1>2, <2>1, FeederKept
  <2>5. ASSUME NEW s \in Traders PROVE TraderSoon(s)'
    <3>1. CASE s = t
      <4>1. wait'[t] = TraderDelay
        BY <2>1, Times
      <4>2. wait'[t] + quiet' <= FeederUp + TraderDelay /\ ~(quiet' >= TradersUp)
        BY <1>3, <2>1, <2>2, <4>1, Times
      <4> QED BY <2>1, <3>1, <4>2 DEF TraderSoon
    <3>2. CASE s # t
      BY <1>1, <1>2, <2>1, <3>2, TraderKept
    <3> QED BY <3>1, <3>2
  <2>6. ExecutorSoon'
    BY <1>1, <1>2, <2>1, ExecutorKept
  <2> QED BY <2>3, <2>4, <2>5, <2>6 DEF TimeInv, Soon
<1> QED BY <1>4, <1>5 DEF TraderTurn

\* The executor opens the segment of a trader: the present one, there being no other.
LEMMA ExecutorOpenSoon == ASSUME TimeInv, IInv', ExecutorOpen PROVE TimeInv'
<1> DEFINE t0 == at[Executor]
<1>1. /\ IInv /\ Stages /\ Mapped /\ ReadAlive /\ FeederSoon /\ ExecutorSoon
      /\ \A t \in Traders : TraderSoon(t)
  BY DEF TimeInv, Soon
<1>2. /\ t0 \in Traders /\ Feeder \in Processes /\ Executor \in Processes /\ Feeder # Executor
      /\ \A t \in Traders : /\ MarketData(t) \in Names /\ Orders(t) \in Names
                            /\ MarketData(t) # Orders(t0) /\ t \in Processes /\ t # Executor
                            /\ (t # t0 => Orders(t) # Orders(t0))
  BY <1>1, Values, NamesFacts
<1>3. /\ pc[Executor] = "open" \/ (pc[Executor] = "down" /\ wait[Executor] = 0 /\ t0 = 1)
      /\ Open(Orders(t0)) /\ NextTrader(Executor)
      /\ GoTo(Executor, IF t0 = TraderCount THEN "run" ELSE "open")
  BY <1>1 DEF ExecutorOpen, Started, Stages
<1>4. /\ UNCHANGED <<bound, age, disabled>> /\ held'[Orders(t0)] = "current"
      /\ \A t \in Traders : /\ held'[MarketData(t)] = held[MarketData(t)]
                            /\ (t # t0 => held'[Orders(t)] = held[Orders(t)])
  BY <1>1, <1>2, <1>3, OpenEffect
<1>5. /\ pc'[Executor] = IF t0 = TraderCount THEN "run" ELSE "open"
      /\ \A q \in Processes : q # Executor => pc'[q] = pc[q]
      /\ UNCHANGED <<wait, stalled, late, calm, quiet>>
  BY <1>1, <1>2, <1>3, GoToEffect
<1>6. /\ \A q \in Processes : q # Executor => at'[q] = at[q]
      /\ t0 = TraderCount => at'[Executor] = 1
      /\ t0 # TraderCount => at'[Executor] = t0 + 1
  BY <1>1, <1>2, <1>3, NextTraderEffect
<1>7. /\ quiet \in Nat /\ TraderCount \in Nat /\ t0 \in Nat
      /\ \A t \in Traders : t \in Nat /\ 1 <= t /\ t <= TraderCount
  BY <1>1, <1>2, Values
\* Those before are mapped, and now this one.
<1>8. ASSUME NEW t \in Traders, t # t0,
             pc'[Executor] = "run" \/ (pc'[Executor] = "open" /\ t < at'[Executor])
      PROVE  pc[Executor] = "open" /\ t < at[Executor]
  <2>1. t < t0
    BY <1>5, <1>6, <1>7, <1>8
  <2> QED BY <1>3, <1>7, <2>1
<1> HIDE DEF t0
<1>9. Stages'
  <2>1. \A p \in stalled : p # Executor /\ p \in Processes
    BY <1>1, <1>3 DEF Stages, IInv, TypeOK
  <2> QED BY <1>1, <1>2, <1>5, <1>6, <2>1 DEF Stages
<1>10. Mapped'
  <2>1. ASSUME NEW t \in Traders,
               pc'[Executor] = "run" \/ (pc'[Executor] = "open" /\ t < at'[Executor])
        PROVE  held'[Orders(t)] # "nothing"
    BY <1>1, <1>4, <1>8, <2>1 DEF Mapped
  <2> QED BY <1>1, <1>2, <1>4, <1>5, <1>6, <2>1 DEF Mapped
<1>11. ReadAlive'
  <2> SUFFICES ASSUME pc'[Executor] = "run" PROVE \A t \in Traders : ~(t < at'[Executor])
    BY DEF ReadAlive
  <2> QED BY <1>5, <1>6, <1>7
<1>12. FeederSoon'
  BY <1>1, <1>2, <1>4, <1>5, <1>6, FeederKept
<1>13. ASSUME NEW t \in Traders PROVE TraderSoon(t)'
  BY <1>1, <1>2, <1>4, <1>5, TraderKept
<1>14. ExecutorSoon'
  <2>1. pc'[Executor] # "down"
    BY <1>5
  <2>2. quiet' >= Outage /\ disabled' = {} => pc'[Executor] = "run"
    BY <1>1, <1>3, <1>4, <1>5 DEF ExecutorSoon
  <2>3. ASSUME quiet' >= TradersUp, NEW t \in Traders,
               pc'[Executor] = "run" \/ (pc'[Executor] = "open" /\ t < at'[Executor])
        PROVE  held'[Orders(t)] = "current"
    BY <1>1, <1>4, <1>5, <1>8, <2>3 DEF ExecutorSoon
  <2> QED BY <2>1, <2>2, <2>3 DEF ExecutorSoon
<1> QED BY <1>9, <1>10, <1>11, <1>12, <1>13, <1>14 DEF TimeInv, Soon

\* The executor reads from a trader that is alive, or exits, which it does not once it
\* could know of the traders that run, unless a ring has overflowed.
LEMMA ExecutorReadSoon == ASSUME Threshold > 1, TimeInv, IInv', ExecutorRead PROVE TimeInv'
<1> DEFINE t0 == at[Executor]
           n  == Orders(t0)
<1>1. /\ IInv /\ Stages /\ Mapped /\ ReadAlive /\ FeederSoon /\ ExecutorSoon
      /\ \A t \in Traders : TraderSoon(t)
  BY DEF TimeInv, Soon
<1>2. /\ t0 \in Traders /\ Feeder \in Processes /\ Executor \in Processes /\ Feeder # Executor
      /\ n \in Names
      /\ \A t \in Traders : /\ MarketData(t) \in Names /\ Orders(t) \in Names
                            /\ t \in Processes /\ t # Executor
                            /\ Consumer(MarketData(t)) = t /\ Consumer(Orders(t)) = Executor
  BY <1>1, Values, NamesFacts, Consumers
<1>3. /\ pc[Executor] = "run" /\ held[n] # "nothing" /\ held[n] \in {"nothing", "current", "old"}
      /\ age[n] \in Nat
  BY <1>1, <1>2, Values DEF ExecutorRead, Mapped, IInv, TypeOK
<1>4. /\ quiet \in Nat /\ TraderCount \in Nat /\ t0 \in Nat /\ t0 <= TraderCount
      /\ \A t \in Traders : t \in Nat /\ 1 <= t /\ t <= TraderCount
  BY <1>1, <1>2, Values
<1>5. CASE /\ IsProducerAlive(n) /\ NextTrader(Executor) /\ UNCHANGED segment
           /\ IF t0 = TraderCount
              THEN TookTurn(Executor)
              ELSE UNCHANGED <<pc, wait, stalled, late, calm, quiet>>
  <2>1. /\ UNCHANGED <<pc, wait, stalled, calm, quiet, bound, age, held, disabled>>
        /\ \A q \in Processes : q # Executor => (q \in late <=> q \in late')
        /\ t0 # TraderCount => late' = late
    BY <1>5 DEF segment, TookTurn
  <2>2. /\ \A q \in Processes : q # Executor => at'[q] = at[q]
        /\ t0 = TraderCount => at'[Executor] = 1
        /\ t0 # TraderCount => at'[Executor] = t0 + 1
    BY <1>1, <1>2, <1>5, NextTraderEffect
  <2>3. held[n] = "current" /\ age[n] < Threshold
    BY <1>1, <1>2, <1>3, <1>5 DEF IInv, FormerRunsAreDead, IsProducerAlive
  <2>4. Stages'
    BY <1>1, <1>2, <1>3, <2>1, <2>2 DEF Stages
  <2>5. Mapped'
    BY <1>1, <1>2, <1>3, <2>1, <2>2 DEF Mapped
  <2>6. ReadAlive'
    <3> SUFFICES ASSUME Executor \notin late', NEW t \in Traders, t < at'[Executor]
                 PROVE  held[Orders(t)] = "current" /\ age[Orders(t)] < Threshold
      BY <2>1 DEF ReadAlive
    <3>1. t0 # TraderCount /\ (t < t0 \/ t = t0)
      BY <1>4, <2>2
    <3>2. CASE t = t0
      BY <2>3, <3>2
    <3>3. CASE t < t0
      BY <1>1, <1>3, <2>1, <3>1, <3>3 DEF ReadAlive
    <3> QED BY <3>1, <3>2, <3>3
  <2>7. FeederSoon'
    BY <1>1, <1>2, <2>1, <2>2, FeederKept
  <2>8. ASSUME NEW t \in Traders PROVE TraderSoon(t)'
    BY <1>1, <1>2, <2>1, TraderKept
  <2>9. ExecutorSoon'
    <3>1. ASSUME quiet' >= TradersUp, NEW t \in Traders, held'[Orders(t)] = "old"
          PROVE  quiet' = TradersUp /\ Executor \in late' /\ at'[Executor] <= t
      <4>1. quiet = TradersUp /\ Executor \in late /\ t0 <= t
        BY <1>1, <1>3, <2>1, <3>1 DEF ExecutorSoon
      <4>2. t # t0
        BY <2>1, <2>3, <3>1
      <4>3. t0 # TraderCount /\ t0 + 1 <= t
        BY <1>4, <4>1, <4>2
      <4> QED BY <2>1, <2>2, <4>1, <4>3
    <3>2. pc'[Executor] = "run"
      BY <1>3, <2>1
    <3> QED BY <3>1, <3>2 DEF ExecutorSoon
  <2> QED BY <2>4, <2>5, <2>6, <2>7, <2>8, <2>9 DEF TimeInv, Soon
<1>6. CASE (~IsProducerAlive(n) \/ (held[n] = "current" /\ n \in disabled)) /\ Exit(Executor)
  <2>1. /\ pc'[Executor] = "down" /\ wait'[Executor] = RestartDelay(Executor)
        /\ late' = late \ {Executor}
        /\ \A q \in Processes : q # Executor =>
             pc'[q] = pc[q] /\ wait'[q] = wait[q] /\ at'[q] = at[q]
        /\ \A m \in Names : Consumer(m) # Executor => held'[m] = held[m]
        /\ UNCHANGED <<bound, age, disabled, calm, quiet>>
    BY <1>1, <1>2, <1>6, ExitEffect
  <2>2. disabled = {} => quiet <= TradersUp
    <3> SUFFICES ASSUME disabled = {}, quiet >= TradersUp + 1 PROVE FALSE
      BY <1>4, Times
    <3>1. quiet >= TradersUp /\ quiet # TradersUp /\ quiet >= FeederUp + 1
      BY <1>4, Times
    <3>2. held[n] # "old"
      BY <1>1, <1>2, <1>3, <3>1 DEF ExecutorSoon
    <3>3. age[n] <= 1
      BY <1>1, <1>2, <3>1 DEF TraderSoon
    <3>4. age[n] < Threshold
      BY <1>3, <3>3, Delays
    <3> QED BY <1>6, <3>2, <3>4 DEF IsProducerAlive
  <2>3. Stages' /\ Mapped' /\ ReadAlive'
    BY <1>2, <1>6, ExitPlaces
  <2>4. FeederSoon'
    BY <1>1, <1>2, <2>1, FeederKept
  <2>5. ASSUME NEW t \in Traders PROVE TraderSoon(t)'
    BY <1>1, <1>2, <2>1, TraderKept
  <2>6. ExecutorSoon'
    <3>1. wait'[Executor] = ExecutorDelay
      BY <2>1, Times
    <3>2. quiet <= TradersUp => wait'[Executor] + quiet' <= TradersUp + ExecutorDelay
      BY <1>4, <2>1, <3>1, Times
    <3>3. ~(quiet' >= Outage /\ disabled' = {})
      BY <1>4, <2>1, <2>2, Times
    <3>4. quiet' <= TradersUp \/ disabled' = {} => quiet <= TradersUp
      BY <2>1, <2>2
    <3> QED BY <2>1, <3>2, <3>3, <3>4 DEF ExecutorSoon
  <2> QED BY <2>3, <2>4, <2>5, <2>6 DEF TimeInv, Soon
<1> QED BY <1>5, <1>6 DEF ExecutorRead

-----------------------------------------------------------------------------
(* What happens to the processes.                                          *)

\* Before it is calm no tick of calm has passed.
LEMMA NotCalm == ASSUME IInv, Stages, ~calm PROVE quiet = 0
BY Values DEF Stages

\* A failure.
LEMMA FailSoon == ASSUME TimeInv, IInv', NEW p \in Processes, Fail(p) PROVE TimeInv'
<1>1. Exit(p) /\ quiet = 0
  BY NotCalm DEF Fail, TimeInv
<1>2. Stages' /\ Mapped' /\ ReadAlive' /\ quiet' = 0
  BY <1>1, ExitPlaces DEF Exit
<1> QED BY <1>2, SoonAtOnce DEF AtOnce, TimeInv

\* The exchange keeps a process waiting that is connected, or connects.
LEMMA StallSoon == ASSUME TimeInv, IInv', NEW p \in Processes, Stall(p) PROVE TimeInv'
<1>1. /\ quiet = 0 /\ stalled' = stalled \cup {p} /\ pc[p] \in {"connect", "run"}
      /\ UNCHANGED <<pc, at, wait, late, bound, age, held, disabled, calm, quiet>>
  BY NotCalm DEF Stall, TimeInv, segment
<1>2. Stages'
  BY <1>1 DEF TimeInv, Stages
<1>3. Mapped' /\ ReadAlive'
  BY <1>1 DEF TimeInv, Mapped, ReadAlive
<1> QED BY <1>1, <1>2, <1>3, SoonAtOnce DEF AtOnce, TimeInv

\* It answers.
LEMMA ResumeSoon == ASSUME TimeInv, IInv', NEW p \in Processes, Resume(p) PROVE TimeInv'
<1>1. /\ stalled' = stalled \ {p}
      /\ UNCHANGED <<pc, at, wait, late, bound, age, held, disabled, calm, quiet>>
  BY DEF Resume, segment
<1>2. Stages'
  BY <1>1 DEF TimeInv, Stages
<1>3. Mapped' /\ ReadAlive' /\ FeederSoon' /\ ExecutorSoon'
  BY <1>1 DEF TimeInv, Soon, Mapped, ReadAlive, FeederSoon, ExecutorSoon
<1>4. ASSUME NEW t \in Traders PROVE TraderSoon(t)'
  BY <1>1 DEF TimeInv, Soon, TraderSoon
<1> QED BY <1>2, <1>3, <1>4 DEF TimeInv, Soon

\* A ring overflows.
LEMMA OverflowSoon == ASSUME TimeInv, IInv', NEW t \in Traders, Overflow(t) PROVE TimeInv'
<1>1. quiet = 0 /\ UNCHANGED <<pc, at, wait, stalled, late, bound, age, held, calm, quiet>>
  BY NotCalm DEF Overflow, TimeInv, process
<1>2. Stages' /\ Mapped' /\ ReadAlive'
  BY <1>1 DEF TimeInv, Stages, Mapped, ReadAlive
<1> QED BY <1>1, <1>2, SoonAtOnce DEF AtOnce, TimeInv

\* It gets calm.
LEMMA CalmDownSoon == ASSUME TimeInv, IInv', CalmDown PROVE TimeInv'
<1>1. quiet = 0 /\ UNCHANGED <<pc, at, wait, stalled, late, bound, age, held, disabled, quiet>>
  BY NotCalm DEF CalmDown, TimeInv, process, segment
<1>2. Stages' /\ Mapped' /\ ReadAlive'
  BY <1>1 DEF TimeInv, Stages, Mapped, ReadAlive
<1> QED BY <1>1, <1>2, SoonAtOnce DEF AtOnce, TimeInv

\* Nothing happens.
LEMMA StutterSoon == ASSUME TimeInv, IInv', UNCHANGED vars PROVE TimeInv'
<1>1. /\ UNCHANGED <<pc, at, wait, stalled, late>> /\ UNCHANGED <<bound, age, held, disabled>>
      /\ calm' = calm /\ quiet' = quiet
  BY DEF vars, process, segment
<1>2. Stages' /\ Mapped' /\ ReadAlive' /\ FeederSoon' /\ ExecutorSoon'
  BY <1>1 DEF TimeInv, Soon, Stages, Mapped, ReadAlive, FeederSoon, ExecutorSoon
<1>3. ASSUME NEW t \in Traders PROVE TraderSoon(t)'
  BY <1>1 DEF TimeInv, Soon, TraderSoon
<1> QED BY <1>2, <1>3 DEF TimeInv, Soon

\* Time passes: whoever waits for the exchange could not be left waiting in calm.
LEMMA TickPlaces == ASSUME TimeInv, IInv', Tick PROVE Stages' /\ Mapped' /\ ReadAlive'
<1>1. IInv /\ Stages /\ Mapped /\ ReadAlive
  BY DEF TimeInv
<1>2. /\ UNCHANGED <<pc, at, stalled, bound, held, disabled, calm>>
      /\ late' = {p \in Processes : pc[p] = "run"}
      /\ \A p \in Processes : Idle(p)
  BY DEF Tick
<1>3. Stages'
  <2>1. \A p \in Processes : wait'[p] <= RestartDelay(p)
    <3> TAKE p \in Processes
    <3>1. wait'[p] = IF wait[p] = 0 THEN 0 ELSE wait[p] - 1
      BY DEF Tick
    <3>2. wait[p] \in Nat /\ wait[p] <= RestartDelay(p) /\ RestartDelay(p) \in Nat
      BY <1>1, Values, Delays DEF Stages
    <3> QED BY <3>1, <3>2
  <2>2. quiet' > 0 => calm /\ stalled = {}
    <3> SUFFICES ASSUME quiet' > 0, quiet = 0 PROVE calm /\ stalled = {}
      BY <1>1, Values DEF Stages
    <3>1. calm
      BY DEF Tick
    <3>2. ASSUME NEW p \in stalled PROVE FALSE
      <4>1. p \in Processes /\ pc[p] \in {"connect", "run"}
        BY <1>1 DEF Stages, IInv, TypeOK
      <4> QED BY <1>2, <3>1, <3>2, <4>1 DEF Idle, Started
    <3> QED BY <3>1, <3>2
  <2> QED BY <1>1, <1>2, <2>1, <2>2 DEF Stages
<1>4. Mapped'
  BY <1>1, <1>2 DEF Mapped
<1>5. ReadAlive'
  BY <1>2, NamesFacts DEF ReadAlive
<1> QED BY <1>3, <1>4, <1>5

\* Who lets time pass in calm.
LEMMA IdleInCalm ==
  ASSUME IInv, Stages, Mapped, calm, stalled = {}, \A p \in Processes : Idle(p)
  PROVE  /\ \/ pc[Feeder] = "down" /\ wait[Feeder] > 0
            \/ pc[Feeder] = "run" /\ Feeder \notin late
         /\ \A t \in Traders :
              \/ pc[t] = "down" /\ wait[t] > 0
              \/ pc[t] = "open" /\ MarketData(t) \notin bound
              \/ pc[t] = "run" /\ t \notin late
         /\ \/ pc[Executor] = "down" /\ wait[Executor] > 0
            \/ /\ (pc[Executor] = "down" /\ wait[Executor] = 0) \/ pc[Executor] = "open"
               /\ pc[at[Executor]] = "down"
            \/ pc[Executor] = "run" /\ Executor \notin late
<1>1. /\ Feeder \in Processes /\ Executor \in Processes /\ Feeder # Executor
      /\ Feeder \notin Traders /\ Executor \notin Traders /\ at[Executor] \in Traders
      /\ \A t \in Traders : t \in Processes /\ t # Executor
  BY NamesFacts, Values
<1>2. \/ pc[Feeder] = "down" /\ wait[Feeder] > 0
      \/ pc[Feeder] = "run" /\ Feeder \notin late
  BY <1>1 DEF Idle
<1>3. ASSUME NEW t \in Traders
      PROVE  \/ pc[t] = "down" /\ wait[t] > 0
             \/ pc[t] = "open" /\ MarketData(t) \notin bound
             \/ pc[t] = "run" /\ t \notin late
  BY <1>1 DEF Idle
<1>4. \/ pc[Executor] = "down" /\ wait[Executor] > 0
      \/ /\ (pc[Executor] = "down" /\ wait[Executor] = 0) \/ pc[Executor] = "open"
         /\ Orders(at[Executor]) \notin bound
      \/ pc[Executor] = "run" /\ Executor \notin late
  BY <1>1 DEF Idle, Started
<1>5. Orders(at[Executor]) \notin bound => pc[at[Executor]] = "down"
  BY <1>1 DEF Mapped
<1> QED BY <1>2, <1>3, <1>4, <1>5

\* A tick of calm.
LEMMA TickSoon == ASSUME TimeInv, IInv', Tick PROVE TimeInv'
<1>1. Stages' /\ Mapped' /\ ReadAlive'
  BY TickPlaces
<1>2. CASE quiet' = 0
  BY <1>1, <1>2, SoonAtOnce DEF AtOnce, TimeInv
<1>3. CASE quiet' # 0
  <2>1. /\ IInv /\ Stages /\ Mapped /\ ReadAlive /\ FeederSoon /\ ExecutorSoon
        /\ \A t \in Traders : TraderSoon(t)
    BY DEF TimeInv, Soon
  <2>2. /\ UNCHANGED <<pc, at, bound, held, disabled>>
        /\ late' = {p \in Processes : pc[p] = "run"}
        /\ \A p \in Processes : wait'[p] = IF wait[p] = 0 THEN 0 ELSE wait[p] - 1
        /\ \A n \in Names : age'[n] = Older(age[n])
    BY DEF Tick
  <2>3. /\ quiet \in Nat /\ quiet' \in Nat /\ quiet' >= 1
        /\ quiet' = quiet + 1 \/ (quiet' = quiet /\ quiet >= Outage)
    <3>1. quiet \in Nat /\ Outage \in Nat /\ (quiet > 0 => calm)
      BY <2>1, Values, Times DEF Stages
    <3>2. quiet' = IF calm /\ quiet < Outage THEN quiet + 1 ELSE quiet
      BY DEF Tick
    <3> QED BY <1>3, <3>1, <3>2
  <2>4. /\ FeederDelay \in Nat /\ TraderDelay \in Nat /\ ExecutorDelay \in Nat
        /\ FeederUp \in Nat /\ TradersUp \in Nat /\ Outage \in Nat
        /\ FeederUp = FeederDelay + 1 /\ FeederUp >= 2
        /\ TradersUp = FeederUp + TraderDelay + 1 /\ TradersUp > FeederUp
        /\ Outage = TradersUp + ExecutorDelay + 1 /\ Outage > TradersUp
    BY Times
  <2>5. calm /\ stalled = {}
    <3>1. calm' /\ stalled' = {}
      BY <1>1, <2>3 DEF Stages
    <3> QED BY <3>1 DEF Tick
  <2>6. /\ \/ pc[Feeder] = "down" /\ wait[Feeder] > 0
           \/ pc[Feeder] = "run" /\ Feeder \notin late
        /\ \A t \in Traders :
             \/ pc[t] = "down" /\ wait[t] > 0
             \/ pc[t] = "open" /\ MarketData(t) \notin bound
             \/ pc[t] = "run" /\ t \notin late
        /\ \/ pc[Executor] = "down" /\ wait[Executor] > 0
           \/ /\ (pc[Executor] = "down" /\ wait[Executor] = 0) \/ pc[Executor] = "open"
              /\ pc[at[Executor]] = "down"
           \/ pc[Executor] = "run" /\ Executor \notin late
    BY <2>1, <2>5, IdleInCalm DEF Tick
  <2>7. /\ Feeder \in Processes /\ Executor \in Processes /\ at[Executor] \in Traders
        /\ \A t \in Traders : t \in Processes /\ MarketData(t) \in Names /\ Orders(t) \in Names
        /\ \A p \in Processes : wait[p] \in Nat
    BY <2>1, NamesFacts, Values
  <2>8. \A n \in Names : age[n] = 0 => age'[n] <= 1
    BY <2>1, <2>2, Values DEF Older
  \* The feeder starts when it has waited, and the traders have something to open.
  <2>9. quiet >= FeederDelay => pc[Feeder] = "run" /\ \A t \in Traders : pc[t] # "open"
    <3> SUFFICES ASSUME quiet >= FeederDelay
                 PROVE  pc[Feeder] = "run" /\ \A t \in Traders : pc[t] # "open"
      OBVIOUS
    <3>1. pc[Feeder] # "down"
      BY <2>1, <2>3, <2>4, <2>6, <2>7 DEF FeederSoon
    <3>2. \A t \in Traders : MarketData(t) \in bound
      BY <2>1, <2>6, <3>1 DEF Mapped
    <3> QED BY <2>6, <3>1, <3>2
  <2>10. FeederSoon'
    <3>1. pc[Feeder] = "down" => wait'[Feeder] + quiet' <= FeederDelay
      <4> SUFFICES ASSUME pc[Feeder] = "down" PROVE wait'[Feeder] + quiet' <= FeederDelay
        OBVIOUS
      <4>1. wait[Feeder] > 0 /\ wait[Feeder] + quiet <= FeederDelay
        BY <2>1, <2>6 DEF FeederSoon
      <4>2. wait'[Feeder] = wait[Feeder] - 1 /\ wait[Feeder] \in Nat
        BY <2>2, <2>7, <4>1
      <4> QED BY <2>3, <2>4, <4>1, <4>2
    <3>2. quiet' >= FeederUp => pc[Feeder] = "run"
      BY <2>3, <2>4, <2>9
    <3>3. quiet' >= 2 /\ pc[Feeder] = "run" => \A t \in Traders : age'[MarketData(t)] <= 1
      <4> SUFFICES ASSUME quiet' >= 2, pc[Feeder] = "run", NEW t \in Traders
                   PROVE  age'[MarketData(t)] <= 1
        OBVIOUS
      <4>1. quiet >= 1
        BY <2>3, <2>4
      <4>2. age[MarketData(t)] = 0
        BY <2>1, <2>6, <4>1 DEF FeederSoon
      <4> QED BY <2>7, <2>8, <4>2
    <3>4. Feeder \in late' \/ pc'[Feeder] = "down"
      BY <2>2, <2>6, <2>7
    <3> QED BY <2>2, <3>1, <3>2, <3>3, <3>4 DEF FeederSoon
  <2>11. ASSUME NEW t \in Traders PROVE TraderSoon(t)' /\ (pc[t] = "down" => quiet' < TradersUp)
    <3>1. pc[t] = "down" => wait'[t] + quiet' <= FeederUp + TraderDelay /\ wait'[t] \in Nat
      <4> SUFFICES ASSUME pc[t] = "down"
                   PROVE  wait'[t] + quiet' <= FeederUp + TraderDelay /\ wait'[t] \in Nat
        OBVIOUS
      <4>1. wait[t] > 0 /\ wait[t] + quiet <= FeederUp + TraderDelay
        BY <2>1, <2>6 DEF TraderSoon
      <4>2. wait'[t] = wait[t] - 1 /\ wait[t] \in Nat
        BY <2>2, <2>7, <4>1
      <4> QED BY <2>3, <2>4, <4>1, <4>2
    <3>2. pc[t] = "down" => quiet' < TradersUp
      BY <2>3, <2>4, <3>1
    <3>3. quiet' >= FeederUp => pc[t] # "open"
      BY <2>3, <2>4, <2>9
    <3>4. quiet' >= TradersUp => pc[t] = "run"
      BY <2>3, <2>4, <2>6, <3>2, <3>3
    <3>5. pc[t] = "run" => t \in late' /\ t \notin late
      BY <2>2, <2>6, <2>7
    <3>6. ASSUME quiet' >= FeederUp + 1, pc[t] = "run"
          PROVE  held[MarketData(t)] # "old" /\ age'[Orders(t)] <= 1
      <4>1. quiet >= FeederUp
        BY <2>3, <2>4, <3>6
      <4>2. age[Orders(t)] = 0 /\ held[MarketData(t)] # "old"
        BY <2>1, <3>5, <3>6, <4>1 DEF TraderSoon
      <4> QED BY <2>7, <2>8, <4>2
    <3>7. quiet' >= FeederUp => quiet' = FeederUp \/ quiet' >= FeederUp + 1
      BY <2>3, <2>4
    <3> QED BY <2>2, <3>1, <3>2, <3>3, <3>4, <3>5, <3>6, <3>7 DEF TraderSoon
  <2>12. ExecutorSoon'
    <3>1. quiet' >= TradersUp => pc[at[Executor]] # "down"
      BY <2>3, <2>4, <2>7, <2>11
    <3>2. ASSUME pc[Executor] = "down", quiet' <= TradersUp \/ disabled = {}
          PROVE  wait'[Executor] + quiet' <= TradersUp + ExecutorDelay /\ wait'[Executor] \in Nat
      <4>1. CASE wait[Executor] > 0
        <5>1. quiet <= TradersUp \/ disabled = {}
          BY <2>3, <2>4, <3>2
        <5>2. wait[Executor] + quiet <= TradersUp + ExecutorDelay
          BY <2>1, <3>2, <5>1 DEF ExecutorSoon
        <5>3. wait'[Executor] = wait[Executor] - 1 /\ wait[Executor] \in Nat
          BY <2>2, <2>7, <4>1
        <5> QED BY <2>3, <2>4, <4>1, <5>2, <5>3
      <4>2. CASE wait[Executor] = 0
        <5>1. pc[at[Executor]] = "down"
          BY <2>6, <3>2, <4>2
        <5>2. quiet' < TradersUp
          BY <2>3, <2>4, <3>1, <5>1
        <5>3. quiet' <= TradersUp + ExecutorDelay
          BY <2>3, <2>4, <5>2
        <5>4. wait'[Executor] = 0
          BY <2>2, <2>7, <4>2
        <5> QED BY <2>3, <5>3, <5>4
      <4> QED BY <2>7, <4>1, <4>2
    <3>3. quiet' >= Outage /\ disabled = {} => pc[Executor] = "run"
      <4> SUFFICES ASSUME quiet' >= Outage, disabled = {}, pc[Executor] # "run" PROVE FALSE
        OBVIOUS
      <4>1. quiet' >= TradersUp
        BY <2>3, <2>4
      <4>2. pc[Executor] = "down"
        BY <2>6, <3>1, <4>1
      <4> QED BY <2>3, <2>4, <3>2, <4>2
    <3>4. quiet' >= TradersUp => pc[Executor] # "open"
      BY <2>6, <3>1
    <3>5. ASSUME quiet' >= TradersUp, NEW t \in Traders, pc[Executor] = "run",
                 held[Orders(t)] = "old"
          PROVE  quiet' = TradersUp /\ Executor \in late' /\ at[Executor] <= t
      <4>1. Executor \notin late /\ Executor \in late'
        BY <2>2, <2>6, <2>7, <3>5
      <4>2. ~(quiet >= TradersUp)
        BY <2>1, <3>5, <4>1 DEF ExecutorSoon
      <4>3. quiet' = TradersUp
        BY <2>3, <2>4, <3>5, <4>2
      <4>4. ~(t < at[Executor])
        BY <2>1, <3>5, <4>1 DEF ReadAlive
      <4>5. t \in Nat /\ at[Executor] \in Nat
        BY <2>1, <2>7, Values
      <4> QED BY <4>1, <4>3, <4>4, <4>5
    <3> QED BY <2>2, <3>2, <3>3, <3>4, <3>5 DEF ExecutorSoon
  <2> QED BY <1>1, <2>10, <2>11, <2>12 DEF TimeInv, Soon
<1> QED BY <1>2, <1>3

-----------------------------------------------------------------------------
(* Together.                                                               *)

\* After a boot or a deployment nobody has to wait.
LEMMA InitTime == Init => TimeInv
<1> SUFFICES ASSUME Init PROVE TimeInv
  OBVIOUS
<1>1. IInv
  BY InitIInv
<1>2. /\ Feeder \in Processes /\ Executor \in Processes
      /\ \A t \in Traders : t \in Processes
  BY NamesFacts
<1>3. Stages
  BY <1>2, Delays DEF Init, Stages
<1>4. Mapped /\ ReadAlive
  BY <1>2 DEF Init, Mapped, ReadAlive
<1>5. quiet = 0
  BY DEF Init
<1> QED BY <1>1, <1>3, <1>4, <1>5, SoonAtOnce DEF AtOnce, TimeInv

\* Whatever is done next.
LEMMA NextTime == ASSUME Threshold > 1 PROVE TimeInv /\ [Next]_vars => TimeInv'
<1> SUFFICES ASSUME TimeInv, [Next]_vars PROVE TimeInv'
  OBVIOUS
<1>1. IInv'
  BY NextIInv DEF TimeInv
<1>2. ASSUME NEW p \in Processes, Step(p) PROVE TimeInv'
  <2>1. CASE FeederCreate \/ FeederConnect \/ FeederTurn
    BY <1>1, <2>1, FeederCreateSoon, FeederConnectSoon, FeederTurnSoon
  <2>2. ASSUME p \in Traders, TraderCreate(p) \/ TraderOpen(p) \/ TraderTurn(p) PROVE TimeInv'
    BY <1>1, <2>2, TraderCreateSoon, TraderOpenSoon, TraderTurnSoon
  <2>3. CASE ExecutorOpen \/ ExecutorRead
    BY <1>1, <2>3, ExecutorOpenSoon, ExecutorReadSoon
  <2> QED BY <1>2, <2>1, <2>2, <2>3 DEF Step
<1>3. ASSUME NEW p \in Processes, Fail(p) \/ Stall(p) \/ Resume(p) PROVE TimeInv'
  BY <1>1, <1>3, FailSoon, StallSoon, ResumeSoon
<1>4. ASSUME NEW t \in Traders, Overflow(t) PROVE TimeInv'
  BY <1>1, <1>4, OverflowSoon
<1>5. CASE CalmDown \/ Tick
  BY <1>1, <1>5, CalmDownSoon, TickSoon
<1>6. CASE UNCHANGED vars
  BY <1>1, <1>6, StutterSoon
<1> QED BY <1>2, <1>3, <1>4, <1>5, <1>6 DEF Next

\* Who is up by its time is up, and what it reads is of the present run and alive.
LEMMA TimeIsUp == ASSUME Threshold > 1 PROVE TimeInv => UpInTime
<1> SUFFICES ASSUME TimeInv, quiet = Outage PROVE AllUp
  BY DEF UpInTime
<1>1. /\ IInv /\ Stages /\ Mapped /\ FeederSoon /\ ExecutorSoon
      /\ \A t \in Traders : TraderSoon(t)
  BY DEF TimeInv, Soon
<1>2. /\ quiet >= FeederUp /\ quiet >= TradersUp /\ quiet >= FeederUp + 1 /\ quiet >= 2
      /\ quiet # FeederUp /\ quiet # TradersUp /\ quiet >= Outage
  BY Times
<1>3. /\ pc[Feeder] = "run" /\ \A t \in Traders : pc[t] = "run"
      /\ disabled = {} => pc[Executor] = "run"
  BY <1>1, <1>2 DEF FeederSoon, TraderSoon, ExecutorSoon
<1>4. \A n \in Names : held[n] \in {"nothing", "current", "old"}
  BY <1>1 DEF IInv, TypeOK
<1>5. ASSUME NEW t \in Traders
      PROVE  /\ held[MarketData(t)] = "current" /\ IsProducerAlive(MarketData(t))
             /\ pc[Executor] = "run" =>
                  held[Orders(t)] = "current" /\ IsProducerAlive(Orders(t))
  <2>1. MarketData(t) \in Names /\ Orders(t) \in Names
    BY NamesFacts
  <2>2. held[MarketData(t)] # "nothing" /\ held[MarketData(t)] # "old"
    BY <1>1, <1>2, <1>3 DEF Mapped, TraderSoon
  <2>3. pc[Executor] = "run" => held[Orders(t)] # "nothing" /\ held[Orders(t)] # "old"
    BY <1>1, <1>2 DEF Mapped, ExecutorSoon
  <2>4. age[MarketData(t)] <= 1 /\ age[Orders(t)] <= 1
    BY <1>1, <1>2, <1>3 DEF FeederSoon, TraderSoon
  <2>5. age[MarketData(t)] < Threshold /\ age[Orders(t)] < Threshold
    BY <1>1, <2>1, <2>4, Values
  <2> QED BY <1>4, <2>1, <2>2, <2>3, <2>5 DEF IsProducerAlive
<1>6. ASSUME NEW p \in Processes, p # Executor \/ disabled = {} PROVE Up(p)
  <2>1. pc[p] = "run"
    <3>1. p = Feeder \/ p \in Traders \/ p = Executor
      BY Delays DEF Processes, Feeder, Traders, Executor
    <3> QED BY <1>3, <1>6, <3>1
  <2>2. ASSUME NEW n \in Names, Consumer(n) = p
        PROVE  held[n] = "current" /\ IsProducerAlive(n)
    <3>1. PICK t \in Traders : n = MarketData(t) \/ n = Orders(t)
      BY NamesFacts
    <3>2. n = Orders(t) => p = Executor
      BY <2>2, Consumers
    <3> QED BY <1>5, <2>1, <3>1, <3>2
  <2> QED BY <2>1, <2>2 DEF Up
<1> QED BY <1>6 DEF AllUp

\* Once nothing fails any more, everyone is up in no more ticks than it takes systemd to
\* start them all once each, whatever they had mapped, and however long they had yet to
\* wait.  A heartbeat a tick old must not be taken for a dead one: kLivenessThreshold is
\* several seconds.
THEOREM ComesUpInTime == ASSUME Threshold > 1 PROVE Spec => []UpInTime
<1>1. Init => TimeInv
  BY InitTime
<1>2. TimeInv /\ [Next]_vars => TimeInv'
  BY NextTime
<1>3. TimeInv => UpInTime
  BY TimeIsUp
<1> QED BY <1>1, <1>2, <1>3, PTL DEF Spec

=============================================================================
