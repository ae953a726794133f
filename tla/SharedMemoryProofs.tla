------------------------- MODULE SharedMemoryProofs -------------------------
(***************************************************************************)
(* Proofs, for every threshold, ring capacity, number of restarts and      *)
(* crashes, and whatever segment was left under the name, of what a        *)
(* consumer may rely on once it has opened a segment: it has the           *)
(* consumer's own version and layout, and a consumer that checks the       *)
(* heartbeat before it reads does not read a ring under construction.      *)
(*                                                                         *)
(* The heartbeat carries the proof: only the last step of the producer's   *)
(* start makes it recent (HeartbeatLast), so a consumer that finds it      *)
(* recent has a complete ring, and a segment that is complete never        *)
(* becomes incomplete again, because the producer only constructs          *)
(* segments nobody has opened before (CreatedOnly).                        *)
(***************************************************************************)
EXTENDS SharedMemory, TLAPS

\* The inductive invariant holds initially, whatever was left behind.
THEOREM InitIInv == Init => IInv
<1> SUFFICES ASSUME Init PROVE IInv
  OBVIOUS
<1> USE SegmentAssumption
<1>1. /\ name \in Segments \union {None} /\ name <= 0 /\ current = 0
      /\ current \in Segments
  BY DEF Init, None, Segments
<1>2. TypeOK
  BY <1>1 DEF Init, TypeOK, Stages, Kinds
<1>3. HeartbeatLast
  BY DEF Init, HeartbeatLast
<1>4. CreatedOnly /\ UncreatedSilent /\ ChecksPassed
  BY <1>1 DEF Init, CreatedOnly, UncreatedSilent, ChecksPassed, NeverForeign, ReadsConstructed
<1>5. DisabledExcused /\ SkippedExcused
  BY DEF Init, DisabledExcused, SkippedExcused
<1> QED BY <1>2, <1>3, <1>4, <1>5 DEF IInv

\* Every step preserves the type invariant.
LEMMA NextTypeOK == TypeOK /\ CreatedOnly /\ [Next]_vars => TypeOK'
<1> SUFFICES ASSUME TypeOK, CreatedOnly, [Next]_vars PROVE TypeOK'
  OBVIOUS
<1> USE SegmentAssumption DEF TypeOK, None, Stages
<1>1. CASE Start
  <2>1. CASE RemoveSharedMemory
    BY <2>1 DEF RemoveSharedMemory, segment, consumer, history
  <2>2. CASE Create
    <3>1. current + 1 \in Segments
      BY <2>2 DEF Create, CreatedOnly, Segments
    <3> QED BY <2>2, <3>1 DEF Create, consumer, history
  <2>3. CASE Truncate
    BY <2>3 DEF Truncate, Construct, consumer, history
  <2>4. CASE ConstructMeta
    BY <2>4 DEF ConstructMeta, Construct, consumer, history
  <2>5. CASE ConstructMembers
    BY <2>5 DEF ConstructMembers, Construct, consumer, history
  <2>6. CASE ConstructActive
    BY <2>6 DEF ConstructActive, Construct, consumer, history
  <2> QED BY <1>1, <2>1, <2>2, <2>3, <2>4, <2>5, <2>6 DEF Start
<1>2. CASE UpdateHeartbeat
  <2>1. 0 \in 0 .. Threshold
    OBVIOUS
  <2> QED BY <1>2, <2>1 DEF UpdateHeartbeat, consumer, history
<1>3. CASE Write
  <2>1. head' \in [Segments -> Nat]
    BY <1>3 DEF Write
  <2>2. excused' \subseteq Segments
    BY <1>3 DEF Write
  <2>3. active' \in [Segments -> BOOLEAN]
    <3>1. active' = [active EXCEPT ![current] = FALSE] \/ active' = active
      BY <1>3 DEF Write
    <3> QED BY <3>1
  <2> QED BY <1>3, <2>1, <2>2, <2>3 DEF Write, producer, consumer
<1>4. CASE ProducerDies
  BY <1>4 DEF ProducerDies, segment, consumer, history
<1>5. CASE Open \/ Map \/ Check \/ IsProducerAlive
  BY <1>5 DEF Open, Map, Check, IsProducerAlive, Detach, segment, producer, history
<1>6. CASE FirstReset \/ DisabledReset
  <2>1. attached \in Segments
    BY <1>6 DEF FirstReset, DisabledReset, CreatedOnly
  <2> QED BY <1>6, <2>1 DEF FirstReset, DisabledReset, ResetTo, producer
<1>7. CASE Read
  <2>1. attached \in Segments
    BY <1>7 DEF Read, ReadDisabled, ReadEmpty, ReadSuccess, CreatedOnly
  <2> QED BY <1>7, <2>1 DEF Read, ReadDisabled, ReadEmpty, ReadSuccess,
             Detach, segment, producer, history
<1>8. CASE ConsumerCrash
  BY <1>8 DEF ConsumerCrash, Detach, segment, producer, history
<1>9. CASE Tick
  BY <1>9 DEF Tick, producer, consumer, history
<1>10. CASE UNCHANGED vars
  BY <1>10 DEF vars, segment, producer, consumer, history
<1> QED
  BY <1>1, <1>2, <1>3, <1>4, <1>5, <1>6, <1>7, <1>8, <1>9, <1>10
     DEF Next, Producer, Consume

\* The heartbeat of a segment stays old until its construction is complete.
LEMMA NextHeartbeatLast ==
  TypeOK /\ HeartbeatLast /\ CreatedOnly /\ UncreatedSilent /\ [Next]_vars
    => HeartbeatLast'
<1> SUFFICES ASSUME TypeOK, HeartbeatLast, CreatedOnly, UncreatedSilent,
                    [Next]_vars
             PROVE  HeartbeatLast'
  OBVIOUS
<1> USE SegmentAssumption DEF HeartbeatLast
<1>0. /\ stage \in [Segments -> Stages] /\ age \in [Segments -> 0 .. Threshold]
      /\ current \in Segments
  BY DEF TypeOK
<1>1. CASE RemoveSharedMemory \/ ProducerDies
  BY <1>1 DEF RemoveSharedMemory, ProducerDies, segment
<1>2. CASE Create
  <2>1. /\ current' = current + 1 /\ current + 1 \in Segments
        /\ stage' = [stage EXCEPT ![current + 1] = "created"]
        /\ ppc' = "created" /\ age' = age
    BY <1>2 DEF Create, CreatedOnly, TypeOK, Segments
  <2>2. age[current + 1] = Threshold
    BY <1>0, <2>1 DEF UncreatedSilent, Segments
  <2> QED BY <1>0, <2>1, <2>2
<1>3. CASE Truncate \/ ConstructMeta \/ ConstructMembers \/ ConstructActive
  <2>1. /\ stage[current] # "ready" /\ age' = age /\ current' = current
        /\ ppc' \in {"sized", "meta", "members", "ready"}
        /\ stage' = [stage EXCEPT ![current] = ppc']
    BY <1>3 DEF Truncate, ConstructMeta, ConstructMembers, ConstructActive, Construct
  <2> QED BY <1>0, <2>1
<1>4. CASE UpdateHeartbeat
  <2>1. /\ stage[current] = "ready" /\ stage' = stage /\ current' = current
        /\ age' = [age EXCEPT ![current] = 0] /\ ppc' = "running"
    BY <1>4 DEF UpdateHeartbeat
  <2> QED BY <1>0, <2>1
<1>5. CASE Write
  BY <1>5 DEF Write, producer
<1>6. CASE Consume \/ ConsumerCrash
  <2>1. UNCHANGED <<stage, age, ppc, current>>
    BY <1>6 DEF Consume, Read, Open, Map, Check, FirstReset, DisabledReset, ResetTo,
       IsProducerAlive, ReadDisabled, ReadEmpty, ReadSuccess, ConsumerCrash,
       segment, producer
  <2> QED BY <2>1
<1>7. CASE Tick
  <2>1. /\ UNCHANGED <<stage, ppc, current>>
        /\ \A s \in Segments : age'[s] < Threshold => age[s] < Threshold
    BY <1>0, <1>7 DEF Tick, producer
  <2> QED BY <2>1
<1>8. CASE UNCHANGED vars
  BY <1>8 DEF vars, segment, producer
<1> QED
  BY <1>1, <1>2, <1>3, <1>4, <1>5, <1>6, <1>7, <1>8 DEF Next, Producer, Start

\* Segments that were not created yet have no name and no consumer.
LEMMA NextCreatedOnly == TypeOK /\ CreatedOnly /\ [Next]_vars => CreatedOnly'
<1> SUFFICES ASSUME TypeOK, CreatedOnly, [Next]_vars PROVE CreatedOnly'
  OBVIOUS
<1> USE SegmentAssumption DEF CreatedOnly, None
<1>0. /\ current \in Segments
      /\ name \in Segments \union {None} /\ attached \in Segments \union {None}
      /\ role \in {"trader", "executor", "observer"}
  BY DEF TypeOK
<1>1. CASE Create
  BY <1>0, <1>1 DEF Create, consumer, Segments
<1>2. CASE RemoveSharedMemory
  BY <1>0, <1>2 DEF RemoveSharedMemory, consumer
<1>3. CASE Truncate \/ ConstructMeta \/ ConstructMembers \/ ConstructActive
  BY <1>3 DEF Truncate, ConstructMeta, ConstructMembers, ConstructActive, Construct,
     consumer
<1>4. CASE UpdateHeartbeat \/ Write \/ ProducerDies
  BY <1>4 DEF UpdateHeartbeat, Write, ProducerDies, producer, consumer
<1>5. CASE Open \/ Map \/ Check \/ IsProducerAlive \/ ConsumerCrash
  BY <1>0, <1>5 DEF Open, Map, Check, IsProducerAlive, ConsumerCrash, Detach, producer
<1>6. CASE FirstReset \/ DisabledReset \/ Read
  BY <1>6 DEF FirstReset, DisabledReset, ResetTo, Read, ReadDisabled, ReadEmpty,
     ReadSuccess, Detach, producer
<1>7. CASE Tick \/ UNCHANGED vars
  BY <1>7 DEF Tick, vars, producer, consumer
<1> QED BY <1>1, <1>2, <1>3, <1>4, <1>5, <1>6, <1>7 DEF Next, Producer, Start, Consume

\* A segment that was not created yet has no heartbeat.
LEMMA NextUncreatedSilent ==
  TypeOK /\ HeartbeatLast /\ UncreatedSilent /\ [Next]_vars => UncreatedSilent'
<1> SUFFICES ASSUME TypeOK, HeartbeatLast, UncreatedSilent, [Next]_vars,
                    NEW s \in Segments, s > current'
             PROVE  age'[s] = Threshold
  BY DEF UncreatedSilent
<1> USE SegmentAssumption
<1>0. current \in Segments /\ age \in [Segments -> 0 .. Threshold]
  BY DEF TypeOK
<1>1. CASE Create
  BY <1>0, <1>1 DEF Create, UncreatedSilent, Segments
<1>2. CASE UpdateHeartbeat
  BY <1>0, <1>2 DEF UpdateHeartbeat, UncreatedSilent, Segments
<1>3. CASE Tick
  BY <1>0, <1>3 DEF Tick, UncreatedSilent, producer
<1>4. CASE \/ RemoveSharedMemory \/ Truncate \/ ConstructMeta \/ ConstructMembers
           \/ ConstructActive \/ Write \/ ProducerDies \/ UNCHANGED vars
  BY <1>4 DEF RemoveSharedMemory, Truncate, ConstructMeta, ConstructMembers,
     ConstructActive, Construct, Write, ProducerDies, vars, segment, producer,
     UncreatedSilent
<1>5. CASE Consume \/ ConsumerCrash
  BY <1>5 DEF Consume, Read, Open, Map, Check, FirstReset, DisabledReset, ResetTo,
     IsProducerAlive, ReadDisabled, ReadEmpty, ReadSuccess, ConsumerCrash,
     segment, producer, UncreatedSilent
<1> QED BY <1>1, <1>2, <1>3, <1>4, <1>5 DEF Next, Producer, Start

\* What a consumer has checked of its segment stays true while it is attached.
LEMMA NextChecksPassed == IInv /\ [Next]_vars => ChecksPassed'
<1> SUFFICES ASSUME IInv, [Next]_vars PROVE ChecksPassed'
  OBVIOUS
<1> USE SegmentAssumption DEF ChecksPassed, NeverForeign, ReadsConstructed
<1>0. /\ TypeOK /\ HeartbeatLast /\ CreatedOnly /\ ChecksPassed
  BY DEF IInv
<1>1. /\ stage \in [Segments -> Stages] /\ kind \in [Segments -> Kinds]
      /\ age \in [Segments -> 0 .. Threshold] /\ current \in Segments
      /\ attached # None => attached \in Segments
  BY <1>0 DEF TypeOK
<1>2. CASE Producer \/ Tick \/ UNCHANGED vars
  <2>1. UNCHANGED <<kind, cpc, attached, role>>
    BY <1>2 DEF Producer, Start, RemoveSharedMemory, Create, Truncate, ConstructMeta,
       ConstructMembers, ConstructActive, Construct, UpdateHeartbeat, Write,
       ProducerDies, Tick, vars, segment, consumer
  <2>2. cpc = "read" /\ stage[attached] = "ready" => stage'[attached] = "ready"
    <3> SUFFICES ASSUME cpc = "read", stage[attached] = "ready"
                 PROVE  stage'[attached] = "ready"
      OBVIOUS
    <3>1. attached \in Segments /\ attached <= current
      BY <1>0, <1>1 DEF CreatedOnly
    <3>2. CASE Create
      BY <1>1, <3>1, <3>2 DEF Create, Segments
    <3>3. CASE Truncate \/ ConstructMeta \/ ConstructMembers \/ ConstructActive
      <4>1. stage[current] # "ready" /\ stage' = [stage EXCEPT ![current] = ppc']
        BY <1>0, <3>3 DEF Truncate, ConstructMeta, ConstructMembers, ConstructActive,
           Construct, HeartbeatLast
      <4> QED BY <1>1, <3>1, <4>1
    <3>4. CASE \/ RemoveSharedMemory \/ UpdateHeartbeat \/ Write \/ ProducerDies
               \/ Tick \/ UNCHANGED vars
      BY <3>4 DEF RemoveSharedMemory, UpdateHeartbeat, Write, ProducerDies, Tick,
         vars, segment
    <3> QED BY <1>2, <3>2, <3>3, <3>4 DEF Producer, Start
  <2> QED BY <1>0, <2>1, <2>2
<1>3. CASE Open
  BY <1>3 DEF Open
<1>4. CASE Map
  BY <1>0, <1>4 DEF Map, Detach, segment
<1>5. CASE Check
  <2>1. /\ kind' = kind
        /\ \/ cpc' = "open"
           \/ /\ attached' = attached /\ kind[attached] # "otherVersion"
              /\ kind[attached] # "otherSize"
              /\ cpc' = "read" => role = "observer"
              /\ cpc' # "check"
        /\ role' = role
    <3>1. role \in {"trader", "executor", "observer"}
      BY <1>0 DEF TypeOK
    <3> QED BY <1>0, <1>5, <3>1 DEF Check, Detach, segment
  <2>2. attached \in Segments
    BY <1>0, <1>1, <1>5 DEF Check, CreatedOnly
  <2>3. kind[attached] \in Kinds
    BY <1>1, <2>2
  <2> QED BY <2>1, <2>3 DEF Kinds
<1>6. CASE FirstReset
  BY <1>0, <1>6 DEF FirstReset, ResetTo
<1>7. CASE DisabledReset
  <2>1. role = "observer" \/ cpc # "disabled"
    BY <1>0 DEF CreatedOnly
  <2> QED BY <1>0, <1>7, <2>1 DEF DisabledReset, ResetTo
<1>8. CASE IsProducerAlive
  <2>1. attached \in Segments
    BY <1>0, <1>1, <1>8 DEF IsProducerAlive, CreatedOnly
  <2>2. age[attached] < Threshold => stage[attached] = "ready"
    BY <1>0, <2>1 DEF HeartbeatLast
  <2>3. age[attached] >= Threshold \/ age[attached] < Threshold
    BY <1>1, <2>1
  <2> QED BY <1>0, <1>8, <2>2, <2>3 DEF IsProducerAlive, Detach, segment
<1>9. CASE Read
  BY <1>0, <1>9 DEF Read, ReadDisabled, ReadEmpty, ReadSuccess, Detach, segment
<1>10. CASE ConsumerCrash
  BY <1>10 DEF ConsumerCrash, Detach
<1> QED
  BY <1>2, <1>3, <1>4, <1>5, <1>6, <1>7, <1>8, <1>9, <1>10 DEF Next, Consume

\* Who reads is attached to a segment.
LEMMA Reading == TypeOK /\ CreatedOnly /\ cpc = "read" => attached \in Segments
  BY DEF TypeOK, CreatedOnly

\* Nobody disables a complete ring but a Write, and a reset is of a disabled ring.
LEMMA NextExcused == IInv /\ [Next]_vars => DisabledExcused' /\ SkippedExcused'
<1> SUFFICES ASSUME IInv, [Next]_vars PROVE DisabledExcused' /\ SkippedExcused'
  OBVIOUS
<1> USE DEF DisabledExcused, SkippedExcused
<1>0. /\ TypeOK /\ HeartbeatLast /\ CreatedOnly /\ DisabledExcused /\ SkippedExcused
  BY DEF IInv
<1>1. /\ stage \in [Segments -> Stages] /\ active \in [Segments -> BOOLEAN]
      /\ current \in Segments /\ attached # None => attached \in Segments
      /\ role \in {"trader", "executor", "observer"}
  BY <1>0, SegmentAssumption DEF TypeOK
<1>2. CASE \/ RemoveSharedMemory \/ UpdateHeartbeat \/ ProducerDies \/ Open \/ Map
           \/ IsProducerAlive \/ ReadEmpty \/ ReadSuccess \/ ConsumerCrash \/ Tick
           \/ UNCHANGED vars
  <2>1. UNCHANGED <<stage, active, history, role>>
    BY <1>2 DEF RemoveSharedMemory, UpdateHeartbeat, ProducerDies, Open, Map, IsProducerAlive,
       ReadEmpty, ReadSuccess, ConsumerCrash, Tick, vars, segment, consumer
  <2>2. /\ cpc' = "disabled" => cpc = "disabled" /\ attached' = attached
        /\ cpc' = "firstReset" => cpc = "firstReset"
    BY <1>2 DEF RemoveSharedMemory, UpdateHeartbeat, ProducerDies, Open, Map, IsProducerAlive,
       ReadEmpty, ReadSuccess, ConsumerCrash, Tick, Detach, vars, consumer
  <2> QED BY <1>0, <2>1, <2>2 DEF history
<1>3. CASE Create
  BY <1>0, <1>1, <1>3 DEF Create, Segments, consumer, history
<1>4. CASE Truncate \/ ConstructMeta \/ ConstructMembers \/ ConstructActive
  <2>1. /\ stage' = [stage EXCEPT ![current] = ppc'] /\ UNCHANGED <<consumer, history>>
        /\ \/ ppc' # "ready" /\ \A s \in Segments \ {current} : active'[s] = active[s]
           \/ active' = [active EXCEPT ![current] = TRUE]
    BY <1>1, <1>4 DEF Truncate, ConstructMeta, ConstructMembers, ConstructActive, Construct
  <2> QED BY <1>0, <1>1, <2>1 DEF consumer, history
<1>5. CASE Write
  <2>1. /\ UNCHANGED <<stage, consumer, skipped>>
        /\ \/ /\ active' = [active EXCEPT ![current] = FALSE]
              /\ excused' = excused \union {current}
           \/ UNCHANGED <<active, excused>>
    BY <1>5 DEF Write
  <2> QED BY <1>0, <1>1, <2>1 DEF consumer
<1>6. CASE Check
  BY <1>0, <1>1, <1>6 DEF Check, Detach, segment, history
<1>7. CASE FirstReset
  BY <1>0, <1>1, <1>7 DEF FirstReset, ResetTo
<1>8. CASE DisabledReset
  BY <1>0, <1>1, <1>8 DEF DisabledReset, ResetTo
<1>9. CASE ReadDisabled
  <2>1. attached \in Segments
    BY <1>9, Reading DEF IInv, ReadDisabled
  <2>2. attached \in excused' /\ excused \subseteq excused'
    BY <1>0, <1>9, <2>1 DEF ReadDisabled
  <2>3. /\ UNCHANGED <<stage, active, role, skipped>> /\ cpc' # "firstReset"
        /\ cpc' = "disabled" => attached' = attached
    BY <1>9 DEF ReadDisabled, Detach, segment
  <2> QED BY <1>0, <2>2, <2>3
<1> QED
  BY <1>2, <1>3, <1>4, <1>5, <1>6, <1>7, <1>8, <1>9
     DEF Next, Producer, Start, Consume, Read

\* Every reachable state satisfies the inductive invariant.
THEOREM Invariant == Spec => []IInv
<1>1. IInv /\ [Next]_vars => IInv'
  BY NextTypeOK, NextHeartbeatLast, NextCreatedOnly, NextUncreatedSilent,
     NextChecksPassed, NextExcused DEF IInv
<1> QED BY InitIInv, <1>1, PTL DEF Spec

\* No consumer uses a segment of another version or layout.
THEOREM OwnLayout == Spec => []NeverForeign
<1>1. IInv => NeverForeign
  BY DEF IInv, ChecksPassed
<1> QED BY Invariant, <1>1, PTL

\* A trader and the executor never read a ring under construction.
THEOREM Constructed == Spec => []ReadsConstructed
<1>1. IInv => ReadsConstructed
  BY DEF IInv, ChecksPassed
<1> QED BY Invariant, <1>1, PTL

\* An observer skips nothing but what overflowed or was not constructed when it opened.
THEOREM Excused == Spec => []SkippedExcused
<1>1. IInv => SkippedExcused
  BY DEF IInv
<1> QED BY Invariant, <1>1, PTL

=============================================================================
