------------------------ MODULE SpscRingBufferProofs ------------------------
(***************************************************************************)
(* Proofs, for every ring length, number of writes, number of crashes and  *)
(* use of ResetConsumer, that SpscRingBuffer is type correct, that it      *)
(* loses and mixes up nothing while the consumer is enabled, and that it   *)
(* implements LossyChannel.                                                *)
(*                                                                         *)
(* UnreadIntact and FifoWhileEnabled are not inductive: what makes them    *)
(* true is that the last BufferLength - 1 elements are always intact       *)
(* (LastLapIntact), that an enabled consumer is at most that far behind    *)
(* (LagIsDistance), that a Read under way copies the next element          *)
(* (ReadIsNext), and that a reset which ends in time puts tail at the      *)
(* distance it claims (ResetIsRecent).  IInv is their conjunction.         *)
(***************************************************************************)
EXTENDS SpscRingBuffer, TLAPS

\* Adding one to an index of the ring and masking it goes to the next slot,
\* around the end.
LEMMA IncrementSlot ==
  ASSUME NEW s \in Slots
  PROVE  /\ Increment(s) = IF s = BufferLength - 1 THEN 0 ELSE s + 1
         /\ Increment(s) \in Slots
<1>1. CASE s = BufferLength - 1
  BY <1>1, RingAssumption DEF Increment, Slots
<1>2. CASE s # BufferLength - 1
  BY <1>2, RingAssumption DEF Increment, Slots
<1> QED BY <1>1, <1>2

\* How the distance of two indices changes when either is advanced, and what
\* the two comparisons of the code say about it.
LEMMA DistSlot ==
  ASSUME NEW t \in Slots, NEW h \in Slots
  PROVE  /\ Dist(t, h) \in 0 .. BufferLength - 1
         /\ Dist(t, Increment(h)) =
              IF Dist(t, h) = BufferLength - 1 THEN 0 ELSE Dist(t, h) + 1
         /\ Dist(t, h) # 0 => Dist(Increment(t), h) = Dist(t, h) - 1
         /\ Increment(h) = t <=> Dist(t, h) = BufferLength - 1
         /\ h = t <=> Dist(t, h) = 0
<1>1. /\ Increment(h) = IF h = BufferLength - 1 THEN 0 ELSE h + 1
      /\ Increment(t) = IF t = BufferLength - 1 THEN 0 ELSE t + 1
  BY IncrementSlot
<1> QED BY <1>1, RingAssumption DEF Dist, Slots

\* The slots of the last BufferLength - 1 elements do not include the one the
\* next Write copies to, and move back by one when it is published.
LEMMA BackSlot ==
  ASSUME NEW h \in Slots, NEW j \in 0 .. BufferLength - 2
  PROVE  /\ Back(h, j) \in Slots
         /\ Back(h, j) # Increment(h)
         /\ Back(Increment(h), j + 1) = Back(h, j)
         /\ Back(Increment(h), 0) = Increment(h)
<1>1. Increment(h) = IF h = BufferLength - 1 THEN 0 ELSE h + 1
  BY IncrementSlot
<1> QED BY <1>1, RingAssumption DEF Back, Slots

\* The inductive invariant holds of a freshly constructed ring.
THEOREM InitIInv == Init => IInv
<1> SUFFICES ASSUME Init PROVE IInv
  OBVIOUS
<1>1. TypeOK
  BY RingAssumption DEF Init, TypeOK, Slots, Whole, ReadResults, EntryPoint
<1>2. LastLapIntact
  BY RingAssumption DEF Init, LastLapIntact
<1>3. LagIsDistance
  BY RingAssumption DEF Init, LagIsDistance, Dist
<1>4. ReadIsNext /\ ResetIsRecent
  BY RingAssumption DEF Init, ReadIsNext, ResetIsRecent, EntryPoint
<1> QED BY <1>1, <1>2, <1>3, <1>4 DEF IInv

\* Every step of Next preserves the type invariant.
LEMMA NextTypeOK == TypeOK /\ [Next]_vars => TypeOK'
<1> SUFFICES ASSUME TypeOK, [Next]_vars PROVE TypeOK'
  OBVIOUS
<1> USE RingAssumption DEF TypeOK
<1>0. Increment(head) \in Slots /\ Increment(tail) \in Slots
  BY IncrementSlot
<1>1. CASE WriteCheck
  BY <1>1 DEF WriteCheck, ring, consumer, history
<1>2. CASE WriteDisable
  BY <1>2 DEF WriteDisable, consumer, history
<1>3. CASE WriteLo
  BY <1>0, <1>3 DEF WriteLo, consumer, history
<1>4. CASE WriteHi
  BY <1>0, <1>4 DEF WriteHi, consumer, history
<1>5. CASE WritePublish
  BY <1>0, <1>5 DEF WritePublish, consumer
<1>6. CASE ReadActive
  BY <1>6 DEF ReadActive, ReadResults, ring, history
<1>7. CASE ReadHead
  BY <1>7 DEF ReadHead, ReadResults, ring, history
<1>8. CASE ReadLo
  BY <1>0, <1>8 DEF ReadLo, ring, history
<1>9. CASE ReadHi
  BY <1>0, <1>9 DEF ReadHi, ring, history
<1>10. CASE ReadPublish
  BY <1>0, <1>10 DEF ReadPublish, ReadResults
<1>11. CASE ResetHead
  BY <1>11 DEF ResetHead, ring
<1>12. CASE ResetTail
  BY <1>12 DEF ResetTail, ReadResults
<1>13. CASE ResetActive
  BY <1>13 DEF ResetActive
<1>14. CASE ConsumerRestart
  BY <1>14 DEF ConsumerRestart, EntryPoint, ReadResults, ring, history
<1>15. CASE ConsumerCrash
  BY <1>15 DEF ConsumerCrash, ReadResults, ring, history
<1>16. CASE UNCHANGED vars
  BY <1>16 DEF vars, ring, consumer, history
<1> QED
  BY <1>1, <1>2, <1>3, <1>4, <1>5, <1>6, <1>7, <1>8, <1>9, <1>10, <1>11,
     <1>12, <1>13, <1>14, <1>15, <1>16 DEF Next, Write, Read, ResetConsumer

\* Every variable keeps its type in every reachable state.
THEOREM TypeCorrect == Spec => []TypeOK
<1>1. Init => TypeOK
  BY InitIInv DEF IInv
<1>2. TypeOK /\ [Next]_vars => TypeOK'
  BY NextTypeOK
<1> QED BY <1>1, <1>2, PTL DEF Spec

\* The last BufferLength - 1 elements stay intact: a Write copies to the one
\* slot that holds none of them.
LEMMA NextLastLap == TypeOK /\ LastLapIntact /\ [Next]_vars => LastLapIntact'
<1> SUFFICES ASSUME TypeOK, LastLapIntact, [Next]_vars PROVE LastLapIntact'
  OBVIOUS
<1> USE RingAssumption
<1>0. /\ head \in Slots /\ Increment(head) \in Slots /\ published \in Nat
      /\ data \in [Slots -> [lo : Nat, hi : Nat]]
  BY IncrementSlot DEF TypeOK
<1>1. CASE WriteLo
  <2>1. /\ data' = [data EXCEPT ![Increment(head)].lo = published + 1]
        /\ wpc' = "copyHi" /\ head' = head /\ published' = published
    BY <1>1 DEF WriteLo, history
  <2>2. data'[Increment(head)].lo = published + 1
    BY <1>0, <2>1
  <2>3. \A j \in 0 .. BufferLength - 2 : data'[Back(head, j)] = data[Back(head, j)]
    BY <1>0, <2>1, BackSlot
  <2>4. \A j \in 0 .. BufferLength - 2 :
          published - j >= 1 => data'[Back(head, j)] = Whole(published - j)
    BY <2>3 DEF LastLapIntact
  <2> QED BY <2>1, <2>2, <2>4 DEF LastLapIntact, Back, Increment, Whole
<1>2. CASE WriteHi
  <2>1. /\ data' = [data EXCEPT ![Increment(head)].hi = published + 1]
        /\ wpc = "copyHi" /\ wpc' = "publish"
        /\ head' = head /\ published' = published
    BY <1>2 DEF WriteHi, history
  <2>2. data[Increment(head)].lo = published + 1
    BY <2>1 DEF LastLapIntact
  <2>3. data'[Increment(head)] = [data[Increment(head)] EXCEPT !.hi = published + 1]
    BY <1>0, <2>1
  <2>4. data'[Increment(head)] = Whole(published + 1)
    BY <1>0, <2>2, <2>3 DEF Whole
  <2>5. \A j \in 0 .. BufferLength - 2 : data'[Back(head, j)] = data[Back(head, j)]
    BY <1>0, <2>1, BackSlot
  <2>6. \A j \in 0 .. BufferLength - 2 :
          published - j >= 1 => data'[Back(head, j)] = Whole(published - j)
    BY <2>5 DEF LastLapIntact
  <2> QED BY <2>1, <2>4, <2>6 DEF LastLapIntact, Back, Increment, Whole
<1>3. CASE WritePublish
  <2>1. /\ head' = Increment(head) /\ published' = published + 1 /\ data' = data
        /\ wpc = "publish" /\ wpc' = "idle"
    BY <1>3 DEF WritePublish
  <2>2. ASSUME NEW j \in 0 .. BufferLength - 2, published + 1 - j >= 1
        PROVE  data[Back(Increment(head), j)] = Whole(published + 1 - j)
    <3>1. CASE j = 0
      <4>1. Back(Increment(head), 0) = Increment(head)
        BY <1>0, <3>1, BackSlot
      <4>2. data[Increment(head)] = Whole(published + 1)
        BY <2>1 DEF LastLapIntact
      <4> QED BY <1>0, <3>1, <4>1, <4>2
    <3>2. CASE j # 0
      <4>1. PICK i \in 0 .. BufferLength - 2 : j = i + 1
        BY <3>2
      <4>2. Back(Increment(head), j) = Back(head, i)
        BY <1>0, <4>1, BackSlot
      <4>3. published - i >= 1 /\ published - i = published + 1 - j
        BY <1>0, <2>2, <4>1
      <4>4. data[Back(head, i)] = Whole(published - i)
        BY <4>3 DEF LastLapIntact
      <4> QED BY <4>2, <4>3, <4>4
    <3> QED BY <3>1, <3>2
  <2>3. /\ \A j \in 0 .. BufferLength - 2 : published' - j >= 1 =>
             data'[Back(head', j)] = Whole(published' - j)
        /\ wpc' \notin {"copyHi", "publish"}
    BY <1>0, <2>1, <2>2 DEF Back
  <2> QED BY <2>3 DEF LastLapIntact, Back, Increment, Whole
<1>4. CASE /\ UNCHANGED <<data, head, published>>
           /\ wpc' = wpc \/ wpc' \in {"disable", "copyLo"}
  BY <1>4 DEF LastLapIntact, Back, Increment, Whole
<1>5. ASSUME ~(WriteLo \/ WriteHi \/ WritePublish)
      PROVE  /\ UNCHANGED <<data, head, published>>
             /\ wpc' = wpc \/ wpc' \in {"disable", "copyLo"}
  BY <1>5 DEF Next, Write, Read, ResetConsumer, WriteCheck, WriteDisable,
     ReadActive, ReadHead, ReadLo, ReadHi, ReadPublish, ResetHead, ResetTail,
     ResetActive, ConsumerRestart, ConsumerCrash, vars, ring, consumer, history
<1> QED BY <1>1, <1>2, <1>3, <1>4, <1>5

\* An enabled consumer stays less than a lap behind: Write disables it first,
\* and ResetConsumer only enables it at a position it can trust in time.
LEMMA NextLag ==
  TypeOK /\ LagIsDistance /\ ReadIsNext /\ ResetIsRecent /\ [Next]_vars
    => LagIsDistance'
<1> SUFFICES ASSUME TypeOK, LagIsDistance, ReadIsNext, ResetIsRecent,
                    [Next]_vars, Trusted'
             PROVE  LagIsDistance'
  BY DEF LagIsDistance
<1> USE RingAssumption
<1>0. /\ head \in Slots /\ tail \in Slots /\ resetHead \in Slots
      /\ published \in Nat /\ consumed \in Nat /\ resetAt \in Nat
      /\ wpc \in {"idle", "disable", "copyLo", "copyHi", "publish"}
  BY DEF TypeOK
<1>1. CASE WriteCheck
  <2>1. Trusted
    BY <1>1 DEF WriteCheck, Trusted, ring, history
  <2>2. Increment(head) # tail => Dist(tail, head) # BufferLength - 1
    BY <1>0, DistSlot
  <2> QED BY <1>0, <1>1, <2>1, <2>2 DEF WriteCheck, LagIsDistance, Dist,
             ring, history
<1>2. CASE WritePublish
  <2>1. Trusted /\ wpc = "publish"
    BY <1>2 DEF WritePublish, Trusted
  <2>2. published + 1 - consumed <= BufferLength - 1
    BY <2>1 DEF LagIsDistance
  <2>3. Dist(tail, Increment(head)) = published + 1 - consumed
    BY <1>0, <2>1, <2>2, DistSlot DEF LagIsDistance
  <2>4. Dist(tail', head') = published' - consumed'
    BY <1>0, <1>2, <2>3 DEF WritePublish, Dist
  <2>5. /\ consumed' <= published' /\ published' - consumed' <= BufferLength - 1
        /\ wpc' = "idle"
    BY <1>0, <1>2, <2>1, <2>2 DEF WritePublish, LagIsDistance
  <2> QED BY <2>4, <2>5 DEF LagIsDistance, Dist
<1>3. CASE ReadPublish
  <2>1. Trusted /\ published - consumed >= 1
    BY <1>3 DEF ReadPublish, Trusted, ReadIsNext
  <2>2. Dist(Increment(tail), head) = published - (consumed + 1)
    BY <1>0, <2>1, DistSlot DEF LagIsDistance
  <2>3. Dist(tail', head') = published' - consumed'
    BY <1>3, <2>2 DEF ReadPublish
  <2> QED BY <1>0, <1>3, <2>1, <2>3 DEF ReadPublish, LagIsDistance, Dist
<1>4. CASE ResetActive
  <2>1. /\ Begun - resetAt < BufferLength
        /\ tail = resetHead /\ consumed = resetAt /\ resetAt <= published
        /\ published - resetAt <= BufferLength - 1 =>
             Dist(resetHead, head) = published - resetAt
    BY <1>4 DEF ResetActive, Trusted, ResetIsRecent
  <2>2. /\ Begun >= published
        /\ wpc \in {"copyLo", "copyHi", "publish"} => Begun = published + 1
    BY <1>0 DEF Begun
  <2>3. Begun \in Nat
    BY <1>0 DEF Begun
  <2>4. /\ consumed <= published /\ published - consumed <= BufferLength - 1
        /\ Dist(tail, head) = published - consumed
        /\ wpc \in {"copyLo", "copyHi", "publish"} =>
             published + 1 - consumed <= BufferLength - 1
    BY <1>0, <2>1, <2>2, <2>3
  <2> QED BY <1>4, <2>4 DEF ResetActive, LagIsDistance, Dist
<1>5. CASE WriteLo \/ WriteHi
  <2>1. /\ Trusted /\ wpc \in {"copyLo", "copyHi"}
        /\ UNCHANGED <<head, tail, published, consumed>>
    BY <1>5 DEF WriteLo, WriteHi, Trusted, history
  <2> QED BY <1>0, <2>1 DEF LagIsDistance, Dist
<1>6. CASE WriteDisable \/ ResetTail
  BY <1>6 DEF WriteDisable, ResetTail, Trusted
<1>7. CASE \/ ReadActive \/ ReadHead \/ ReadLo \/ ReadHi \/ ResetHead
           \/ ConsumerRestart \/ ConsumerCrash \/ UNCHANGED vars
  <2>1. Trusted /\ UNCHANGED <<head, tail, wpc, published, consumed>>
    BY <1>7 DEF ReadActive, ReadHead, ReadLo, ReadHi, ResetHead,
       ConsumerRestart, ConsumerCrash, Trusted, vars, ring, consumer, history
  <2> QED BY <2>1 DEF LagIsDistance, Dist
<1> QED
  BY <1>1, <1>2, <1>3, <1>4, <1>5, <1>6, <1>7 DEF Next, Write, Read, ResetConsumer

\* What an enabled consumer copies next is the element it has not read yet.
LEMMA NextUnread ==
  ASSUME TypeOK, LastLapIntact, LagIsDistance, Trusted, published - consumed >= 1
  PROVE  data[Increment(tail)] = Whole(consumed + 1)
<1> USE RingAssumption
<1>0. /\ head \in Slots /\ tail \in Slots
      /\ published \in Nat /\ consumed \in Nat
  BY DEF TypeOK
<1>1. /\ Dist(tail, head) = published - consumed
      /\ published - consumed <= BufferLength - 1
  BY DEF LagIsDistance
<1> DEFINE j == published - consumed - 1
<1>2. j \in 0 .. BufferLength - 2 /\ published - j = consumed + 1
  BY <1>0, <1>1
<1>3. Back(head, j) = Increment(tail)
  BY <1>0, <1>1, <1>2, IncrementSlot DEF Back, Dist, Slots
<1>4. data[Back(head, j)] = Whole(published - j)
  BY <1>0, <1>2 DEF LastLapIntact
<1> QED BY <1>2, <1>3, <1>4

\* A Read that an enabled consumer has under way copies the next element.
LEMMA NextRead ==
  TypeOK /\ LastLapIntact /\ LagIsDistance /\ ReadIsNext /\ ResetIsRecent
    /\ [Next]_vars => ReadIsNext'
<1> SUFFICES ASSUME TypeOK, LastLapIntact, LagIsDistance, ReadIsNext,
                    ResetIsRecent, [Next]_vars, Trusted'
             PROVE  ReadIsNext'
  BY DEF ReadIsNext
<1> USE RingAssumption
<1>0. /\ head \in Slots /\ tail \in Slots
      /\ published \in Nat /\ consumed \in Nat
      /\ buffer \in [lo : Nat, hi : Nat]
  BY DEF TypeOK
<1>1. CASE Write
  <2>1. /\ UNCHANGED <<rpc, buffer, result, consumed>>
        /\ published' = published \/ published' = published + 1
    BY <1>1 DEF Write, WriteCheck, WriteDisable, WriteLo, WriteHi,
       WritePublish, consumer, history
  <2>2. Trusted
    <3>1. CASE WriteDisable
      BY <3>1 DEF WriteDisable, Trusted
    <3>2. CASE WriteCheck
      BY <3>2 DEF WriteCheck, Trusted, ring, history
    <3>3. CASE WriteLo \/ WriteHi \/ WritePublish
      BY <3>3 DEF WriteLo, WriteHi, WritePublish, Trusted, history
    <3> QED BY <1>1, <3>1, <3>2, <3>3 DEF Write
  <2> QED BY <1>0, <2>1, <2>2 DEF ReadIsNext, Whole
<1>2. CASE ReadActive
  <2>1. rpc' \in {"readHead", "resetHead", "exited"} /\ result' # "kSuccess"
    BY <1>2 DEF ReadActive
  <2> QED BY <2>1 DEF ReadIsNext
<1>3. CASE ReadHead
  <2>1. /\ UNCHANGED <<published, consumed>> /\ result' # "kSuccess"
        /\ \/ rpc' = "read"
           \/ rpc' = "copyLo" /\ tail # head
    BY <1>3 DEF ReadHead, history
  <2>2. Trusted
    BY <1>3 DEF ReadHead, Trusted, ring, history
  <2>3. tail # head => published - consumed >= 1
    BY <1>0, <2>2, DistSlot DEF LagIsDistance
  <2> QED BY <2>1, <2>3 DEF ReadIsNext
<1>4. CASE ReadLo
  <2>1. /\ Trusted /\ UNCHANGED <<published, consumed, result>>
        /\ rpc = "copyLo" /\ rpc' = "copyHi"
        /\ buffer' = [buffer EXCEPT !.lo = data[Increment(tail)].lo]
    BY <1>4 DEF ReadLo, Trusted, ring, history
  <2>2. published - consumed >= 1
    BY <2>1 DEF ReadIsNext
  <2>3. buffer'.lo = consumed + 1
    BY <1>0, <2>1, <2>2, NextUnread DEF Whole
  <2>4. result # "kSuccess"
    BY <2>1 DEF ReadIsNext
  <2> QED BY <2>1, <2>2, <2>3, <2>4 DEF ReadIsNext
<1>5. CASE ReadHi
  <2>1. /\ Trusted /\ UNCHANGED <<published, consumed, result>>
        /\ rpc = "copyHi" /\ rpc' = "publish"
        /\ buffer' = [buffer EXCEPT !.hi = data[Increment(tail)].hi]
    BY <1>5 DEF ReadHi, Trusted, ring, history
  <2>2. published - consumed >= 1 /\ buffer.lo = consumed + 1
    BY <2>1 DEF ReadIsNext
  <2>3. buffer' = Whole(consumed + 1)
    BY <1>0, <2>1, <2>2, NextUnread DEF Whole
  <2>4. result # "kSuccess"
    BY <2>1 DEF ReadIsNext
  <2> QED BY <2>1, <2>2, <2>3, <2>4 DEF ReadIsNext
<1>6. CASE ReadPublish
  <2>1. /\ Trusted /\ buffer' = buffer /\ consumed' = consumed + 1
        /\ rpc = "publish" /\ rpc' = "read"
    BY <1>6 DEF ReadPublish, Trusted
  <2> QED BY <2>1 DEF ReadIsNext, Whole
<1>7. CASE ResetConsumer
  <2>1. rpc' \in {"resetTail", "resetActive", "read"} /\ result' # "kSuccess"
    BY <1>7 DEF ResetConsumer, ResetHead, ResetTail, ResetActive, ResetIsRecent
  <2> QED BY <2>1 DEF ReadIsNext
<1>8. CASE ConsumerRestart \/ ConsumerCrash
  <2>1. rpc' \in {"resetHead", "read", "exited"} /\ result' # "kSuccess"
    BY <1>8 DEF ConsumerRestart, ConsumerCrash, EntryPoint
  <2> QED BY <2>1 DEF ReadIsNext
<1>9. CASE UNCHANGED vars
  BY <1>9 DEF vars, ring, consumer, history, ReadIsNext, Trusted, Whole
<1> QED
  BY <1>1, <1>2, <1>3, <1>4, <1>5, <1>6, <1>7, <1>8, <1>9 DEF Next, Read


\* The head that ResetConsumer loaded stays as far behind as it is old.
LEMMA NextReset == TypeOK /\ ResetIsRecent /\ [Next]_vars => ResetIsRecent'
<1> SUFFICES ASSUME TypeOK, ResetIsRecent, [Next]_vars PROVE ResetIsRecent'
  OBVIOUS
<1> USE RingAssumption
<1>0. /\ head \in Slots /\ resetHead \in Slots
      /\ published \in Nat /\ resetAt \in Nat
  BY DEF TypeOK
<1>1. CASE WritePublish
  <2>1. /\ head' = Increment(head) /\ published' = published + 1
        /\ UNCHANGED <<tail, rpc, resetHead, result, consumed, resetAt, synced>>
    BY <1>1 DEF WritePublish, consumer
  <2>2. ASSUME rpc \in {"resetTail", "resetActive"},
               published + 1 - resetAt <= BufferLength - 1
        PROVE  Dist(resetHead, Increment(head)) = published + 1 - resetAt
    <3>1. Dist(resetHead, head) = published - resetAt
      BY <1>0, <2>2 DEF ResetIsRecent
    <3> QED BY <1>0, <2>2, <3>1, DistSlot DEF ResetIsRecent
  <2>3. rpc' \in {"resetTail", "resetActive"} =>
          /\ resetAt' <= published'
          /\ published' - resetAt' <= BufferLength - 1 =>
               Dist(resetHead', head') = published' - resetAt'
    BY <1>0, <2>1, <2>2 DEF ResetIsRecent
  <2> QED BY <2>1, <2>3 DEF ResetIsRecent, Dist
<1>2. CASE WriteCheck \/ WriteDisable \/ WriteLo \/ WriteHi
  <2>1. UNCHANGED <<head, tail, rpc, resetHead, result, published, consumed,
                    resetAt, synced>>
    BY <1>2 DEF WriteCheck, WriteDisable, WriteLo, WriteHi, ring, consumer, history
  <2> QED BY <2>1 DEF ResetIsRecent, Dist
<1>3. CASE ResetHead
  <2>1. /\ rpc' = "resetTail" /\ resetHead' = head' /\ resetAt' = published'
        /\ head' \in Slots /\ published' \in Nat /\ result' # "kSuccess"
    BY <1>0, <1>3 DEF ResetHead, ResetIsRecent, ring
  <2>2. resetAt' <= published' /\ published' - resetAt' = 0
    BY <1>0, <1>3 DEF ResetHead, history
  <2>3. Dist(resetHead', head') = 0
    BY <1>0, <1>3 DEF ResetHead, ring, Dist, Slots
  <2> QED BY <2>1, <2>2, <2>3 DEF ResetIsRecent, Dist
<1>4. CASE ResetTail
  <2>1. /\ rpc = "resetTail" /\ rpc' = "resetActive"
        /\ UNCHANGED <<head, resetHead, published, resetAt>>
        /\ tail' = resetHead' /\ consumed' = resetAt' /\ ~synced'
        /\ result' # "kSuccess"
    BY <1>4 DEF ResetTail
  <2> QED BY <2>1 DEF ResetIsRecent, Dist
<1>5. CASE ReadActive
  <2>1. /\ rpc' \notin {"resetTail", "resetActive"} /\ result' # "kSuccess"
    BY <1>5 DEF ReadActive
  <2> QED BY <2>1 DEF ResetIsRecent
<1>6. CASE ReadHead \/ ReadLo \/ ReadHi \/ ReadPublish \/ ResetActive
  <2>1. rpc' \notin {"resetHead", "resetTail", "resetActive"}
    BY <1>6 DEF ReadHead, ReadLo, ReadHi, ReadPublish, ResetActive
  <2> QED BY <2>1 DEF ResetIsRecent
<1>7. CASE ConsumerRestart \/ ConsumerCrash
  <2>1. rpc' \notin {"resetTail", "resetActive"} /\ result' # "kSuccess"
    BY <1>7 DEF ConsumerRestart, ConsumerCrash, EntryPoint
  <2> QED BY <2>1 DEF ResetIsRecent
<1>8. CASE UNCHANGED vars
  BY <1>8 DEF vars, ring, consumer, history, ResetIsRecent, Dist
<1> QED
  BY <1>1, <1>2, <1>3, <1>4, <1>5, <1>6, <1>7, <1>8
     DEF Next, Write, Read, ResetConsumer

\* Every reachable state of the ring satisfies the inductive invariant.
THEOREM Invariant == Spec => []IInv
<1>1. IInv /\ [Next]_vars => IInv'
  BY NextTypeOK, NextLastLap, NextLag, NextRead, NextReset DEF IInv
<1> QED BY InitIInv, <1>1, PTL DEF Spec

\* A Read that returns kSuccess to an enabled consumer hands out the next
\* element, whole.
THEOREM Fifo == Spec => []FifoWhileEnabled
<1>1. IInv => FifoWhileEnabled
  BY DEF IInv, ReadIsNext, FifoWhileEnabled
<1> QED BY Invariant, <1>1, PTL

\* What an enabled consumer has not read yet is intact in the ring.
THEOREM NoOverflow == Spec => []UnreadIntact
<1>1. IInv => UnreadIntact
  <2> SUFFICES ASSUME IInv, Trusted
               PROVE  /\ published - consumed \in 0 .. BufferLength - 1
                      /\ \A k \in 1 .. published - consumed :
                           data[(tail + k) % BufferLength] = Whole(consumed + k)
    BY DEF UnreadIntact
  <2> USE RingAssumption
  <2>0. /\ head \in Slots /\ tail \in Slots
        /\ published \in Nat /\ consumed \in Nat
    BY DEF IInv, TypeOK
  <2>1. /\ published - consumed \in 0 .. BufferLength - 1
        /\ Dist(tail, head) = published - consumed
    BY <2>0 DEF IInv, LagIsDistance
  <2>2. ASSUME NEW k \in 1 .. published - consumed
        PROVE  data[(tail + k) % BufferLength] = Whole(consumed + k)
    <3> DEFINE j == published - consumed - k
    <3>1. j \in 0 .. BufferLength - 2 /\ published - j = consumed + k
      BY <2>0, <2>1
    <3>2. (tail + k) % BufferLength =
             IF tail + k < BufferLength THEN tail + k ELSE tail + k - BufferLength
      BY <2>0, <2>1 DEF Slots
    <3>3. Back(head, j) = (tail + k) % BufferLength
      BY <2>0, <2>1, <3>1, <3>2 DEF Back, Dist, Slots
    <3>4. data[Back(head, j)] = Whole(published - j)
      BY <2>0, <3>1 DEF IInv, LastLapIntact
    <3> QED BY <3>1, <3>3, <3>4
  <2> QED BY <2>1, <2>2
<1> QED BY Invariant, <1>1, PTL

\* The copies of Write and Read never meet in a slot of an enabled consumer.
THEOREM CopiesApart == Spec => []NoConcurrentCopy
<1>1. IInv => NoConcurrentCopy
  <2> SUFFICES ASSUME IInv, Trusted, rpc \in {"copyLo", "copyHi"}
               PROVE  Increment(head) # Increment(tail)
    BY DEF NoConcurrentCopy
  <2>1. head \in Slots /\ tail \in Slots
    BY DEF IInv, TypeOK
  <2>2. Dist(tail, head) # 0
    BY DEF IInv, TypeOK, LagIsDistance, ReadIsNext
  <2> QED BY <2>1, <2>2, IncrementSlot, DistSlot, RingAssumption DEF Slots
<1> QED BY Invariant, <1>1, PTL


-----------------------------------------------------------------------------

\* Whatever a step does to a consumer that it leaves disabled is a Disable of
\* the abstract channel, if it does not publish.
LEMMA DisableStep ==
  ASSUME TypeOK', ~Trusted', published' = published
  PROVE  Channel!Disable
<1>1. consumed' \in Nat /\ Held' \in Int
  BY DEF TypeOK, Held
<1> QED BY <1>1 DEF Channel!Disable

\* Every step of the ring is a step of the abstract channel or leaves it alone.
LEMMA StepRefines ==
  ASSUME IInv, IInv', [Next]_vars
  PROVE  [Channel!Next]_(Channel!vars)
<1> USE RingAssumption
<1>0. /\ TypeOK /\ TypeOK'
      /\ published \in Nat /\ consumed \in Nat
  BY DEF IInv, TypeOK
<1>1. CASE ~Trusted' /\ published' = published
  BY <1>0, <1>1, DisableStep DEF Channel!Next
<1>2. ASSUME UNCHANGED <<published, consumed>>, Trusted' = Trusted,
             Held' = Held \/ Held' = 0
      PROVE  [Channel!Next]_(Channel!vars)
  BY <1>2 DEF Channel!Next, Channel!ReceiveNone, Channel!vars
<1>3. CASE WritePublish
  <2>1. /\ published' = published + 1 /\ consumed' = consumed
        /\ Trusted' = Trusted /\ Held' = Held /\ wpc = "publish"
    BY <1>3 DEF WritePublish, Trusted, Held, consumer
  <2>2. Trusted => published - consumed < BufferLength - 1
    BY <1>0, <2>1 DEF IInv, LagIsDistance
  <2> QED BY <2>1, <2>2 DEF Channel!Next, Channel!Send
<1>4. CASE ReadPublish /\ Trusted'
  <2>1. /\ published' = published /\ consumed' = consumed + 1
        /\ result' = "kSuccess" /\ rpc = "publish" /\ Trusted' = Trusted
    BY <1>4 DEF ReadPublish, Trusted
  <2>2. buffer' = Whole(consumed')
    BY <1>4, <2>1 DEF IInv, ReadIsNext, Whole
  <2>3. Held' = consumed + 1
    BY <2>1, <2>2 DEF Held, Whole
  <2>4. consumed < published
    BY <1>0, <1>4, <2>1 DEF IInv, ReadIsNext
  <2> QED BY <1>4, <2>1, <2>3, <2>4 DEF Channel!Next, Channel!Receive
<1>5. CASE ResetActive /\ Trusted'
  <2>1. published' = published /\ Held' = 0 /\ ~Trusted
    BY <1>5 DEF ResetActive, Trusted, Held, IInv, ResetIsRecent
  <2>2. consumed <= published /\ published - consumed <= BufferLength - 1
    BY <1>5 DEF ResetActive, IInv, LagIsDistance
  <2>3. consumed' = consumed /\ published - consumed \in 0 .. BufferLength - 1
    BY <1>0, <1>5, <2>2 DEF ResetActive
  <2> QED BY <1>0, <1>5, <2>1, <2>3 DEF Channel!Next, Channel!Enable
<1>6. CASE \/ WriteCheck \/ WriteLo \/ WriteHi \/ ReadActive \/ ReadHead
           \/ ResetHead \/ ConsumerRestart \/ ConsumerCrash \/ UNCHANGED vars
  <2>1. UNCHANGED <<published, consumed>> /\ Trusted' = Trusted
    BY <1>6 DEF WriteCheck, WriteLo, WriteHi, ReadActive, ReadHead, ResetHead,
       ConsumerRestart, ConsumerCrash, Trusted, vars, ring, consumer, history
  <2>2. UNCHANGED <<result, buffer>> \/ result' # "kSuccess"
    BY <1>6 DEF WriteCheck, WriteLo, WriteHi, ReadActive, ReadHead, ResetHead,
       ConsumerRestart, ConsumerCrash, vars, ring, consumer, history
  <2>3. Held' = Held \/ Held' = 0
    BY <2>2 DEF Held
  <2> QED BY <1>2, <2>1, <2>3
<1>7. CASE (ReadLo \/ ReadHi) /\ Trusted'
  <2>1. /\ UNCHANGED <<published, consumed, result>> /\ Trusted' = Trusted
        /\ rpc \in {"copyLo", "copyHi"}
    BY <1>7 DEF ReadLo, ReadHi, Trusted, ring, history
  <2>2. result # "kSuccess"
    BY <1>7, <2>1 DEF IInv, ReadIsNext
  <2>3. Held' = 0
    BY <2>1, <2>2 DEF Held
  <2> QED BY <1>2, <2>1, <2>3
<1>8. CASE WriteDisable \/ ResetTail
  <2>1. ~Trusted' /\ published' = published
    BY <1>8 DEF WriteDisable, ResetTail, Trusted, history
  <2> QED BY <1>1, <2>1
<1>9. ASSUME ReadLo \/ ReadHi \/ ReadPublish \/ ResetActive
      PROVE  published' = published
  BY <1>9 DEF ReadLo, ReadHi, ReadPublish, ResetActive, history
<1> QED
  BY <1>1, <1>3, <1>4, <1>5, <1>6, <1>7, <1>8, <1>9
     DEF Next, Write, Read, ResetConsumer

\* The ring implements the abstract channel.
THEOREM Refinement == Spec => IsLossyChannel
<1>1. Init => Channel!Init
  BY DEF Init, Channel!Init, Trusted, Held
<1>2. IInv /\ IInv' /\ [Next]_vars => [Channel!Next]_(Channel!vars)
  BY StepRefines
<1> QED BY <1>1, <1>2, Invariant, PTL DEF Spec, Channel!Spec, IsLossyChannel

=============================================================================
