--------------------------- MODULE SpscRingBuffer ---------------------------
(***************************************************************************)
(* The single-producer single-consumer ring that every pair of processes   *)
(* of the trading stack communicates through                               *)
(* (lib/interprocess/spsc_ring_buffer.hpp).                                *)
(*                                                                         *)
(* The ring lives in shared memory; its producer and its consumer are two  *)
(* processes that never wait for one another.  Each action below performs  *)
(* at most one access to a word the other process also touches, so every   *)
(* interleaving of the atomic accesses is a behaviour.  An element is      *)
(* longer than a machine word and is copied without synchronisation: it is *)
(* modelled as two words, `lo' and `hi', that are written and read one at  *)
(* a time.  An element is identified by the number of its Write, so        *)
(* Whole(n) is the n-th element written and a value with lo # hi is a      *)
(* mixture of two elements.                                                *)
(*                                                                         *)
(* The consumer side includes how the three kinds of callers use the ring: *)
(*   trader    resets at start, exits when disabled                        *)
(*   executor  never resets, exits when disabled                           *)
(*   observer  resets when disabled                                        *)
(* and each of them may crash at any point and be started again, on the    *)
(* same ring.  A crash of the producer ends the ring's life (it recreates  *)
(* the segment when it is restarted): here it is the producer taking no    *)
(* further step.                                                           *)
(***************************************************************************)
EXTENDS Integers

CONSTANTS
  BufferLength,     \* number of slots
  MaxWrites,        \* bound: Write calls in a behaviour
  MaxCrashes,       \* bound: crashes of the consumer process in a behaviour
  Callers           \* the kinds of consumer considered

ASSUME RingAssumption ==
  /\ BufferLength \in Nat \ {0}
  /\ MaxWrites \in Nat
  /\ MaxCrashes \in Nat
  /\ Callers \subseteq {"trader", "executor", "observer"}

VARIABLES
  caller,  \* what kind of process the consumer is
  \* The ring itself: the members of the class, shared by both processes.
  head, tail, isActiveConsumer, data,
  \* The producer: where it is in Write.
  wpc,
  \* The consumer: where it is in Read or ResetConsumer, the head that
  \* ResetConsumer loaded, the caller's buffer and the last ReadResult.
  rpc, resetHead, buffer, result,
  \* Bound on crashes.
  crashes,
  \* History: elements published, elements the consumer has passed, the
  \* value of `published' when ResetConsumer loaded head, and whether the
  \* consumer's position is known to be less than a lap behind.
  published, consumed, resetAt, synced

ring     == <<head, tail, isActiveConsumer, data>>
consumer == <<caller, rpc, resetHead, buffer, result, crashes>>
history  == <<published, consumed, resetAt, synced>>
vars     == <<ring, wpc, consumer, history>>

Slots    == 0 .. BufferLength - 1
Whole(n) == [lo |-> n, hi |-> n]

\* (current + 1) & (BufferLength - 1), BufferLength being a power of two.
Increment(current) == (current + 1) % BufferLength

ReadResults == {"none", "kSuccess", "kBufferIsEmpty", "kConsumerIsDisabled"}

\* The first thing a (re)started consumer does with the ring it opened.
EntryPoint == IF caller = "trader" THEN "resetHead" ELSE "read"

Init ==
  /\ caller \in Callers
  /\ head = 0 /\ tail = 0 /\ isActiveConsumer = TRUE
  /\ data = [s \in Slots |-> Whole(0)]
  /\ wpc = "idle"
  /\ rpc = EntryPoint /\ resetHead = 0 /\ buffer = Whole(0) /\ result = "none"
  /\ crashes = 0
  /\ published = 0 /\ consumed = 0 /\ resetAt = 0 /\ synced = TRUE

-----------------------------------------------------------------------------
(* Write.  head is written by the producer only, so loading it is not a    *)
(* step of its own.                                                        *)

\* Load tail and decide whether the consumer has to be disabled.
WriteCheck ==
  /\ wpc = "idle" /\ published < MaxWrites
  /\ \/ Increment(head) = tail /\ wpc' = "disable"
     \/ Increment(head) # tail /\ wpc' = "copyLo"
  /\ UNCHANGED <<ring, consumer, history>>

\* Faulty: the lagging consumer is left enabled.
WriteDisableNot ==
  /\ wpc = "disable"
  /\ wpc' = "copyLo"
  /\ UNCHANGED <<ring, consumer, history>>

WriteDisable ==
  /\ wpc = "disable"
  /\ isActiveConsumer' = FALSE
  /\ wpc' = "copyLo"
  /\ UNCHANGED <<head, tail, data, consumer, history>>

\* Faulty: the element is copied to the slot published last.
WriteLoAtHead ==
  /\ wpc = "copyLo"
  /\ data' = [data EXCEPT ![head].lo = published + 1]
  /\ wpc' = "copyHi"
  /\ UNCHANGED <<head, tail, isActiveConsumer, consumer, history>>

WriteLo ==
  /\ wpc = "copyLo"
  /\ data' = [data EXCEPT ![Increment(head)].lo = published + 1]
  /\ wpc' = "copyHi"
  /\ UNCHANGED <<head, tail, isActiveConsumer, consumer, history>>

WriteHi ==
  /\ wpc = "copyHi"
  /\ data' = [data EXCEPT ![Increment(head)].hi = published + 1]
  /\ wpc' = "publish"
  /\ UNCHANGED <<head, tail, isActiveConsumer, consumer, history>>

WritePublish ==
  /\ wpc = "publish"
  /\ head' = Increment(head)
  /\ published' = published + 1
  /\ wpc' = "idle"
  /\ UNCHANGED <<tail, isActiveConsumer, data, consumer, consumed, resetAt, synced>>

-----------------------------------------------------------------------------
(* Read.  tail is written by the consumer only.                            *)

\* Load is_active_consumer_; a disabled caller resets or exits.
ReadActive ==
  /\ rpc = "read"
  /\ \/ /\ isActiveConsumer
        /\ rpc' = "readHead" /\ result' = "none"
     \/ /\ ~isActiveConsumer
        /\ rpc' = IF caller = "observer" THEN "resetHead" ELSE "exited"
        /\ result' = "kConsumerIsDisabled"
  /\ UNCHANGED <<ring, wpc, caller, resetHead, buffer, crashes, history>>

\* Faulty: an empty ring is not noticed.
ReadHeadNoCheck ==
  /\ rpc = "readHead"
  /\ rpc' = "copyLo" /\ result' = "none"
  /\ UNCHANGED <<ring, wpc, caller, resetHead, buffer, crashes, history>>

\* Faulty: a ring that holds one element is taken for empty.
ReadHeadOffByOne ==
  /\ rpc = "readHead"
  /\ \/ Increment(tail) = head /\ rpc' = "read" /\ result' = "kBufferIsEmpty"
     \/ Increment(tail) # head /\ rpc' = "copyLo" /\ result' = "none"
  /\ UNCHANGED <<ring, wpc, caller, resetHead, buffer, crashes, history>>

ReadHead ==
  /\ rpc = "readHead"
  /\ \/ tail = head /\ rpc' = "read" /\ result' = "kBufferIsEmpty"
     \/ tail # head /\ rpc' = "copyLo" /\ result' = "none"
  /\ UNCHANGED <<ring, wpc, caller, resetHead, buffer, crashes, history>>

ReadLo ==
  /\ rpc = "copyLo"
  /\ buffer' = [buffer EXCEPT !.lo = data[Increment(tail)].lo]
  /\ rpc' = "copyHi"
  /\ UNCHANGED <<ring, wpc, caller, resetHead, result, crashes, history>>

ReadHi ==
  /\ rpc = "copyHi"
  /\ buffer' = [buffer EXCEPT !.hi = data[Increment(tail)].hi]
  /\ rpc' = "publish"
  /\ UNCHANGED <<ring, wpc, caller, resetHead, result, crashes, history>>

\* Faulty: tail is not stored.
ReadPublishNot ==
  /\ rpc = "publish"
  /\ rpc' = "read" /\ result' = "kSuccess"
  /\ consumed' = consumed + 1
  /\ UNCHANGED <<ring, wpc, caller, resetHead, buffer, crashes, published, resetAt,
                 synced>>

ReadPublish ==
  /\ rpc = "publish"
  /\ tail' = Increment(tail)
  /\ rpc' = "read" /\ result' = "kSuccess"
  /\ consumed' = consumed + 1
  /\ UNCHANGED <<head, isActiveConsumer, data, wpc, caller, resetHead, buffer, crashes,
                 published, resetAt, synced>>

-----------------------------------------------------------------------------
(* ResetConsumer.                                                          *)

\* Faulty: the consumer is enabled again where it was.
ResetHeadOnly ==
  /\ rpc = "resetHead"
  /\ resetHead' = head /\ resetAt' = published
  /\ rpc' = "resetActive" /\ result' = "none"
  /\ UNCHANGED <<ring, wpc, caller, buffer, crashes, published, consumed, synced>>

ResetHead ==
  /\ rpc = "resetHead"
  /\ resetHead' = head /\ resetAt' = published
  /\ rpc' = "resetTail"
  /\ UNCHANGED <<ring, wpc, caller, buffer, result, crashes, published, consumed, synced>>

\* The new position is only trusted when the reset is complete.
ResetTail ==
  /\ rpc = "resetTail"
  /\ tail' = resetHead
  /\ consumed' = resetAt /\ synced' = FALSE
  /\ rpc' = "resetActive" /\ result' = "none"
  /\ UNCHANGED <<head, isActiveConsumer, data, wpc, caller, resetHead, buffer, crashes,
                 published, resetAt>>

\* Elements whose Write has begun: a Write that is past its check of tail
\* goes on whatever the reset stores.
Begun == IF wpc = "idle" THEN published ELSE published + 1

\* Faulty: tail is moved but the consumer stays disabled.
ResetActiveNot ==
  /\ rpc = "resetActive"
  /\ rpc' = "read"
  /\ UNCHANGED <<ring, wpc, caller, resetHead, buffer, result, crashes, history>>

\* The position is less than a lap behind iff no more than BufferLength - 1
\* Writes began since head was loaded.
ResetActive ==
  /\ rpc = "resetActive"
  /\ isActiveConsumer' = TRUE
  /\ synced' = (Begun - resetAt < BufferLength)
  /\ rpc' = "read"
  /\ UNCHANGED <<head, tail, data, wpc, caller, resetHead, buffer, result, crashes,
                 published, consumed, resetAt>>

-----------------------------------------------------------------------------
(* The consumer's process.  systemd starts it again after an exit and      *)
(* after a crash (Restart=always); what it had read is gone.               *)

ConsumerRestart ==
  /\ rpc = "exited"
  /\ rpc' = EntryPoint /\ result' = "none"
  /\ UNCHANGED <<ring, wpc, caller, resetHead, buffer, crashes, history>>

ConsumerCrash ==
  /\ rpc # "exited" /\ crashes < MaxCrashes
  /\ crashes' = crashes + 1
  /\ rpc' = "exited" /\ result' = "none"
  /\ UNCHANGED <<ring, wpc, caller, resetHead, buffer, history>>

-----------------------------------------------------------------------------
Write == WriteCheck \/ WriteDisable \/ WriteLo \/ WriteHi \/ WritePublish
Read  == ReadActive \/ ReadHead \/ ReadLo \/ ReadHi \/ ReadPublish
ResetConsumer == ResetHead \/ ResetTail \/ ResetActive

Next == Write \/ Read \/ ResetConsumer \/ ConsumerRestart \/ ConsumerCrash

Spec == Init /\ [][Next]_vars

\* The consumer polls in a loop that never blocks and is restarted for ever;
\* nothing is assumed of the producer.
FairSpec == Spec /\ WF_vars(Read \/ ResetConsumer \/ ConsumerRestart)

-----------------------------------------------------------------------------
(* Properties.                                                             *)

\* Every variable stays in the set of values its C++ type and role allow.
TypeOK ==
  /\ caller \in Callers
  /\ head \in Slots /\ tail \in Slots /\ resetHead \in Slots
  /\ isActiveConsumer \in BOOLEAN /\ synced \in BOOLEAN
  /\ data \in [Slots -> [lo : Nat, hi : Nat]]
  /\ buffer \in [lo : Nat, hi : Nat]
  /\ wpc \in {"idle", "disable", "copyLo", "copyHi", "publish"}
  /\ rpc \in {"read", "readHead", "copyLo", "copyHi", "publish",
              "resetHead", "resetTail", "resetActive", "exited"}
  /\ result \in ReadResults
  /\ published \in Nat /\ consumed \in Nat /\ resetAt \in Nat /\ crashes \in Nat

\* The consumer is enabled and its position is known: nothing was overwritten.
Trusted == synced /\ isActiveConsumer

\* A Read that returns kSuccess to a consumer nobody disabled meanwhile hands
\* out the element after the one it handed out last, whole.
FifoWhileEnabled == Trusted /\ result = "kSuccess" => buffer = Whole(consumed)

\* While the consumer is enabled every element it has not read yet is still
\* in its slot, whole, and there are at most BufferLength - 1 of them: the
\* producer disables it before it overwrites the first.
UnreadIntact ==
  Trusted =>
    /\ published - consumed \in 0 .. BufferLength - 1
    /\ \A k \in 1 .. published - consumed :
         data[(tail + k) % BufferLength] = Whole(consumed + k)

\* While the consumer is enabled the two unsynchronised copies, of Write into
\* a slot and of Read out of one, are never under way on the same slot.
NoConcurrentCopy ==
  Trusted /\ wpc \in {"copyLo", "copyHi"} /\ rpc \in {"copyLo", "copyHi"}
    => Increment(head) # Increment(tail)

\* Every published element reaches the consumer, unless the consumer is
\* disabled, or restarted by ResetConsumer, on the way.
Delivered ==
  \A n \in 1 .. MaxWrites :
    published >= n ~> (consumed >= n \/ ~Trusted)

\* A disabled consumer of a process that resets gets the ring back.
Reenabled == ~isActiveConsumer /\ caller # "executor" ~> isActiveConsumer

\* The README's promise that disabling prevents corrupted reads, taken at its
\* word: no Read that returns kSuccess hands out a mixture of two elements.
SuccessIsWhole == result = "kSuccess" => buffer.lo = buffer.hi

-----------------------------------------------------------------------------
(* What the ring promises: see LossyChannel.                               *)

\* The element the caller holds: 0 for none, -1 for a mixture of two.
Held ==
  IF result # "kSuccess" THEN 0
  ELSE IF buffer.lo = buffer.hi THEN buffer.lo ELSE -1

Channel == INSTANCE LossyChannel WITH
  Capacity <- BufferLength - 1, sent <- published, received <- consumed,
  enabled <- Trusted, out <- Held

\* The ring is a channel that loses and mixes up nothing while it is enabled.
IsLossyChannel == Channel!Spec

-----------------------------------------------------------------------------
(* The inductive invariant of SpscRingBufferProofs.                        *)

\* How far h is ahead of t around the ring, and the slot j places behind h.
Dist(t, h) == IF h >= t THEN h - t ELSE h - t + BufferLength
Back(h, j) == IF h >= j THEN h - j ELSE h - j + BufferLength

\* The BufferLength - 1 elements published last are whole, each in its slot,
\* and a copy under way has left its first word there.
LastLapIntact ==
  /\ \A j \in 0 .. BufferLength - 2 :
       published - j >= 1 => data[Back(head, j)] = Whole(published - j)
  /\ wpc = "copyHi" => data[Increment(head)].lo = published + 1
  /\ wpc = "publish" => data[Increment(head)] = Whole(published + 1)

\* While the consumer is enabled the ring's indices are as far apart as the
\* producer and the consumer are, and a Write under way had room.
LagIsDistance ==
  Trusted =>
    /\ consumed <= published /\ published - consumed <= BufferLength - 1
    /\ Dist(tail, head) = published - consumed
    /\ wpc \in {"copyLo", "copyHi", "publish"} =>
         published + 1 - consumed <= BufferLength - 1

\* While the consumer is enabled a Read under way has an element to read and
\* has copied the words of that element.
ReadIsNext ==
  Trusted =>
    /\ rpc \in {"copyLo", "copyHi", "publish"} =>
         published - consumed >= 1 /\ result # "kSuccess"
    /\ rpc = "copyHi" => buffer.lo = consumed + 1
    /\ rpc = "publish" => buffer = Whole(consumed + 1)
    /\ result = "kSuccess" => buffer = Whole(consumed)

\* While ResetConsumer runs the head it loaded is where head was then.
ResetIsRecent ==
  /\ rpc \in {"resetTail", "resetActive"} =>
       /\ resetAt <= published
       /\ published - resetAt <= BufferLength - 1 =>
            Dist(resetHead, head) = published - resetAt
       /\ result # "kSuccess"
  /\ rpc = "resetActive" =>
       tail = resetHead /\ consumed = resetAt /\ ~synced
  /\ rpc = "resetHead" => result # "kSuccess"

IInv == TypeOK /\ LastLapIntact /\ LagIsDistance /\ ReadIsNext /\ ResetIsRecent

=============================================================================
