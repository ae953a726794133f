---------------------------- MODULE SharedMemory ----------------------------
(***************************************************************************)
(* The life of a shared memory segment (lib/interprocess/                  *)
(* shared_memory.hpp), seen by the process that creates it under a name    *)
(* and writes to its ring, and by the process that opens it by that name   *)
(* and reads from the ring.  Both may crash at any step and are started    *)
(* again by systemd; every start of the producer unlinks the name and      *)
(* creates a new segment, while a consumer that has mapped the old one     *)
(* keeps it.  The producer's heartbeat is the only thing that tells the    *)
(* consumer to let go.                                                     *)
(*                                                                         *)
(* Segment 0 is what an earlier run of the system may have left under the  *)
(* name, possibly by a build with another version or another layout.       *)
(*                                                                         *)
(* The consumer is one of                                                  *)
(*   trader    opens, resets the ring, then heartbeat check before a read  *)
(*   executor  opens, then heartbeat check before a read                   *)
(*   observer  opens, then reads; heartbeat check only on an empty ring,   *)
(*             reset on a disabled one                                     *)
(* A Write, a Read and a ResetConsumer are one step each here: module      *)
(* SpscRingBuffer takes them apart.                                        *)
(***************************************************************************)
EXTENDS Integers

CONSTANTS
  Roles,           \* the kinds of consumer considered
  Threshold,       \* kLivenessThresholdSeconds
  Capacity,        \* elements the ring holds: its length less one
  Punctual,        \* a running producer updates its heartbeat in time
  MaxCreations,    \* bound: segments the producer creates
  MaxWrites,       \* bound: elements written to one segment
  MaxCrashes       \* bound: crashes of the consumer

ASSUME SegmentAssumption ==
  /\ Roles \subseteq {"trader", "executor", "observer"}
  /\ Threshold \in Nat \ {0} /\ Capacity \in Nat \ {0}
  /\ Punctual \in BOOLEAN
  /\ MaxCreations \in Nat /\ MaxWrites \in Nat /\ MaxCrashes \in Nat

VARIABLES
  role,        \* which kind the consumer is
  name,        \* the segment the name is bound to, or None
  stage,       \* of each segment: how far its construction went
  kind,        \* of each segment: version and layout it was built with
  head, tail,  \* of each segment's ring: elements written and read
  active,      \* of each segment's ring: the consumer is enabled
  age,         \* of each segment: seconds since its heartbeat
  ppc,         \* the producer: where it is in its start, or "running"
  current,     \* the segment the producer creates or created last
  cpc,         \* the consumer: where it is in opening or in its loop
  attached,    \* the segment it has mapped, or None
  crashes,     \* bound on the consumer's crashes
  excused,     \* history: segments disabled by a Write, or read before they were enabled
  skipped      \* history: segments of which a reset skipped unread elements

segment  == <<stage, kind, head, tail, active, age>>
producer == <<ppc, current>>
consumer == <<role, cpc, attached, crashes>>
history  == <<excused, skipped>>
vars     == <<name, segment, producer, consumer, history>>

Segments == 0 .. MaxCreations
None     == -1

\* The construction of a segment: the shared memory object, its size, Meta,
\* the ring's members, and the ring's consumer enabled.
Stages == {"absent", "created", "sized", "meta", "members", "ready"}
Kinds  == {"ours", "otherVersion", "otherSize"}

\* A heartbeat of 0, which a new segment has, is older than any threshold;
\* ages are cut there.  What was left behind has an element nobody read.
Init ==
  /\ role \in Roles
  /\ name \in {None, 0}
  /\ stage = [s \in Segments |-> IF s = name THEN "ready" ELSE "absent"]
  /\ \E k \in Kinds : kind = [s \in Segments |-> IF s = name THEN k ELSE "ours"]
  /\ head = [s \in Segments |-> IF s = name THEN 1 ELSE 0]
  /\ tail = [s \in Segments |-> 0]
  /\ \E a \in BOOLEAN : active = [s \in Segments |-> s = name /\ a]
  /\ age = [s \in Segments |-> Threshold]
  /\ ppc = "down" /\ current = 0
  /\ cpc = "open" /\ attached = None /\ crashes = 0
  /\ excused = {s \in Segments : stage[s] = "ready" /\ ~active[s]}
  /\ skipped = {}

-----------------------------------------------------------------------------
(* The producer.                                                           *)

\* RemoveSharedMemory: unlinks the name; whoever mapped the segment keeps it.
RemoveSharedMemory ==
  /\ ppc = "down" /\ current < MaxCreations
  /\ name' = None
  /\ ppc' = "removed"
  /\ UNCHANGED <<segment, current, consumer, history>>

\* shared_memory_object(create_only): an object of size 0 under the name.
Create ==
  /\ ppc = "removed" /\ name = None
  /\ current' = current + 1
  /\ name' = current'
  /\ stage' = [stage EXCEPT ![current'] = "created"]
  /\ ppc' = "created"
  /\ UNCHANGED <<kind, head, tail, active, age, consumer, history>>

\* One step of the construction.
Construct(from, to) ==
  /\ ppc = from /\ ppc' = to
  /\ stage' = [stage EXCEPT ![current] = to]
  /\ UNCHANGED <<name, kind, age, current, consumer, history>>

\* truncate: the object gets its size, filled with zeros.
Truncate ==
  /\ Construct("created", "sized")
  /\ UNCHANGED <<head, tail, active>>

\* Meta: magic, version and a heartbeat of 0.
ConstructMeta ==
  /\ Construct("sized", "meta")
  /\ UNCHANGED <<head, tail, active>>

\* The ring's members: both indices and is_active_consumer_ become zero.
ConstructMembers ==
  /\ Construct("meta", "members")
  /\ head' = [head EXCEPT ![current] = 0]
  /\ tail' = [tail EXCEPT ![current] = 0]
  /\ active' = [active EXCEPT ![current] = FALSE]

\* Faulty: the constructor leaves the consumer disabled.
ConstructActiveNot ==
  /\ Construct("members", "ready")
  /\ UNCHANGED <<head, tail, active>>

\* The body of the ring's constructor, after its data.
ConstructActive ==
  /\ Construct("members", "ready")
  /\ active' = [active EXCEPT ![current] = TRUE]
  /\ UNCHANGED <<head, tail>>

\* Faulty: the producer announces itself before the ring is constructed.
UpdateHeartbeatEarly ==
  /\ ppc \in {"meta", "members", "ready", "running"}
  /\ age[current] # 0 \/ ppc = "ready"
  /\ age' = [age EXCEPT ![current] = 0]
  /\ ppc' = IF ppc = "ready" THEN "running" ELSE ppc
  /\ UNCHANGED <<name, stage, kind, head, tail, active, current, consumer, history>>

\* Faulty: the seconds are rounded up.
UpdateHeartbeatAhead ==
  /\ ppc \in {"ready", "running"}
  /\ age[current] # 0 \/ ppc = "ready"
  /\ age' = [age EXCEPT ![current] = -1]
  /\ ppc' = "running"
  /\ UNCHANGED <<name, stage, kind, head, tail, active, current, consumer, history>>

\* UpdateHeartbeat: at the end of the start and once per turn of the loop.
UpdateHeartbeat ==
  /\ ppc \in {"ready", "running"}
  /\ age[current] # 0 \/ ppc = "ready"
  /\ age' = [age EXCEPT ![current] = 0]
  /\ ppc' = "running"
  /\ UNCHANGED <<name, stage, kind, head, tail, active, current, consumer, history>>

\* Write: disables a consumer that is Capacity elements behind.
Write ==
  /\ ppc = "running" /\ head[current] < MaxWrites
  /\ head' = [head EXCEPT ![current] = @ + 1]
  /\ \/ /\ head[current] - tail[current] = Capacity
        /\ active' = [active EXCEPT ![current] = FALSE]
        /\ excused' = excused \union {current}
     \/ /\ head[current] - tail[current] # Capacity
        /\ UNCHANGED <<active, excused>>
  /\ UNCHANGED <<name, stage, kind, tail, age, producer, consumer, skipped>>

\* An exception, an exit or a crash at any point; systemd starts it again.
ProducerDies ==
  /\ ppc # "down" /\ current < MaxCreations
  /\ ppc' = "down"
  /\ UNCHANGED <<name, segment, current, consumer, history>>

-----------------------------------------------------------------------------
(* The consumer.                                                           *)

\* Leaves the segment: the process exits, or the observer's attempt returns.
Detach ==
  /\ attached' = None /\ cpc' = "open"

\* shared_memory_object(open_only): fails, to be retried, without the name.
Open ==
  /\ cpc = "open" /\ name # None
  /\ attached' = name /\ cpc' = "map"
  /\ UNCHANGED <<name, segment, producer, role, crashes, history>>

\* Faulty: the size of the mapped region is not compared.
MapUnsized ==
  /\ cpc = "map"
  /\ IF stage[attached] = "created"
     THEN Detach
     ELSE cpc' = "check" /\ UNCHANGED attached
  /\ UNCHANGED <<name, segment, producer, role, crashes, history>>

\* mapped_region, which refuses a size of 0, and the comparison of its size.
Map ==
  /\ cpc = "map"
  /\ IF stage[attached] = "created" \/ kind[attached] = "otherSize"
     THEN Detach
     ELSE cpc' = "check" /\ UNCHANGED attached
  /\ UNCHANGED <<name, segment, producer, role, crashes, history>>

\* The magic number, missing before Meta is constructed, makes the consumer
\* try again; another version makes its process exit, and start again.
Check ==
  /\ cpc = "check"
  /\ IF stage[attached] = "sized" \/ kind[attached] = "otherVersion"
     THEN Detach
     ELSE /\ cpc' = CASE role = "trader"   -> "firstReset"
                      [] role = "executor" -> "alive"
                      [] role = "observer" -> "read"
          /\ UNCHANGED attached
  /\ UNCHANGED <<name, segment, producer, role, crashes, history>>

\* ResetConsumer, which stores what is behind head as read.
ResetTo(pc) ==
  /\ tail' = [tail EXCEPT ![attached] = head[attached]]
  /\ active' = [active EXCEPT ![attached] = TRUE]
  /\ skipped' = IF tail[attached] < head[attached]
                THEN skipped \union {attached} ELSE skipped
  /\ cpc' = pc
  /\ UNCHANGED <<name, stage, kind, head, age, producer, role, attached, crashes,
                 excused>>

\* The trader, on the ring it has just opened.
FirstReset == cpc = "firstReset" /\ ResetTo("alive")

\* The observer, after a Read returned kConsumerIsDisabled.
DisabledReset == cpc = "disabled" /\ ResetTo("read")

\* Faulty: a consumer that finds its producer dead reads on.
IsProducerAliveIgnored ==
  /\ cpc = "alive"
  /\ cpc' = "read"
  /\ UNCHANGED <<attached, name, segment, producer, role, crashes, history>>

\* Faulty: the threshold is left out of the comparison.
IsProducerAliveExact ==
  /\ cpc = "alive"
  /\ IF age[attached] >= 1
     THEN Detach
     ELSE cpc' = "read" /\ UNCHANGED attached
  /\ UNCHANGED <<name, segment, producer, role, crashes, history>>

\* IsProducerAlive, and what its caller does of the answer.
IsProducerAlive ==
  /\ cpc = "alive"
  /\ IF age[attached] >= Threshold
     THEN Detach
     ELSE cpc' = "read" /\ UNCHANGED attached
  /\ UNCHANGED <<name, segment, producer, role, crashes, history>>

\* Read returns kConsumerIsDisabled: the observer resets, the others exit.
ReadDisabled ==
  /\ cpc = "read" /\ ~active[attached]
  /\ IF role = "observer" THEN cpc' = "disabled" /\ UNCHANGED attached ELSE Detach
  /\ excused' = IF stage[attached] = "ready" THEN excused ELSE excused \union {attached}
  /\ UNCHANGED <<name, segment, producer, role, crashes, skipped>>

\* Read returns kBufferIsEmpty; the next thing is the heartbeat.
ReadEmpty ==
  /\ cpc = "read" /\ active[attached]
  /\ tail[attached] = head[attached]
  /\ cpc' = "alive"
  /\ UNCHANGED <<name, segment, producer, role, attached, crashes, history>>

\* Read returns kSuccess; the observer goes on reading without a check.
ReadSuccess ==
  /\ cpc = "read" /\ active[attached]
  /\ tail[attached] < head[attached]
  /\ tail' = [tail EXCEPT ![attached] = @ + 1]
  /\ cpc' = IF role = "observer" THEN "read" ELSE "alive"
  /\ UNCHANGED <<name, stage, kind, head, active, age, producer, role, attached, crashes,
                 history>>

\* A crash anywhere, after which systemd starts the process again.
ConsumerCrash ==
  /\ attached # None /\ crashes < MaxCrashes
  /\ Detach
  /\ crashes' = crashes + 1
  /\ UNCHANGED <<name, segment, producer, role, history>>

-----------------------------------------------------------------------------
\* A second passes.  A punctual producer that is running does not let the
\* heartbeat of its segment reach the threshold.
Tick ==
  /\ \E s \in Segments : age[s] < Threshold
  /\ Punctual /\ ppc = "running" => age[current] < Threshold - 1
  /\ age' = [s \in Segments |-> IF age[s] < Threshold THEN age[s] + 1 ELSE age[s]]
  /\ UNCHANGED <<name, stage, kind, head, tail, active, producer, consumer, history>>

Start    == \/ RemoveSharedMemory \/ Create \/ Truncate \/ ConstructMeta
            \/ ConstructMembers \/ ConstructActive
Producer == Start \/ UpdateHeartbeat \/ Write \/ ProducerDies
Read     == ReadDisabled \/ ReadEmpty \/ ReadSuccess
Consume  == \/ Open \/ Map \/ Check \/ FirstReset \/ DisabledReset
            \/ IsProducerAlive \/ Read

Next == Producer \/ Consume \/ ConsumerCrash \/ Tick

Spec == Init /\ [][Next]_vars

\* The consumer polls for ever; a producer that is starting goes on, one that
\* runs goes round its loop, and time passes.
FairSpec ==
  Spec /\ WF_vars(Consume) /\ WF_vars(Start) /\ WF_vars(UpdateHeartbeat)
       /\ WF_vars(Tick)

-----------------------------------------------------------------------------
TypeOK ==
  /\ role \in Roles
  /\ name \in Segments \union {None} /\ attached \in Segments \union {None}
  /\ stage \in [Segments -> Stages] /\ kind \in [Segments -> Kinds]
  /\ head \in [Segments -> Nat] /\ tail \in [Segments -> Nat]
  /\ active \in [Segments -> BOOLEAN] /\ age \in [Segments -> 0 .. Threshold]
  /\ ppc \in {"down", "removed", "created", "sized", "meta", "members", "ready",
              "running"}
  /\ cpc \in {"open", "map", "check", "firstReset", "alive", "read", "disabled"}
  /\ current \in Segments
  /\ crashes \in 0 .. MaxCrashes
  /\ excused \subseteq Segments /\ skipped \subseteq Segments

\* A consumer that checks the heartbeat before it reads never reads from a
\* ring whose constructor has not finished, wherever it attached.
ReadsConstructed ==
  cpc = "read" /\ role # "observer" => stage[attached] = "ready"

\* No consumer touches the ring of a segment of another version or layout.
NeverForeign ==
  cpc \in {"firstReset", "alive", "read", "disabled"} =>
    kind[attached] = "ours"

\* What makes the two invariants above inductive (see SharedMemoryProofs).
\* A heartbeat within the threshold, and a step past the ring's constructor,
\* mean that the segment's construction is complete; segments that were not
\* created yet are nobody's; a consumer has checked what its step says.
HeartbeatLast ==
  /\ \A s \in Segments : age[s] < Threshold => stage[s] = "ready"
  /\ ppc \in {"created", "sized", "meta", "members", "ready"} =>
       stage[current] = ppc
  /\ ppc = "running" => stage[current] = "ready"

CreatedOnly ==
  /\ name # None => name <= current
  /\ attached # None => attached <= current
  /\ attached = None <=> cpc = "open"
  /\ ppc = "removed" => current < MaxCreations
  /\ cpc = "disabled" => role = "observer"

UncreatedSilent == \A s \in Segments : s > current => age[s] = Threshold

ChecksPassed ==
  /\ cpc = "check" => kind[attached] # "otherSize"
  /\ NeverForeign
  /\ ReadsConstructed

\* What an observer skips without reading it was in a ring that overflowed, or in one that
\* it had opened before the constructor enabled its consumer.
SkippedExcused == role = "observer" => skipped \subseteq excused

\* Why: a ring that is complete and disabled has been disabled by a Write, and a consumer
\* that is about to reset its ring has found it disabled.
DisabledExcused ==
  /\ \A s \in Segments : stage[s] = "ready" /\ ~active[s] => s \in excused
  /\ cpc = "disabled" => attached \in excused
  /\ cpc = "firstReset" => role = "trader"

IInv == /\ TypeOK /\ HeartbeatLast /\ CreatedOnly /\ UncreatedSilent /\ ChecksPassed
        /\ DisabledExcused /\ SkippedExcused

\* A consumer attached to a segment its producer has replaced lets go of it.
OrphanLetGo ==
  \A s \in Segments : attached = s /\ current > s ~> attached # s

\* A consumer that is disabled and does not reset its ring.
Stuck == role = "executor" /\ name # None /\ ~active[name]

\* Once the producer stays up, the consumer ends up attached to its segment
\* and stays there, unless it is an executor that was disabled.
Reattached ==
  <>[](ppc = "running" /\ ~Stuck) => <>[](attached = name)

=============================================================================
