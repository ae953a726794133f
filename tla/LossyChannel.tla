---------------------------- MODULE LossyChannel ----------------------------
(***************************************************************************)
(* What a producer and a consumer may rely on when they share a            *)
(* SpscRingBuffer: a channel of elements numbered from 1 that delivers     *)
(* them in order, one by one, and holds at most Capacity of them, for as   *)
(* long as the consumer is enabled.  The producer never waits: when the    *)
(* channel is full it disables the consumer.  Of a disabled consumer's     *)
(* position, and of what it reads, nothing is known until it is enabled    *)
(* again, at a position no more than Capacity behind.                      *)
(***************************************************************************)
EXTENDS Integers

CONSTANT Capacity

VARIABLES
  sent,      \* elements sent
  received,  \* elements received or skipped
  enabled,   \* the consumer is enabled
  out        \* the element last received, 0 when the last call gave none

vars == <<sent, received, enabled, out>>

Init == sent = 0 /\ received = 0 /\ enabled = TRUE /\ out = 0

Send ==
  /\ enabled => sent - received < Capacity
  /\ sent' = sent + 1
  /\ UNCHANGED <<received, enabled, out>>

Receive ==
  /\ enabled /\ received < sent
  /\ received' = received + 1 /\ out' = received'
  /\ UNCHANGED <<sent, enabled>>

\* A call that gives no element.
ReceiveNone ==
  /\ out' = 0
  /\ UNCHANGED <<sent, received, enabled>>

Disable ==
  /\ enabled' = FALSE
  /\ received' \in Nat /\ out' \in Int
  /\ UNCHANGED sent

Enable ==
  /\ ~enabled /\ enabled' = TRUE
  /\ received' \in Nat /\ sent - received' \in 0 .. Capacity
  /\ out' = 0
  /\ UNCHANGED sent

Next == Send \/ Receive \/ ReceiveNone \/ Disable \/ Enable

Spec == Init /\ [][Next]_vars

=============================================================================
