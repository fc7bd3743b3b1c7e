--------------------------- MODULE OutboundQueueOps ---------------------------
(***************************************************************************)
(* SortedOutboundChannel (repeater/src/app/mod.rs) as operators on its     *)
(* queue: the packets to transmit, in the order they become eligible.  The *)
(* packet being transmitted is outside the queue and counted by `active',  *)
(* so that there is always a place to put it back.                         *)
(***************************************************************************)
EXTENDS Integers, Sequences, SequencesExt

CONSTANTS
  capacity,               \* packets in the queue and in transmission
  OUTBOUND_MAX_ATTEMPTS,  \* failed transmissions before a packet is dropped
  Signatures,             \* dedup signatures of forwarded packets
  NoSignature,            \* the dedup_signature of a packet of this node's own
  PacketLens              \* the lengths of packets

ASSUME QueueAssumption ==
  /\ capacity \in Nat \ {0}
  /\ OUTBOUND_MAX_ATTEMPTS \in 1 .. 254
  /\ NoSignature \notin Signatures

\* QueuedTransmit.  Of the packet's bytes only their number matters here.
QueuedTransmit ==
  [eligible_at_ms  : Nat,
   attempts        : 0 .. OUTBOUND_MAX_ATTEMPTS - 1,
   packet_len      : PacketLens,
   dedup_signature : Signatures \cup {NoSignature},
   reboot_after_tx : BOOLEAN]

IsForward(item) == item.dedup_signature # NoSignature

------------------------------------------------------------------------------
\* Before the first packet that becomes eligible later, or at the end.
Insert(queue, item) ==
  LET later == {i \in DOMAIN queue : item.eligible_at_ms < queue[i].eligible_at_ms}
  IN InsertAt(queue, Min(later \cup {Len(queue) + 1}), item)

\* A capacity that forgets the packet being transmitted.
IsFullUncounted(queue, active) == Len(queue) >= capacity

IsFull(queue, active) == Len(queue) + active >= capacity

\* The queue try_send leaves behind.
TrySend(queue, active, item) == IF IsFull(queue, active) THEN queue ELSE Insert(queue, item)

\* The error of an attempt left uncounted.
RetriedUncounted(item, eligible_at_ms) == [item EXCEPT !.eligible_at_ms = eligible_at_ms]

\* A packet as retry_current puts it back.
Retried(item, eligible_at_ms) ==
  [item EXCEPT !.attempts = @ + 1, !.eligible_at_ms = eligible_at_ms]

\* retry_current refuses a packet that has failed for the last time.
GivesUp(item) == item.attempts + 1 >= OUTBOUND_MAX_ATTEMPTS
==============================================================================
