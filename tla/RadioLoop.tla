------------------------------ MODULE RadioLoop ------------------------------
(***************************************************************************)
(* The repeater's radio task (radio_loop) and receive handler              *)
(* (handler_loop) with what they share: the inbound queue, the outbound    *)
(* queue, the reservations that keep a packet from being forwarded twice,  *)
(* and the seen-packet cache (repeater/src/app/mod.rs).                    *)
(*                                                                         *)
(* The tasks are polled one after the other by one executor, so an action  *)
(* is what a task does between two awaits that may suspend it.  `pc' is the *)
(* await the radio task is at.                                             *)
(*                                                                         *)
(* Time is counted from the present: the present is always 0, and Tick     *)
(* moves every stored time one millisecond into the past.  A time the code *)
(* only compares with the present stops where its exact value no longer    *)
(* matters, which keeps the state space finite without a bound on time.    *)
(***************************************************************************)
EXTENDS AirtimeBudgetOps, SeenPacketCacheOps, OutboundQueueOps, FiniteSets

CONSTANTS
  inbound_queue_len,  \* received packets waiting for the handler
  CAD_MAX_ATTEMPTS,   \* channel activity checks before a transmission fails
  Percents,           \* the duty cycles that may be configured
  Radios,             \* the radio settings that may be configured
  packet_airtime_ms,  \* the airtime of a packet length with radio settings
  ForwardDelays,      \* delays before a forward becomes eligible
  RetryDelays         \* delays before a failed packet does

ASSUME RadioAssumption ==
  /\ inbound_queue_len \in Nat \ {0}
  /\ CAD_MAX_ATTEMPTS \in Nat \ {0}
  /\ Percents # {} /\ Percents \subseteq 1 .. 100
  /\ Radios # {}
  /\ packet_airtime_ms \in [Radios -> [PacketLens -> Nat]]
  /\ ForwardDelays \subseteq Nat
  /\ RetryDelays \subseteq Nat \ {0}

VARIABLES
  inbound,             \* how many packets await the handler
  queue,               \* SortedOutboundChannel.queue
  active,              \* SortedOutboundChannel.active
  changed,             \* SortedOutboundChannel.changed is signalled
  pending_forwards,    \* the signatures reserved
  seen_packets,        \* SeenPacketCache.entries
  repeat_enabled,      \* config.repeat_enabled()
  duty_cycle_percent,  \* config.duty_cycle_percent()
  radio,               \* config.radio()
  pc,                  \* the await of the radio task
  current,             \* <<the packet it took>>, or <<>>
  attempt,             \* channel checks made for it
  read,                \* the duty cycle and the radio settings it last read
  wake_at,             \* when its timer fires, or Never
  budget,              \* its AirtimeBudget
  sent                 \* history: when each signature was last on the air, and
                       \* the others that were since

outbound == <<queue, active, changed>>
dedup    == <<pending_forwards, seen_packets, sent>>
settings == <<repeat_enabled, duty_cycle_percent, radio>>
task     == <<pc, current, attempt, read, wake_at, budget>>
vars     == <<inbound, outbound, dedup, settings, task>>

Never == -1

\* The age at which it no longer matters how old a cache entry is.
Forgotten == -(ttl_ticks + 1)

Unsent == [at |-> Forgotten, since |-> {}]

Signalled(queued) == changed \/ queued # queue

ReadSettings == [duty_cycle_percent |-> duty_cycle_percent, radio |-> radio]

Airtime(item, settings_read) == packet_airtime_ms[settings_read.radio][item.packet_len]

Later(a, b) == IF a >= b THEN a ELSE b

\* Boot: everything but the settings starts anew.
Boot ==
  /\ inbound' = 0
  /\ queue' = <<>> /\ active' = 0 /\ changed' = FALSE
  /\ pending_forwards' = {} /\ seen_packets' = <<>>
  /\ sent' = [signature \in Signatures |-> Unsent]
  /\ pc' = "top" /\ current' = <<>> /\ attempt' = 0
  /\ read' = ReadSettings /\ wake_at' = Never
  /\ budget' = NewBudget(0, duty_cycle_percent)

Init ==
  /\ inbound = 0
  /\ queue = <<>> /\ active = 0 /\ changed = FALSE
  /\ pending_forwards = {} /\ seen_packets = <<>>
  /\ sent = [signature \in Signatures |-> Unsent]
  /\ repeat_enabled \in BOOLEAN /\ duty_cycle_percent \in Percents /\ radio \in Radios
  /\ pc = "top" /\ current = <<>> /\ attempt = 0
  /\ read = ReadSettings /\ wake_at = Never
  /\ budget = NewBudget(0, duty_cycle_percent)

------------------------------------------------------------------------------
(* finish_forward and release_forward *)

\* The history of a transmission that ends now.
OnTheAir(signature) ==
  sent' = [other \in Signatures |->
             IF other = signature THEN [at |-> 0, since |-> {}]
             ELSE IF sent[other].at = Forgotten THEN Unsent
             ELSE [sent[other] EXCEPT !.since = @ \cup {signature}]]

Remember(signature) ==
  /\ seen_packets' = Touch(seen_packets, signature, 0)
  /\ OnTheAir(signature)

\* A release that forgets that the packet went out.
FinishForwardUnseen(item, transmitted) ==
  /\ pending_forwards' = pending_forwards \ {item.dedup_signature}
  /\ UNCHANGED seen_packets
  /\ IF IsForward(item) /\ transmitted
     THEN OnTheAir(item.dedup_signature)
     ELSE UNCHANGED sent

\* A release only on success.
FinishForwardIfSent(item, transmitted) ==
  IF IsForward(item) /\ transmitted
  THEN Remember(item.dedup_signature) /\ pending_forwards' = pending_forwards \ {item.dedup_signature}
  ELSE UNCHANGED dedup

FinishForward(item, transmitted) ==
  /\ pending_forwards' = pending_forwards \ {item.dedup_signature}
  /\ IF IsForward(item) /\ transmitted
     THEN Remember(item.dedup_signature)
     ELSE UNCHANGED <<seen_packets, sent>>

------------------------------------------------------------------------------
(* transmit_eligible_outbound, up to the channel check *)

RequiredAirtime(item) ==
  IF duty_cycle_percent >= 100 THEN 0 ELSE Airtime(item, ReadSettings)

Unwanted == queue # <<>> /\ IsForward(Head(queue)) /\ ~repeat_enabled

\* A forward at the head goes at once when repeating has been turned off,
\* whether it is eligible or not.
DropForward ==
  /\ pc = "top"
  /\ Unwanted
  /\ queue' = Tail(queue)
  /\ FinishForward(Head(queue), FALSE)
  /\ active' = 0
  /\ pc' = "prepare"
  /\ read' = ReadSettings
  /\ UNCHANGED <<inbound, changed, settings, current, attempt, wake_at, budget>>

Sendable == queue # <<>> /\ ~Unwanted /\ Head(queue).eligible_at_ms <= 0

HeadReadyAt == ReadyAt(budget, 0, RequiredAirtime(Head(queue)), duty_cycle_percent)

NothingToSend ==
  /\ pc = "top"
  /\ ~Unwanted /\ ~Sendable
  /\ pc' = "prepare"
  /\ read' = ReadSettings
  /\ UNCHANGED <<inbound, outbound, dedup, settings, current, attempt, wake_at, budget>>

BudgetExhausted ==
  /\ pc = "top"
  /\ Sendable /\ HeadReadyAt > 0
  /\ budget' = AfterReadyAt(budget, 0, duty_cycle_percent)
  /\ pc' = "prepare"
  /\ read' = ReadSettings
  /\ UNCHANGED <<inbound, outbound, dedup, settings, current, attempt, wake_at>>

TakeFirst ==
  /\ pc = "top"
  /\ Sendable /\ HeadReadyAt <= 0
  /\ budget' = AfterReadyAt(budget, 0, duty_cycle_percent)
  /\ current' = <<Head(queue)>> /\ queue' = Tail(queue) /\ active' = 1
  /\ pc' = "cad" /\ attempt' = 0
  /\ read' = ReadSettings
  /\ UNCHANGED <<inbound, changed, dedup, settings, wake_at>>

------------------------------------------------------------------------------
(* transmit_when_clear, and the rest of transmit_eligible_outbound *)

ChannelClear ==
  /\ pc = "cad"
  /\ pc' = "transmit"
  /\ UNCHANGED <<inbound, outbound, dedup, settings, current, attempt, read, wake_at, budget>>

ChannelBusy ==
  /\ pc = "cad"
  /\ pc' = "backoff"
  /\ UNCHANGED <<inbound, outbound, dedup, settings, current, attempt, read, wake_at, budget>>

CheckAgain ==
  /\ pc = "backoff" /\ attempt + 1 < CAD_MAX_ATTEMPTS
  /\ pc' = "cad" /\ attempt' = attempt + 1
  /\ UNCHANGED <<inbound, outbound, dedup, settings, current, read, wake_at, budget>>

\* The channel check failed, the channel stayed busy, or the radio failed
\* to transmit.
CanFail == \/ pc \in {"cad", "transmit"}
           \/ pc = "backoff" /\ attempt + 1 >= CAD_MAX_ATTEMPTS

Retry(delay) ==
  /\ CanFail
  /\ ~GivesUp(current[1])
  /\ queue' = Insert(queue, Retried(current[1], delay))
  /\ current' = <<>> /\ active' = 0 /\ changed' = TRUE
  /\ pc' = "prepare" /\ attempt' = 0
  /\ UNCHANGED <<inbound, dedup, settings, read, wake_at, budget>>

GiveUp ==
  /\ CanFail
  /\ GivesUp(current[1])
  /\ FinishForward(current[1], FALSE)
  /\ current' = <<>> /\ active' = 0
  /\ pc' = "prepare" /\ attempt' = 0
  /\ UNCHANGED <<inbound, queue, changed, settings, read, wake_at, budget>>

Transmitted ==
  /\ pc = "transmit"
  /\ IF current[1].reboot_after_tx
     THEN Boot
     ELSE /\ FinishForward(current[1], TRUE)
          /\ budget' = RecordTransmit(budget, 0, Airtime(current[1], read),
                                     read.duty_cycle_percent)
          /\ current' = <<>> /\ active' = 0
          /\ pc' = "prepare" /\ attempt' = 0
          /\ UNCHANGED <<inbound, queue, changed, read, wake_at>>
  /\ UNCHANGED settings

------------------------------------------------------------------------------
(* wait_for_read_or_eligible_outbound, and what radio_loop does with it *)

\* The signal is reset before the head is read, with no await between.
PrepareWait ==
  /\ pc = "prepare"
  /\ changed' = FALSE
  /\ read' = ReadSettings
  /\ IF queue = <<>>
     THEN wake_at' = Never /\ pc' = "wait" /\ UNCHANGED budget
     ELSE LET next  == Head(queue)
              ready == ReadyAt(budget, 0, Airtime(next, ReadSettings), duty_cycle_percent)
          IN /\ budget' = AfterReadyAt(budget, 0, duty_cycle_percent)
             /\ IF next.eligible_at_ms <= 0 /\ ready <= 0
                THEN wake_at' = Never /\ pc' = "top"
                ELSE wake_at' = Later(next.eligible_at_ms, ready) /\ pc' = "wait"
  /\ UNCHANGED <<inbound, queue, active, dedup, settings, current, attempt>>

\* The futures are polled in this order: the signal, the timer, the radio.
WakeChanged ==
  /\ pc = "wait" /\ changed
  /\ changed' = FALSE
  /\ pc' = "top" /\ wake_at' = Never
  /\ UNCHANGED <<inbound, queue, active, dedup, settings, current, attempt, read, budget>>

WakeDue ==
  /\ pc = "wait" /\ ~changed /\ wake_at = 0
  /\ pc' = "top" /\ wake_at' = Never
  /\ UNCHANGED <<inbound, outbound, dedup, settings, current, attempt, read, budget>>

\* A packet, which the inbound queue may have no place for or the buffer
\* may be too small for.
RxPacket(fits) ==
  /\ pc = "wait" /\ ~changed /\ wake_at # 0
  /\ inbound' = IF fits /\ inbound < inbound_queue_len THEN inbound + 1 ELSE inbound
  /\ pc' = "top" /\ wake_at' = Never
  /\ UNCHANGED <<outbound, dedup, settings, current, attempt, read, budget>>

RxError ==
  /\ pc = "wait" /\ ~changed /\ wake_at # 0
  /\ pc' = "error" /\ wake_at' = Never
  /\ UNCHANGED <<inbound, outbound, dedup, settings, current, attempt, read, budget>>

ErrorOver ==
  /\ pc = "error"
  /\ pc' = "top"
  /\ UNCHANGED <<inbound, outbound, dedup, settings, current, attempt, read, wake_at, budget>>

------------------------------------------------------------------------------
(* The other tasks: enqueue_outbound, handle_rx_event, the settings *)

OwnItem(len, reboot) ==
  [eligible_at_ms |-> 0, attempts |-> 0, packet_len |-> len,
   dedup_signature |-> NoSignature, reboot_after_tx |-> reboot]

ForwardItem(signature, delay, len) ==
  [eligible_at_ms |-> delay, attempts |-> 0, packet_len |-> len,
   dedup_signature |-> signature, reboot_after_tx |-> FALSE]

\* An insertion nobody is told of.
EnqueueQuietly(queued) == queue' = queued /\ UNCHANGED changed

Enqueue(queued) == queue' = queued /\ changed' = Signalled(queued)

\* enqueue_forward, on the queue left by the reply: reserve, send, and release
\* when there is no place to send it to.
EnqueueForward(queued, signature, delay, len) ==
  LET fresh == signature \notin pending_forwards
      known == Prune(seen_packets, 0)
      place == /\ fresh /\ ~Holds(known, signature)
               /\ Cardinality(pending_forwards) < capacity
               /\ ~IsFull(queued, active)
  IN /\ seen_packets' = IF fresh THEN known ELSE seen_packets
     /\ IF place
        THEN /\ pending_forwards' = pending_forwards \cup {signature}
             /\ Enqueue(TrySend(queued, active, ForwardItem(signature, delay, len)))
        ELSE /\ UNCHANGED pending_forwards
             /\ Enqueue(queued)

\* The queue after the reply or the discovery response to a packet, if any.
Replied ==
  {queue} \cup
  {TrySend(queue, active, OwnItem(len, reboot)) : len \in PacketLens, reboot \in BOOLEAN}

\* The packet may be answered, and it may be a packet to forward.
HandleRxEvent ==
  /\ inbound > 0
  /\ inbound' = inbound - 1
  /\ \E queued \in Replied :
       \/ Enqueue(queued) /\ UNCHANGED <<pending_forwards, seen_packets>>
       \/ /\ repeat_enabled
          /\ \E signature \in Signatures, delay \in ForwardDelays, len \in PacketLens :
               EnqueueForward(queued, signature, delay, len)
  /\ UNCHANGED <<active, sent, settings, task>>

\* An advert, from the button, the console or the schedule.
EnqueueOwn(len) ==
  /\ Enqueue(TrySend(queue, active, OwnItem(len, FALSE)))
  /\ UNCHANGED <<inbound, active, dedup, settings, task>>

SetRepeat ==
  /\ repeat_enabled' = ~repeat_enabled
  /\ UNCHANGED <<inbound, outbound, dedup, duty_cycle_percent, radio, task>>

SetDutyCycle(p) ==
  /\ duty_cycle_percent' = p
  /\ UNCHANGED <<inbound, outbound, dedup, repeat_enabled, radio, task>>

\* The command answers "OK - reboot to apply": the radio keeps its settings.
SetRadio(r) ==
  /\ radio' = r
  /\ UNCHANGED <<inbound, outbound, dedup, repeat_enabled, duty_cycle_percent, task>>

\* A reboot from the console, or a power cut.
Reboot == Boot /\ UNCHANGED settings

------------------------------------------------------------------------------
(* Time *)

Aged(time, earliest) == Later(time - 1, earliest)

Tick ==
  /\ queue' = [i \in DOMAIN queue |-> [queue[i] EXCEPT !.eligible_at_ms = Aged(@, 0)]]
  /\ seen_packets' =
       [i \in DOMAIN seen_packets |-> [seen_packets[i] EXCEPT !.at = Aged(@, Forgotten)]]
  /\ sent' = [signature \in Signatures |->
                IF sent[signature].at > -ttl_ticks
                THEN [sent[signature] EXCEPT !.at = @ - 1]
                ELSE Unsent]
  /\ wake_at' = IF wake_at = Never THEN Never ELSE Aged(wake_at, 0)
  /\ budget' = [budget EXCEPT !.last_update_ms = Aged(@, -DUTY_CYCLE_WINDOW_MS)]
  /\ UNCHANGED <<inbound, active, changed, pending_forwards, settings,
                 pc, current, attempt, read>>

RadioStep ==
  \/ DropForward \/ NothingToSend \/ BudgetExhausted \/ TakeFirst
  \/ ChannelClear \/ CheckAgain \/ GiveUp \/ Transmitted
  \/ \E delay \in RetryDelays : Retry(delay)
  \/ PrepareWait \/ WakeChanged \/ WakeDue \/ ErrorOver

Environment ==
  \/ ChannelBusy \/ RxError
  \/ \E fits \in BOOLEAN : RxPacket(fits)
  \/ \E len \in PacketLens : EnqueueOwn(len)
  \/ \E p \in Percents : SetDutyCycle(p)
  \/ \E r \in Radios : SetRadio(r)
  \/ SetRepeat \/ Reboot

Next == RadioStep \/ HandleRxEvent \/ Environment \/ Tick

Spec == Init /\ [][Next]_vars

\* The executor polls the tasks for ever, the radio answers every request, and
\* time passes.
FairSpec ==
  /\ Spec
  /\ WF_vars(RadioStep)
  /\ WF_vars(HandleRxEvent)
  /\ WF_vars(Tick)

------------------------------------------------------------------------------
(* Properties *)

Held == queue \o current  \* every packet this node still has to transmit

\* Type correctness.  An item's attempts stay below the limit, and the packet
\* taken is there exactly while the task is between two awaits that need it.
TypeOK ==
  /\ inbound \in 0 .. inbound_queue_len
  /\ queue \in Seq(QueuedTransmit)
  /\ active \in {0, 1} /\ changed \in BOOLEAN
  /\ pending_forwards \subseteq Signatures
  /\ seen_packets \in Seq([signature : Signatures, at : Forgotten .. 0])
  /\ sent \in [Signatures -> [at : Forgotten .. 0, since : SUBSET Signatures]]
  /\ repeat_enabled \in BOOLEAN
  /\ duty_cycle_percent \in Percents /\ radio \in Radios
  /\ read \in [duty_cycle_percent : Percents, radio : Radios]
  /\ pc \in {"top", "cad", "backoff", "transmit", "prepare", "wait", "error"}
  /\ current \in Seq(QueuedTransmit)
  /\ Len(current) = IF pc \in {"cad", "backoff", "transmit"} THEN 1 ELSE 0
  /\ attempt \in 0 .. CAD_MAX_ATTEMPTS - 1
  /\ wake_at \in Nat \cup {Never}
  /\ budget \in Budgets

\* active counts the packet being transmitted, so complete_current never finds
\* it clear (its debug_assert) and a packet to retry always has a place in the
\* queue: the packets held never exceed the capacity, whatever the other
\* tasks enqueue while the radio is busy.
PlaceKeptForCurrent ==
  /\ active = Len(current)
  /\ Len(Held) <= capacity

\* A signature is reserved exactly while one packet with it is held, through
\* every retry, drop, full queue and change of the settings: a reservation
\* that leaked would suppress that packet for ever, and one released early
\* would let it be queued twice.
ReservationsMatchHeld ==
  /\ pending_forwards = {Held[i].dedup_signature : i \in DOMAIN Held} \ {NoSignature}
  /\ \A i, j \in DOMAIN Held :
       Held[i].dedup_signature = Held[j].dedup_signature /\ IsForward(Held[i]) => i = j

\* The head of the queue is always the packet eligible first: the radio task
\* only ever looks at the head.
QueueSorted ==
  \A i, j \in DOMAIN queue : i < j => queue[i].eligible_at_ms <= queue[j].eligible_at_ms

\* On the air within the time to live, and not followed by as many others as
\* the cache has places.
RecentlySent(signature) ==
  /\ sent[signature].at # Forgotten
  /\ Cardinality(sent[signature].since) < max_entries

\* A packet that was forwarded recently is not about to be forwarded again:
\* between its queueing and its transmission the reservation stands in for the
\* cache entry, and there is no moment at which neither does.
NoRepeatWhileRemembered ==
  \A signature \in pending_forwards : ~RecentlySent(signature)

\* No wakeup is lost: while the radio task waits, either the signal is pending
\* or its timer covers the head of the queue, and it waits without a timer only
\* if there is nothing to send.  The timer fires when the packet is eligible and
\* the budget, at the settings read before the wait, allows it; for the budget
\* it may be late, but by less than the time to earn a millisecond, since
\* ready_at_ms does not count the time too short to have earned one.
WaitCoversQueue ==
  pc = "wait" /\ ~changed =>
    /\ wake_at = Never <=> queue = <<>>
    /\ queue # <<>> =>
         wake_at < Later(Head(queue).eligible_at_ms,
                         ReadyAt(budget, 0, Airtime(Head(queue), read), read.duty_cycle_percent))
                   + DivCeil(100, read.duty_cycle_percent)

\* The budget is never overdrawn, whatever happens to the duty cycle between
\* the check that lets a packet on the air and the charge for it.
NeverOverdrawn == budget.available_ms >= 0

\* Every reservation is released: a forward goes out, is dropped after its last
\* attempt or because repeating was turned off, however busy the channel is and
\* whatever is enqueued meanwhile.
ReservationsReleased ==
  \A signature \in Signatures :
    signature \in pending_forwards ~> signature \notin pending_forwards

\* The outbound queue is what the radio task and its senders take it for: sorted
\* through every retry, and with a place for the packet in transmission however
\* many others are queued meanwhile.
QueueKept == TypeOK /\ PlaceKeptForCurrent /\ QueueSorted
==============================================================================
