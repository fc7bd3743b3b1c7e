---------------------------- MODULE AirtimeBudget ----------------------------
(***************************************************************************)
(* The transmit airtime budget of the repeater and the way radio_loop uses *)
(* it (repeater/src/app/mod.rs): ask when a packet's airtime will be       *)
(* available, transmit, charge the airtime.  The operator of the repeater  *)
(* may change the duty cycle at any moment in between.                     *)
(***************************************************************************)
EXTENDS AirtimeBudgetOps, Uptime

CONSTANTS
  Percents,              \* duty cycles the configuration may hold
  Airtimes,              \* airtimes of the packets that are sent
  MaxBudgetTime                \* bound: the clock stops here

\* config.rs accepts a duty cycle of 1 to 100 percent only.
ASSUME BudgetAssumption ==
  /\ Percents \subseteq 1..100
  /\ Airtimes \subseteq Nat \ {0}
  /\ MaxBudgetTime \in Nat

------------------------------------------------------------------------------
(* The radio task as the budget's only caller *)

VARIABLES
  duty_cycle_percent,  \* the configured duty cycle
  budget,              \* radio_loop's local AirtimeBudget
  transmitting,        \* the packet on its way through CAD and transmit
  epoch,               \* history: when the duty cycle was last changed
  charged              \* history: airtime granted under it since then

budgetVars == <<now, duty_cycle_percent, budget, transmitting, epoch, charged>>

Idle == [airtime_ms |-> 0]

\* transmit_eligible_outbound holds the percentage it read before the packet
\* was sent; counted says that charged includes the packet.
InFlight == [airtime_ms : Airtimes, percent : Percents, since : Nat, counted : BOOLEAN]

BudgetInit ==
  /\ now = 0
  /\ duty_cycle_percent \in Percents
  /\ budget = NewBudget(now, duty_cycle_percent)
  /\ transmitting = Idle
  /\ epoch = now
  /\ charged = 0

\* wait_for_read_or_eligible_outbound asks when the head of the queue may go.
AskReady ==
  /\ transmitting = Idle
  /\ budget' = AfterReadyAt(budget, now, duty_cycle_percent)
  /\ UNCHANGED <<now, duty_cycle_percent, transmitting, epoch, charged>>

\* transmit_eligible_outbound: the budget is ready and the packet is taken.
\* At 100 percent nothing is required and nothing is counted.
Grant(airtime) ==
  LET unlimited == duty_cycle_percent >= 100
      required  == IF unlimited THEN 0 ELSE airtime
  IN /\ transmitting = Idle
     /\ ReadyAt(budget, now, required, duty_cycle_percent) <= now
     /\ budget' = AfterReadyAt(budget, now, duty_cycle_percent)
     /\ transmitting' = [airtime_ms |-> airtime, percent |-> duty_cycle_percent,
                         since |-> now, counted |-> ~unlimited]
     /\ charged' = IF unlimited THEN charged ELSE charged + airtime
     /\ UNCHANGED <<now, duty_cycle_percent, epoch>>

\* The packet has been on the air for its airtime, and is charged with the
\* percentage that was read before it was sent.
Sent ==
  /\ transmitting # Idle
  /\ now >= transmitting.since + transmitting.airtime_ms
  /\ budget' = RecordTransmit(budget, now, transmitting.airtime_ms, transmitting.percent)
  /\ transmitting' = Idle
  /\ UNCHANGED <<now, duty_cycle_percent, epoch, charged>>

\* CAD or the radio failed: nothing is charged.
Failed ==
  /\ transmitting # Idle
  /\ charged' = IF transmitting.counted THEN charged - transmitting.airtime_ms ELSE charged
  /\ transmitting' = Idle
  /\ UNCHANGED <<now, duty_cycle_percent, budget, epoch>>

\* "set dutycycle" changes the configuration; the budget learns of it at its
\* next update.
SetDutyCycle(percent) ==
  /\ percent # duty_cycle_percent
  /\ duty_cycle_percent' = percent
  /\ epoch' = now
  /\ charged' = 0
  /\ transmitting' = IF transmitting = Idle THEN Idle
                     ELSE [transmitting EXCEPT !.counted = FALSE]
  /\ UNCHANGED <<now, budget>>

BudgetTick ==
  /\ Passes(MaxBudgetTime)
  /\ UNCHANGED <<duty_cycle_percent, budget, transmitting, epoch, charged>>

BudgetNext ==
  \/ AskReady
  \/ \E airtime \in Airtimes : Grant(airtime)
  \/ Sent
  \/ Failed
  \/ \E percent \in Percents : SetDutyCycle(percent)
  \/ BudgetTick

BudgetSpec == BudgetInit /\ [][BudgetNext]_budgetVars

------------------------------------------------------------------------------
(* Properties *)

\* Type correctness: the values the budget and its caller hold.
BudgetTypeOK ==
  /\ now \in Nat
  /\ duty_cycle_percent \in Percents
  /\ budget \in Budgets
  /\ transmitting \in {Idle} \cup InFlight
  /\ epoch \in Nat
  /\ charged \in Nat

\* The budget is never overdrawn, however the duty cycle is changed while a
\* packet is between the check (ready_at_ms) and the charge
\* (record_transmit): what is being transmitted is still covered.
NeverOverdrawn ==
  /\ budget.available_ms >= 0
  /\ transmitting # Idle /\ transmitting.percent < 100
       => transmitting.airtime_ms <= budget.available_ms

\* What the duty cycle allows in T milliseconds is one full bucket and the
\* share of T, rounding apart: the airtime granted since the duty cycle was
\* last changed stays within it.
DutyCycleBounded ==
  100 * charged <= 100 * MaxBudget(duty_cycle_percent)
                     + duty_cycle_percent * (now - epoch) + 99

\* The time ready_at_ms returns is late enough: asked again then, the budget
\* lets the packet go, so the radio never wakes from its timer in vain.
ReadyAtSuffices ==
  \A airtime \in Airtimes :
    airtime <= MaxBudget(duty_cycle_percent) =>
      LET ready_at == ReadyAt(budget, now, airtime, duty_cycle_percent)
          asked    == AfterReadyAt(budget, now, duty_cycle_percent)
      IN ReadyAt(asked, ready_at, airtime, duty_cycle_percent) = ready_at

\* What ready_at_ms promises is there when the packet is charged: the budget
\* suffices at the time it named, and is not overdrawn by what it let through.
BudgetSuffices == BudgetTypeOK /\ NeverOverdrawn /\ ReadyAtSuffices
==============================================================================
