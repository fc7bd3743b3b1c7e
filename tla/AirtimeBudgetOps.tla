-------------------------- MODULE AirtimeBudgetOps --------------------------
(***************************************************************************)
(* The methods of AirtimeBudget (repeater/src/app/mod.rs) as operators on  *)
(* its value: a record of the milliseconds that may still be transmitted   *)
(* and the time of the last refill.  A method that changes the budget is   *)
(* the budget it leaves behind.                                            *)
(***************************************************************************)
EXTENDS Integers

CONSTANT DUTY_CYCLE_WINDOW_MS  \* the hour over which the duty cycle is meant

ASSUME WindowAssumption == DUTY_CYCLE_WINDOW_MS \in Nat \ {0}

\* The values of the struct.  The time of the last refill is an integer, for the
\* modules that count time backwards from the present.
Budgets == [available_ms : Int, last_update_ms : Int]

------------------------------------------------------------------------------
Lesser(a, b) == IF a <= b THEN a ELSE b

\* A floor in the place of the ceiling, for the mutation of DivCeil.
DivFloor(n, d) == n \div d

DivCeil(n, d) == n \div d + IF n % d = 0 THEN 0 ELSE 1

\* The most the budget can hold: the whole window's share.
MaxBudget(percent) == (DUTY_CYCLE_WINDOW_MS * percent) \div 100

NewBudget(now_ms, percent) ==
  [available_ms |-> MaxBudget(percent), last_update_ms |-> now_ms]

\* What has been earned since the last refill, rounded down.
Refill(b, now_ms, percent) ==
  ((now_ms - b.last_update_ms) * percent) \div 100

\* A refill that forgets to move last_update_ms.
UpdateKeepingTime(b, now_ms, percent) ==
  [b EXCEPT !.available_ms =
     Lesser(Lesser(@, MaxBudget(percent)) + Refill(b, now_ms, percent),
            MaxBudget(percent))]

\* update(), for a duty cycle below 100: its callers return before they call it
\* with 100.  The clock of the budget only moves when something is
\* earned, so that time too short to earn a millisecond is not thrown away.
Update(b, now_ms, percent) ==
  LET kept   == Lesser(b.available_ms, MaxBudget(percent))
      refill == Refill(b, now_ms, percent)
  IN IF refill > 0
     THEN [available_ms   |-> Lesser(kept + refill, MaxBudget(percent)),
           last_update_ms |-> now_ms]
     ELSE [b EXCEPT !.available_ms = kept]

\* A call of ready_at_ms updates the budget, unless the duty cycle is 100.
AfterReadyAt(b, now_ms, percent) ==
  IF percent >= 100 THEN b ELSE Update(b, now_ms, percent)

\* A comparison that lets a packet through one millisecond early.
ReadyAtEarly(b, now_ms, required_ms, percent) ==
  IF percent >= 100 \/ AfterReadyAt(b, now_ms, percent).available_ms + 1 >= required_ms
  THEN now_ms
  ELSE now_ms + DivCeil(
         (required_ms - AfterReadyAt(b, now_ms, percent).available_ms) * 100, percent)

\* The value ready_at_ms returns.
ReadyAt(b, now_ms, required_ms, percent) ==
  LET available == AfterReadyAt(b, now_ms, percent).available_ms
  IN IF percent >= 100 \/ available >= required_ms
     THEN now_ms
     ELSE now_ms + DivCeil((required_ms - available) * 100, percent)

RecordTransmit(b, now_ms, airtime_ms, percent) ==
  IF percent >= 100
  THEN b
  ELSE LET updated == Update(b, now_ms, percent)
       IN [updated EXCEPT !.available_ms = @ - airtime_ms]
==============================================================================
