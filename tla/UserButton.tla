------------------------------ MODULE UserButton -------------------------------
(***************************************************************************)
(* The status screen and the user button of ui.rs.  A press wakes the      *)
(* screen, and one held for ADVERT_HOLD_MS sends a zero-hop advert.  An    *)
(* edge of the pin is seen only by a wait that is under way, which keeps   *)
(* it until the task is polled: by then the pin may have moved on, for the *)
(* one executor is held up by flash and ciphers.  Of the timers only that  *)
(* they end matters.                                                       *)
(***************************************************************************)

VARIABLES
  screen,   \* where the task is
  tracker,  \* release_or_hold: "off", "on", or what it returned
  pin,      \* "up" or "down"
  edge,     \* the edge that the wait under way has seen: "none", "fell" or "rose"
  expired,  \* the hold timer has ended
  woken,    \* the screen could be woken
  by,       \* where the press that is followed was seen
  steady,   \* history: not released since the press came to be followed
  held      \* history: nor was it by the end of the timer

buttonVars == <<screen, tracker, pin, edge, expired, woken, by, steady, held>>

\* Waits for a press.  "plain": without a working display.
Idle == {"awake", "asleep", "plain"}

ButtonInit ==
  /\ screen \in {"awake", "plain"} /\ tracker = "off" /\ pin \in {"up", "down"} /\ edge = "none"
  /\ expired = FALSE /\ woken = FALSE /\ by = "plain" /\ steady = FALSE /\ held = FALSE

\* The user, at any time.
PressButton ==
  /\ pin = "up" /\ pin' = "down"
  /\ edge' = IF screen \in Idle THEN "fell" ELSE edge
  /\ UNCHANGED <<screen, tracker, expired, woken, by, steady, held>>

ReleaseButton ==
  /\ pin = "down" /\ pin' = "up"
  /\ edge' = IF tracker = "on" THEN "rose" ELSE edge
  /\ steady' = FALSE
  /\ UNCHANGED <<screen, tracker, expired, woken, by, held>>

HoldTimerEnds ==
  /\ tracker = "on" /\ ~expired
  /\ expired' = TRUE /\ held' = steady
  /\ UNCHANGED <<screen, tracker, pin, edge, woken, by, steady>>

\* release_or_hold is first polled; it does not ask whether the pin is still down.
Track == tracker' = "on" /\ edge' = "none" /\ expired' = FALSE /\ held' = FALSE

NotTracked == edge' = "none" /\ UNCHANGED <<tracker, expired, held>>

\* The screen's time is over, which is looked at before the press.
SleepDisplay ==
  /\ screen = "awake" /\ screen' \in {"asleep", "awake"}
  /\ edge' = "none"
  /\ UNCHANGED <<tracker, pin, expired, woken, by, steady, held>>

\* The screen is woken first.
SeePressAfterwards ==
  /\ screen \in Idle /\ edge = "fell"
  /\ by' = screen /\ steady' = TRUE
  /\ IF screen = "plain" THEN screen' = "tracking" /\ Track
     ELSE screen' = (IF screen = "awake" THEN "showing" ELSE "waking") /\ NotTracked
  /\ UNCHANGED <<pin, woken>>

SeePress ==
  /\ screen \in Idle /\ edge = "fell"
  /\ by' = screen /\ steady' = TRUE
  /\ CASE screen = "awake" -> screen' = "showing" /\ NotTracked
       [] screen = "asleep" -> screen' = "waking" /\ Track
       [] screen = "plain" -> screen' = "tracking" /\ Track
  /\ UNCHANGED <<pin, woken>>

\* show_status, for a screen that was awake: the press is followed after it.
ShowStatus ==
  /\ screen = "showing" /\ screen' = "tracking"
  /\ Track /\ steady' = TRUE
  /\ UNCHANGED <<pin, woken, by>>

\* The display is woken while the press is followed, or after that.
WakeDisplay ==
  /\ screen = "waking" /\ screen' = "tracking"
  /\ woken' \in BOOLEAN
  /\ IF tracker = "off" THEN Track ELSE UNCHANGED <<tracker, edge, expired, held>>
  /\ UNCHANGED <<pin, by, steady>>

\* A release is looked at before the timer.
PollTracker ==
  /\ tracker = "on" /\ screen \in {"waking", "tracking"}
  /\ \/ edge = "rose" /\ tracker' = "short"
     \/ edge # "rose" /\ expired /\ tracker' = "long"
  /\ UNCHANGED <<screen, pin, edge, expired, woken, by, steady, held>>

\* After it the task waits for the next press, or queues the advert; woken and
\* shown, the screen stays awake, and otherwise asleep.
Home == CASE by = "asleep" -> IF woken THEN "awake" ELSE "asleep" [] OTHER -> by

EndPress ==
  /\ screen = "tracking" /\ tracker \in {"short", "long"}
  /\ screen' = IF tracker = "long" /\ (by = "asleep" => woken) THEN "queueing" ELSE Home
  /\ tracker' = "off" /\ edge' = "none"
  /\ UNCHANGED <<pin, expired, woken, by, steady, held>>

\* queue_advert, and the message if it was queued.
QueueAdvert ==
  /\ screen = "queueing" /\ screen' = Home
  /\ edge' = "none"
  /\ UNCHANGED <<tracker, pin, expired, woken, by, steady, held>>

ButtonNext ==
  \/ PressButton \/ ReleaseButton \/ HoldTimerEnds
  \/ SleepDisplay \/ SeePress \/ ShowStatus \/ WakeDisplay \/ PollTracker \/ EndPress \/ QueueAdvert

ButtonSpec == ButtonInit /\ [][ButtonNext]_buttonVars

-------------------------------------------------------------------------------
(* Properties *)

\* The types of the variables.
ButtonTypeOK ==
  /\ screen \in Idle \cup {"showing", "waking", "tracking", "queueing"}
  /\ tracker \in {"off", "on", "short", "long"} /\ pin \in {"up", "down"}
  /\ edge \in {"none", "fell", "rose"}
  /\ {expired, woken, steady, held} \subseteq BOOLEAN /\ by \in Idle

\* No advert is sent of a press that ended while the hold timer ran and was
\* followed, be the display slow or broken.  A release is missed only before that:
\* until the task comes to see the press and, where the screen was awake, until its
\* status has been shown; the press is then followed on a pin already up and, with
\* no other, taken for a hold.
HoldIsHeld == screen = "queueing" => held

\* The press that is followed is the user's.
PressesAreFollowed == ButtonTypeOK /\ HoldIsHeld
==============================================================================
