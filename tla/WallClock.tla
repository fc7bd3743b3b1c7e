------------------------------- MODULE WallClock -------------------------------
(***************************************************************************)
(* The wall clock of the ESP32 platform.  Where the chip has them, three   *)
(* registers that outlive a reset hold the time, the RTC's second it was   *)
(* taken at, and a checksum over both; every reading carries them on.      *)
(* Elsewhere an offset to the uptime is kept, until a reset.  A call is    *)
(* not interrupted by another, but the RTC ticks and a reset may come      *)
(* between any two of its steps.  The uptime ticks with the RTC; the       *)
(* saturation of the sums at 2^32 seconds is out of reach.                 *)
(***************************************************************************)
EXTENDS Integers, Sequences

CONSTANTS
  SetTo,      \* the times that commands and NTP servers bring
  MaxSeconds  \* bound: the RTC stops here

ASSUME ClockAssumption == SetTo \subseteq Nat \ {0} /\ MaxSeconds \in Nat

VARIABLES
  retaining,  \* the chip's registers are used: feature esp32s3
  rtc,        \* time_since_power_up
  boot,       \* the second of the last reset
  store,      \* the registers
  offset,     \* WALL_CLOCK_OFFSET_SECONDS
  call,       \* the call in progress
  due,        \* history: the time it is, by the setting in force, or Unset
  slipped,    \* history: the ticks between the two looks of one reading at the RTC
  shown       \* history: the reading returned last since then, or Unset

clockVars == <<retaining, rtc, boot, store, offset, call, due, slipped, shown>>

Unset == -1

\* That of any two values differs from that of others; none is right for what is
\* there after power was lost.
Checksum(unix, rtc_seconds) == <<unix, rtc_seconds>>
Blank == [sum |-> <<>>, unix |-> 0, rtc |-> 0]
Valid == retaining /\ store.sum = Checksum(store.unix, store.rtc)

\* then: what follows the reading.  seconds: what was read, or is set, at the RTC's
\* second `read`; at: the second it is stamped with.
NoCall ==
  [stage |-> "none", then |-> "none", set |-> 0, seconds |-> 0, read |-> 0, at |-> 0,
   began |-> 0]

ClockInit ==
  /\ retaining \in BOOLEAN /\ rtc = 0 /\ boot = 0 /\ store = Blank /\ offset = 0
  /\ call = NoCall /\ due = Unset /\ slipped = 0 /\ shown = Unset

Uptime_seconds == rtc - boot

Retained ==
  IF rtc >= store.rtc THEN store.unix + (rtc - store.rtc) ELSE store.unix + Uptime_seconds

-------------------------------------------------------------------------------
\* now_seconds, for what follows.  What the registers gave is written back.
Read(then, set) ==
  /\ call = NoCall
  /\ call' = [stage |-> IF Valid THEN "stamp" ELSE "done", then |-> then, set |-> set,
              seconds |-> IF Valid THEN Retained ELSE Uptime_seconds + offset,
              read |-> rtc, at |-> 0, began |-> rtc]
  /\ UNCHANGED <<retaining, rtc, boot, store, offset, due, slipped, shown>>

ReadClock == Read("answer", 0)

Reboot == Read("reboot", 0)

\* `time` and `clock sync`: the time given, or the sender's and a second.
SetTime == \E seconds \in SetTo : Read("set", seconds)

\* sync_ntp: the answer within 10 seconds, if any.
Replies == [seconds : SetTo, synchronised : BOOLEAN, echoes : BOOLEAN]

SyncTime ==
  \E reply \in Replies :
    reply.synchronised /\ reply.echoes /\ Read("set", reply.seconds)

\* refresh_retained_wall_clock looks at the RTC again, and writes to the registers,
\* where there are any.
StampClock ==
  /\ call.stage = "stamp"
  /\ call' = [call EXCEPT !.stage = IF retaining THEN "sum" ELSE "done", !.at = rtc]
  /\ UNCHANGED <<retaining, rtc, boot, store, offset, due, slipped, shown>>

WriteRegister ==
  /\ \/ call.stage = "sum" /\ call' = [call EXCEPT !.stage = "unix"]
        /\ store' = [store EXCEPT !.sum = Checksum(call.seconds, call.at)]
        /\ UNCHANGED <<due, slipped>>
     \/ call.stage = "unix" /\ call' = [call EXCEPT !.stage = "rtc"]
        /\ store' = [store EXCEPT !.unix = call.seconds]
        /\ IF call.then = "none"
           THEN due' = call.seconds + (rtc - call.read) /\ slipped' = call.at - call.read
           ELSE /\ slipped' = (IF due = Unset THEN 0 ELSE slipped + (call.at - call.read))
                /\ UNCHANGED due
     \/ call.stage = "rtc" /\ call' = [call EXCEPT !.stage = "done"]
        /\ store' = [store EXCEPT !.rtc = call.at]
        /\ UNCHANGED <<due, slipped>>
  /\ UNCHANGED <<retaining, rtc, boot, offset, shown>>

\* Compared with the time since the boot, not with the clock.
AcceptsAfterBoot(set, seconds) == set > Uptime_seconds

AcceptsTime(set, seconds) == set > seconds

\* set_wall_clock_if_forward, after its reading: a time that is not later is refused.
SetClock ==
  /\ call.stage = "done" /\ call.then = "set"
  /\ IF AcceptsTime(call.set, call.seconds)
     THEN /\ offset' = (IF call.set > Uptime_seconds THEN call.set - Uptime_seconds ELSE 0)
          /\ call' = [call EXCEPT !.stage = "stamp", !.then = "none",
                                  !.seconds = call.set, !.read = rtc]
          /\ due' = (IF retaining THEN due ELSE call.set)
     ELSE call' = NoCall /\ UNCHANGED <<offset, due>>
  /\ UNCHANGED <<retaining, rtc, boot, store, slipped, shown>>

\* The reading is returned.
AnswerClock ==
  /\ call.stage = "done" /\ call.then = "answer"
  /\ shown' = (IF due = Unset THEN Unset ELSE call.seconds)
  /\ call' = NoCall
  /\ UNCHANGED <<retaining, rtc, boot, store, offset, due, slipped>>

EndSetting ==
  /\ call.stage = "done" /\ call.then = "none"
  /\ call' = NoCall
  /\ UNCHANGED <<retaining, rtc, boot, store, offset, due, slipped, shown>>

\* reboot keeps what it has read, and then resets.
KeepForReboot ==
  /\ call.stage = "done" /\ call.then = "reboot"
  /\ call' = [call EXCEPT !.stage = "stamp", !.then = "reset",
                          !.read = IF Valid THEN call.at ELSE rtc]
  /\ UNCHANGED <<retaining, rtc, boot, store, offset, due, slipped, shown>>

\* The RAM is lost; so is the time if there are no registers, or they were half
\* written.
Reset ==
  /\ boot' = rtc /\ offset' = 0 /\ call' = NoCall
  /\ IF Valid THEN UNCHANGED <<due, slipped, shown>>
     ELSE due' = Unset /\ slipped' = 0 /\ shown' = Unset
  /\ UNCHANGED <<retaining, rtc, store>>

RebootClock == call.stage = "done" /\ call.then = "reset" /\ Reset

\* A panic, or the reset button.
ResetAnytime == Reset

PowerLost ==
  /\ rtc' = 0 /\ boot' = 0 /\ store' = Blank /\ offset' = 0 /\ call' = NoCall
  /\ due' = Unset /\ slipped' = 0 /\ shown' = Unset
  /\ UNCHANGED retaining

\* A call takes less than a second.
RtcTicks ==
  /\ rtc < MaxSeconds /\ (call = NoCall \/ rtc = call.began)
  /\ rtc' = rtc + 1
  /\ due' = (IF due = Unset THEN Unset ELSE due + 1)
  /\ UNCHANGED <<retaining, boot, store, offset, call, slipped, shown>>

ClockNext ==
  \/ ReadClock \/ Reboot \/ SetTime \/ SyncTime \/ StampClock \/ WriteRegister \/ SetClock \/ AnswerClock \/ EndSetting
  \/ KeepForReboot \/ RebootClock \/ ResetAnytime \/ PowerLost \/ RtcTicks

ClockSpec == ClockInit /\ [][ClockNext]_clockVars

-------------------------------------------------------------------------------
(* Properties *)

\* The types of the variables.
ClockTypeOK ==
  /\ retaining \in BOOLEAN /\ rtc \in 0 .. MaxSeconds /\ boot \in 0 .. rtc
  /\ store.unix \in Nat /\ store.rtc \in Nat /\ offset \in Nat
  /\ call.stage \in {"none", "stamp", "sum", "unix", "rtc", "done"}
  /\ call.then \in {"none", "answer", "set", "reboot", "reset"}
  /\ call.seconds \in Nat /\ call.began \in 0 .. rtc /\ due \in {Unset} \cup Nat /\ slipped \in Nat

\* No reading, nor one after a later setting or a reset, is before one returned
\* earlier: until the power is lost, a reset leaves half a time in the registers or,
\* on chips without them, any reset.
ClockNeverBack == [][shown # Unset /\ shown' # Unset => shown' >= shown]_clockVars

\* Between two calls the clock says the time that was set and what has passed since,
\* readings and resets in between included, less a second for every one that ticked
\* between the two looks of a reading at the RTC.  Nothing is due after a loss of
\* power, a setting cut short or, on chips without the registers, any reset.
ClockKeepsPace ==
  call = NoCall /\ due # Unset =>
    (IF Valid THEN Retained ELSE Uptime_seconds + offset) = due - slipped

\* Until the time is lost so, the clock can be relied on through resets: it keeps the
\* time, less what slips through, and does not go back.
ClockKeepsTime == []ClockKeepsPace /\ ClockNeverBack
==============================================================================
