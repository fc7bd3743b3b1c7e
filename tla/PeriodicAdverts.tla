---------------------------- MODULE PeriodicAdverts ----------------------------
(***************************************************************************)
(* The task that sends adverts at intervals: once in a round of a second   *)
(* it looks at the schedule of flood adverts and then at that of zero-hop  *)
(* ones.  Commands change the intervals at any moment.                     *)
(***************************************************************************)
EXTENDS Uptime

CONSTANTS
  Intervals,  \* what is configured, 0 for none
  Changing,   \* bound: the kinds whose interval commands change
  Period,     \* the delay between two rounds
  Late,       \* how late the task may be polled, and how long a round lasts
  MaxAdvertTime  \* bound: the clock stops here

ASSUME AdvertsAssumption ==
  /\ Intervals \subseteq Nat /\ Changing \subseteq {"flood", "zero_hop"}
  /\ Period \in Nat /\ Late \in Nat /\ MaxAdvertTime \in Nat

Kinds == {"flood", "zero_hop"}

VARIABLES
  interval,  \* the configured interval of each kind
  schedule,  \* Schedule of each kind
  turn,      \* "delay", or the kind that is looked at next
  wake,      \* when the delay ends
  last,      \* history: when an advert of the kind was last sent, or the boot
  changed    \* history: when its interval was last changed

advertVars == <<interval, schedule, turn, wake, last, changed>>

AdvertsInit ==
  /\ interval \in [Kinds -> Intervals]
  /\ schedule = [kind \in Kinds |-> [interval_ms |-> interval[kind], started_ms |-> now]]
  /\ turn = "delay" /\ wake = now + Period
  /\ last = [kind \in Kinds |-> now] /\ changed = last

SetAdvertInterval ==
  \E kind \in Changing, value \in Intervals :
    /\ value # interval[kind]
    /\ interval' = [interval EXCEPT ![kind] = value]
    /\ changed' = [changed EXCEPT ![kind] = now]
    /\ UNCHANGED <<now, schedule, turn, wake, last>>

BeginRound ==
  /\ turn = "delay" /\ now >= wake
  /\ turn' = "flood"
  /\ UNCHANGED <<now, interval, schedule, wake, last, changed>>

\* Schedule::due
DueAt(s, interval_ms, at) ==
  interval_ms = s.interval_ms /\ interval_ms # 0 /\ at - s.started_ms >= interval_ms

\* Intervals that were missed are caught up with.
AfterDueCatchingUp(s, interval_ms, at) ==
  [interval_ms |-> interval_ms,
   started_ms |-> IF interval_ms # s.interval_ms THEN at
                  ELSE IF DueAt(s, interval_ms, at) THEN s.started_ms + interval_ms
                  ELSE s.started_ms]

AfterDue(s, interval_ms, at) ==
  [interval_ms |-> interval_ms,
   started_ms |-> IF interval_ms # s.interval_ms \/ DueAt(s, interval_ms, at) THEN at
                  ELSE s.started_ms]

\* One schedule's turn.  An advert that the full queue refuses is not sent again.
LookAtSchedule ==
  /\ turn \in Kinds
  /\ schedule' = [schedule EXCEPT ![turn] = AfterDue(@, interval[turn], now)]
  /\ last' = IF DueAt(schedule[turn], interval[turn], now)
             THEN [last EXCEPT ![turn] = now] ELSE last
  /\ IF turn = "flood" THEN turn' = "zero_hop" /\ UNCHANGED wake
     ELSE turn' = "delay" /\ wake' = now + Period
  /\ UNCHANGED <<now, interval, changed>>

AdvertsNext ==
  \/ SetAdvertInterval \/ BeginRound \/ LookAtSchedule
  \/ now < wake + Late /\ Passes(MaxAdvertTime) /\ UNCHANGED advertVars

AdvertsSpec == now = 0 /\ AdvertsInit /\ [][AdvertsNext]_<<now, advertVars>>

-------------------------------------------------------------------------------
(* Properties *)

\* The types of the variables.
AdvertsTypeOK ==
  /\ interval \in [Kinds -> Intervals]
  /\ schedule \in [Kinds -> [interval_ms : Intervals, started_ms : 0 .. now]]
  /\ turn \in {"delay"} \cup Kinds /\ wake \in 0 .. now + Period

\* However late the task is polled and whenever intervals change, an advert never
\* follows another, or the boot, sooner than the interval then configured: missed
\* ones are not caught up with.
NeverTooSoon ==
  [][\A kind \in Kinds :
       last'[kind] # last[kind] =>
         interval[kind] # 0 /\ now - last[kind] >= interval[kind]]_advertVars

\* And while the interval stays, the next one is at most two rounds later than
\* that, of which one may pass before a change of the interval is seen.
NeverTooLate ==
  \A kind \in Kinds :
    LET since == IF last[kind] < changed[kind] THEN changed[kind] ELSE last[kind]
    IN interval[kind] # 0 => now - since <= interval[kind] + 2 * (Period + 2 * Late)

\* Adverts keep their intervals: none too soon, none too late.
AdvertsKeepTime == []NeverTooLate /\ NeverTooSoon
==============================================================================
