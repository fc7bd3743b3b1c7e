---------------------------- MODULE Station_proofs -----------------------------
(***************************************************************************)
(* Proofs about the periodic adverts, the wall clock, the mounting of the  *)
(* storage, the firmware update, the user button, the command line, and    *)
(* the neighbour table with the pages it is reported in.                   *)
(***************************************************************************)
EXTENDS PeriodicAdverts, WallClock, StorageMount, FirmwareUpdate, UserButton, LineEditors,
        Neighbourhood, SequenceTheorems, FiniteSetTheorems, WellFoundedInduction, TLAPS

-------------------------------------------------------------------------------
(* Periodic adverts *)

\* A round, from one look at a schedule to the next.
Round == Period + 2 * Late

\* The last look at a kind's schedule was then or later.
LookedAfter(kind) ==
  IF turn = "zero_hop" /\ kind = "flood" THEN wake ELSE wake - Period - Late

Since(kind) == IF last[kind] < changed[kind] THEN changed[kind] ELSE last[kind]

AdvertTypes ==
  /\ now \in Nat
  /\ interval \in [Kinds -> Nat]
  /\ schedule \in [Kinds -> [interval_ms : Nat, started_ms : Nat]]
  /\ turn \in {"delay"} \cup Kinds /\ wake \in Nat
  /\ last \in [Kinds -> Nat] /\ changed \in [Kinds -> Nat]

\* The task is polled in time.
RoundsInTime ==
  /\ now <= wake + Late /\ wake <= now + Period
  /\ turn # "delay" => wake <= now

\* A schedule counts from its last advert, or from the look that saw a change.
CountsFrom(kind) ==
  /\ last[kind] <= schedule[kind].started_ms /\ last[kind] <= now /\ changed[kind] <= now
  /\ schedule[kind].started_ms <= Since(kind) + Round

\* What its last look left: seen or not yet due.
LookedAt(kind) ==
  /\ schedule[kind].interval_ms # interval[kind] => LookedAfter(kind) <= changed[kind]
  /\ schedule[kind].interval_ms # 0 =>
       LookedAfter(kind) <= schedule[kind].started_ms + schedule[kind].interval_ms

AdvertsInv ==
  AdvertTypes /\ RoundsInTime /\ \A kind \in Kinds : CountsFrom(kind) /\ LookedAt(kind)

\* The task begins with what is configured, looked at now.
LEMMA AdvertsStart ==
  now = 0 /\ AdvertsInit => AdvertsInv
<1>. SUFFICES ASSUME now = 0, AdvertsInit PROVE AdvertsInv
  OBVIOUS
<1>. USE AdvertsAssumption DEF AdvertsInit, Kinds
<1>1. AdvertTypes
  <2>1. interval \in [Kinds -> Nat] /\ last \in [Kinds -> Nat] /\ changed \in [Kinds -> Nat]
    OBVIOUS
  <2>2. schedule \in [Kinds -> [interval_ms : Nat, started_ms : Nat]]
    BY <2>1
  <2> QED
    BY <2>1, <2>2 DEF AdvertTypes
<1>2. RoundsInTime
  BY DEF RoundsInTime
<1>3. ASSUME NEW kind \in Kinds PROVE CountsFrom(kind) /\ LookedAt(kind)
  <2>1. /\ schedule[kind].interval_ms = interval[kind] /\ schedule[kind].started_ms = 0
        /\ last[kind] = 0 /\ changed[kind] = 0 /\ interval[kind] \in Nat
    OBVIOUS
  <2>2. LookedAfter(kind) \in Int /\ LookedAfter(kind) <= 0
    BY DEF LookedAfter
  <2> QED
    BY <2>1, <2>2 DEF CountsFrom, LookedAt, Since, Round
<1> QED
  BY <1>1, <1>2, <1>3 DEF AdvertsInv

\* A change of an interval, and then a look at a schedule.
LEMMA SetKeepsInv ==
  AdvertsInv /\ SetAdvertInterval => AdvertsInv'
<1>. SUFFICES ASSUME AdvertsInv, NEW kind \in Changing, NEW value \in Intervals,
                     interval' = [interval EXCEPT ![kind] = value],
                     changed' = [changed EXCEPT ![kind] = now],
                     UNCHANGED <<now, schedule, turn, wake, last>>
              PROVE  AdvertsInv'
  BY DEF SetAdvertInterval
<1>. USE AdvertsAssumption DEF Kinds
<1>1. AdvertTypes' /\ AdvertTypes
  BY DEF AdvertsInv, AdvertTypes
<1>2. RoundsInTime' /\ RoundsInTime
  BY DEF AdvertsInv, RoundsInTime
<1>3. ASSUME NEW k \in Kinds PROVE CountsFrom(k)'
  BY <1>1 DEF AdvertsInv, AdvertTypes, CountsFrom, Since, Round
<1>4. ASSUME NEW k \in Kinds PROVE LookedAt(k)'
  BY <1>1, <1>2 DEF AdvertsInv, AdvertTypes, LookedAt, LookedAfter, RoundsInTime
<1> QED
  BY <1>1, <1>2, <1>3, <1>4 DEF AdvertsInv

LEMMA LookKeepsInv ==
  AdvertsInv /\ LookAtSchedule => AdvertsInv'
<1>. SUFFICES ASSUME AdvertsInv, LookAtSchedule PROVE AdvertsInv'
  OBVIOUS
<1>. USE AdvertsAssumption DEF Kinds
<1>1. AdvertTypes' /\ AdvertTypes
  BY DEF AdvertsInv, AdvertTypes, LookAtSchedule, AfterDue
<1>t. \/ turn = "flood" /\ turn' = "zero_hop" /\ wake' = wake /\ now' = now
      \/ turn = "zero_hop" /\ turn' = "delay" /\ wake' = now + Period /\ now' = now
  BY DEF LookAtSchedule
<1>2. RoundsInTime' /\ RoundsInTime
  <2>1. now \in Nat /\ wake \in Nat /\ Period \in Nat /\ Late \in Nat
    BY <1>1 DEF AdvertTypes
  <2>2. now <= wake + Late /\ wake <= now + Period /\ wake <= now
    BY <1>t DEF AdvertsInv, RoundsInTime
  <2> QED
    BY <1>t, <2>1, <2>2 DEF AdvertsInv, RoundsInTime
<1>p. /\ now \in Nat /\ wake \in Nat /\ Period \in Nat /\ Late \in Nat
      /\ now <= wake + Late /\ wake <= now
  BY <1>1, <1>2, <1>t DEF AdvertTypes, RoundsInTime
<1>3. ASSUME NEW k \in Kinds, k # turn PROVE CountsFrom(k)' /\ LookedAt(k)'
  <2>1. /\ schedule'[k] = schedule[k] /\ interval' = interval
        /\ last'[k] = last[k] /\ changed' = changed /\ now' = now
    BY <1>1, <1>3 DEF AdvertTypes, LookAtSchedule
  <2>2. CountsFrom(k)'
    BY <1>1, <2>1 DEF AdvertsInv, CountsFrom, Since, Round
  <2>3. LookedAfter(k)' <= LookedAfter(k)
    BY <1>3, <1>p, <1>t DEF LookedAfter
  <2>4. LookedAfter(k) \in Int /\ LookedAfter(k)' \in Int
    BY <1>1 DEF AdvertTypes, LookedAfter
  <2>5. LookedAt(k)'
    BY <1>1, <2>1, <2>3, <2>4 DEF AdvertsInv, AdvertTypes, LookedAt
  <2> QED
    BY <2>2, <2>5
<1>4. ASSUME NEW k \in Kinds, k = turn PROVE CountsFrom(k)' /\ LookedAt(k)'
  <2>. DEFINE s == schedule[k]  dueNow == DueAt(s, interval[k], now)
  <2>1. /\ interval' = interval /\ changed' = changed /\ now' = now
        /\ schedule'[k] = AfterDue(s, interval[k], now)
        /\ last'[k] = IF dueNow THEN now ELSE last[k]
    BY <1>1, <1>4 DEF AdvertTypes, LookAtSchedule
  <2>2. /\ now - Round <= LookedAfter(k) /\ LookedAfter(k) \in Int
        /\ LookedAfter(k)' <= now /\ LookedAfter(k)' \in Int
    BY <1>4, <1>p, <1>t DEF LookedAfter, Round
  <2>3. CountsFrom(k) /\ LookedAt(k) /\ s.interval_ms \in Nat /\ s.started_ms \in Nat
    BY <1>1, <2>1 DEF AdvertsInv, AdvertTypes
  <2>4. /\ Since(k) \in Nat /\ interval[k] \in Nat /\ now \in Nat
        /\ last[k] \in Nat /\ changed[k] \in Nat
    BY <1>1, <2>1 DEF AdvertTypes, Since
  <2>5. CASE dueNow
    <3>1. /\ last'[k] = now /\ schedule'[k].started_ms = now
          /\ schedule'[k].interval_ms = interval[k]
      BY <2>1, <2>5 DEF AfterDue
    <3> QED
      BY <2>1, <2>2, <2>3, <2>4, <3>1
      DEF CountsFrom, LookedAt, Since, Round
  <2>6. CASE ~dueNow /\ interval[k] # s.interval_ms
    <3>1. last'[k] = last[k] /\ schedule'[k].started_ms = now
          /\ schedule'[k].interval_ms = interval[k]
      BY <2>1, <2>6 DEF AfterDue
    <3>2. now - Round <= changed[k]
      BY <2>2, <2>3, <2>4, <2>6 DEF LookedAt, Round
    <3> QED
      BY <2>1, <2>2, <2>3, <2>4, <3>1, <3>2
      DEF CountsFrom, LookedAt, Since, Round
  <2>7. CASE ~dueNow /\ interval[k] = s.interval_ms
    <3>1. last'[k] = last[k] /\ schedule'[k].started_ms = s.started_ms
          /\ schedule'[k].interval_ms = interval[k]
      BY <2>1, <2>7 DEF AfterDue
    <3>2. interval[k] # 0 => now < s.started_ms + interval[k]
      BY <2>3, <2>4, <2>7 DEF DueAt
    <3>3. CountsFrom(k)'
      BY <2>1, <2>3, <2>4, <2>7, <3>1 DEF CountsFrom, Since, Round
    <3>4. LookedAt(k)'
      BY <2>1, <2>2, <2>3, <2>4, <3>1, <3>2 DEF LookedAt
    <3> QED
      BY <3>3, <3>4
  <2> QED
    BY <2>5, <2>6, <2>7
<1> QED
  BY <1>1, <1>2, <1>3, <1>4 DEF AdvertsInv

LEMMA AdvertsStep ==
  AdvertsInv /\ [AdvertsNext]_<<now, advertVars>> => AdvertsInv'
<1>. SUFFICES ASSUME AdvertsInv, [AdvertsNext]_<<now, advertVars>> PROVE AdvertsInv'
  OBVIOUS
<1>. USE AdvertsAssumption
<1>1. CASE SetAdvertInterval
  BY <1>1, SetKeepsInv
<1>2. CASE BeginRound
  <2>1. AdvertTypes' /\ RoundsInTime'
    BY <1>2 DEF AdvertsInv, AdvertTypes, RoundsInTime, BeginRound, Kinds
  <2>2. ASSUME NEW k \in Kinds PROVE CountsFrom(k)' /\ LookedAt(k)'
    BY <1>2 DEF AdvertsInv, CountsFrom, LookedAt, LookedAfter, Since, Round, BeginRound
  <2> QED
    BY <2>1, <2>2 DEF AdvertsInv
<1>3. CASE LookAtSchedule
  BY <1>3, LookKeepsInv
<1>4. CASE now < wake + Late /\ Passes(MaxAdvertTime) /\ UNCHANGED advertVars
  <2>1. AdvertTypes' /\ RoundsInTime'
    BY <1>4 DEF AdvertsInv, AdvertTypes, RoundsInTime, Passes, advertVars
  <2>2. ASSUME NEW k \in Kinds PROVE CountsFrom(k)' /\ LookedAt(k)'
    BY <1>4 DEF AdvertsInv, AdvertTypes, CountsFrom, LookedAt, LookedAfter, Since, Round,
                Passes, advertVars
  <2> QED
    BY <2>1, <2>2 DEF AdvertsInv
<1>5. CASE UNCHANGED <<now, advertVars>>
  BY <1>5 DEF AdvertsInv, AdvertTypes, RoundsInTime, CountsFrom, LookedAt, LookedAfter, Since,
              Round, advertVars
<1> QED
  BY <1>1, <1>2, <1>3, <1>4, <1>5 DEF AdvertsNext

\* Whatever the period, the intervals and how late the task is polled, a schedule
\* counts from its last advert or from the look that saw its interval change, and
\* is looked at once in a round (Schedule::due and the task around it).
THEOREM SchedulesLookedAt == AdvertsSpec => []AdvertsInv
<1> QED
  BY AdvertsStart, AdvertsStep, PTL DEF AdvertsSpec

\* No advert is more than the interval and two rounds after the last one, or after
\* the interval's change.
THEOREM AdvertsInTime == AdvertsSpec => []NeverTooLate
<1>1. ASSUME AdvertsInv PROVE NeverTooLate
  <2>. SUFFICES ASSUME NEW k \in Kinds, interval[k] # 0
                PROVE  now - Since(k) <= interval[k] + 2 * Round
    BY DEF NeverTooLate, Since, Round
  <2>1. CountsFrom(k) /\ LookedAt(k) /\ AdvertTypes /\ RoundsInTime
    BY <1>1 DEF AdvertsInv
  <2>2. /\ interval[k] \in Nat /\ schedule[k].interval_ms \in Nat
        /\ Since(k) \in Nat /\ now \in Nat
        /\ schedule[k].started_ms \in Nat /\ changed[k] \in Nat /\ changed[k] <= Since(k)
        /\ Round \in Nat
    BY <2>1, AdvertsAssumption DEF AdvertTypes, Since, Round
  <2>3. now - Round <= LookedAfter(k) /\ LookedAfter(k) \in Int
    BY <2>1, AdvertsAssumption DEF AdvertTypes, RoundsInTime, LookedAfter, Round
  <2>4. CASE schedule[k].interval_ms # interval[k]
    BY <2>1, <2>2, <2>3, <2>4 DEF LookedAt
  <2>5. CASE schedule[k].interval_ms = interval[k]
    BY <2>1, <2>2, <2>3, <2>5 DEF LookedAt, CountsFrom
  <2> QED
    BY <2>4, <2>5
<1> QED
  BY <1>1, SchedulesLookedAt, PTL

\* An advert is sent no sooner than the interval after the last one.
THEOREM AdvertsKeepInterval == AdvertsSpec => NeverTooSoon
<1>1. ASSUME AdvertsInv, [AdvertsNext]_<<now, advertVars>>,
             NEW kind \in Kinds, last'[kind] # last[kind]
      PROVE  interval[kind] # 0 /\ now - last[kind] >= interval[kind]
  <2>1. LookAtSchedule
    BY <1>1 DEF AdvertsNext, SetAdvertInterval, BeginRound, Passes, advertVars
  <2>2. kind = turn /\ DueAt(schedule[kind], interval[kind], now)
    BY <1>1, <2>1 DEF AdvertsInv, AdvertTypes, LookAtSchedule
  <2>3. CountsFrom(kind) /\ AdvertTypes
    BY <1>1 DEF AdvertsInv
  <2> QED
    BY <2>2, <2>3 DEF CountsFrom, AdvertTypes, DueAt
<1>. DEFINE Kept == \A kind \in Kinds :
                      last'[kind] # last[kind] =>
                        interval[kind] # 0 /\ now - last[kind] >= interval[kind]
<1>2. AdvertsInv /\ [AdvertsNext]_<<now, advertVars>> => [Kept]_advertVars
  BY <1>1
<1>. HIDE DEF Kept
<1>3. AdvertsSpec => [][Kept]_advertVars
  BY <1>2, SchedulesLookedAt, PTL DEF AdvertsSpec
<1> QED
  BY <1>3 DEF Kept, NeverTooSoon

\* For every interval and lateness, adverts keep their time.
THEOREM AdvertsOnTime == AdvertsSpec => AdvertsKeepTime
<1> QED
  BY AdvertsInTime, AdvertsKeepInterval DEF AdvertsKeepTime

-------------------------------------------------------------------------------
(* Mounting the storage *)

\* What is formatted is a record whose configuration is in RAM, or was never written.
EraseIsSafe == booting \in {"erasing", "programming"} => config = "legacy" \/ IsErased

\* The configuration is in RAM only until it is in a file.
InRamWhileFormatting == config = "legacy" => Formatting

MountInv == MountTypeOK /\ EraseIsSafe /\ InRamWhileFormatting /\ LegacyKept

LEMMA MountStart == MountInit => MountInv
<1>. SUFFICES ASSUME MountInit PROVE MountInv
  OBVIOUS
<1>. USE MountAssumption DEF MountInit
<1>1. MountTypeOK
  <2>1. storage \in [1 .. Blocks -> {"erased", "record", "fs", "other"}]
    BY DEF FirstFlash
  <2>2. {sound, partition, cut, failed} \subseteq BOOLEAN
    OBVIOUS
  <2>3. next \in 1 .. Blocks
    OBVIOUS
  <2> QED
    BY <2>1, <2>2, <2>3 DEF MountTypeOK
<1>2. EraseIsSafe /\ InRamWhileFormatting
  BY DEF EraseIsSafe, InRamWhileFormatting
<1>3. ASSUME sound PROVE \A b \in 1 .. 2 : storage[b] = "record"
  <2>1. storage[1] = "record" /\ 1 \in 1 .. Blocks /\ 2 \in 1 .. Blocks
    BY <1>3 DEF HasRecord
  <2>2. storage = [b \in 1 .. Blocks |-> IF b <= 2 THEN "record" ELSE "other"]
    BY <2>1 DEF FirstFlash
  <2> QED
    BY <2>1, <2>2
<1> QED
  BY <1>1, <1>2, <1>3 DEF MountInv, LegacyKept

\* A block that changes was erased, or its configuration is in RAM.
LEMMA MountErases ==
  ASSUME MountInv, MountNext, NEW b \in 1 .. Blocks, storage'[b] # storage[b]
  PROVE  Formatting /\ (storage[b] # "erased" => config = "legacy")
<1>1. booting \in {"erasing", "programming"}
  BY DEF MountNext, FindPartition, ReadPartition, EraseBlock, MakeFilesystem, RestoreConfig,
         RepairMoves, SaveConfig, FlashFails, CutPower
<1> QED
  BY <1>1 DEF MountInv, EraseIsSafe, IsErased, Formatting

LEMMA MountKeepsTypes == MountInv /\ MountNext => MountTypeOK'
<1>. SUFFICES ASSUME MountTypeOK, MountNext PROVE MountTypeOK'
  BY DEF MountInv
<1>. USE MountAssumption DEF MountTypeOK
<1>1. CASE FindPartition
  BY <1>1 DEF FindPartition
<1>2. CASE ReadPartition
  BY <1>2 DEF ReadPartition
<1>3. CASE EraseBlock
  BY <1>3 DEF EraseBlock
<1>4. CASE MakeFilesystem
  BY <1>4 DEF MakeFilesystem
<1>5. CASE RestoreConfig
  BY <1>5 DEF RestoreConfig
<1>6. CASE RepairMoves
  BY <1>6 DEF RepairMoves
<1>7. CASE SaveConfig
  BY <1>7 DEF SaveConfig
<1>8. CASE FlashFails
  BY <1>8 DEF FlashFails, Formatting
<1>9. CASE CutPower
  BY <1>9 DEF CutPower, Formatting
<1> QED
  BY <1>1, <1>2, <1>3, <1>4, <1>5, <1>6, <1>7, <1>8, <1>9 DEF MountNext

LEMMA MountKeepsSafe == MountInv /\ MountNext => EraseIsSafe' /\ InRamWhileFormatting'
<1>. SUFFICES ASSUME MountInv, MountNext PROVE EraseIsSafe' /\ InRamWhileFormatting'
  OBVIOUS
<1>. USE MountAssumption DEF MountInv, EraseIsSafe, InRamWhileFormatting, Formatting
<1>1. CASE FindPartition
  BY <1>1 DEF FindPartition
<1>2. CASE ReadPartition
  BY <1>2 DEF ReadPartition, MayMove, MayFormat, IsErased
<1>3. CASE EraseBlock
  BY <1>3 DEF EraseBlock, IsErased, MountTypeOK
<1>4. CASE MakeFilesystem
  BY <1>4 DEF MakeFilesystem
<1>5. CASE RestoreConfig
  BY <1>5 DEF RestoreConfig
<1>6. CASE RepairMoves
  BY <1>6 DEF RepairMoves
<1>7. CASE SaveConfig
  BY <1>7 DEF SaveConfig
<1>8. CASE FlashFails
  BY <1>8 DEF FlashFails
<1>9. CASE CutPower
  BY <1>9 DEF CutPower
<1> QED
  BY <1>1, <1>2, <1>3, <1>4, <1>5, <1>6, <1>7, <1>8, <1>9 DEF MountNext

LEMMA MountKeepsLegacy == MountInv /\ MountNext => LegacyKept'
<1>. SUFFICES ASSUME MountInv, MountNext, sound', ~cut'
              PROVE  \/ (\A b \in 1 .. 2 : storage[b] = "record")'
                     \/ config' = "legacy" \/ file' = "moved"
  BY DEF LegacyKept
<1>1. sound /\ ~cut
  <2>1. sound' = sound /\ (cut' = cut \/ cut' = (cut \/ Formatting))
    BY DEF MountNext, FindPartition, ReadPartition, EraseBlock, MakeFilesystem,
                RestoreConfig, RepairMoves, SaveConfig, FlashFails, CutPower
  <2>2. sound \in BOOLEAN /\ cut \in BOOLEAN
    BY DEF MountInv, MountTypeOK
  <2> QED
    BY <2>1, <2>2
<1>2. CASE file = "moved"
  BY <1>2 DEF MountNext, FindPartition, ReadPartition, EraseBlock, MakeFilesystem,
              RestoreConfig, RepairMoves, SaveConfig, FlashFails, CutPower
<1>3. CASE config = "legacy"
  BY <1>3 DEF MountInv, InRamWhileFormatting, Formatting, MountNext, FindPartition,
              ReadPartition, EraseBlock, MakeFilesystem, RestoreConfig, RepairMoves,
              SaveConfig, FlashFails, CutPower
<1>4. CASE config # "legacy" /\ \A b \in 1 .. 2 : storage[b] = "record"
  <2>1. \A b \in 1 .. 2 : b \in 1 .. Blocks
    BY MountAssumption
  <2>2. \A b \in 1 .. 2 : storage'[b] = storage[b]
    BY <1>4, <2>1, MountErases
  <2> QED
    BY <1>4, <2>2
<1> QED
  BY <1>1, <1>2, <1>3, <1>4 DEF MountInv, LegacyKept

LEMMA MountStep == MountInv /\ [MountNext]_mountVars => MountInv'
<1>1. MountInv /\ UNCHANGED mountVars => MountInv'
  BY DEF MountInv, MountTypeOK, EraseIsSafe, InRamWhileFormatting, LegacyKept, IsErased,
         Formatting, mountVars
<1> QED
  BY <1>1, MountKeepsTypes, MountKeepsSafe, MountKeepsLegacy DEF MountInv

\* However many blocks the partition has, MountInv is an invariant of mounting it.
THEOREM MountInvariant == MountSpec => []MountInv
<1> QED
  BY MountStart, MountStep, PTL DEF MountSpec

\* The configuration of earlier firmware is in the flash, in RAM or in the new file
\* until a format of it or the move is interrupted.
THEOREM LegacyStaysSomewhere == MountSpec => []LegacyKept
<1>1. MountInv => LegacyKept
  BY DEF MountInv
<1> QED
  BY <1>1, MountInvariant, PTL

\* No block that holds anything is ever erased but while the configuration of a
\* record is in RAM.
THEOREM NothingUnknownErased == MountSpec => OnlyKnownErased
<1>. DEFINE ErasesKnown == \A b \in 1 .. Blocks :
                       storage'[b] # storage[b] /\ storage[b] # "erased" => config = "legacy"
<1>1. MountInv /\ [MountNext]_mountVars => [ErasesKnown]_mountVars
  BY MountErases
<1>. HIDE DEF ErasesKnown
<1>2. MountSpec => [][ErasesKnown]_mountVars
  BY <1>1, MountInvariant, PTL DEF MountSpec
<1> QED
  BY <1>2 DEF ErasesKnown, OnlyKnownErased

\* For every size of the partition, mounting it loses nothing.
THEOREM MountingIsSafe == MountSpec => StorageIsSafe
<1> QED
  BY LegacyStaysSomewhere, NothingUnknownErased DEF StorageIsSafe

-------------------------------------------------------------------------------
(* The wall clock *)

Stages == {"none", "stamp", "sum", "unix", "rtc", "done"}
Followers == {"none", "answer", "set", "reboot", "reset"}

ClockTypes ==
  /\ retaining \in BOOLEAN
  /\ rtc \in Nat /\ boot \in Nat /\ boot <= rtc /\ offset \in Nat /\ slipped \in Nat
  /\ due \in {Unset} \cup Nat /\ shown \in {Unset} \cup Nat
  /\ store \in [sum : {<<>>} \cup (Nat \X Nat), unix : Nat, rtc : Nat]
  /\ call \in [stage : Stages, then : Followers, set : Nat, seconds : Nat, read : Nat,
               at : Nat, began : Nat]

\* A call takes less than a second, and looks at the RTC in order.
CallInTime ==
  /\ call.read <= rtc /\ call.at <= rtc
  /\ call.stage # "none" => call.began <= rtc /\ rtc <= call.began + 1
  /\ call.stage \in {"sum", "unix", "rtc"} => call.read <= call.at

\* A time that is half written has the checksum of the whole.
SumIsFirst ==
  retaining =>
    /\ call.stage \in {"unix", "rtc"} => store.sum = Checksum(call.seconds, call.at)
    /\ call.stage = "rtc" => store.unix = call.seconds

\* The registers, or the call that writes them, keep the time.
RegistersKeepTime ==
  retaining /\ due # Unset =>
    /\ call.stage \notin {"unix", "rtc"} => Valid
    /\ call.stage # "rtc" =>
         store.rtc <= rtc /\ store.unix + (rtc - store.rtc) = due - slipped
    /\ call.stage \in {"stamp", "sum", "unix"} /\ call.then # "none" =>
         call.seconds + (rtc - call.read) = due - slipped
    /\ call.stage \in {"rtc", "done"} => call.seconds + (rtc - call.at) = due - slipped

\* And elsewhere the offset.
OffsetKeepsTime ==
  ~retaining =>
    /\ slipped = 0 /\ call.stage \notin {"sum", "unix", "rtc"}
    /\ call.stage = "stamp" => call.then \in {"none", "reset"}
    /\ due # Unset => (rtc - boot) + offset = due
    /\ call.stage = "done" /\ call.then \in {"answer", "set", "reboot"} =>
         call.seconds = (call.began - boot) + offset

\* What was shown is not later than the time it is, nor than what a call has read.
ShownIsPast ==
  shown # Unset =>
    /\ due # Unset /\ shown <= due - slipped
    /\ call.stage # "none" => shown <= call.seconds

ClockInv ==
  /\ ClockTypes /\ CallInTime /\ SumIsFirst /\ RegistersKeepTime /\ OffsetKeepsTime
  /\ ShownIsPast

\* One lemma for each step of the clock; those of a register are three.
LEMMA ReadKeepsInv ==
  ASSUME ClockInv, NEW then \in Followers \ {"none", "reset"}, NEW set \in Nat,
         Read(then, set)
  PROVE  ClockInv'
<1>. USE ClockAssumption DEF ClockInv, Unset
<1>1. ClockTypes'
  BY DEF ClockTypes, Stages, Followers, Read, NoCall, Valid, Retained, Uptime_seconds
<1>2. CallInTime'
  BY DEF ClockTypes, CallInTime, Read, NoCall, Valid, Retained, Uptime_seconds
<1>3. SumIsFirst'
  BY DEF ClockTypes, SumIsFirst, CallInTime, Read, NoCall, Valid, Retained, Uptime_seconds
<1>4. RegistersKeepTime'
  BY DEF ClockTypes, RegistersKeepTime, CallInTime, SumIsFirst, Valid, Read, NoCall, Retained,
         Uptime_seconds
<1>5. OffsetKeepsTime'
  BY DEF ClockTypes, OffsetKeepsTime, CallInTime, Read, NoCall, Valid, Retained, Uptime_seconds
<1>6. ShownIsPast'
  BY DEF ClockTypes, ShownIsPast, CallInTime, RegistersKeepTime, OffsetKeepsTime, Read,
         NoCall, Valid, Retained, Uptime_seconds
<1> QED
  BY <1>1, <1>2, <1>3, <1>4, <1>5, <1>6

LEMMA StampKeepsInv ==
  ASSUME ClockInv, StampClock PROVE ClockInv'
<1>. USE ClockAssumption DEF ClockInv, Unset
<1>f. /\ call.stage = "stamp" /\ call'.stage = (IF retaining THEN "sum" ELSE "done")
      /\ call'.then = call.then /\ call'.seconds = call.seconds /\ call'.read = call.read
      /\ call'.at = rtc /\ call'.began = call.began /\ call'.set = call.set
      /\ call' \in [stage : Stages, then : Followers, set : Nat, seconds : Nat,
                    read : Nat, at : Nat, began : Nat]
      /\ UNCHANGED <<retaining, rtc, boot, store, offset, due, slipped, shown>>
  BY DEF StampClock, ClockTypes, Stages, Followers
<1>1. ClockTypes'
  BY <1>f DEF ClockTypes, Stages, Followers
<1>2. CallInTime'
  BY <1>f DEF ClockTypes, CallInTime
<1>3. SumIsFirst'
  BY <1>f DEF ClockTypes, SumIsFirst, CallInTime
<1>4. RegistersKeepTime'
  BY <1>f DEF ClockTypes, RegistersKeepTime, CallInTime, SumIsFirst, Valid
<1>5. OffsetKeepsTime'
  BY <1>f DEF ClockTypes, OffsetKeepsTime, CallInTime
<1>6. ShownIsPast'
  BY <1>f DEF ClockTypes, ShownIsPast, CallInTime, RegistersKeepTime, OffsetKeepsTime
<1> QED
  BY <1>1, <1>2, <1>3, <1>4, <1>5, <1>6

LEMMA WriteSumKeepsInv ==
  ASSUME ClockInv, WriteRegister, call.stage = "sum" PROVE ClockInv'
<1>. USE ClockAssumption DEF ClockInv, Unset
<1>f. /\ call'.stage = "unix" /\ call'.then = call.then /\ call'.seconds = call.seconds
      /\ call'.read = call.read /\ call'.at = call.at /\ call'.began = call.began
      /\ call'.set = call.set
      /\ call' \in [stage : Stages, then : Followers, set : Nat, seconds : Nat,
                    read : Nat, at : Nat, began : Nat]
      /\ store'.sum = Checksum(call.seconds, call.at)
      /\ store'.unix = store.unix /\ store'.rtc = store.rtc
      /\ store' \in [sum : {<<>>} \cup (Nat \X Nat), unix : Nat, rtc : Nat]
      /\ UNCHANGED <<due, slipped>>
      /\ UNCHANGED <<retaining, rtc, boot, offset, shown>>
  BY DEF WriteRegister, ClockTypes, Stages, Followers, Checksum
<1>1. ClockTypes'
  BY <1>f DEF ClockTypes, Stages, Followers
<1>2. CallInTime'
  BY <1>f DEF ClockTypes, CallInTime
<1>3. SumIsFirst'
  BY <1>f DEF ClockTypes, SumIsFirst, CallInTime
<1>4. RegistersKeepTime'
  BY <1>f DEF ClockTypes, RegistersKeepTime, CallInTime, SumIsFirst, Valid
<1>5. OffsetKeepsTime'
  BY <1>f DEF ClockTypes, OffsetKeepsTime, CallInTime
<1>6. ShownIsPast'
  BY <1>f DEF ClockTypes, ShownIsPast, CallInTime, RegistersKeepTime, OffsetKeepsTime
<1> QED
  BY <1>1, <1>2, <1>3, <1>4, <1>5, <1>6

LEMMA WriteUnixKeepsInv ==
  ASSUME ClockInv, WriteRegister, call.stage = "unix" PROVE ClockInv'
<1>. USE ClockAssumption DEF ClockInv, Unset
<1>f. /\ call'.stage = "rtc" /\ call'.then = call.then /\ call'.seconds = call.seconds
      /\ call'.read = call.read /\ call'.at = call.at /\ call'.began = call.began
      /\ call'.set = call.set
      /\ call' \in [stage : Stages, then : Followers, set : Nat, seconds : Nat,
                    read : Nat, at : Nat, began : Nat]
      /\ store'.sum = store.sum /\ store'.rtc = store.rtc
      /\ store'.unix = call.seconds
      /\ store' \in [sum : {<<>>} \cup (Nat \X Nat), unix : Nat, rtc : Nat]
      /\ due' = (IF call.then = "none" THEN call.seconds + (rtc - call.read) ELSE due)
      /\ slipped' = (IF call.then = "none" THEN call.at - call.read
                   ELSE IF due = Unset THEN 0 ELSE slipped + (call.at - call.read))
      /\ UNCHANGED <<retaining, rtc, boot, offset, shown>>
  BY DEF WriteRegister, ClockTypes, Stages, Followers, Checksum
<1>n. /\ rtc \in Nat /\ call.read \in Nat /\ call.at \in Nat /\ call.seconds \in Nat
      /\ rtc - call.read \in Nat /\ call.at - call.read \in Nat
      /\ slipped \in Nat /\ call.seconds + (rtc - call.read) \in Nat /\ call.at <= rtc
  <2>1. /\ rtc \in Nat /\ call.read \in Nat /\ call.at \in Nat /\ call.seconds \in Nat
        /\ slipped \in Nat
    BY DEF ClockTypes
  <2>2. call.read <= rtc /\ call.at <= rtc /\ call.read <= call.at
    BY DEF CallInTime
  <2> QED
    BY <2>1, <2>2
<1>p. /\ slipped' \in Nat /\ due' \in {Unset} \cup Nat
      /\ retaining /\ due' # Unset => call.seconds + (rtc - call.at) = due' - slipped'
  <2>1. CASE call.then = "none"
    <3>1. due' = call.seconds + (rtc - call.read) /\ slipped' = call.at - call.read
      BY <1>f, <2>1
    <3>2. call.seconds + (rtc - call.at) = due' - slipped'
      BY <1>n, <3>1
    <3> QED
      BY <1>n, <3>1, <3>2
  <2>2. CASE call.then # "none" /\ due = Unset
    BY <1>f, <1>n, <2>2
  <2>3. CASE call.then # "none" /\ due # Unset
    <3>1. due' = due /\ slipped' = slipped + (call.at - call.read) /\ due \in Nat
      BY <1>f, <2>3 DEF ClockTypes
    <3>2. retaining => call.seconds + (rtc - call.read) = due - slipped
      BY <2>3 DEF RegistersKeepTime
    <3>3. retaining => call.seconds + (rtc - call.at) = due' - slipped'
      BY <1>n, <3>1, <3>2
    <3>4. slipped' \in Nat
      BY <1>n, <3>1
    <3> QED
      BY <3>1, <3>3, <3>4
  <2> QED
    BY <2>1, <2>2, <2>3
<1>1. ClockTypes'
  BY <1>f, <1>p DEF ClockTypes, Stages, Followers
<1>2. CallInTime'
  BY <1>f DEF ClockTypes, CallInTime
<1>3. SumIsFirst'
  BY <1>f DEF ClockTypes, SumIsFirst, CallInTime
<1>4. RegistersKeepTime'
  BY <1>f, <1>p DEF RegistersKeepTime
<1>5. OffsetKeepsTime'
  BY <1>f DEF ClockTypes, OffsetKeepsTime, CallInTime
<1>6. ShownIsPast'
  <2>1. retaining
    BY <1>f DEF OffsetKeepsTime
  <2>2. ASSUME shown # Unset PROVE due' # Unset /\ shown <= call.seconds
    BY <1>f, <1>n, <2>2 DEF ShownIsPast, ClockTypes
  <2>3. ASSUME shown # Unset PROVE shown <= due' - slipped'
    <3>1. shown <= call.seconds /\ call.seconds + (rtc - call.at) = due' - slipped'
      BY <1>p, <2>1, <2>2, <2>3
    <3>2. shown \in Nat
      BY <2>3 DEF ClockTypes
    <3> QED
      BY <1>n, <3>1, <3>2
  <2> QED
    BY <1>f, <2>2, <2>3 DEF ShownIsPast
<1> QED
  BY <1>1, <1>2, <1>3, <1>4, <1>5, <1>6

LEMMA WriteRtcKeepsInv ==
  ASSUME ClockInv, WriteRegister, call.stage = "rtc" PROVE ClockInv'
<1>. USE ClockAssumption DEF ClockInv, Unset
<1>f. /\ call'.stage = "done" /\ call'.then = call.then /\ call'.seconds = call.seconds
      /\ call'.read = call.read /\ call'.at = call.at /\ call'.began = call.began
      /\ call'.set = call.set
      /\ call' \in [stage : Stages, then : Followers, set : Nat, seconds : Nat,
                    read : Nat, at : Nat, began : Nat]
      /\ store'.rtc = call.at
      /\ store'.sum = store.sum /\ store'.unix = store.unix
      /\ store' \in [sum : {<<>>} \cup (Nat \X Nat), unix : Nat, rtc : Nat]
      /\ UNCHANGED <<due, slipped>>
      /\ UNCHANGED <<retaining, rtc, boot, offset, shown>>
  BY DEF WriteRegister, ClockTypes, Stages, Followers, Checksum
<1>1. ClockTypes'
  BY <1>f DEF ClockTypes, Stages, Followers
<1>2. CallInTime'
  BY <1>f DEF ClockTypes, CallInTime
<1>3. SumIsFirst'
  BY <1>f DEF ClockTypes, SumIsFirst, CallInTime
<1>4. RegistersKeepTime'
  BY <1>f DEF ClockTypes, RegistersKeepTime, CallInTime, SumIsFirst, Valid
<1>5. OffsetKeepsTime'
  BY <1>f DEF ClockTypes, OffsetKeepsTime, CallInTime
<1>6. ShownIsPast'
  BY <1>f DEF ClockTypes, ShownIsPast, CallInTime, RegistersKeepTime, OffsetKeepsTime
<1> QED
  BY <1>1, <1>2, <1>3, <1>4, <1>5, <1>6

LEMMA RefusalKeepsInv ==
  ASSUME ClockInv, SetClock, ~AcceptsTime(call.set, call.seconds) PROVE ClockInv'
<1>. USE ClockAssumption DEF ClockInv, Unset
<1>f. /\ call.stage = "done" /\ call' = NoCall
      /\ UNCHANGED <<retaining, rtc, boot, store, offset, due, slipped, shown>>
  BY DEF SetClock
<1>v. Valid' = Valid
  BY <1>f DEF Valid
<1>1. ClockTypes'
  BY <1>f DEF ClockTypes, Stages, Followers, NoCall
<1>2. CallInTime'
  BY <1>f DEF ClockTypes, CallInTime, NoCall
<1>3. SumIsFirst'
  BY <1>f DEF ClockTypes, SumIsFirst, CallInTime, NoCall
<1>4. RegistersKeepTime'
  BY <1>f, <1>v DEF ClockTypes, RegistersKeepTime, CallInTime, NoCall
<1>5. OffsetKeepsTime'
  BY <1>f DEF ClockTypes, OffsetKeepsTime, CallInTime, NoCall
<1>6. ShownIsPast'
  BY <1>f DEF ClockTypes, ShownIsPast, CallInTime, RegistersKeepTime, OffsetKeepsTime, NoCall
<1> QED
  BY <1>1, <1>2, <1>3, <1>4, <1>5, <1>6

LEMMA AcceptKeepsInv ==
  ASSUME ClockInv, SetClock, AcceptsTime(call.set, call.seconds) PROVE ClockInv'
<1>. USE ClockAssumption DEF ClockInv, Unset
<1>0. /\ call.stage = "done" /\ call.then = "set" /\ call.set > call.seconds
      /\ offset' = IF call.set > rtc - boot THEN call.set - (rtc - boot) ELSE 0
      /\ call' = [call EXCEPT !.stage = "stamp", !.then = "none", !.seconds = call.set,
                              !.read = rtc]
      /\ due' = IF retaining THEN due ELSE call.set
      /\ UNCHANGED <<retaining, rtc, boot, store, slipped, shown>>
  BY DEF SetClock, AcceptsTime, Uptime_seconds
<1>t. /\ call \in [stage : Stages, then : Followers, set : Nat, seconds : Nat,
                   read : Nat, at : Nat, began : Nat]
      /\ rtc \in Nat /\ "stamp" \in Stages /\ "none" \in Followers
  BY DEF ClockTypes, Stages, Followers
<1>f. /\ call.stage = "done" /\ call.then = "set" /\ call.set > call.seconds
      /\ call'.stage = "stamp" /\ call'.then = "none" /\ call'.seconds = call.set
      /\ call'.read = rtc /\ call'.at = call.at /\ call'.began = call.began
      /\ call' \in [stage : Stages, then : Followers, set : Nat, seconds : Nat,
                    read : Nat, at : Nat, began : Nat]
      /\ offset' = IF call.set > rtc - boot THEN call.set - (rtc - boot) ELSE 0
      /\ due' = IF retaining THEN due ELSE call.set
      /\ UNCHANGED <<retaining, rtc, boot, store, slipped, shown>>
  BY <1>0, <1>t
<1>1. ClockTypes'
  BY <1>f DEF ClockTypes, Stages, Followers
<1>2. CallInTime'
  BY <1>f DEF ClockTypes, CallInTime
<1>3. SumIsFirst'
  BY <1>f DEF ClockTypes, SumIsFirst, CallInTime
<1>4. RegistersKeepTime'
  BY <1>f DEF ClockTypes, RegistersKeepTime, CallInTime, SumIsFirst, Valid
<1>n. /\ rtc \in Nat /\ boot \in Nat /\ boot <= rtc /\ offset \in Nat /\ slipped \in Nat
      /\ call.set \in Nat /\ call.seconds \in Nat /\ call.began \in Nat
  BY DEF ClockTypes
<1>o. ~retaining => slipped = 0 /\ (rtc - boot) + offset' = call.set
  <2>. SUFFICES ASSUME ~retaining PROVE slipped = 0 /\ (rtc - boot) + offset' = call.set
    OBVIOUS
  <2>1. slipped = 0 /\ call.seconds = (call.began - boot) + offset /\ rtc <= call.began + 1
    BY <1>f DEF OffsetKeepsTime, CallInTime
  <2>2. rtc - boot <= call.set
    BY <1>f, <1>n, <2>1
  <2> QED
    BY <1>f, <1>n, <2>1, <2>2
<1>5. OffsetKeepsTime'
  BY <1>f, <1>o DEF OffsetKeepsTime
<1>6. ShownIsPast'
  <2>. SUFFICES ASSUME shown # Unset
                PROVE  due' # Unset /\ shown <= due' - slipped /\ shown <= call.set
    BY <1>f DEF ShownIsPast
  <2>1. shown \in Nat /\ due \in Nat /\ shown <= due - slipped /\ shown <= call.seconds
    BY <1>f DEF ShownIsPast, ClockTypes
  <2>2. CASE retaining
    BY <1>f, <1>n, <2>1, <2>2
  <2>3. CASE ~retaining
    BY <1>f, <1>n, <1>o, <2>1, <2>3
  <2> QED
    BY <2>2, <2>3
<1> QED
  BY <1>1, <1>2, <1>3, <1>4, <1>5, <1>6

LEMMA AnswerKeepsInv ==
  ASSUME ClockInv, AnswerClock PROVE ClockInv'
<1>. USE ClockAssumption DEF ClockInv, Unset
<1>1. ClockTypes'
  BY DEF ClockTypes, Stages, Followers, AnswerClock, NoCall
<1>2. CallInTime'
  BY DEF ClockTypes, CallInTime, AnswerClock, NoCall
<1>3. SumIsFirst'
  BY DEF ClockTypes, SumIsFirst, CallInTime, AnswerClock, NoCall
<1>4. RegistersKeepTime'
  BY DEF ClockTypes, RegistersKeepTime, CallInTime, SumIsFirst, Valid, AnswerClock, NoCall
<1>5. OffsetKeepsTime'
  BY DEF ClockTypes, OffsetKeepsTime, CallInTime, AnswerClock, NoCall
<1>6. ShownIsPast'
  <2>1. /\ call.stage = "done" /\ call.then = "answer" /\ call'.stage = "none"
        /\ shown' = (IF due = Unset THEN Unset ELSE call.seconds)
        /\ UNCHANGED <<due, slipped>>
    BY DEF AnswerClock, NoCall
  <2>2. /\ rtc \in Nat /\ boot \in Nat /\ offset \in Nat /\ slipped \in Nat /\ call.seconds \in Nat
        /\ call.at \in Nat /\ call.at <= rtc /\ call.began \in Nat /\ call.began <= rtc
    BY <2>1 DEF ClockTypes, CallInTime
  <2>3. ASSUME due # Unset PROVE call.seconds <= due - slipped
    <3>1. due \in Nat
      BY <2>3 DEF ClockTypes
    <3>2. CASE retaining
      BY <2>1, <2>2, <2>3, <3>1, <3>2 DEF RegistersKeepTime
    <3>3. CASE ~retaining
      BY <2>1, <2>2, <2>3, <3>1, <3>3 DEF OffsetKeepsTime
    <3> QED
      BY <3>2, <3>3
  <2> QED
    BY <2>1, <2>3 DEF ShownIsPast
<1> QED
  BY <1>1, <1>2, <1>3, <1>4, <1>5, <1>6

LEMMA EndKeepsInv ==
  ASSUME ClockInv, EndSetting PROVE ClockInv'
<1>. USE ClockAssumption DEF ClockInv, Unset
<1>1. ClockTypes'
  BY DEF ClockTypes, Stages, Followers, EndSetting, NoCall
<1>2. CallInTime'
  BY DEF ClockTypes, CallInTime, EndSetting, NoCall
<1>3. SumIsFirst'
  BY DEF ClockTypes, SumIsFirst, CallInTime, EndSetting, NoCall
<1>4. RegistersKeepTime'
  BY DEF ClockTypes, RegistersKeepTime, CallInTime, SumIsFirst, Valid, EndSetting, NoCall
<1>5. OffsetKeepsTime'
  BY DEF ClockTypes, OffsetKeepsTime, CallInTime, EndSetting, NoCall
<1>6. ShownIsPast'
  BY DEF ClockTypes, ShownIsPast, CallInTime, RegistersKeepTime, OffsetKeepsTime, EndSetting,
         NoCall
<1> QED
  BY <1>1, <1>2, <1>3, <1>4, <1>5, <1>6

LEMMA KeepKeepsInv ==
  ASSUME ClockInv, KeepForReboot PROVE ClockInv'
<1>. USE ClockAssumption DEF ClockInv, Unset
<1>1. ClockTypes'
  BY DEF ClockTypes, Stages, Followers, KeepForReboot, Valid
<1>2. CallInTime'
  BY DEF ClockTypes, CallInTime, KeepForReboot, Valid
<1>3. SumIsFirst'
  BY DEF ClockTypes, SumIsFirst, CallInTime, KeepForReboot, Valid
<1>4. RegistersKeepTime'
  BY DEF ClockTypes, RegistersKeepTime, CallInTime, SumIsFirst, Valid, KeepForReboot
<1>5. OffsetKeepsTime'
  BY DEF ClockTypes, OffsetKeepsTime, CallInTime, KeepForReboot, Valid
<1>6. ShownIsPast'
  BY DEF ClockTypes, ShownIsPast, CallInTime, RegistersKeepTime, OffsetKeepsTime,
         KeepForReboot, Valid
<1> QED
  BY <1>1, <1>2, <1>3, <1>4, <1>5, <1>6

LEMMA ResetKeepsInv ==
  ASSUME ClockInv, Reset PROVE ClockInv'
<1>. USE ClockAssumption DEF ClockInv, Unset
<1>1. ClockTypes'
  BY DEF ClockTypes, Stages, Followers, Reset, NoCall, Valid, Checksum
<1>2. CallInTime'
  BY DEF ClockTypes, CallInTime, Reset, NoCall, Valid, Checksum
<1>3. SumIsFirst'
  BY DEF ClockTypes, SumIsFirst, CallInTime, Reset, NoCall, Valid, Checksum
<1>4. RegistersKeepTime'
  BY DEF ClockTypes, RegistersKeepTime, CallInTime, SumIsFirst, Valid, Reset, NoCall, Checksum
<1>5. OffsetKeepsTime'
  BY DEF ClockTypes, OffsetKeepsTime, CallInTime, Reset, NoCall, Valid, Checksum
<1>6. ShownIsPast'
  BY DEF ClockTypes, ShownIsPast, CallInTime, RegistersKeepTime, OffsetKeepsTime, Reset,
         NoCall, Valid, Checksum
<1> QED
  BY <1>1, <1>2, <1>3, <1>4, <1>5, <1>6

LEMMA PowerKeepsInv ==
  ASSUME ClockInv, PowerLost PROVE ClockInv'
<1>. USE ClockAssumption DEF ClockInv, Unset
<1>1. ClockTypes'
  BY DEF ClockTypes, Stages, Followers, PowerLost, NoCall, Blank, Valid
<1>2. CallInTime'
  BY DEF ClockTypes, CallInTime, PowerLost, NoCall, Blank, Valid
<1>3. SumIsFirst'
  BY DEF ClockTypes, SumIsFirst, CallInTime, PowerLost, NoCall, Blank, Valid
<1>4. RegistersKeepTime'
  BY DEF ClockTypes, RegistersKeepTime, CallInTime, SumIsFirst, Valid, PowerLost, NoCall, Blank
<1>5. OffsetKeepsTime'
  BY DEF ClockTypes, OffsetKeepsTime, CallInTime, PowerLost, NoCall, Blank, Valid
<1>6. ShownIsPast'
  BY DEF ClockTypes, ShownIsPast, CallInTime, RegistersKeepTime, OffsetKeepsTime, PowerLost,
         NoCall, Blank, Valid
<1> QED
  BY <1>1, <1>2, <1>3, <1>4, <1>5, <1>6

LEMMA TickKeepsInv ==
  ASSUME ClockInv, RtcTicks PROVE ClockInv'
<1>. USE ClockAssumption DEF ClockInv, Unset
<1>f. /\ call = NoCall \/ rtc = call.began
      /\ rtc' = rtc + 1 /\ due' = (IF due = Unset THEN Unset ELSE due + 1)
      /\ UNCHANGED <<retaining, boot, store, offset, call, slipped, shown>>
  BY DEF RtcTicks
<1>v. Valid' = Valid
  BY <1>f DEF Valid
<1>1. ClockTypes'
  BY <1>f DEF ClockTypes, Stages, Followers, NoCall
<1>2. CallInTime'
  BY <1>f DEF ClockTypes, CallInTime, NoCall
<1>3. SumIsFirst'
  BY <1>f DEF ClockTypes, SumIsFirst, CallInTime, NoCall
<1>4. RegistersKeepTime'
  <2>1. SUFFICES ASSUME retaining, due # Unset, due \in Nat, due' = due + 1
        PROVE  RegistersKeepTime'
    BY <1>f DEF ClockTypes, RegistersKeepTime
  <2>2. slipped \in Nat /\ rtc \in Nat /\ call.seconds \in Nat /\ call.read \in Nat
        /\ call.at \in Nat /\ store.unix \in Nat /\ store.rtc \in Nat
    BY DEF ClockTypes
  <2> QED
    BY <1>f, <1>v, <2>1, <2>2 DEF RegistersKeepTime
<1>5. OffsetKeepsTime'
  BY <1>f DEF ClockTypes, OffsetKeepsTime, CallInTime, NoCall
<1>6. ShownIsPast'
  BY <1>f DEF ClockTypes, ShownIsPast, CallInTime, RegistersKeepTime, OffsetKeepsTime, NoCall
<1> QED
  BY <1>1, <1>2, <1>3, <1>4, <1>5, <1>6

LEMMA ClockStart == ClockInit => ClockInv
<1>. SUFFICES ASSUME ClockInit PROVE ClockInv
  OBVIOUS
<1>. USE DEF ClockInit, NoCall, Blank, Unset
<1>1. ClockTypes
  BY DEF ClockTypes, Stages, Followers
<1>2. CallInTime /\ SumIsFirst /\ RegistersKeepTime /\ OffsetKeepsTime /\ ShownIsPast
  BY DEF CallInTime, SumIsFirst, RegistersKeepTime, OffsetKeepsTime, ShownIsPast
<1> QED
  BY <1>1, <1>2 DEF ClockInv

LEMMA ClockStep == ClockInv /\ [ClockNext]_clockVars => ClockInv'
<1>. SUFFICES ASSUME ClockInv, [ClockNext]_clockVars PROVE ClockInv'
  OBVIOUS
<1>1. CASE ReadClock \/ Reboot
  BY <1>1, ReadKeepsInv DEF ReadClock, Reboot, Followers
<1>2. CASE SetTime
  BY <1>2, ReadKeepsInv, ClockAssumption DEF SetTime, Followers
<1>3. CASE SyncTime
  <2>1. PICK answer \in Replies : Read("set", answer.seconds)
    BY <1>3 DEF SyncTime
  <2>2. answer.seconds \in Nat
    BY ClockAssumption DEF Replies
  <2> QED
    BY <2>1, <2>2, ReadKeepsInv DEF Followers
<1>4. CASE WriteRegister
  <2>1. call.stage \in {"sum", "unix", "rtc"}
    BY <1>4 DEF WriteRegister
  <2> QED
    BY <1>4, <2>1, WriteSumKeepsInv, WriteUnixKeepsInv, WriteRtcKeepsInv
<1>5. CASE SetClock
  BY <1>5, RefusalKeepsInv, AcceptKeepsInv
<1>6. CASE StampClock \/ AnswerClock \/ EndSetting \/ KeepForReboot
  BY <1>6, StampKeepsInv, AnswerKeepsInv, EndKeepsInv, KeepKeepsInv
<1>7. CASE RebootClock \/ ResetAnytime
  BY <1>7, ResetKeepsInv DEF RebootClock, ResetAnytime
<1>8. CASE PowerLost \/ RtcTicks
  BY <1>8, PowerKeepsInv, TickKeepsInv
<1>9. CASE UNCHANGED clockVars
  <2>. USE <1>9 DEF clockVars
  <2>1. ClockTypes' /\ CallInTime' /\ SumIsFirst'
    BY DEF ClockInv, ClockTypes, CallInTime, SumIsFirst
  <2>2. RegistersKeepTime' /\ OffsetKeepsTime' /\ ShownIsPast'
    BY DEF ClockInv, RegistersKeepTime, OffsetKeepsTime, ShownIsPast, Valid
  <2> QED
    BY <2>1, <2>2 DEF ClockInv
<1> QED
  BY <1>1, <1>2, <1>3, <1>4, <1>5, <1>6, <1>7, <1>8, <1>9 DEF ClockNext

\* Whatever times are set and however often, ClockInv is an invariant of the clock.
THEOREM ClockInvariant == ClockSpec => []ClockInv
<1> QED
  BY ClockStart, ClockStep, PTL DEF ClockSpec

\* The clock says the time set and what has passed since, but for the seconds that
\* ticked in the middle of readings, after any readings, settings and resets.
THEOREM ClockIsKept == ClockSpec => []ClockKeepsPace
<1>1. ASSUME ClockInv, call = NoCall, due # Unset
      PROVE  (IF Valid THEN Retained ELSE Uptime_seconds + offset) = due - slipped
  <2>1. call.stage = "none"
    BY <1>1 DEF NoCall
  <2>2. CASE retaining
    <3>1. Valid /\ store.rtc <= rtc /\ store.unix + (rtc - store.rtc) = due - slipped
      BY <1>1, <2>1, <2>2 DEF ClockInv, RegistersKeepTime
    <3> QED
      BY <1>1, <3>1 DEF Retained, ClockInv, ClockTypes
  <2>3. CASE ~retaining
    <3>1. ~Valid /\ slipped = 0 /\ (rtc - boot) + offset = due
      BY <1>1, <2>3 DEF ClockInv, OffsetKeepsTime, Valid
    <3> QED
      BY <1>1, <3>1 DEF Uptime_seconds, ClockInv, ClockTypes
  <2> QED
    BY <1>1, <2>2, <2>3
<1>2. ClockInv => ClockKeepsPace
  BY <1>1 DEF ClockKeepsPace
<1> QED
  BY <1>2, ClockInvariant, PTL

\* No reading is before one returned earlier, until the time is lost.
THEOREM ClockGoesForward == ClockSpec => ClockNeverBack
<1>1. ASSUME ClockInv, ClockNext, shown # Unset, shown' # Unset PROVE shown' >= shown
  <2>1. shown \in Nat
    BY <1>1 DEF ClockInv, ClockTypes
  <2>2. CASE AnswerClock
    BY <1>1, <2>1, <2>2 DEF AnswerClock, ClockInv, ClockTypes, ShownIsPast
  <2>3. CASE ~AnswerClock
    <3>1. shown' = shown
      BY <1>1, <2>3 DEF ClockNext, ReadClock, Reboot, SetTime, SyncTime, Read, StampClock,
           WriteRegister, SetClock, EndSetting, KeepForReboot, RebootClock, ResetAnytime, Reset,
           PowerLost, RtcTicks
    <3> QED
      BY <2>1, <3>1
  <2> QED
    BY <2>2, <2>3
<1>. DEFINE Forward == shown # Unset /\ shown' # Unset => shown' >= shown
<1>2. ClockInv /\ [ClockNext]_clockVars => [Forward]_clockVars
  BY <1>1
<1>. HIDE DEF Forward
<1>3. ClockSpec => [][Forward]_clockVars
  BY <1>2, ClockInvariant, PTL DEF ClockSpec
<1> QED
  BY <1>3 DEF Forward, ClockNeverBack

\* However long it runs and often it is read, set and reset, the clock keeps the time
\* and does not go back, up to what ClockKeepsPace and ClockNeverBack name.
THEOREM ClockIsReliable == ClockSpec => ClockKeepsTime
<1> QED
  BY ClockIsKept, ClockGoesForward DEF ClockKeepsTime

-------------------------------------------------------------------------------
(* Firmware updates *)

\* What flash can hold of an image, or be left as.
Cells == {Unit(image, i) : image \in Images, i \in Nat \ {0}} \cup {Erased}

Updates ==
  [slot : Slots, written : Nat, flushed : Nat, erased : Nat, tail : Seq(Cells)]

OtaTypes ==
  /\ DOMAIN flash = Addresses
  /\ selected \in Slots /\ running \in Slots /\ station \in BOOLEAN
  /\ requested \in BOOLEAN /\ stale \in BOOLEAN /\ waker \in {"none", "registered", "woken"}
  /\ pc \in {"down", "idle", "waiting", "starting", "listening"} \cup Connections
  /\ upload \in [image : Images, len : Nat, received : Nat] /\ upload.received <= upload.len
  /\ unfinished \subseteq Slots

\* The part of the slot that is erased and not yet written is erased.
ErasedAhead(u) ==
  /\ u.flushed <= u.erased /\ u.erased <= Capacity
  /\ \A i \in u.flushed .. u.erased - 1 : flash[Base(u.slot) + i] = Erased

\* An update has been written as far as the upload has come, to the slot that does
\* not run; until it is written to, that one may be as it was.
InProgress(u, up) ==
  /\ u \in Updates /\ u.slot = Other(running)
  /\ u.written = up.received /\ u.written <= Capacity
  /\ u.flushed + Len(u.tail) = u.written /\ Len(u.tail) < Word
  /\ \A i \in 1 .. u.flushed : flash[Base(u.slot) + i - 1] = Unit(up.image, i)
  /\ \A i \in 1 .. Len(u.tail) : u.tail[i] = Unit(up.image, u.flushed + i)
  /\ ErasedAhead(u)
  /\ u.erased > 0 => u.slot \in unfinished

\* The client is told of an image that is there and selected.
AnswerIsTrue ==
  reply = "written" =>
    /\ pc = "replying" /\ selected = Other(running)
    /\ Holds(flash, selected, upload.image)

OtaInv ==
  /\ OtaTypes
  /\ IF pc = "body" THEN InProgress(update, upload) /\ told = NotTold ELSE update = NoUpdate
  /\ OtherFlashKept /\ SelectedBoots /\ ToldIsTrue /\ AnswerIsTrue

\* Erasing whole sectors stays in the slot.
LEMMA SectorsFit ==
  ASSUME NEW u \in Updates, u.erased <= Capacity, NEW end \in Nat, end <= Capacity
  PROVE  LET to == ErasedTo(u, end)
         IN to \in Nat /\ to >= end /\ to >= u.erased /\ to <= Capacity
<1>. DEFINE q == (end + Sector - 1) \div Sector
            k == Capacity \div Sector
<1>1. Sector \in Nat /\ Sector >= 1 /\ Capacity \in Nat /\ u.erased \in Nat
  BY FirmwareAssumption DEF Updates
<1>2. Capacity = Sector * k /\ k \in Nat
  <2>1. Capacity % Sector = 0
    BY FirmwareAssumption
  <2>2. QED
    BY <1>1, <2>1
<1>3. /\ q \in Nat
      /\ \E r \in 0 .. Sector - 1 : end + Sector - 1 = Sector * q + r
  <2>1. end + Sector - 1 \in Nat
    BY <1>1
  <2>2. q \in Nat /\ (end + Sector - 1) % Sector \in 0 .. Sector - 1
        /\ end + Sector - 1 = Sector * q + ((end + Sector - 1) % Sector)
    BY <1>1, <2>1
  <2>. QED
    BY <2>2
<1>. HIDE DEF q, k
<1>4. Sector * q >= end /\ Sector * q \in Nat /\ Sector * q <= end + Sector - 1
  BY <1>1, <1>3
<1>5. Sector * q <= Capacity
  <2>1. CASE q <= k
    <3>1. k - q \in Nat /\ Sector * (k - q) \in Nat
      BY <1>1, <1>2, <1>3, <2>1
    <3>2. Sector * k = Sector * q + Sector * (k - q)
      BY <1>1, <1>2, <1>3
    <3>. QED
      BY <1>2, <1>4, <3>1, <3>2
  <2>2. CASE q >= k + 1
    <3>1. q - k - 1 \in Nat /\ Sector * (q - k - 1) \in Nat
      BY <1>1, <1>2, <1>3, <2>2
    <3>2. Sector * q = Sector * k + Sector + Sector * (q - k - 1)
      BY <1>1, <1>2, <1>3
    <3>. QED
      BY <1>1, <1>2, <1>4, <3>1, <3>2
  <2>. QED
    BY <1>2, <1>3, <2>1, <2>2
<1>6. q * Sector = Sector * q
  BY <1>1, <1>3
<1>7. ErasedTo(u, end) = IF end <= u.erased THEN u.erased ELSE Sector * q
  BY <1>6 DEF ErasedTo, q
<1> QED
  BY <1>1, <1>4, <1>5, <1>7

\* A slot's addresses.
LEMMA SlotAddresses ==
  ASSUME NEW slot \in Slots
  PROVE  /\ Base(slot) \in Nat /\ Capacity \in Nat /\ Sector \in Nat /\ Sector >= 1
         /\ Word \in Nat /\ Word >= 1
         /\ Base(slot) + Capacity <= 2 * Capacity
         /\ Other(slot) \in Slots
         /\ Base(Other(slot)) + Capacity <= Base(slot) \/ Base(slot) + Capacity <= Base(Other(slot))
         /\ \A i \in 0 .. Capacity - 1 : Base(slot) + i \in Addresses
<1>1. Capacity \in Nat /\ Sector \in Nat /\ Sector >= 1 /\ Word \in Nat /\ Word >= 1
  BY FirmwareAssumption
<1>2. Base(0) = 0 /\ Base(1) = Capacity
  BY <1>1 DEF Base
<1>3. CASE slot = 0
  BY <1>1, <1>2, <1>3 DEF Slots, Other, Addresses
<1>4. CASE slot = 1
  BY <1>1, <1>2, <1>4 DEF Slots, Other, Addresses
<1> QED
  BY <1>3, <1>4 DEF Slots

\* Nothing outside the part of a slot from u.flushed to its end.
Untouched(cells, u) ==
  /\ DOMAIN cells = Addresses
  /\ \A a \in Addresses :
       a < Base(u.slot) + u.flushed \/ a >= Base(u.slot) + Capacity => cells[a] = flash[a]

LEMMA EraseFacts ==
  ASSUME NEW u \in Updates, ErasedAhead(u), NEW end \in Nat, end <= Capacity,
         DOMAIN flash = Addresses
  PROVE  LET erased == AfterErase(u, end)
         IN /\ Untouched(erased, u)
            /\ \A i \in u.flushed .. ErasedTo(u, end) - 1 : erased[Base(u.slot) + i] = Erased
<1>. DEFINE to == ErasedTo(u, end)
            base == Base(u.slot)
            erased == AfterErase(u, end)
<1>1. /\ u.slot \in Slots /\ u.flushed \in Nat /\ u.erased \in Nat
      /\ u.flushed <= u.erased /\ u.erased <= Capacity
      /\ \A i \in u.flushed .. u.erased - 1 : flash[base + i] = Erased
  BY DEF Updates, ErasedAhead
<1>2. /\ base \in Nat /\ Capacity \in Nat
      /\ \A i \in 0 .. Capacity - 1 : base + i \in Addresses
  BY <1>1, SlotAddresses
<1>3. to \in Nat /\ to >= u.erased /\ to <= Capacity
  BY <1>1, SectorsFit
<1>4. erased = [a \in Addresses |->
                  IF a \in base + u.erased .. base + to - 1 THEN Erased ELSE flash[a]]
  BY DEF AfterErase
<1>. HIDE DEF to, base, erased
<1>5. ASSUME NEW a \in Addresses, a < base + u.flushed \/ a >= base + Capacity
      PROVE  erased[a] = flash[a]
  <2>1. a \in Int
    BY FirmwareAssumption DEF Addresses
  <2>2. a \notin base + u.erased .. base + to - 1
    BY <1>1, <1>2, <1>3, <1>5, <2>1
  <2> QED
    BY <1>4, <2>2
<1>6. ASSUME NEW i \in u.flushed .. to - 1
      PROVE  erased[base + i] = Erased
  <2>1. i \in 0 .. Capacity - 1 /\ base + i \in Addresses
    BY <1>1, <1>2, <1>3
  <2>2. CASE i < u.erased
    <3>1. i \in u.flushed .. u.erased - 1
      BY <1>1, <2>2
    <3> QED
      BY <1>1, <1>4, <2>1, <3>1
  <2>3. CASE i >= u.erased
    <3>1. base + i \in base + u.erased .. base + to - 1
      BY <1>1, <1>2, <1>3, <2>3
    <3> QED
      BY <1>4, <2>1, <3>1
  <2> QED
    BY <1>1, <2>2, <2>3
<1>7. DOMAIN erased = Addresses
  BY <1>4
<1> QED
  BY <1>5, <1>6, <1>7 DEF Untouched, to, base, erased

\* What is written is there, and what is erased beyond it still is; no unit is
\* written twice.
LEMMA WriteFacts ==
  ASSUME NEW u \in Updates, ErasedAhead(u), NEW whole \in Seq(Cells),
         u.flushed + Len(whole) <= Capacity, DOMAIN flash = Addresses,
         NEW data \in Seq(Cells), Len(data) <= Len(whole)
  PROVE  LET end == u.flushed + Len(whole)
             cells == AfterWrite(AfterErase(u, end), u, data)
         IN /\ Untouched(cells, u)
            /\ \A i \in 1 .. Len(data) : cells[Base(u.slot) + u.flushed + i - 1] = data[i]
            /\ \A i \in u.flushed + Len(data) .. ErasedTo(u, end) - 1 :
                 cells[Base(u.slot) + i] = Erased
<1>. DEFINE end == u.flushed + Len(whole)
            to == ErasedTo(u, end)
            base == Base(u.slot)
            start == base + u.flushed
            erased == AfterErase(u, end)
            cells == AfterWrite(erased, u, data)
<1>1. /\ u.slot \in Slots /\ u.flushed \in Nat /\ u.erased \in Nat /\ u.erased <= Capacity
      /\ Len(whole) \in Nat /\ Len(data) \in Nat /\ end \in Nat
  BY LenProperties DEF Updates, ErasedAhead
<1>2. /\ base \in Nat /\ Capacity \in Nat
      /\ \A i \in 0 .. Capacity - 1 : base + i \in Addresses
  BY <1>1, SlotAddresses
<1>3. to \in Nat /\ to >= end /\ to <= Capacity
  BY <1>1, SectorsFit
<1>4. /\ DOMAIN erased = Addresses
      /\ \A a \in Addresses :
           a < base + u.flushed \/ a >= base + Capacity => erased[a] = flash[a]
      /\ \A i \in u.flushed .. to - 1 : erased[base + i] = Erased
  BY <1>1, EraseFacts DEF Untouched
<1>. HIDE DEF erased
<1>5. cells = [a \in Addresses |->
                 IF a \in start .. start + Len(data) - 1
                 THEN IF data[a - start + 1] = Erased THEN erased[a]
                      ELSE IF erased[a] = Erased THEN data[a - start + 1] ELSE Garbage
                 ELSE erased[a]]
  BY <1>4 DEF AfterWrite
<1>. HIDE DEF end, to, base, cells
<1>6. ASSUME NEW a \in Addresses, a < base + u.flushed \/ a >= base + Capacity
      PROVE  cells[a] = flash[a]
  <2>1. a \in Int
    BY FirmwareAssumption DEF Addresses
  <2>2. end <= Capacity /\ u.flushed + Len(data) <= end
    BY <1>1, <1>2, <1>3 DEF end
  <2>3. a \notin start .. start + Len(data) - 1
    BY <1>1, <1>2, <1>6, <2>1, <2>2
  <2> QED
    BY <1>4, <1>5, <1>6, <2>3
<1>7. u.flushed + Len(data) <= to
  BY <1>1, <1>3 DEF end
<1>8. ASSUME NEW i \in 1 .. Len(data)
      PROVE  cells[base + u.flushed + i - 1] = data[i]
  <2>. DEFINE a == base + u.flushed + i - 1
              j == u.flushed + i - 1
  <2>1. /\ j \in 0 .. Capacity - 1 /\ j \in u.flushed .. to - 1 /\ a = base + j
        /\ a \in start .. start + Len(data) - 1 /\ a - start + 1 = i
    <3>1. i \in Nat /\ i >= 1 /\ i <= Len(data)
      BY <1>1
    <3>2. j \in Nat /\ j >= u.flushed /\ j <= to - 1 /\ j <= Capacity - 1
      <4>1. u.flushed \in Nat /\ Len(data) \in Nat /\ to \in Nat /\ Capacity \in Nat
            /\ u.flushed + Len(data) <= to /\ to <= Capacity
        BY <1>1, <1>2, <1>3, <1>7
      <4>. HIDE DEF to
      <4> QED
        BY <3>1, <4>1
    <3>3. a = base + j /\ a - start + 1 = i /\ a >= start /\ a <= start + Len(data) - 1 /\ a \in Int
      <4>1. base + u.flushed \in Nat /\ start = base + u.flushed
        BY <1>1, <1>2
      <4>2. a = base + j
        BY <1>1, <1>2, <3>1
      <4>3. a = start + (i - 1)
        BY <1>1, <1>2, <3>1
      <4>. HIDE DEF a, j, start
      <4>4. a - start + 1 = i /\ a >= start /\ a <= start + Len(data) - 1 /\ a \in Int
        BY <1>1, <3>1, <4>1, <4>3
      <4>. QED
        BY <4>2, <4>4
    <3>. HIDE DEF a, j, start
    <3>4. start \in Int
      BY <1>1, <1>2 DEF start
    <3>. QED
      BY <1>1, <1>2, <1>3, <3>2, <3>3, <3>4
  <2>. HIDE DEF a, j
  <2>2. a \in Addresses /\ erased[a] = Erased
    BY <1>2, <1>4, <2>1
  <2>3. cells[a] = IF data[i] = Erased THEN erased[a]
                   ELSE IF erased[a] = Erased THEN data[i] ELSE Garbage
    BY <1>5, <2>1, <2>2
  <2> QED
    BY <2>2, <2>3 DEF a
<1>9. ASSUME NEW i \in u.flushed + Len(data) .. to - 1
      PROVE  cells[base + i] = Erased
  <2>1. /\ i \in 0 .. Capacity - 1 /\ i \in u.flushed .. to - 1
        /\ base + i \notin start .. start + Len(data) - 1
    BY <1>1, <1>2, <1>3
  <2>2. base + i \in Addresses /\ erased[base + i] = Erased
    BY <1>2, <1>4, <2>1
  <2> QED
    BY <1>5, <2>1, <2>2
<1>10. DOMAIN cells = Addresses
  BY <1>5
<1> QED
  BY <1>6, <1>8, <1>9, <1>10 DEF Untouched, end, to, base, erased, cells

\* An image in a slot is there as long as the slot's units are.
LEMMA SlotKept ==
  ASSUME NEW slot \in Slots, NEW old, NEW cells,
         \A a \in Addresses :
           a >= Base(slot) /\ a < Base(slot) + Capacity => cells[a] = old[a]
  PROVE  /\ \A image \in Images :
              Needed[image] <= Capacity /\ Holds(old, slot, image) => Holds(cells, slot, image)
         /\ Boots(old, slot) => Boots(cells, slot)
<1>1. ASSUME NEW image \in Images, Needed[image] <= Capacity, Holds(old, slot, image)
      PROVE  Holds(cells, slot, image)
  <2>1. /\ image \in Sound
        /\ \A i \in 1 .. Needed[image] : old[Base(slot) + i - 1] = Unit(image, i)
    BY <1>1 DEF Holds
  <2>2. Needed[image] \in Nat
    BY <1>1, FirmwareAssumption
  <2>3. ASSUME NEW i \in 1 .. Needed[image]
        PROVE  cells[Base(slot) + i - 1] = Unit(image, i)
    <3>. Base(slot) \in Nat /\ Capacity \in Nat
      BY SlotAddresses
    <3>1. i - 1 \in 0 .. Capacity - 1 /\ Base(slot) + i - 1 = Base(slot) + (i - 1)
      BY <1>1, <2>2
    <3>2. Base(slot) + i - 1 \in Addresses
      BY <3>1, SlotAddresses
    <3>3. Base(slot) + i - 1 >= Base(slot) /\ Base(slot) + i - 1 < Base(slot) + Capacity
      BY <3>1, SlotAddresses
    <3> QED
      BY <2>1, <3>2, <3>3
  <2> QED
    BY <2>1, <2>3 DEF Holds
<1> QED
  BY <1>1 DEF Boots

\* What an update leaves of everything else.
LEMMA OtherKept ==
  ASSUME NEW u \in Updates, u.slot = Other(running), running \in Slots,
         NEW cells, Untouched(cells, u), OtherFlashKept
  PROVE  /\ \A a \in 2 * Capacity .. 2 * Capacity + Sector - 1 : cells[a] = Stored
         /\ Boots(cells, running)
<1>1. u.slot \in Slots /\ u.flushed \in Nat
  BY DEF Updates
<1>2. /\ Base(u.slot) \in Nat /\ Capacity \in Nat /\ Sector \in Nat
      /\ Base(u.slot) + Capacity <= 2 * Capacity /\ Base(running) \in Nat
      /\ Base(u.slot) + Capacity <= Base(running) \/ Base(running) + Capacity <= Base(u.slot)
  BY <1>1, SlotAddresses
<1>3. ASSUME NEW a \in 2 * Capacity .. 2 * Capacity + Sector - 1
      PROVE  cells[a] = Stored
  <2>1. a \in Addresses /\ a >= Base(u.slot) + Capacity
    BY <1>2 DEF Addresses
  <2> QED
    BY <2>1 DEF Untouched, OtherFlashKept
<1>4. Boots(cells, running)
  <2>1. ASSUME NEW a \in Addresses, a >= Base(running), a < Base(running) + Capacity
        PROVE  cells[a] = flash[a]
    <3>1. a \in Int
      BY <1>2 DEF Addresses
    <3>2. a < Base(u.slot) + u.flushed \/ a >= Base(u.slot) + Capacity
      BY <1>1, <1>2, <2>1, <3>1
    <3> QED
      BY <3>2 DEF Untouched
  <2>2. Boots(flash, running)
    BY DEF OtherFlashKept
  <2> QED
    BY <2>1, <2>2, SlotKept
<1> QED
  BY <1>3, <1>4

\* A failure of the flash leaves as much alone as a success.
LEMMA TornFacts ==
  ASSUME NEW u \in Updates, ErasedAhead(u), NEW data \in Seq(Cells),
         u.flushed + Len(data) <= Capacity, DOMAIN flash = Addresses,
         NEW cells \in {Flushed(u, data)} \cup Torn(u, data)
  PROVE  Untouched(cells, u)
<1>1. u.flushed \in Nat /\ Len(data) \in Nat /\ Word \in Nat /\ Word >= 1 /\ Capacity \in Nat
  BY LenProperties, FirmwareAssumption DEF Updates
<1>2. CASE \E end \in u.flushed .. u.flushed + Len(data) : cells = AfterErase(u, end)
  <2>1. PICK end \in u.flushed .. u.flushed + Len(data) : cells = AfterErase(u, end)
    BY <1>2
  <2>2. end \in Nat /\ end <= Capacity
    BY <1>1, <2>1
  <2> QED
    BY <2>1, <2>2, EraseFacts
<1>3. CASE cells = Flushed(u, data)
  BY <1>1, <1>3, WriteFacts DEF Flushed
<1>4. CASE \E n \in 1 .. Len(data) \div Word :
             cells = AfterWrite(AfterErase(u, u.flushed + Len(data)), u, SubSeq(data, 1, n * Word))
  <2>1. PICK n \in 1 .. Len(data) \div Word :
          cells = AfterWrite(AfterErase(u, u.flushed + Len(data)), u, SubSeq(data, 1, n * Word))
    BY <1>4
  <2>. DEFINE q == Len(data) \div Word
              m == n * Word
              part == SubSeq(data, 1, m)
  <2>2. q \in Nat /\ Word * q <= Len(data)
    BY <1>1
  <2>3. m \in Nat /\ m <= Len(data)
    <3>. HIDE DEF q
    <3>1. n \in Nat /\ n <= q
      BY <2>1, <2>2 DEF q
    <3>2. Word * q = Word * n + Word * (q - n) /\ Word * (q - n) \in Nat /\ Word * n \in Nat
      BY <1>1, <2>2, <3>1
    <3>3. m = Word * n
      BY <1>1, <3>1
    <3> QED
      BY <1>1, <2>2, <3>2, <3>3
  <2>. HIDE DEF m
  <2>4. \A i \in 1 .. m : data[i] \in Cells
    BY <1>1, <2>3, ElementOfSeq
  <2>5. part \in Seq(Cells) /\ Len(part) = m
    BY <2>3, <2>4, SubSeqProperties
  <2> QED
    BY <2>1, <2>3, <2>5, WriteFacts DEF m
<1> QED
  BY <1>2, <1>3, <1>4 DEF Torn

Rest(unwritten) == SubSeq(unwritten, Flushable(unwritten) + 1, Len(unwritten))

\* What waits to be written of an upload once more of it has come.
LEMMA PendingFacts ==
  ASSUME NEW u, NEW up, InProgress(u, up), up.image \in Images, NEW count \in Nat
  PROVE  LET unwritten == Pending(u, up, count)
             n == Flushable(unwritten)
             rest == Rest(unwritten)
         IN /\ Len(unwritten) = Len(u.tail) + count /\ n \in Nat
            /\ n <= Len(unwritten) /\ Len(unwritten) - n < Word
            /\ Whole(unwritten) \in Seq(Cells) /\ Len(Whole(unwritten)) = n
            /\ \A i \in 1 .. n : Whole(unwritten)[i] = Unit(up.image, u.flushed + i)
            /\ rest \in Seq(Cells) /\ Len(rest) = Len(unwritten) - n
            /\ \A i \in 1 .. Len(rest) : rest[i] = Unit(up.image, u.flushed + n + i)
<1>. DEFINE more == [i \in 1 .. count |-> Unit(up.image, up.received + i)]
            unwritten == Pending(u, up, count)
            t == Len(u.tail)
            n == Flushable(unwritten)
            rest == Rest(unwritten)
<1>1. /\ u.tail \in Seq(Cells) /\ t \in Nat /\ u.flushed \in Nat /\ u.flushed + t = up.received
      /\ \A i \in 1 .. t : u.tail[i] = Unit(up.image, u.flushed + i)
      /\ Word \in Nat /\ Word >= 1
  <2>1. u.tail \in Seq(Cells) /\ u.flushed \in Nat
    BY DEF InProgress, Updates
  <2> QED
    BY <2>1, LenProperties, FirmwareAssumption DEF InProgress
<1>2. \A i \in Nat : i # 0 => Unit(up.image, i) \in Cells
  BY DEF Cells
<1>3. /\ more \in Seq(Cells) /\ Len(more) = count
      /\ \A i \in 1 .. count : more[i] = Unit(up.image, up.received + i)
  <2>1. \A i \in 1 .. count : up.received + i \in Nat /\ up.received + i # 0
    BY <1>1
  <2>2. more \in [1 .. count -> Cells]
    BY <1>2, <2>1
  <2>3. \A i \in 1 .. count : more[i] = Unit(up.image, up.received + i)
    OBVIOUS
  <2>. HIDE DEF more
  <2>4. more \in Seq(Cells)
    BY <2>2, SeqDef
  <2> QED
    BY <2>2, <2>3, <2>4, LenProperties
<1>. HIDE DEF more, t
<1>4. /\ unwritten \in Seq(Cells) /\ Len(unwritten) = t + count
      /\ \A i \in 1 .. t + count : unwritten[i] = Unit(up.image, u.flushed + i)
  <2>1. unwritten = u.tail \o more
    BY DEF Pending, more
  <2>2. /\ unwritten \in Seq(Cells) /\ Len(unwritten) = Len(u.tail) + Len(more)
        /\ \A i \in 1 .. Len(u.tail) + Len(more) :
             unwritten[i] = IF i <= Len(u.tail) THEN u.tail[i] ELSE more[i - Len(u.tail)]
    <3>. DEFINE all == u.tail \o more
    <3>1. /\ all \in Seq(Cells) /\ Len(all) = Len(u.tail) + Len(more)
          /\ \A i \in 1 .. Len(u.tail) + Len(more) :
               all[i] = IF i <= Len(u.tail) THEN u.tail[i] ELSE more[i - Len(u.tail)]
      BY <1>1, <1>3, ConcatProperties
    <3>. HIDE DEF all, unwritten
    <3>2. unwritten = all
      BY <2>1 DEF all
    <3> QED
      BY <3>1, <3>2
  <2>. HIDE DEF unwritten
  <2>3. ASSUME NEW i \in 1 .. t + count
        PROVE  unwritten[i] = Unit(up.image, u.flushed + i)
    <3>1. unwritten[i] = IF i <= t THEN u.tail[i] ELSE more[i - t]
      BY <1>3, <2>2 DEF t
    <3>2. CASE i <= t
      BY <1>1, <3>1, <3>2
    <3>3. CASE ~(i <= t)
      <4>1. i - t \in 1 .. count /\ up.received + (i - t) = u.flushed + i
        BY <1>1, <3>3
      <4> QED
        BY <1>3, <3>1, <3>3, <4>1
    <3> QED
      BY <3>2, <3>3
  <2> QED
    BY <1>3, <2>2, <2>3 DEF t
<1>. HIDE DEF unwritten
<1>5. n \in Nat /\ n <= Len(unwritten) /\ Len(unwritten) - n < Word
  <2>. DEFINE len == Len(unwritten)
              q == len \div Word
  <2>1. len \in Nat
    BY <1>4, LenProperties
  <2>. HIDE DEF len
  <2>2. q \in Nat /\ len % Word \in 0 .. Word - 1 /\ len = Word * q + (len % Word)
    <3>1. Word \in Nat /\ Word >= 1
      BY <1>1
    <3> QED
      BY <2>1, <3>1
  <2>. HIDE DEF q
  <2>3. n = Word * q
    BY <1>1, <2>2 DEF Flushable, len, q, n
  <2>4. Word * q \in Nat
    BY <1>1, <2>2
  <2> QED
    BY <1>1, <2>1, <2>2, <2>3, <2>4 DEF len
<1>. HIDE DEF n
<1>6. /\ Whole(unwritten) \in Seq(Cells) /\ Len(Whole(unwritten)) = n
      /\ \A i \in 1 .. n : Whole(unwritten)[i] = Unit(up.image, u.flushed + i)
  <2>1. \A i \in 1 .. n : unwritten[i] \in Cells
    BY <1>4, <1>5, ElementOfSeq
  <2>2. /\ SubSeq(unwritten, 1, n) \in Seq(Cells) /\ Len(SubSeq(unwritten, 1, n)) = n
        /\ \A i \in 1 .. n : SubSeq(unwritten, 1, n)[i] = unwritten[i]
    BY <1>5, <2>1, SubSeqProperties
  <2>3. \A i \in 1 .. n : i \in 1 .. t + count
    BY <1>1, <1>4, <1>5
  <2> QED
    BY <1>4, <2>2, <2>3 DEF Whole, n
<1>7. /\ rest \in Seq(Cells) /\ Len(rest) = Len(unwritten) - n
      /\ \A i \in 1 .. Len(rest) : rest[i] = Unit(up.image, u.flushed + n + i)
  <2>1. \A i \in n + 1 .. Len(unwritten) : unwritten[i] \in Cells
    BY <1>4, <1>5, ElementOfSeq
  <2>2. Len(unwritten) \in Nat /\ Len(unwritten) = t + count
    BY <1>4, LenProperties
  <2>3. /\ rest \in Seq(Cells)
        /\ Len(rest) = IF n + 1 <= Len(unwritten) THEN Len(unwritten) - (n + 1) + 1 ELSE 0
        /\ \A i \in 1 .. Len(unwritten) - (n + 1) + 1 : rest[i] = unwritten[n + 1 + i - 1]
    BY <1>5, <2>1, <2>2, SubSeqProperties DEF Rest, n
  <2>. HIDE DEF rest
  <2>4. Len(rest) = Len(unwritten) - n
    BY <1>5, <2>2, <2>3
  <2>5. ASSUME NEW i \in 1 .. Len(rest)
        PROVE  rest[i] = Unit(up.image, u.flushed + n + i)
    <3>1. /\ i \in 1 .. Len(unwritten) - (n + 1) + 1 /\ n + 1 + i - 1 = n + i
          /\ n + i \in 1 .. t + count /\ u.flushed + (n + i) = u.flushed + n + i
      <4>1. /\ i \in Nat /\ i >= 1 /\ i <= Len(unwritten) - n /\ n \in Nat
            /\ Len(unwritten) \in Nat /\ Len(unwritten) = t + count /\ u.flushed \in Nat
        BY <1>1, <1>5, <2>2, <2>4
      <4>. HIDE DEF rest, unwritten
      <4> QED
        BY <4>1
    <3> QED
      BY <1>4, <2>3, <3>1
  <2> QED
    BY <2>3, <2>4, <2>5
<1> QED
  BY <1>4, <1>5, <1>6, <1>7 DEF n, t, unwritten

\* Writing to the other slot keeps everything else; the slot selected is that one, and
\* marked, or boots as before.
LEMMA OtherSlotWritten ==
  ASSUME OtaTypes, OtherFlashKept, SelectedBoots,
         NEW u \in Updates, u.slot = Other(running), Untouched(flash', u),
         UNCHANGED <<selected, running>>, unfinished' = unfinished \cup {u.slot}
  PROVE  OtherFlashKept' /\ SelectedBoots'
<1>1. selected \in Slots /\ running \in Slots
  BY DEF OtaTypes
<1>2. OtherFlashKept'
  BY <1>1, OtherKept DEF OtherFlashKept
<1>3. CASE selected = running
  BY <1>2, <1>3 DEF SelectedBoots, OtherFlashKept
<1>4. CASE selected # running
  <2>1. selected = u.slot
    BY <1>1, <1>4 DEF Slots, Other
  <2> QED
    BY <1>2, <2>1 DEF SelectedBoots
<1> QED
  BY <1>2, <1>3, <1>4

\* No data changes nothing.
LEMMA NothingWritten ==
  ASSUME NEW u \in Updates, u.flushed <= u.erased, NEW data \in Seq(Cells), Len(data) = 0
  PROVE  \A a \in Addresses : Flushed(u, data)[a] = flash[a]
<1>1. u.flushed \in Nat /\ u.erased \in Nat /\ u.slot \in Slots
  BY DEF Updates
<1>2. Base(u.slot) \in Nat
  BY <1>1, SlotAddresses
<1>3. u.flushed + Len(data) = u.flushed /\ ErasedTo(u, u.flushed) = u.erased
  BY <1>1 DEF ErasedTo
<1>4. AfterErase(u, u.flushed) = [a \in Addresses |-> flash[a]]
  <2>1. Base(u.slot) + u.erased .. Base(u.slot) + u.erased - 1 = {}
    BY <1>1, <1>2
  <2> QED
    BY <1>3, <2>1 DEF AfterErase
<1>5. \A cells : AfterWrite(cells, u, data) = [a \in Addresses |-> cells[a]]
  <2>1. Base(u.slot) + u.flushed .. Base(u.slot) + u.flushed + Len(data) - 1 = {}
    BY <1>1, <1>2
  <2> QED
    BY <2>1 DEF AfterWrite
<1> QED
  BY <1>3, <1>4, <1>5 DEF Flushed

\* What a write that succeeds leaves of an update.
LEMMA WriteSucceeds ==
  ASSUME NEW u, NEW up, InProgress(u, up), up.image \in Images, DOMAIN flash = Addresses,
         NEW count \in Nat, u.written + count <= Capacity,
         flash' = Flushed(u, Whole(Pending(u, up, count))),
         update' = Written(u, up, count),
         unfinished' = IF update'.erased > 0 THEN unfinished \cup {u.slot} ELSE unfinished,
         upload' = [up EXCEPT !.received = up.received + count], up.received \in Nat,
         DOMAIN up = {"image", "len", "received"}, running' = running
  PROVE  /\ InProgress(update, upload)'
         /\ Untouched(flash', u)
         /\ update'.erased = 0 => \A a \in Addresses : flash'[a] = flash[a]
<1>. DEFINE unwritten == Pending(u, up, count)
            n == Flushable(unwritten)
            rest == Rest(unwritten)
            whole == Whole(unwritten)
            base == Base(u.slot)
            t == Len(u.tail)
<1>1. /\ u \in Updates /\ u.slot \in Slots /\ u.slot = Other(running)
      /\ u.flushed \in Nat /\ u.erased \in Nat /\ u.written \in Nat /\ t \in Nat
      /\ u.written = up.received /\ u.flushed + t = u.written
      /\ \A i \in 1 .. u.flushed : flash[base + i - 1] = Unit(up.image, i)
      /\ ErasedAhead(u) /\ u.flushed <= u.erased
  <2>1. u \in Updates
    BY DEF InProgress
  <2>2. u.tail \in Seq(Cells)
    BY <2>1 DEF Updates
  <2> QED
    BY <2>1, <2>2, LenProperties DEF InProgress, Updates, ErasedAhead
<1>2. /\ Len(unwritten) = t + count /\ n \in Nat
      /\ n <= Len(unwritten) /\ Len(unwritten) - n < Word
      /\ whole \in Seq(Cells) /\ Len(whole) = n
      /\ \A i \in 1 .. n : whole[i] = Unit(up.image, u.flushed + i)
      /\ rest \in Seq(Cells) /\ Len(rest) = Len(unwritten) - n
      /\ \A i \in 1 .. Len(rest) : rest[i] = Unit(up.image, u.flushed + n + i)
  BY PendingFacts
<1>3. /\ base \in Nat /\ Capacity \in Nat
      /\ \A i \in 0 .. Capacity - 1 : base + i \in Addresses
  BY <1>1, SlotAddresses
<1>. HIDE DEF unwritten, n, rest, whole, base, t
<1>. DEFINE end == u.flushed + n
            to == ErasedTo(u, end)
<1>4. end \in Nat /\ end <= Capacity /\ end <= u.written + count
  <2>1. end \in Nat
    BY <1>1, <1>2
  <2>2. n <= t + count
    BY <1>2
  <2>3. end <= u.flushed + t + count
    BY <1>1, <1>2, <2>2
  <2>4. end <= u.written + count
    BY <1>1, <2>3
  <2> QED
    BY <1>1, <1>3, <2>1, <2>4
<1>5. to \in Nat /\ to >= end /\ to <= Capacity
  BY <1>1, <1>4, SectorsFit DEF ErasedAhead
<1>6. /\ update'.slot = u.slot /\ update'.written = u.written + count
      /\ update'.flushed = end /\ update'.erased = to /\ update'.tail = rest
      /\ update' \in Updates
  <2>1. update' = [u EXCEPT !.written = u.written + count, !.flushed = end, !.erased = to,
                            !.tail = rest]
    BY <1>1 DEF Written, Updates, n, unwritten, rest, Rest
  <2>. HIDE DEF end, to
  <2>2. u.written + count \in Nat
    BY <1>1
  <2>3. u \in [slot : Slots, written : Nat, flushed : Nat, erased : Nat, tail : Seq(Cells)]
    BY <1>1 DEF Updates
  <2>4. /\ update'.slot = u.slot /\ update'.written = u.written + count
        /\ update'.flushed = end /\ update'.erased = to /\ update'.tail = rest
    BY <2>1, <2>3
  <2>5. update' \in Updates
    BY <1>2, <1>4, <1>5, <2>1, <2>2, <2>3 DEF Updates
  <2> QED
    BY <2>4, <2>5
<1>7. /\ upload'.image = up.image /\ upload'.received = up.received + count
  OBVIOUS
<1>8. /\ Untouched(flash', u)
      /\ \A i \in 1 .. n : flash'[base + u.flushed + i - 1] = whole[i]
      /\ \A i \in end .. to - 1 : flash'[base + i] = Erased
  <2>1. flash' = AfterWrite(AfterErase(u, u.flushed + Len(whole)), u, whole)
    BY DEF Flushed, whole, unwritten
  <2>2. u.flushed + Len(whole) = end /\ Len(whole) <= Len(whole)
    BY <1>2
  <2>3. /\ Untouched(AfterWrite(AfterErase(u, u.flushed + Len(whole)), u, whole), u)
        /\ \A i \in 1 .. Len(whole) :
             AfterWrite(AfterErase(u, u.flushed + Len(whole)), u, whole)
               [Base(u.slot) + u.flushed + i - 1] = whole[i]
        /\ \A i \in u.flushed + Len(whole) .. ErasedTo(u, u.flushed + Len(whole)) - 1 :
             AfterWrite(AfterErase(u, u.flushed + Len(whole)), u, whole)[Base(u.slot) + i] = Erased
    BY <1>1, <1>2, <1>4, <2>2, WriteFacts
  <2> QED
    BY <1>2, <2>1, <2>2, <2>3 DEF base
<1>. HIDE DEF end, to
<1>9. ASSUME NEW i \in 1 .. end
      PROVE  flash'[base + i - 1] = Unit(up.image, i)
  <2>1. i \in Nat /\ i >= 1 /\ i <= u.flushed + n
    BY <1>1, <1>2 DEF end
  <2>2. CASE i <= u.flushed
    <3>1. i - 1 \in 0 .. Capacity - 1 /\ base + i - 1 = base + (i - 1) /\ i \in 1 .. u.flushed
      <4>1. i \in 1 .. u.flushed
        BY <1>1, <2>1, <2>2
      <4>2. u.flushed <= Capacity
        BY <1>1, <1>3 DEF ErasedAhead
      <4>3. i - 1 \in 0 .. Capacity - 1
        BY <1>1, <1>3, <2>1, <2>2, <4>2
      <4>4. base + i - 1 = base + (i - 1)
        BY <1>3, <2>1
      <4> QED
        BY <4>1, <4>3, <4>4
    <3>2. base + i - 1 \in Addresses /\ base + i - 1 < base + u.flushed
      BY <1>1, <1>3, <2>1, <2>2, <3>1
    <3> QED
      BY <1>1, <1>8, <3>1, <3>2 DEF Untouched, base
  <2>3. CASE i > u.flushed
    <3>1. /\ i - u.flushed \in 1 .. n /\ u.flushed + (i - u.flushed) = i
          /\ base + u.flushed + (i - u.flushed) - 1 = base + i - 1
      <4>1. i - u.flushed \in 1 .. n
        <5>1. i \in Nat /\ u.flushed \in Nat /\ n \in Nat /\ i > u.flushed /\ i <= u.flushed + n
          BY <1>1, <1>2, <2>1, <2>3
        <5>. HIDE DEF n
        <5> QED
          BY <5>1
      <4>2. u.flushed + (i - u.flushed) = i
        BY <1>1, <2>1
      <4>3. base + u.flushed + (i - u.flushed) - 1 = base + i - 1
        BY <1>1, <1>3, <2>1
      <4> QED
        BY <4>1, <4>2, <4>3
    <3> QED
      BY <1>2, <1>8, <3>1
  <2> QED
    BY <1>1, <2>1, <2>2, <2>3
<1>10. InProgress(update, upload)'
  <2>1. u.slot = Other(running)'
    BY <1>1 DEF Other
  <2>2. update'.written = upload'.received /\ update'.written <= Capacity
    BY <1>1, <1>6, <1>7
  <2>3. update'.flushed + Len(update'.tail) = update'.written /\ Len(update'.tail) < Word
    BY <1>1, <1>2, <1>6 DEF end
  <2>4. \A i \in 1 .. Len(update'.tail) : update'.tail[i] = Unit(upload'.image, update'.flushed + i)
    BY <1>2, <1>6, <1>7 DEF end
  <2>5. \A i \in 1 .. update'.flushed :
          flash'[Base(update'.slot) + i - 1] = Unit(upload'.image, i)
    BY <1>6, <1>7, <1>9 DEF base
  <2>6. ErasedAhead(update)'
    BY <1>5, <1>6, <1>8 DEF ErasedAhead, base
  <2>7. update'.erased > 0 => update'.slot \in unfinished'
    BY <1>6
  <2> QED
    BY <1>6, <2>1, <2>2, <2>3, <2>4, <2>5, <2>6, <2>7 DEF InProgress
<1>11. ASSUME update'.erased = 0
       PROVE  \A a \in Addresses : flash'[a] = flash[a]
  <2>1. n = 0
    BY <1>1, <1>2, <1>5, <1>6, <1>11 DEF end
  <2>2. flash' = Flushed(u, whole)
    BY DEF whole, unwritten
  <2> QED
    BY <1>1, <1>2, <2>1, <2>2, NothingWritten
<1> QED
  BY <1>8, <1>10, <1>11

\* A write of the next units of an upload, accepted, refused or failed.
LEMMA WriteKeeps ==
  ASSUME OtaTypes, OtherFlashKept, SelectedBoots, NEW u, NEW up, InProgress(u, up),
         up \in [image : Images, len : Nat, received : Nat],
         NEW count \in Nat, up.received + count <= up.len,
         upload' = [up EXCEPT !.received = up.received + count],
         Write(u, up, count), told' = NotTold, UNCHANGED <<slots, serving>>
  PROVE  OtaInv'
<1>1. /\ UNCHANGED <<selected, running, station, requested, stale, waker>>
      /\ DOMAIN flash = Addresses /\ unfinished \subseteq Slots
      /\ selected \in Slots /\ running \in Slots
  BY DEF OtaTypes, slots, serving
<1>2. /\ u \in Updates /\ u.slot = Other(running) /\ u.slot \in Slots /\ ErasedAhead(u)
      /\ u.written \in Nat /\ u.written <= Capacity /\ u.flushed <= u.erased
  BY DEF InProgress, Updates, ErasedAhead
<1>3. upload' \in [image : Images, len : Nat, received : Nat] /\ upload'.received <= upload'.len
  <2>1. up.received + count \in Nat
    OBVIOUS
  <2> QED
    BY <2>1
<1>4. ToldIsTrue'
  BY DEF ToldIsTrue
<1>5. CASE /\ count > 0 => Accepts(u, up, count)
           /\ update' = Written(u, up, count)
           /\ flash' = Flushed(u, Whole(Pending(u, up, count)))
           /\ unfinished' = IF update'.erased > 0 THEN unfinished \cup {u.slot} ELSE unfinished
           /\ pc' = "body" /\ reply' = "none"
  <2>1. u.written + count <= Capacity
    <3>1. CASE count > 0
      BY <1>5, <3>1 DEF Accepts
    <3>2. CASE count = 0
      BY <1>2, <3>2
    <3> QED
      BY <3>1, <3>2
  <2>2. /\ InProgress(update, upload)' /\ Untouched(flash', u)
        /\ update'.erased = 0 => \A a \in Addresses : flash'[a] = flash[a]
    BY <1>1, <1>5, <2>1, WriteSucceeds
  <2>3. OtherFlashKept' /\ SelectedBoots'
    <3>1. CASE update'.erased > 0
      BY <1>1, <1>2, <1>5, <2>2, <3>1, OtherSlotWritten
    <3>2. CASE ~(update'.erased > 0)
      <4>1. update'.erased \in Nat
        BY <2>2 DEF InProgress, Updates
      <4>2. \A a \in Addresses : flash'[a] = flash[a]
        BY <2>2, <3>2, <4>1
      <4>3. OtherFlashKept'
        BY <1>1, <1>2, <2>2, OtherKept DEF OtherFlashKept
      <4>4. Boots(flash, selected) => Boots(flash', selected)
        BY <1>1, <4>2, SlotKept
      <4>5. unfinished' = unfinished
        BY <1>5, <3>2
      <4> QED
        BY <1>1, <4>3, <4>4, <4>5 DEF SelectedBoots
    <3> QED
      BY <3>1, <3>2
  <2>4. unfinished' \subseteq Slots
    BY <1>1, <1>2, <1>5
  <2>5. OtaTypes'
    BY <1>1, <1>3, <1>5, <2>2, <2>4 DEF OtaTypes, Untouched, Connections
  <2>6. AnswerIsTrue'
    BY <1>5 DEF AnswerIsTrue
  <2> QED
    BY <1>4, <1>5, <2>2, <2>3, <2>5, <2>6 DEF OtaInv
<1>6. ASSUME Reply("error"), flash' = flash, unfinished' = unfinished
      PROVE  OtaInv'
  <2>1. pc' = "replying" /\ reply' = "error" /\ update' = NoUpdate
    BY <1>6 DEF Reply
  <2>2. OtaTypes'
    BY <1>1, <1>3, <1>6, <2>1 DEF OtaTypes, Connections
  <2>3. OtherFlashKept' /\ SelectedBoots' /\ AnswerIsTrue'
    BY <1>1, <1>6, <2>1 DEF OtherFlashKept, SelectedBoots, AnswerIsTrue
  <2> QED
    BY <1>4, <2>1, <2>2, <2>3 DEF OtaInv
<1>7. CASE /\ count > 0 /\ Accepts(u, up, count)
           /\ flash' \in Torn(u, Whole(Pending(u, up, count)))
           /\ unfinished' = unfinished \cup {u.slot}
           /\ Reply("error")
  <2>1. pc' = "replying" /\ reply' = "error" /\ update' = NoUpdate
    BY <1>7 DEF Reply
  <2>2. Untouched(flash', u)
    <3>. DEFINE unwritten == Pending(u, up, count)
    <3>1. /\ Len(unwritten) = Len(u.tail) + count /\ Flushable(unwritten) \in Nat
          /\ Flushable(unwritten) <= Len(unwritten)
          /\ Whole(unwritten) \in Seq(Cells) /\ Len(Whole(unwritten)) = Flushable(unwritten)
      BY PendingFacts
    <3>2. u.written + count <= Capacity
      BY <1>7 DEF Accepts
    <3>3. u.flushed + Len(u.tail) = u.written /\ u.flushed \in Nat /\ Len(u.tail) \in Nat
      <4>1. u.tail \in Seq(Cells) /\ u.flushed \in Nat
        BY <1>2 DEF Updates
      <4> QED
        BY <4>1, LenProperties DEF InProgress
    <3>. HIDE DEF unwritten
    <3>4. u.flushed + Len(Whole(unwritten)) <= Capacity
      <4>1. u.flushed + Len(Whole(unwritten)) <= u.flushed + Len(u.tail) + count
        BY <3>1, <3>3
      <4>2. u.flushed + Len(Whole(unwritten)) <= u.written + count
        BY <3>3, <4>1
      <4>3. /\ u.flushed + Len(Whole(unwritten)) \in Nat
            /\ u.written + count \in Nat /\ Capacity \in Nat
        <5>1. u.written \in Nat /\ count \in Nat
          BY <1>2, <3>3 DEF Updates
        <5>2. Capacity \in Nat
          BY FirmwareAssumption
        <5>3. u.flushed \in Nat /\ Len(Whole(unwritten)) \in Nat
          BY <3>1, <3>3
        <5> QED
          BY <5>1, <5>2, <5>3
      <4> QED
        BY <3>2, <4>2, <4>3
    <3> QED
      BY <1>1, <1>2, <1>7, <3>1, <3>4, TornFacts DEF unwritten
  <2>3. OtherFlashKept' /\ SelectedBoots'
    BY <1>1, <1>2, <1>7, <2>2, OtherSlotWritten
  <2>4. unfinished' \subseteq Slots
    BY <1>1, <1>2, <1>7
  <2>5. OtaTypes'
    BY <1>1, <1>3, <2>1, <2>2, <2>4 DEF OtaTypes, Untouched, Connections
  <2>6. AnswerIsTrue'
    BY <2>1 DEF AnswerIsTrue
  <2> QED
    BY <1>4, <2>1, <2>3, <2>5, <2>6 DEF OtaInv
<1> QED
  BY <1>5, <1>6, <1>7 DEF Write

\* An update that begins has nothing in the flash.
LEMMA BeginKeeps ==
  ASSUME OtaInv, BeginUpdate
  PROVE  OtaInv'
<1>1. PICK image \in Uploads, len \in Lens :
        \E first \in 0 .. (IF len < MaxRead THEN len ELSE MaxRead) :
          LET up == [image |-> image, len |-> len, received |-> 0]
          IN /\ upload' = [up EXCEPT !.received = first]
             /\ Write([NoUpdate EXCEPT !.slot = NextSlot], up, first)
  BY DEF BeginUpdate
<1>. DEFINE up == [image |-> image, len |-> len, received |-> 0]
            u == [NoUpdate EXCEPT !.slot = NextSlot]
<1>2. PICK first \in 0 .. (IF len < MaxRead THEN len ELSE MaxRead) :
        /\ upload' = [up EXCEPT !.received = first]
        /\ Write(u, up, first)
  BY <1>1
<1>3. /\ image \in Images /\ len \in Nat /\ first \in Nat /\ first <= len
  BY FirmwareAssumption
<1>4. /\ OtaTypes /\ OtherFlashKept /\ SelectedBoots /\ running \in Slots
      /\ told' = NotTold /\ UNCHANGED <<slots, serving>>
  BY DEF OtaInv, OtaTypes, BeginUpdate
<1>5. /\ <<>> \in Seq(Cells) /\ Len(<<>>) = 0
  BY EmptySeq
<1>6. /\ u.slot = Other(running) /\ u.written = 0 /\ u.flushed = 0 /\ u.erased = 0
      /\ u.tail = <<>> /\ u \in Updates
  <2>1. Other(running) \in Slots
    BY <1>4, SlotAddresses
  <2> QED
    BY <1>5, <2>1 DEF NoUpdate, NextSlot, Updates
<1>7. up.image = image /\ up.len = len /\ up.received = 0
      /\ up \in [image : Images, len : Nat, received : Nat]
  BY <1>3
<1>. HIDE DEF up, u
<1>8. InProgress(u, up)
  <2>1. Capacity \in Nat /\ Word \in Nat /\ Word >= 1
    BY FirmwareAssumption
  <2>2. ErasedAhead(u)
    BY <1>6, <2>1 DEF ErasedAhead
  <2> QED
    BY <1>5, <1>6, <1>7, <2>1, <2>2 DEF InProgress
<1>9. upload' = [up EXCEPT !.received = up.received + first] /\ up.received + first <= up.len
  BY <1>2, <1>3, <1>7
<1> QED
  BY <1>2, <1>3, <1>4, <1>7, <1>8, <1>9, WriteKeeps

LEMMA ReadKeeps ==
  ASSUME OtaInv, ReadBody
  PROVE  OtaInv'
<1>1. PICK count \in 1 .. MaxRead :
        /\ upload.received + count <= upload.len
        /\ upload' = [upload EXCEPT !.received = @ + count]
        /\ Write(update, upload, count)
  BY DEF ReadBody
<1>2. /\ OtaTypes /\ OtherFlashKept /\ SelectedBoots
      /\ InProgress(update, upload) /\ told' = NotTold /\ UNCHANGED <<slots, serving>>
  BY DEF OtaInv, ReadBody
<1>3. upload \in [image : Images, len : Nat, received : Nat] /\ count \in Nat
  BY <1>2, FirmwareAssumption DEF OtaTypes
<1>4. upload' = [upload EXCEPT !.received = upload.received + count]
  BY <1>1
<1> QED
  BY <1>1, <1>2, <1>3, <1>4, WriteKeeps

\* The tail of an update, padded, fits if a word does.
LEMMA PaddedFacts ==
  ASSUME NEW u \in Updates, Len(u.tail) < Word, u.flushed <= Capacity,
         u.tail # <<>> => u.flushed + Word <= Capacity
  PROVE  Padded(u) \in Seq(Cells) /\ u.flushed + Len(Padded(u)) <= Capacity
<1>. DEFINE t == Len(u.tail)
            n == (Word - t) % Word
            padding == [i \in 1 .. n |-> Erased]
<1>1. u.tail \in Seq(Cells) /\ t \in Nat /\ u.flushed \in Nat /\ Word \in Nat /\ Word >= 1
      /\ Capacity \in Nat
  <2>1. u.tail \in Seq(Cells) /\ u.flushed \in Nat
    BY DEF Updates
  <2> QED
    BY <2>1, LenProperties, FirmwareAssumption
<1>2. n \in Nat /\ (t = 0 => n = 0) /\ (t > 0 => n = Word - t)
  <2>1. t <= Word - 1
    BY <1>1
  <2>. HIDE DEF t
  <2>2. CASE t = 0
    <3>1. Word - t = Word /\ Word % Word = 0
      BY <1>1, <2>2
    <3> QED
      BY <1>1, <2>2, <3>1
  <2>3. CASE t > 0
    <3>1. Word - t \in 0 .. Word - 1
      BY <1>1, <2>1, <2>3
    <3>2. \A d \in Nat : d >= 1 => \A k \in 0 .. d - 1 : k % d = k
      OBVIOUS
    <3>3. n = Word - t
      BY <1>1, <3>1, <3>2
    <3> QED
      BY <1>1, <2>3, <3>1, <3>3
  <2> QED
    BY <1>1, <2>2, <2>3
<1>. HIDE DEF n
<1>3. padding \in Seq(Cells) /\ Len(padding) = n
  <2>1. padding \in [1 .. n -> Cells]
    BY DEF Cells
  <2>. HIDE DEF padding
  <2>2. padding \in Seq(Cells)
    BY <1>2, <2>1, SeqDef
  <2> QED
    BY <1>2, <2>1, <2>2, LenProperties
<1>. HIDE DEF padding
<1>4. Padded(u) = u.tail \o padding
  BY DEF Padded, padding, n
<1>5. Padded(u) \in Seq(Cells) /\ Len(Padded(u)) = t + n
  BY <1>1, <1>3, <1>4, ConcatProperties
<1>6. CASE t = 0
  BY <1>1, <1>2, <1>5, <1>6
<1>7. CASE t > 0
  <2>1. u.tail # <<>>
    BY <1>7, EmptySeq
  <2>2. Len(Padded(u)) = Word
    BY <1>1, <1>2, <1>5, <1>7
  <2> QED
    BY <1>5, <2>1, <2>2
<1> QED
  BY <1>1, <1>6, <1>7

\* What a verified update selects boots; one that is not leaves what was selected, or
\* marks it.
LEMMA FinishKeeps ==
  ASSUME OtaInv, FinishUpdate
  PROVE  OtaInv'
<1>. DEFINE fits == update.tail # <<>> => update.flushed + Word <= Capacity
<1>1. /\ OtaTypes /\ OtherFlashKept /\ SelectedBoots /\ InProgress(update, upload)
      /\ told = NotTold /\ UNCHANGED <<running, station, serving, upload, told>>
  BY DEF OtaInv, FinishUpdate
<1>2. /\ DOMAIN flash = Addresses /\ unfinished \subseteq Slots
      /\ selected \in Slots /\ running \in Slots
      /\ update \in Updates /\ update.slot = Other(running) /\ update.slot \in Slots
      /\ ErasedAhead(update) /\ Len(update.tail) < Word
      /\ update.written <= Capacity /\ update.written \in Nat /\ Capacity \in Nat
  BY <1>1, FirmwareAssumption DEF OtaTypes, InProgress, Updates
<1>3. update.flushed <= Capacity
  <2>1. update.flushed \in Nat /\ update.erased \in Nat
    BY <1>2 DEF Updates
  <2> QED
    BY <1>2, <2>1 DEF ErasedAhead
<1>4. fits => \A cells \in {Finished(update)} \cup Torn(update, Padded(update)) :
                Untouched(cells, update)
  BY <1>2, <1>3, PaddedFacts, TornFacts DEF Finished
<1>5. ToldIsTrue'
  BY <1>1 DEF ToldIsTrue
<1>6. upload' \in [image : Images, len : Nat, received : Nat] /\ upload'.received <= upload'.len
  BY <1>1 DEF OtaTypes
<1>7. CASE /\ fits /\ Verifies(Finished(update), update, upload.image)
           /\ flash' = Finished(update)
           /\ selected' = update.slot /\ unfinished' = unfinished \ {update.slot}
           /\ (Reply("written") \/ Reply("error"))
  <2>1. pc' = "replying" /\ reply' \in {"written", "error"} /\ update' = NoUpdate
    BY <1>7 DEF Reply
  <2>2. Untouched(flash', update)
    BY <1>4, <1>7
  <2>3. OtherFlashKept'
    BY <1>1, <1>2, <2>2, OtherKept DEF OtherFlashKept
  <2>4. /\ Holds(flash', selected', upload'.image) /\ Needed[upload.image] <= update.written
        /\ upload'.image \in Images /\ upload' = upload
    BY <1>1, <1>6, <1>7 DEF Verifies
  <2>5. Boots(flash', selected')
    <3>1. Needed[upload.image] \in Nat
      BY <2>4, FirmwareAssumption
    <3>2. Needed[upload.image] <= Capacity
      BY <1>2, <2>4, <3>1
    <3> QED
      BY <2>4, <3>2 DEF Boots
  <2>6. OtaTypes'
    BY <1>1, <1>2, <1>6, <1>7, <2>1, <2>2 DEF OtaTypes, Untouched, Connections, serving
  <2>7. AnswerIsTrue'
    BY <1>1, <1>2, <1>7, <2>1, <2>4 DEF AnswerIsTrue, Other
  <2> QED
    BY <1>5, <2>1, <2>3, <2>5, <2>6, <2>7 DEF OtaInv, SelectedBoots
<1>8. CASE /\ IF update.written > 0 /\ fits
              THEN /\ flash' \in {Finished(update)} \cup Torn(update, Padded(update))
                   /\ unfinished' = unfinished \cup {update.slot}
              ELSE UNCHANGED <<flash, unfinished>>
           /\ Reply("error") /\ UNCHANGED selected
  <2>1. pc' = "replying" /\ reply' = "error" /\ update' = NoUpdate
    BY <1>8 DEF Reply
  <2>2. OtherFlashKept' /\ SelectedBoots' /\ DOMAIN flash' = Addresses
    <3>1. CASE update.written > 0 /\ fits
      <4>1. /\ flash' \in {Finished(update)} \cup Torn(update, Padded(update))
            /\ unfinished' = unfinished \cup {update.slot}
            /\ selected' = selected /\ running' = running
        BY <1>1, <1>8, <3>1
      <4>2. Untouched(flash', update)
        BY <1>4, <3>1, <4>1
      <4> QED
        BY <1>1, <1>2, <4>1, <4>2, OtherSlotWritten DEF Untouched
    <3>2. CASE ~(update.written > 0 /\ fits)
      <4>1. UNCHANGED <<flash, unfinished, selected, running>>
        BY <1>1, <1>8, <3>2
      <4> QED
        BY <1>1, <1>2, <4>1 DEF OtherFlashKept, SelectedBoots
    <3> QED
      BY <3>1, <3>2
  <2>3. unfinished' \subseteq Slots
    BY <1>2, <1>8
  <2>4. OtaTypes'
    BY <1>1, <1>2, <1>6, <1>8, <2>1, <2>2, <2>3 DEF OtaTypes, Connections, serving
  <2>5. AnswerIsTrue'
    BY <2>1 DEF AnswerIsTrue
  <2> QED
    BY <1>5, <2>1, <2>2, <2>4, <2>5 DEF OtaInv
<1>9. \/ /\ fits /\ Verifies(Finished(update), update, upload.image)
         /\ flash' = Finished(update)
         /\ selected' = update.slot /\ unfinished' = unfinished \ {update.slot}
         /\ (Reply("written") \/ Reply("error"))
      \/ /\ IF update.written > 0 /\ fits
            THEN /\ flash' \in {Finished(update)} \cup Torn(update, Padded(update))
                 /\ unfinished' = unfinished \cup {update.slot}
            ELSE UNCHANGED <<flash, unfinished>>
         /\ Reply("error") /\ UNCHANGED selected
  BY DEF FinishUpdate
<1> QED
  BY <1>7, <1>8, <1>9

\* A restart runs a slot that boots.
LEMMA RestartedKeeps ==
  ASSUME OtaInv, Restarted, ToldIsTrue'
  PROVE  OtaInv'
<1>1. /\ OtaTypes /\ OtherFlashKept /\ SelectedBoots
  BY DEF OtaInv
<1>2. /\ running' = Boot /\ station' \in BOOLEAN
      /\ requested' = FALSE /\ stale' = FALSE /\ waker' = "none" /\ pc' = "down"
      /\ upload' = NoUpload /\ update' = NoUpdate /\ reply' = "none"
      /\ UNCHANGED <<flash, selected, unfinished>>
  BY DEF Restarted, Closed
<1>3. running' \in Slots
  BY <1>1, <1>2, SlotAddresses DEF OtaTypes, Boot
<1>4. Boots(flash, running')
  <2>1. CASE Boots(flash, selected)
    BY <1>2, <2>1 DEF Boot
  <2>2. CASE ~Boots(flash, selected)
    <3>1. Boots(flash, running) /\ selected \in Slots /\ running \in Slots
      BY <1>1 DEF OtherFlashKept, OtaTypes
    <3>2. running = Other(selected)
      BY <2>2, <3>1 DEF Slots, Other
    <3> QED
      BY <1>2, <2>2, <3>1, <3>2 DEF Boot
  <2> QED
    BY <2>1, <2>2
<1>5. NoUpload \in [image : Images, len : Nat, received : Nat] /\ NoUpload.received <= NoUpload.len
  BY FirmwareAssumption DEF NoUpload
<1>6. OtaTypes'
  BY <1>1, <1>2, <1>3, <1>5 DEF OtaTypes
<1>7. OtherFlashKept' /\ SelectedBoots' /\ AnswerIsTrue'
  BY <1>1, <1>2, <1>4 DEF OtherFlashKept, SelectedBoots, AnswerIsTrue
<1> QED
  BY <1>2, <1>6, <1>7 DEF OtaInv

\* What neither writes nor selects, and leaves no update behind.
LEMMA ClosedKeeps ==
  ASSUME OtaInv, UNCHANGED <<flash, selected, running, station, unfinished>>, ToldIsTrue',
         requested' \in BOOLEAN, stale' \in BOOLEAN, waker' \in {"none", "registered", "woken"},
         pc' \in {"down", "idle", "waiting", "starting", "listening", "accepting", "header",
                  "replying"},
         upload' \in {upload, NoUpload}, update' = NoUpdate, reply' # "written"
  PROVE  OtaInv'
<1>1. OtaTypes /\ OtherFlashKept /\ SelectedBoots
  BY DEF OtaInv
<1>2. NoUpload \in [image : Images, len : Nat, received : Nat] /\ NoUpload.received <= NoUpload.len
  BY FirmwareAssumption DEF NoUpload
<1>3. OtaTypes'
  BY <1>1, <1>2 DEF OtaTypes, Connections
<1>4. OtherFlashKept' /\ SelectedBoots' /\ AnswerIsTrue'
  BY <1>1 DEF OtherFlashKept, SelectedBoots, AnswerIsTrue
<1> QED
  BY <1>3, <1>4 DEF OtaInv

\* The steps that only move the task on.
LEMMA TaskKeeps ==
  ASSUME OtaInv, UNCHANGED <<flash, slots, history>>,
         \/ Task \/ AdapterUp \/ AdapterFails \/ Accept \/ ConnectionFails
         \/ ReadRequest \/ BodyEnds \/ WifiUp \/ WifiLost
  PROVE  OtaInv'
<1>1. /\ UNCHANGED <<selected, running, station, told, unfinished>> /\ OtaTypes
      /\ pc # "body" => update = NoUpdate
      /\ reply = "written" => pc = "replying"
      /\ requested \in BOOLEAN /\ stale \in BOOLEAN /\ waker \in {"none", "registered", "woken"}
  BY DEF slots, history, OtaInv, OtaTypes, AnswerIsTrue
<1>2. ToldIsTrue'
  BY <1>1 DEF OtaInv, ToldIsTrue
<1>3. /\ requested' \in BOOLEAN /\ stale' \in BOOLEAN
      /\ waker' \in {"none", "registered", "woken"}
      /\ pc' \in {"down", "idle", "waiting", "starting", "listening", "accepting", "header",
                  "replying"}
      /\ upload' \in {upload, NoUpload} /\ update' = NoUpdate /\ reply' # "written"
  <2>1. CASE WaitRequested \/ SeeRequest \/ Serve \/ Listen
    BY <1>1, <2>1 DEF WaitRequested, SeeRequest, Serve, Listen, Await, serving
  <2>2. CASE Stopped \/ ConnectionFails
    BY <1>1, <2>2 DEF Stopped, ConnectionFails, GiveUp, Closed, serving
  <2>3. CASE AdapterUp \/ AdapterFails \/ Accept \/ WifiUp \/ WifiLost
    BY <1>1, <2>3 DEF AdapterUp, AdapterFails, RequestOta, Accept, Await, WifiUp, WifiLost,
                      Closed, serving
  <2>4. CASE ReadRequest \/ BodyEnds
    BY <1>1, <2>4 DEF ReadRequest, BodyEnds, Reply, serving
  <2> QED
    BY <2>1, <2>2, <2>3, <2>4 DEF Task
<1> QED
  BY <1>1, <1>2, <1>3, ClosedKeeps

\* A request changes nothing but that it is one.
LEMMA RequestKeeps ==
  ASSUME OtaInv, \/ StartOta \/ StopOta \/ UNCHANGED otaVars
  PROVE  OtaInv'
<1>1. /\ UNCHANGED <<flash, selected, running, station, pc, upload, update, reply, told, unfinished>>
      /\ requested' \in BOOLEAN /\ stale' \in BOOLEAN
      /\ waker' \in {"none", "registered", "woken"}
  BY DEF OtaInv, OtaTypes, StartOta, StopOta, RequestOta, otaVars, slots, history, serving
<1>2. OtaTypes'
  BY <1>1 DEF OtaInv, OtaTypes
<1>3. InProgress(update, upload) => InProgress(update, upload)'
  BY <1>1 DEF InProgress, ErasedAhead
<1>4. (OtherFlashKept /\ SelectedBoots /\ ToldIsTrue /\ AnswerIsTrue)'
  BY <1>1 DEF OtaInv, OtherFlashKept, SelectedBoots, ToldIsTrue, AnswerIsTrue
<1> QED
  BY <1>1, <1>2, <1>3, <1>4 DEF OtaInv

\* A client is told of what has been selected and is there.
LEMMA AnswerKeeps ==
  ASSUME OtaInv, Answer
  PROVE  OtaInv'
<1>1. /\ pc = "replying" /\ ToldIsTrue /\ AnswerIsTrue /\ OtaTypes
      /\ told' = (IF reply = "written" THEN <<upload.image, NextSlot>> ELSE told)
      /\ UNCHANGED <<flash, selected>>
  BY DEF OtaInv, Answer, Restarted, slots
<1>2. ToldIsTrue'
  <2>1. CASE reply = "written"
    BY <1>1, <2>1 DEF ToldIsTrue, AnswerIsTrue, NextSlot
  <2>2. CASE reply # "written"
    BY <1>1, <2>2 DEF ToldIsTrue
  <2> QED
    BY <2>1, <2>2
<1>3. CASE Restarted
  BY <1>2, <1>3, RestartedKeeps
<1>4. CASE pc' = "listening" /\ Closed /\ UNCHANGED <<flash, slots, serving, unfinished>>
  BY <1>1, <1>2, <1>4, ClosedKeeps DEF Closed, slots, serving, OtaTypes
<1> QED
  BY <1>3, <1>4 DEF Answer

LEMMA OtaStart == OtaInit => OtaInv
<1>. SUFFICES ASSUME OtaInit PROVE OtaInv
  OBVIOUS
<1>1. /\ First \in Images /\ First \in Sound /\ Needed[First] \in Nat /\ Needed[First] >= 1
      /\ Needed[First] <= Capacity
      /\ Capacity \in Nat /\ Sector \in Nat
  BY FirmwareAssumption
<1>2. ASSUME NEW a \in 2 * Capacity .. 2 * Capacity + Sector - 1
      PROVE  flash[a] = Stored
  <2>1. a \in Addresses /\ a >= 2 * Capacity
    BY <1>1 DEF Addresses
  <2> QED
    BY <2>1 DEF OtaInit
<1>3. Boots(flash, 0)
  <2>1. ASSUME NEW i \in 1 .. Needed[First]
        PROVE  flash[Base(0) + i - 1] = Unit(First, i)
    <3>1. Base(0) = 0
      BY <1>1 DEF Base
    <3>2. /\ i - 1 \in Nat /\ i - 1 < Capacity /\ Base(0) + i - 1 = i - 1 /\ (i - 1) + 1 = i
      BY <1>1, <3>1
    <3>3. i - 1 \in Addresses /\ ~(i - 1 >= 2 * Capacity)
      BY <1>1, <3>2 DEF Addresses
    <3>4. (i - 1) % Capacity = i - 1
      <4>1. \A d \in Nat : d >= 1 => \A k \in 0 .. d - 1 : k % d = k
        OBVIOUS
      <4> QED
        BY <1>1, <3>2, <4>1
    <3>5. i - 1 < Needed[First]
      BY <1>1
    <3>6. flash[i - 1] = Unit(First, (i - 1) + 1)
      BY <3>3, <3>4, <3>5 DEF OtaInit
    <3> QED
      BY <3>2, <3>6
  <2> QED
    BY <1>1, <2>1 DEF Boots, Holds
<1>4. OtaTypes
  <2>1. NoUpload \in [image : Images, len : Nat, received : Nat] /\ NoUpload.received <= NoUpload.len
    BY <1>1 DEF NoUpload
  <2>2. DOMAIN flash = Addresses
    BY DEF OtaInit
  <2> QED
    BY <2>1, <2>2 DEF OtaInit, OtaTypes, Slots
<1> QED
  BY <1>2, <1>3, <1>4 DEF OtaInit, OtaInv, OtherFlashKept, SelectedBoots, ToldIsTrue, AnswerIsTrue

LEMMA OtaStep == OtaInv /\ [OtaNext]_otaVars => OtaInv'
<1>. SUFFICES ASSUME OtaInv, [OtaNext]_otaVars PROVE OtaInv'
  OBVIOUS
<1>1. CASE StartOta \/ StopOta \/ UNCHANGED otaVars
  BY <1>1, RequestKeeps
<1>2. CASE \/ Task \/ AdapterUp \/ AdapterFails \/ Accept \/ ConnectionFails
           \/ ReadRequest \/ BodyEnds \/ WifiUp \/ WifiLost
  <2>1. UNCHANGED <<flash, slots, history>>
    BY <1>2 DEF Task, WaitRequested, SeeRequest, Serve, Listen, Stopped, AdapterUp, AdapterFails,
                Accept, ConnectionFails, GiveUp, ReadRequest, BodyEnds, WifiUp, WifiLost
  <2> QED
    BY <1>2, <2>1, TaskKeeps
<1>3. CASE BeginUpdate
  BY <1>3, BeginKeeps
<1>4. CASE ReadBody
  BY <1>4, ReadKeeps
<1>5. CASE FinishUpdate
  BY <1>5, FinishKeeps
<1>6. CASE Answer
  BY <1>6, AnswerKeeps
<1>7. CASE Restart
  <2>1. UNCHANGED <<flash, selected, told>> /\ Restarted
    BY <1>7 DEF Restart, Restarted
  <2>2. ToldIsTrue'
    BY <2>1 DEF OtaInv, ToldIsTrue
  <2> QED
    BY <2>1, <2>2, RestartedKeeps
<1> QED
  BY <1>1, <1>2, <1>3, <1>4, <1>5, <1>6, <1>7 DEF OtaNext

\* What has come of an upload is in the flash, and the rest of the flash as it was.
THEOREM OtaInvariant == OtaSpec => []OtaInv
<1> QED
  BY OtaStart, OtaStep, PTL DEF OtaSpec

\* For every size of slot, sector and read: an upload, however cut, is in the slot as it
\* came, and neither the slot that runs nor the storage is touched, not by an error.
THEOREM FlashKept == OtaSpec => []FlashIsKept
<1>1. OtaInv => FlashIsKept
  <2>. SUFFICES ASSUME OtaInv PROVE FlashIsKept
    OBVIOUS
  <2>1. /\ OtaTypes /\ OtherFlashKept
        /\ IF pc = "body" THEN InProgress(update, upload) ELSE update = NoUpdate
    BY DEF OtaInv
  <2>2. /\ update.slot \in Slots /\ Len(update.tail) < Word
        /\ update.flushed <= update.erased /\ update.erased <= Capacity
    <3>1. CASE pc = "body"
      BY <2>1, <3>1 DEF InProgress, ErasedAhead, Updates
    <3>2. CASE pc # "body"
      <4>1. Len(<<>>) = 0
        BY EmptySeq
      <4> QED
        BY <2>1, <3>2, <4>1, FirmwareAssumption DEF NoUpdate, Slots
    <3> QED
      BY <3>1, <3>2
  <2>3. OtaTypeOK
    BY <2>1, <2>2 DEF OtaTypes, OtaTypeOK
  <2>4. ChunksAddUp
    <3>. SUFFICES ASSUME pc = "body" PROVE ChunksAddUp
      BY DEF ChunksAddUp
    <3>1. update.tail \in Seq(Cells)
      BY <2>1 DEF InProgress, Updates
    <3>2. DOMAIN update.tail = 1 .. Len(update.tail)
      BY <3>1, LenProperties
    <3> QED
      BY <2>1, <3>2 DEF InProgress, ChunksAddUp
  <2> QED
    BY <2>1, <2>3, <2>4 DEF FlashIsKept
<1> QED
  BY <1>1, OtaInvariant, PTL

\* Whatever is cut short, the slot selected boots or is being written to anew, and
\* what a client was told has been written is what boots.
THEOREM SelectedTrue == OtaSpec => []SelectedIsTrue
<1>1. OtaInv => SelectedIsTrue
  BY DEF OtaInv, SelectedIsTrue
<1> QED
  BY <1>1, OtaInvariant, PTL

\* Nothing is written or selected once the upload page was not wanted.
THEOREM StopsWriting == OtaSpec => NoWriteAfterStop
<1>. DEFINE Stops == stale \/ ~requested => UNCHANGED <<flash, selected>>
<1>1. [OtaNext]_otaVars => [Stops]_otaVars
  BY DEF OtaNext, Task, WaitRequested, SeeRequest, Serve, Listen, Stopped, AdapterUp,
         AdapterFails, Accept, ConnectionFails, GiveUp, ReadRequest, BodyEnds, WifiUp, WifiLost,
         StartOta, StopOta, BeginUpdate, ReadBody, FinishUpdate, Answer, Restart, Restarted,
         Polled, slots
<1>. HIDE DEF Stops
<1>2. OtaSpec => [][Stops]_otaVars
  BY <1>1, PTL DEF OtaSpec
<1> QED
  BY <1>2 DEF Stops, NoWriteAfterStop

-------------------------------------------------------------------------------
(* The user button *)

\* A press is followed while the screen is woken, and until its end.
Following == (tracker = "off") <=> (screen \notin {"waking", "tracking"})

\* Where a press that is followed or acted upon was seen.
SeenWhere ==
  /\ screen = "showing" => by = "awake"
  /\ screen = "waking" => by = "asleep"

\* A wait sees the button fall and, while it is followed, rise.
EdgesSeen ==
  /\ edge = "fell" => screen \in Idle
  /\ edge = "rose" => tracker # "off"

\* A press that is followed goes on, as far as the pin tells, or its end has been
\* seen.
PressHeld ==
  /\ tracker = "on" /\ edge # "rose" => steady
  /\ tracker = "on" /\ expired => held \/ edge = "rose"
  /\ tracker = "long" => held

ButtonInv == PressesAreFollowed /\ Following /\ SeenWhere /\ EdgesSeen /\ PressHeld

LEMMA ButtonStart == ButtonInit => ButtonInv
BY DEF ButtonInit, ButtonInv, PressesAreFollowed, ButtonTypeOK, HoldIsHeld, Following, SeenWhere,
       EdgesSeen, PressHeld, Idle

\* The user presses and releases the button at any time, and the timer ends.
LEMMA UserKeepsButton ==
  ButtonInv /\ (PressButton \/ ReleaseButton \/ HoldTimerEnds) => ButtonInv'
<1>. USE DEF ButtonInv, PressesAreFollowed, ButtonTypeOK, HoldIsHeld, Following, SeenWhere,
             EdgesSeen, PressHeld, Idle
<1>1. ASSUME ButtonInv, PressButton PROVE ButtonInv'
  BY <1>1 DEF PressButton
<1>2. ASSUME ButtonInv, ReleaseButton PROVE ButtonInv'
  BY <1>2 DEF ReleaseButton
<1>3. ASSUME ButtonInv, HoldTimerEnds PROVE ButtonInv'
  BY <1>3 DEF HoldTimerEnds
<1> QED
  BY <1>1, <1>2, <1>3

\* The task sees a press and follows it to its end.
LEMMA TaskKeepsButton ==
  ASSUME ButtonInv,
         \/ SleepDisplay \/ SeePress \/ ShowStatus \/ WakeDisplay
         \/ PollTracker \/ EndPress \/ QueueAdvert
  PROVE  ButtonInv'
<1>. USE DEF ButtonInv, PressesAreFollowed, ButtonTypeOK, HoldIsHeld, Following, SeenWhere,
             EdgesSeen, PressHeld, Idle
<1>1. CASE SleepDisplay
  BY <1>1 DEF SleepDisplay
<1>2. CASE SeePress
  <2>1. CASE screen = "awake"
    BY <1>2, <2>1 DEF SeePress, NotTracked
  <2>2. CASE screen = "asleep"
    BY <1>2, <2>2 DEF SeePress, Track
  <2>3. CASE screen = "plain"
    BY <1>2, <2>3 DEF SeePress, Track
  <2> QED
    BY <1>2, <2>1, <2>2, <2>3 DEF SeePress
<1>3. CASE ShowStatus
  BY <1>3 DEF ShowStatus, Track
<1>4. CASE WakeDisplay
  BY <1>4 DEF WakeDisplay, Track
<1>5. CASE PollTracker
  BY <1>5 DEF PollTracker
<1>6. CASE EndPress
  BY <1>6 DEF EndPress, Home
<1>7. CASE QueueAdvert
  BY <1>7 DEF QueueAdvert, Home
<1> QED
  BY <1>1, <1>2, <1>3, <1>4, <1>5, <1>6, <1>7

\* ButtonInv holds in every behaviour: a press that is followed is seen through to
\* its end, by way of a display that is slow, asleep, broken or absent.
THEOREM ButtonInvariant == ButtonSpec => []ButtonInv
<1>1. ButtonInv /\ [ButtonNext]_buttonVars => ButtonInv'
  <2>1. ASSUME ButtonInv, ButtonNext PROVE ButtonInv'
    BY <2>1, UserKeepsButton, TaskKeepsButton DEF ButtonNext
  <2>2. ASSUME ButtonInv, UNCHANGED buttonVars PROVE ButtonInv'
    BY <2>2 DEF buttonVars, ButtonInv, PressesAreFollowed, ButtonTypeOK, HoldIsHeld, Following,
                SeenWhere, EdgesSeen, PressHeld
  <2> QED
    BY <2>1, <2>2
<1> QED
  BY <1>1, ButtonStart, PTL DEF ButtonSpec

\* No advert is sent of a press whose end came while it was followed and the hold
\* timer ran; one that ended before, unseen, is followed as if it went on.
THEOREM PressesFollowed == ButtonSpec => []PressesAreFollowed
<1>1. ButtonInv => PressesAreFollowed
  BY DEF ButtonInv
<1> QED
  BY <1>1, ButtonInvariant, PTL

-------------------------------------------------------------------------------
(* The command line *)

\* No key is being read.
KeyIsRead == sent = <<>> /\ telnet_bytes_left = 0

\* A key other than Enter is read: a character, or a negotiation and its two bytes.
OtherIsRead ==
  /\ pressed = "other"
  /\ \/ telnet_bytes_left = 0 /\ sent \in {<<b>> : b \in Chars \cup {"bs", "nul"}}
     \/ /\ peer = "telnet"
        /\ \E b \in Chars \cup {"cr", "lf", "bs"} :
             \/ telnet_bytes_left = 0 /\ sent = <<"iac", b, b>>
             \/ telnet_bytes_left = 2 /\ sent = <<b, b>>
             \/ telnet_bytes_left = 1 /\ sent = <<b>>

\* What begins with a carriage return and goes on.
ReturnPairs == {<<"cr", "lf">>, <<"cr", "nul">>}

\* Enter is read: nothing of it yet, or its carriage return.
EnterIsRead ==
  /\ pressed = "enter" /\ telnet_bytes_left = 0
  /\ \/ sent = enter /\ begun = 0 /\ runs = 0
     \/ /\ enter \in ReturnPairs /\ sent = Tail(enter)
        /\ begun = 1 /\ runs <= 1 /\ last_was_cr

\* A row is begun by Enter only.
NothingIsBegun == pressed = "other" => begun = 0 /\ runs = 0

\* The row has just been begun, by a terminal that sends carriage returns.
AfterReturn ==
  last_was_cr => line = <<>> /\ dropped = <<>> /\ enter # <<"lf">>

LinesInv ==
  /\ LinesAreTrue /\ NothingIsBegun /\ AfterReturn
  /\ KeyIsRead \/ OtherIsRead \/ EnterIsRead

\* The front of a longer sequence is the sequence.
LEMMA FrontOfAppend ==
  ASSUME NEW S, NEW s \in Seq(S), NEW c \in S
  PROVE  Front(Append(s, c)) = s
<1>. DEFINE long == Append(s, c)
<1>1. /\ long \in Seq(S) /\ Len(long) = Len(s) + 1 /\ Len(s) \in Nat
      /\ \A i \in 1 .. Len(s) : long[i] = s[i]
  BY AppendProperties, LenProperties
<1>2. \A i \in 1 .. Len(s) : long[i] \in S
  BY <1>1, ElementOfSeq
<1>. HIDE DEF long
<1>3. /\ SubSeq(long, 1, Len(s)) \in Seq(S)
      /\ Len(SubSeq(long, 1, Len(s))) = Len(s)
      /\ \A i \in 1 .. Len(s) : SubSeq(long, 1, Len(s))[i] = long[i]
  BY <1>1, <1>2, SubSeqProperties
<1>4. SubSeq(long, 1, Len(s)) = s
  BY <1>1, <1>3, SeqEqual
<1> QED
  BY <1>1, <1>4 DEF Front, long

\* The front of a sequence is one shorter.
LEMMA FrontIsShorter ==
  ASSUME NEW S, NEW s \in Seq(S), s # <<>>
  PROVE  Front(s) \in Seq(S) /\ Len(Front(s)) = Len(s) - 1
<1>1. PICK rest \in Seq(S), c \in S : s = Append(rest, c)
  BY SequenceEmptyOrAppend
<1>2. Front(s) = rest /\ Len(s) = Len(rest) + 1 /\ Len(rest) \in Nat
  BY <1>1, AppendProperties, LenProperties, FrontOfAppend
<1> QED
  BY <1>2

\* The bytes a terminal sends.
Bytes == Chars \cup {"cr", "lf", "bs", "nul", "iac"}

\* What a row is made of.
Shown == Chars \cup {"prompt"}

\* What is typed is added to the row, behind whatever it shows.
LEMMA RowGrows ==
  ASSUME NEW visible \in Seq(Shown), NEW kept \in Seq(Shown), NEW typed \in Seq(Shown),
         NEW c \in Shown
  PROVE  Append(visible \o kept \o typed, c) = visible \o kept \o Append(typed, c)
<1>1. visible \o kept \in Seq(Shown)
  BY ConcatProperties
<1>2. Append(typed, c) = typed \o <<c>> /\ <<c>> \in Seq(Shown)
  BY AppendIsConcat
<1>3. (visible \o kept) \o typed \in Seq(Shown)
  BY <1>1, ConcatProperties
<1>4. Append((visible \o kept) \o typed, c) = ((visible \o kept) \o typed) \o <<c>>
  BY <1>3, AppendIsConcat
<1>5. ((visible \o kept) \o typed) \o <<c>> = (visible \o kept) \o (typed \o <<c>>)
  BY <1>1, <1>2, ConcatAssociative
<1> QED
  BY <1>2, <1>4, <1>5

\* A backspace takes the last character off both.
LEMMA RowShrinks ==
  ASSUME NEW visible \in Seq(Shown), NEW kept \in Seq(Shown), NEW typed \in Seq(Shown), typed # <<>>
  PROVE  /\ visible \o kept \o typed # <<>>
         /\ Front(visible \o kept \o typed) = visible \o kept \o Front(typed)
<1>1. PICK rest \in Seq(Shown), c \in Shown : typed = Append(rest, c)
  BY SequenceEmptyOrAppend
<1>2. Front(typed) = rest /\ Len(typed) = Len(rest) + 1 /\ Len(rest) \in Nat
  BY <1>1, AppendProperties, FrontOfAppend
<1>3. visible \o kept \o rest \in Seq(Shown)
  BY ConcatProperties
<1>4. visible \o kept \o typed = Append(visible \o kept \o rest, c)
  BY <1>1, RowGrows
<1>5. Front(Append(visible \o kept \o rest, c)) = visible \o kept \o rest
  BY <1>3, FrontOfAppend
<1>6. visible \o kept \o typed # <<>>
  BY <1>3, <1>4, AppendProperties
<1> QED
  BY <1>2, <1>4, <1>5, <1>6

\* Of a key that takes several bytes the first is read.
LEMMA FirstByte ==
  ASSUME NEW a, NEW b, NEW c
  PROVE  /\ <<a>> # <<>> /\ Head(<<a>>) = a /\ Tail(<<a>>) = <<>>
         /\ <<a, b>> # <<>> /\ Head(<<a, b>>) = a /\ Tail(<<a, b>>) = <<b>>
         /\ <<a, b, c>> # <<>> /\ Head(<<a, b, c>>) = a /\ Tail(<<a, b, c>>) = <<b, c>>
OBVIOUS

\* The bytes of a key are bytes.
LEMMA KeyOfBytes ==
  ASSUME NEW a \in Bytes, NEW b \in Bytes, NEW c \in Bytes
  PROVE  <<>> \in Seq(Bytes) /\ <<a>> \in Seq(Bytes) /\ <<a, b>> \in Seq(Bytes) /\ <<a, b, c>> \in Seq(Bytes)
OBVIOUS

\* What is left of the key after its next byte, which Enter and the others differ in.
LEMMA NextByte ==
  ASSUME LinesInv, sent # <<>>
  PROVE  /\ Tail(sent) \in Seq(Bytes)
         /\ \/ /\ pressed = "other" /\ telnet_bytes_left = 0 /\ Tail(sent) = <<>>
               /\ Head(sent) \in Chars \cup {"bs", "nul"}
            \/ /\ pressed = "other" /\ telnet_bytes_left = 0 /\ peer = "telnet"
               /\ Head(sent) = "iac" /\ \E b \in Chars \cup {"cr", "lf", "bs"} : Tail(sent) = <<b, b>>
            \/ /\ pressed = "other" /\ telnet_bytes_left = 2 /\ peer = "telnet"
               /\ \E b \in Chars \cup {"cr", "lf", "bs"} : Tail(sent) = <<b>>
            \/ /\ pressed = "other" /\ telnet_bytes_left = 1 /\ peer = "telnet" /\ Tail(sent) = <<>>
            \/ /\ pressed = "enter" /\ telnet_bytes_left = 0 /\ begun = 0 /\ runs = 0
               /\ \/ Head(sent) = "cr" /\ Tail(sent) = <<>> /\ enter # <<"lf">>
                  \/ Head(sent) = "lf" /\ Tail(sent) = <<>> /\ enter = <<"lf">>
                  \/ /\ Head(sent) = "cr" /\ enter # <<"lf">>
                     /\ enter \in ReturnPairs /\ Tail(sent) = Tail(enter)
            \/ /\ pressed = "enter" /\ telnet_bytes_left = 0 /\ begun = 1 /\ runs <= 1 /\ last_was_cr
               /\ Head(sent) \in {"lf", "nul"} /\ Tail(sent) = <<>>
<1>. USE DEF LinesInv
<1>1. Tail(sent) \in Seq(Bytes)
  BY HeadTailProperties DEF LinesAreTrue, LinesTypeOK, Bytes
<1>2. CASE OtherIsRead
  <2>1. CASE telnet_bytes_left = 0 /\ \E b \in Chars \cup {"bs", "nul"} : sent = <<b>>
    <3>1. Head(sent) \in Chars \cup {"bs", "nul"} /\ Tail(sent) = <<>>
      BY <2>1, FirstByte
    <3> QED
      BY <1>1, <1>2, <2>1, <3>1 DEF OtherIsRead
  <2>2. ASSUME peer = "telnet", NEW b \in Chars \cup {"cr", "lf", "bs"},
               telnet_bytes_left = 0, sent = <<"iac", b, b>>
        PROVE  Tail(sent) = <<b, b>> /\ Head(sent) = "iac"
    BY <2>2, FirstByte
  <2>3. ASSUME peer = "telnet", NEW b \in Chars \cup {"cr", "lf", "bs"},
               telnet_bytes_left = 2, sent = <<b, b>>
        PROVE  Tail(sent) = <<b>>
    BY <2>3, FirstByte
  <2>4. ASSUME peer = "telnet", NEW b \in Chars \cup {"cr", "lf", "bs"},
               telnet_bytes_left = 1, sent = <<b>>
        PROVE  Tail(sent) = <<>>
    BY <2>4, FirstByte
  <2> QED
    BY <1>1, <1>2, <2>1, <2>2, <2>3, <2>4 DEF OtherIsRead
<1>3. CASE EnterIsRead
  <2>1. CASE sent = enter /\ begun = 0 /\ runs = 0
    <3>1. enter \in Terminators
      BY DEF LinesAreTrue, LinesTypeOK
    <3>2. CASE enter = <<"cr">>
      <4>1. Head(sent) = "cr" /\ Tail(sent) = <<>> /\ enter # <<"lf">>
        BY <2>1, <3>2, FirstByte
      <4> QED
        BY <1>1, <1>3, <2>1, <4>1 DEF EnterIsRead
    <3>3. CASE enter = <<"lf">>
      <4>1. Head(sent) = "lf" /\ Tail(sent) = <<>>
        BY <2>1, <3>3, FirstByte
      <4> QED
        BY <1>1, <1>3, <2>1, <3>3, <4>1 DEF EnterIsRead
    <3>4. CASE enter \in ReturnPairs
      <4>1. Head(sent) = "cr" /\ Tail(sent) = Tail(enter) /\ enter # <<"lf">>
        BY <2>1, <3>4, FirstByte DEF ReturnPairs
      <4> QED
        BY <1>1, <1>3, <2>1, <3>4, <4>1 DEF EnterIsRead
    <3> QED
      BY <3>1, <3>2, <3>3, <3>4 DEF Terminators, ReturnPairs
  <2>2. CASE /\ sent = Tail(enter) /\ enter \in ReturnPairs
             /\ begun = 1 /\ runs <= 1 /\ last_was_cr
    <3>1. /\ enter = <<"cr", "lf">> => sent = <<"lf">>
          /\ enter = <<"cr", "nul">> => sent = <<"nul">>
      <4>1. Tail(<<"cr", "lf">>) = <<"lf">> /\ Tail(<<"cr", "nul">>) = <<"nul">>
        BY FirstByte
      <4> QED
        BY <2>2, <4>1 DEF ReturnPairs
    <3>2. Head(sent) \in {"lf", "nul"} /\ Tail(sent) = <<>>
      BY <2>2, <3>1, FirstByte DEF ReturnPairs
    <3> QED
      BY <1>1, <1>3, <2>2, <3>2 DEF EnterIsRead
  <2> QED
    BY <1>3, <2>1, <2>2 DEF EnterIsRead
<1> QED
  BY <1>2, <1>3 DEF KeyIsRead

\* The prompt, what is left of earlier lines and the line are on the row.
LEMMA RowMadeOf ==
  ASSUME LinesInv
  PROVE  /\ Prompt \in Seq(Shown) /\ dropped \in Seq(Shown) /\ line \in Seq(Shown)
         /\ Prompt \o <<>> \o <<>> = Prompt
<1>1. Prompt \in Seq(Shown)
  <2>1. "prompt" \in Shown /\ <<"prompt">> \in Seq(Shown) /\ <<>> \in Seq(Shown)
    BY DEF Shown
  <2> QED
    BY <2>1 DEF Prompt
<1>2. dropped \in Seq(Shown) /\ line \in Seq(Shown)
  BY SeqMonotonic DEF LinesInv, LinesAreTrue, LinesTypeOK, Shown
<1> QED
  BY <1>1, <1>2, ConcatEmptySeq

\* An accepted character is on the row and in the line.
LEMMA CharIsShown ==
  ASSUME LinesInv, NEW c \in Chars, Fits, Display(c), line' = Append(line, c),
         UNCHANGED <<peer, dropped>>
  PROVE  /\ ShownIsRun' /\ line' \in Seq(Chars) /\ Len(line') <= LINE_BUFFER_LEN
         /\ UNCHANGED begun
<1>1. c # "row" /\ c # "erase" /\ c # "none"
  BY LinesAssumption
<1>2. terminal' = Append(terminal, c) /\ begun' = begun + 0
  BY <1>1 DEF Display
<1>3. terminal = Prompt \o dropped \o line /\ begun \in 0..2
  BY DEF LinesInv, LinesAreTrue, ShownIsRun, LinesTypeOK
<1>4. Append(Prompt \o dropped \o line, c) = Prompt \o dropped \o Append(line, c)
  <2>1. c \in Shown
    BY DEF Shown
  <2>2. Prompt \in Seq(Shown) /\ dropped \in Seq(Shown) /\ line \in Seq(Shown)
    BY RowMadeOf
  <2> QED
    BY <2>1, <2>2, RowGrows
<1>5. line' \in Seq(Chars) /\ Len(line') <= LINE_BUFFER_LEN
  BY AppendProperties, LenProperties, LinesAssumption DEF LinesInv, LinesAreTrue, LinesTypeOK, Fits
<1>6. ShownIsRun'
  BY <1>2, <1>3, <1>4 DEF ShownIsRun, Prompt, LinesInv, LinesAreTrue
<1> QED
  BY <1>2, <1>3, <1>5, <1>6

\* An erased one is gone from both.
LEMMA CharIsErased ==
  ASSUME LinesInv, line # <<>>, Display("erase"), line' = Front(line), UNCHANGED <<peer, dropped>>
  PROVE  /\ ShownIsRun' /\ line' \in Seq(Chars) /\ Len(line') <= LINE_BUFFER_LEN
         /\ UNCHANGED begun
<1>1. terminal = Prompt \o dropped \o line /\ begun \in 0..2
  BY DEF LinesInv, LinesAreTrue, ShownIsRun, LinesTypeOK
<1>2. terminal # <<>> /\ Front(terminal) = Prompt \o dropped \o Front(line)
  <2>1. Prompt \in Seq(Shown) /\ dropped \in Seq(Shown) /\ line \in Seq(Shown)
    BY RowMadeOf
  <2>2. /\ Prompt \o dropped \o line # <<>>
        /\ Front(Prompt \o dropped \o line) = Prompt \o dropped \o Front(line)
    <3>1. line # <<>>
      OBVIOUS
    <3> QED
      BY <2>1, <3>1, RowShrinks
  <2> QED
    BY <1>1, <2>2
<1>3. terminal' = Front(terminal) /\ begun' = begun + 0
  BY <1>2 DEF Display
<1>4. line \in Seq(Chars) /\ Len(line) <= LINE_BUFFER_LEN /\ Len(line) \in Nat
  BY LenProperties DEF LinesInv, LinesAreTrue, LinesTypeOK
<1>5. Front(line) \in Seq(Chars) /\ Len(Front(line)) = Len(line) - 1
  BY <1>4, FrontIsShorter
<1>6. ShownIsRun'
  BY <1>1, <1>2, <1>3 DEF ShownIsRun, Prompt, LinesInv, LinesAreTrue
<1> QED
  BY <1>1, <1>3, <1>4, <1>5, <1>6, LinesAssumption

\* A line that ends leaves an empty row and an empty line.
LEMMA LineIsEnded ==
  ASSUME LinesInv, Display("row"), line' = <<>>, dropped' = <<>>, UNCHANGED peer
  PROVE  /\ ShownIsRun' /\ line' \in Seq(Chars) /\ Len(line') <= LINE_BUFFER_LEN
         /\ begun' = begun + 1
<1>1. terminal' = Prompt /\ begun' = begun + 1
  BY DEF Display
<1>2. ShownIsRun'
  BY <1>1, RowMadeOf DEF ShownIsRun, Prompt
<1> QED
  BY <1>1, <1>2, LinesAssumption

\* The console: what it echoes for a byte is what it does with it.
LEMMA ConsoleShows ==
  ASSUME LinesInv, ConsoleByte
  PROVE  /\ ShownIsRun' /\ line' \in Seq(Chars) /\ Len(line') <= LINE_BUFFER_LEN
         /\ dropped' \in Seq(Chars)
         /\ begun' = begun + (IF Head(sent) = "cr" \/ (Head(sent) = "lf" /\ ~last_was_cr) THEN 1 ELSE 0)
         /\ runs' = runs + (IF Head(sent) \in {"cr", "lf"} /\ line # <<>> THEN 1 ELSE 0)
         /\ Head(sent) = "cr" => line' = <<>> /\ dropped' = <<>>
<1>. DEFINE byte == Head(sent)
<1>1. /\ Display(EchoForByte(byte)) /\ AcceptByte(byte) /\ peer' = peer
      /\ byte \in Bytes
  BY HeadTailProperties DEF ConsoleByte, LinesInv, LinesAreTrue, LinesTypeOK, Bytes
<1>2. /\ line \in Seq(Chars) /\ Len(line) \in Nat /\ Len(line) <= LINE_BUFFER_LEN
      /\ dropped \in Seq(Chars) /\ begun \in 0..2 /\ runs \in 0..2 /\ LINE_BUFFER_LEN \in Nat
      /\ ShownIsRun
  BY LenProperties, LinesAssumption DEF LinesInv, LinesAreTrue, LinesTypeOK
<1>3. byte \in Chars => byte \notin {"cr", "lf", "bs", "nul", "iac"}
  BY LinesAssumption
<1>. HIDE DEF byte
<1>4. CASE byte \in {"cr", "lf"} /\ ~Paired(byte)
  <2>1. EchoForByte(byte) = "row"
    BY <1>3, <1>4 DEF EchoForByte, Paired
  <2>2. line' = <<>> /\ dropped' = <<>> /\ runs' = runs + (IF line = <<>> THEN 0 ELSE 1)
    BY <1>1, <1>4 DEF AcceptByte, Submit
  <2> QED
    BY <1>1, <1>2, <1>4, <2>1, <2>2, LineIsEnded DEF byte, Paired
<1>5. CASE Paired(byte)
  <2>1. EchoForByte(byte) = "none"
    BY <1>3, <1>5 DEF EchoForByte, Paired
  <2>2. line' = <<>> /\ dropped' = <<>> /\ runs' = runs + (IF line = <<>> THEN 0 ELSE 1)
    BY <1>1, <1>5 DEF AcceptByte, Submit, Paired
  <2>3. line = <<>> /\ dropped = <<>>
    BY <1>5 DEF LinesInv, AfterReturn, Paired
  <2>4. terminal' = terminal /\ begun' = begun + 0
    BY <1>1, <2>1 DEF Display
  <2>5. ShownIsRun'
    BY <1>1, <1>2, <2>2, <2>3, <2>4 DEF ShownIsRun, Prompt
  <2> QED
    BY <1>2, <1>5, <2>2, <2>3, <2>4, <2>5 DEF byte, Paired
<1>6. CASE byte = "bs" /\ line # <<>>
  <2>1. EchoForByte(byte) = "erase"
    BY <1>3, <1>6 DEF EchoForByte
  <2>2. line' = Front(line) /\ dropped' = dropped /\ runs' = runs
    BY <1>1, <1>3, <1>6 DEF AcceptByte
  <2>3. ShownIsRun' /\ line' \in Seq(Chars) /\ Len(line') <= LINE_BUFFER_LEN /\ UNCHANGED begun
    BY <1>1, <1>6, <2>1, <2>2, CharIsErased
  <2> QED
    BY <1>2, <1>6, <2>2, <2>3 DEF byte
<1>7. CASE byte \in Chars /\ Fits
  <2>1. EchoForByte(byte) = byte
    BY <1>3, <1>7 DEF EchoForByte
  <2>2. line' = Append(line, byte) /\ dropped' = dropped /\ runs' = runs
    BY <1>1, <1>3, <1>7 DEF AcceptByte
  <2>3. ShownIsRun' /\ line' \in Seq(Chars) /\ Len(line') <= LINE_BUFFER_LEN /\ UNCHANGED begun
    BY <1>1, <1>7, <2>1, <2>2, CharIsShown
  <2> QED
    BY <1>2, <1>3, <1>7, <2>2, <2>3 DEF byte
<1>8. CASE byte \in Chars /\ ~Fits
  <2>1. EchoForByte(byte) = "none"
    BY <1>3, <1>8 DEF EchoForByte
  <2>2. line' = <<>> /\ dropped' = dropped \o line /\ runs' = runs
    BY <1>1, <1>3, <1>8 DEF AcceptByte
  <2>3. terminal' = terminal /\ begun' = begun + 0
    BY <1>1, <2>1 DEF Display
  <2>4. Prompt \o (dropped \o line) \o <<>> = Prompt \o dropped \o line
    BY RowMadeOf, ConcatAssociative, ConcatProperties, ConcatEmptySeq
  <2>5. ShownIsRun'
    BY <1>1, <1>2, <2>2, <2>3, <2>4 DEF ShownIsRun, Prompt, ConsoleByte
  <2>6. dropped \o line \in Seq(Chars)
    BY <1>2, ConcatProperties
  <2> QED
    BY <1>2, <1>3, <1>8, <2>2, <2>3, <2>5, <2>6 DEF byte
<1>9. CASE byte \in {"nul", "iac"} \/ (byte = "bs" /\ line = <<>>)
  <2>1. EchoForByte(byte) = "none"
    BY <1>3, <1>9 DEF EchoForByte
  <2>2. line' = line /\ dropped' = dropped /\ runs' = runs
    BY <1>1, <1>3, <1>9 DEF AcceptByte
  <2>3. terminal' = terminal /\ begun' = begun + 0
    BY <1>1, <2>1 DEF Display
  <2>4. ShownIsRun'
    BY <1>1, <1>2, <2>2, <2>3 DEF ShownIsRun, Prompt
  <2> QED
    BY <1>2, <1>9, <2>2, <2>3, <2>4 DEF byte
<1> QED
  BY <1>1, <1>4, <1>5, <1>6, <1>7, <1>8, <1>9 DEF Bytes, Paired

\* A telnet client is sent what is done with its byte, unless it is skipped.
LEMMA TelnetShows ==
  ASSUME LinesInv, TelnetByte
  PROVE  /\ ShownIsRun' /\ line' \in Seq(Chars) /\ Len(line') <= LINE_BUFFER_LEN
         /\ dropped' = <<>>
         /\ \/ /\ telnet_bytes_left > 0 \/ Head(sent) = "iac"
               /\ telnet_bytes_left' = IF telnet_bytes_left > 0 THEN telnet_bytes_left - 1 ELSE 2
               /\ UNCHANGED <<begun, line, runs, last_was_cr>>
            \/ /\ telnet_bytes_left = 0 /\ telnet_bytes_left' = 0 /\ Head(sent) # "iac"
               /\ begun' = begun + (IF Head(sent) = "cr" \/ (Head(sent) = "lf" /\ ~last_was_cr) THEN 1 ELSE 0)
               /\ runs' = runs + (IF Head(sent) = "cr" \/ (Head(sent) = "lf" /\ ~last_was_cr) THEN 1 ELSE 0)
               /\ last_was_cr' \in BOOLEAN
               /\ Head(sent) = "cr" => last_was_cr' /\ line' = <<>>
               /\ Head(sent) # "cr" => ~last_was_cr'
<1>. DEFINE byte == Head(sent)
<1>1. /\ peer = "telnet" /\ peer' = peer /\ dropped' = dropped /\ byte \in Bytes
      /\ telnet_bytes_left \in 0..2
  BY HeadTailProperties DEF TelnetByte, LinesInv, LinesAreTrue, LinesTypeOK, Bytes
<1>2. /\ line \in Seq(Chars) /\ Len(line) <= LINE_BUFFER_LEN
      /\ dropped = <<>> /\ begun \in 0..2 /\ runs \in 0..2
      /\ ShownIsRun
  BY <1>1 DEF LinesInv, LinesAreTrue, LinesTypeOK, ShownIsRun
<1>3. byte \in Chars => byte \notin {"cr", "lf", "bs", "nul", "iac"}
  BY LinesAssumption
<1>. HIDE DEF byte
<1>4. CASE UNCHANGED <<terminal, begun, line, runs>>
  <2>1. ShownIsRun'
    BY <1>1, <1>2, <1>4 DEF ShownIsRun, Prompt
  <2>2. \/ /\ telnet_bytes_left > 0 \/ byte = "iac"
           /\ telnet_bytes_left' = IF telnet_bytes_left > 0 THEN telnet_bytes_left - 1 ELSE 2
           /\ UNCHANGED last_was_cr
        \/ telnet_bytes_left = 0 /\ byte # "iac" /\ TypedByte(byte) /\ UNCHANGED telnet_bytes_left
    BY <1>4 DEF TelnetByte, byte
  <2>3. CASE telnet_bytes_left = 0 /\ byte # "iac" /\ TypedByte(byte) /\ UNCHANGED telnet_bytes_left
    <3>1. byte # "cr" /\ ~(byte = "lf" /\ ~last_was_cr) /\ last_was_cr' = FALSE
      BY <1>2, <1>3, <1>4, <2>3 DEF TypedByte, Paired
    <3> QED
      <4>1. begun' = begun + 0 /\ runs' = runs + 0 /\ ~last_was_cr'
        BY <1>2, <1>4, <3>1
      <4>2. last_was_cr' \in BOOLEAN
        BY <3>1
      <4> QED
        BY <1>1, <1>2, <1>4, <2>1, <2>3, <3>1, <4>1, <4>2 DEF byte
  <2> QED
    BY <1>1, <1>2, <1>4, <2>1, <2>2, <2>3 DEF byte
<1>5. CASE /\ telnet_bytes_left = 0 /\ byte # "iac" /\ UNCHANGED telnet_bytes_left
           /\ byte \in {"cr", "lf"} /\ ~Paired(byte)
           /\ Display("row") /\ line' = <<>> /\ runs' = runs + 1
           /\ last_was_cr' = (byte = "cr")
  BY <1>1, <1>2, <1>5, LineIsEnded DEF Paired, byte
<1>6. CASE /\ telnet_bytes_left = 0 /\ byte # "iac" /\ UNCHANGED telnet_bytes_left
           /\ byte = "bs" /\ line # <<>> /\ Display("erase") /\ line' = Front(line)
           /\ last_was_cr' = FALSE /\ UNCHANGED runs
  <2>1. ShownIsRun' /\ line' \in Seq(Chars) /\ Len(line') <= LINE_BUFFER_LEN /\ UNCHANGED begun
    BY <1>1, <1>6, CharIsErased
  <2> QED
    <3>1. byte # "cr" /\ byte # "lf" /\ begun' = begun + 0 /\ runs' = runs + 0 /\ ~last_was_cr'
      BY <1>1, <1>2, <1>6, <2>1
    <3>2. last_was_cr' \in BOOLEAN
      BY <1>6
    <3> QED
      BY <1>1, <1>2, <1>6, <2>1, <3>1, <3>2 DEF byte
<1>7. CASE /\ telnet_bytes_left = 0 /\ byte # "iac" /\ UNCHANGED telnet_bytes_left
           /\ byte \in Chars /\ Fits /\ Display(byte) /\ line' = Append(line, byte)
           /\ last_was_cr' = FALSE /\ UNCHANGED runs
  <2>1. ShownIsRun' /\ line' \in Seq(Chars) /\ Len(line') <= LINE_BUFFER_LEN /\ UNCHANGED begun
    BY <1>1, <1>7, CharIsShown
  <2> QED
    <3>1. byte # "cr" /\ byte # "lf" /\ begun' = begun + 0 /\ runs' = runs + 0 /\ ~last_was_cr'
      BY <1>1, <1>2, <1>3, <1>7, <2>1
    <3>2. last_was_cr' \in BOOLEAN
      BY <1>7
    <3> QED
      BY <1>1, <1>2, <1>7, <2>1, <3>1, <3>2 DEF byte
<1> QED
  BY <1>4, <1>5, <1>6, <1>7 DEF TelnetByte, TypedByte, byte

\* With each byte the key comes closer to its end.
LEMMA ConsoleReads ==
  ASSUME LinesInv, ConsoleByte
  PROVE  LinesInv'
<1>1. /\ peer = "console" /\ sent # <<>> /\ sent' = Tail(sent)
      /\ last_was_cr' \in BOOLEAN
      /\ Head(sent) = "cr" => last_was_cr'
      /\ Head(sent) # "cr" => ~last_was_cr'
      /\ UNCHANGED <<peer, enter, pressed, telnet_bytes_left>>
  BY DEF ConsoleByte
<1>2. /\ begun \in 0..2 /\ runs \in 0..2 /\ enter \in Terminators /\ pressed \in {"enter", "other"}
      /\ last_was_cr \in BOOLEAN /\ NothingIsBegun /\ AfterReturn /\ telnet_bytes_left \in 0..2
  BY DEF LinesInv, LinesAreTrue, LinesTypeOK
<1>3. /\ Tail(sent) \in Seq(Bytes)
      /\ \/ /\ pressed = "other" /\ telnet_bytes_left = 0 /\ Tail(sent) = <<>>
            /\ Head(sent) \in Chars \cup {"bs", "nul"}
         \/ /\ pressed = "enter" /\ telnet_bytes_left = 0 /\ begun = 0 /\ runs = 0
            /\ enter # <<"lf">> /\ Head(sent) = "cr"
            /\ Tail(sent) = <<>> \/ (enter \in ReturnPairs /\ Tail(sent) = Tail(enter))
         \/ /\ pressed = "enter" /\ telnet_bytes_left = 0 /\ begun = 0 /\ runs = 0
            /\ enter = <<"lf">> /\ Head(sent) = "lf" /\ Tail(sent) = <<>>
         \/ /\ pressed = "enter" /\ telnet_bytes_left = 0 /\ begun = 1 /\ runs <= 1 /\ last_was_cr
            /\ Head(sent) \in {"lf", "nul"} /\ Tail(sent) = <<>>
  BY <1>1, NextByte
<1>4. \A c \in Chars : c \notin {"cr", "lf"}
  BY LinesAssumption
<1>. DEFINE ends == Head(sent) = "cr" \/ (Head(sent) = "lf" /\ ~last_was_cr)
<1>5. /\ begun' = begun + (IF ends THEN 1 ELSE 0)
      /\ runs' = runs + (IF Head(sent) \in {"cr", "lf"} /\ line # <<>> THEN 1 ELSE 0)
      /\ Head(sent) = "cr" => line' = <<>> /\ dropped' = <<>>
  BY ConsoleShows
<1>6. CASE pressed = "other"
  <2>1. begun' = 0 /\ runs' = 0 /\ KeyIsRead' /\ ~last_was_cr'
    BY <1>1, <1>2, <1>3, <1>4, <1>5, <1>6 DEF KeyIsRead, NothingIsBegun
  <2> QED
    BY <1>1, <1>2, <1>3, <1>6, <2>1, ConsoleShows
       DEF LinesInv, LinesAreTrue, LinesTypeOK, EnterOnce, NothingIsBegun, AfterReturn, Bytes
<1>7. CASE pressed = "enter"
  <2>1. begun' = 1 /\ runs' \in 0..1
    BY <1>1, <1>2, <1>3, <1>5, <1>7 DEF AfterReturn
  <2>2. KeyIsRead' \/ EnterIsRead'
    BY <1>1, <1>2, <1>3, <1>7, <2>1 DEF KeyIsRead, EnterIsRead
  <2>3. AfterReturn'
    BY <1>1, <1>3, <1>5, <1>7 DEF AfterReturn
  <2> QED
    BY <1>1, <1>2, <1>3, <1>7, <2>1, <2>2, <2>3, ConsoleShows
       DEF LinesInv, LinesAreTrue, LinesTypeOK, EnterOnce, NothingIsBegun, Bytes
<1> QED
  BY <1>2, <1>6, <1>7

LEMMA TelnetReads ==
  ASSUME LinesInv, TelnetByte
  PROVE  LinesInv'
<1>1. /\ peer = "telnet" /\ sent # <<>> /\ sent' = Tail(sent)
      /\ UNCHANGED <<peer, enter, pressed, dropped>>
  BY DEF TelnetByte
<1>2. /\ begun \in 0..2 /\ runs \in 0..2 /\ enter \in Terminators /\ pressed \in {"enter", "other"}
      /\ last_was_cr \in BOOLEAN /\ NothingIsBegun /\ AfterReturn /\ telnet_bytes_left \in 0..2
      /\ dropped = <<>>
  BY <1>1 DEF LinesInv, LinesAreTrue, LinesTypeOK, ShownIsRun
<1>3. \A c \in Chars : c \notin {"cr", "lf", "iac"}
  BY LinesAssumption
<1>4. dropped' \in Seq(Chars) /\ Tail(sent) \in Seq(Bytes)
  BY <1>1, <1>2, NextByte
<1>5. CASE pressed = "other"
  <2>1. \/ telnet_bytes_left = 0 /\ Tail(sent) = <<>> /\ Head(sent) \in Chars \cup {"bs", "nul"}
        \/ /\ telnet_bytes_left = 0 /\ Head(sent) = "iac"
           /\ \E b \in Chars \cup {"cr", "lf", "bs"} : Tail(sent) = <<b, b>>
        \/ telnet_bytes_left = 2 /\ \E b \in Chars \cup {"cr", "lf", "bs"} : Tail(sent) = <<b>>
        \/ telnet_bytes_left = 1 /\ Tail(sent) = <<>>
    BY <1>1, <1>5, NextByte
  <2>2. begun' = 0 /\ runs' = 0 /\ last_was_cr' \in BOOLEAN /\ telnet_bytes_left' \in 0..2
    BY <1>1, <1>2, <1>3, <1>5, <2>1, TelnetShows DEF NothingIsBegun
  <2>3. AfterReturn'
    <3>1. Head(sent) # "cr" \/ telnet_bytes_left > 0
      BY <1>3, <2>1
    <3>2. \/ UNCHANGED <<line, last_was_cr>>
          \/ Head(sent) # "cr" /\ ~last_was_cr'
      BY <1>2, <3>1, TelnetShows
    <3> QED
      BY <1>1, <1>2, <3>2 DEF AfterReturn
  <2>4. KeyIsRead' \/ OtherIsRead'
    <3>1. CASE telnet_bytes_left = 0 /\ Tail(sent) = <<>> /\ Head(sent) \in Chars \cup {"bs", "nul"}
      <4>1. Head(sent) # "iac"
        BY <1>3, <3>1
      <4> QED
        BY <1>1, <3>1, <4>1, TelnetShows DEF KeyIsRead
    <3>2. CASE telnet_bytes_left = 0 /\ Head(sent) = "iac"
      <4>1. telnet_bytes_left' = 2
        BY <3>2, TelnetShows
      <4> QED
        BY <1>1, <1>3, <1>5, <2>1, <3>2, <4>1 DEF OtherIsRead
    <3>3. CASE telnet_bytes_left = 2
      <4>1. telnet_bytes_left' = 1
        BY <3>3, TelnetShows
      <4> QED
        BY <1>1, <1>5, <2>1, <3>3, <4>1 DEF OtherIsRead
    <3>4. CASE telnet_bytes_left = 1
      <4>1. telnet_bytes_left' = 0
        BY <3>4, TelnetShows
      <4> QED
        BY <1>1, <2>1, <3>4, <4>1 DEF KeyIsRead
    <3> QED
      BY <2>1, <3>1, <3>2, <3>3, <3>4
  <2> QED
    BY <1>1, <1>2, <1>4, <1>5, <2>2, <2>3, <2>4, TelnetShows
       DEF LinesInv, LinesAreTrue, LinesTypeOK, EnterOnce, NothingIsBegun, Bytes
<1>6. CASE pressed = "enter"
  <2>1. \/ /\ telnet_bytes_left = 0 /\ begun = 0 /\ runs = 0
           /\ enter # <<"lf">> /\ Head(sent) = "cr"
           /\ Tail(sent) = <<>> \/ (enter \in ReturnPairs /\ Tail(sent) = Tail(enter))
        \/ /\ telnet_bytes_left = 0 /\ begun = 0 /\ runs = 0
           /\ enter = <<"lf">> /\ Head(sent) = "lf" /\ Tail(sent) = <<>>
        \/ /\ telnet_bytes_left = 0 /\ begun = 1 /\ runs <= 1 /\ last_was_cr
           /\ Head(sent) \in {"lf", "nul"} /\ Tail(sent) = <<>>
    BY <1>1, <1>6, NextByte
  <2>2. /\ begun' = 1 /\ runs' \in 0..1 /\ last_was_cr' \in BOOLEAN /\ telnet_bytes_left' = 0
        /\ Head(sent) = "cr" => last_was_cr' /\ line' = <<>>
        /\ Head(sent) # "cr" => ~last_was_cr'
    BY <1>1, <1>2, <1>6, <2>1, TelnetShows DEF AfterReturn
  <2>3. KeyIsRead' \/ EnterIsRead'
    BY <1>1, <1>6, <2>1, <2>2 DEF KeyIsRead, EnterIsRead
  <2>4. AfterReturn'
    BY <1>1, <1>2, <1>6, <2>1, <2>2 DEF AfterReturn
  <2> QED
    BY <1>1, <1>2, <1>4, <1>6, <2>2, <2>3, <2>4, TelnetShows
       DEF LinesInv, LinesAreTrue, LinesTypeOK, EnterOnce, NothingIsBegun, Bytes
<1> QED
  BY <1>2, <1>5, <1>6

\* A key is pressed once the one before it has been read.
LEMMA PressKeeps ==
  ASSUME LinesInv, TypeChar \/ TypeControl \/ TypeEnter \/ Negotiate
  PROVE  LinesInv'
<1>1. PICK bytes \in Seq(Bytes), name \in {"enter", "other"} :
        /\ PressKey(bytes, name)
        /\ \/ name = "other" /\ \E b \in Chars \cup {"bs", "nul"} : bytes = <<b>>
           \/ /\ name = "other" /\ peer = "telnet"
              /\ \E b \in Chars \cup {"cr", "lf", "bs"} : bytes = <<"iac", b, b>>
           \/ name = "enter" /\ bytes = enter
  <2>1. ASSUME TypeChar
        PROVE  \E b \in Chars : PressKey(<<b>>, "other") /\ <<b>> \in Seq(Bytes)
    BY <2>1, KeyOfBytes DEF TypeChar, Bytes
  <2>2. ASSUME TypeControl
        PROVE  \E b \in {"bs", "nul"} : PressKey(<<b>>, "other") /\ <<b>> \in Seq(Bytes)
    BY <2>2, KeyOfBytes DEF TypeControl, Bytes
  <2>3. ASSUME TypeEnter PROVE PressKey(enter, "enter") /\ enter \in Seq(Bytes)
    <3>1. enter \in Terminators
      BY DEF LinesInv, LinesAreTrue, LinesTypeOK
    <3>2. Terminators \subseteq Seq(Bytes)
      BY KeyOfBytes DEF Terminators, Bytes
    <3> QED
      BY <2>3, <3>1, <3>2 DEF TypeEnter
  <2>4. ASSUME Negotiate
        PROVE  /\ peer = "telnet"
               /\ \E b \in Chars \cup {"cr", "lf", "bs"} :
                    PressKey(<<"iac", b, b>>, "other") /\ <<"iac", b, b>> \in Seq(Bytes)
    BY <2>4, KeyOfBytes DEF Negotiate, Negotiations, Bytes
  <2> QED
    BY <2>1, <2>2, <2>3, <2>4
<1>2. telnet_bytes_left = 0 /\ sent = <<>>
  <2>1. sent = <<>>
    BY <1>1 DEF PressKey
  <2>2. <<>> \notin Terminators /\ \A b, c : <<b>> # <<>> /\ <<b, c>> # <<>> /\ <<b, c, c>> # <<>>
    BY FirstByte DEF Terminators
  <2>3. Tail(<<"cr", "lf">>) # <<>> /\ Tail(<<"cr", "nul">>) # <<>>
    BY FirstByte
  <2>4. ~OtherIsRead
    BY <2>1, <2>2 DEF OtherIsRead
  <2>5. ~EnterIsRead
    <3>1. enter \in Terminators
      BY DEF LinesInv, LinesAreTrue, LinesTypeOK
    <3>2. enter \in ReturnPairs => Tail(enter) # <<>>
      BY <2>3 DEF ReturnPairs
    <3> QED
      BY <2>1, <2>2, <3>1, <3>2 DEF EnterIsRead
  <2> QED
    BY <2>1, <2>4, <2>5 DEF LinesInv, KeyIsRead
<1>3. /\ begun' = 0 /\ runs' = 0 /\ pressed' = name /\ sent' = bytes /\ bytes # <<>>
      /\ UNCHANGED <<peer, enter, line, last_was_cr, telnet_bytes_left, terminal, dropped>>
  <2>1. <<>> \notin Terminators /\ \A b, c : <<b>> # <<>> /\ <<"iac", c, c>> # <<>>
    BY FirstByte DEF Terminators
  <2> QED
    BY <1>1, <2>1 DEF PressKey, LinesInv, LinesAreTrue, LinesTypeOK
<1>4. OtherIsRead' \/ EnterIsRead'
  BY <1>1, <1>2, <1>3 DEF OtherIsRead, EnterIsRead
<1>5. LinesAreTrue'
  BY <1>1, <1>3 DEF LinesInv, LinesAreTrue, LinesTypeOK, EnterOnce, ShownIsRun, Prompt, Bytes
<1> QED
  BY <1>1, <1>3, <1>4, <1>5 DEF LinesInv, NothingIsBegun, AfterReturn

\* A reboot leaves the console's row to the next line, a telnet client begins anew.
LEMMA RestartKeepsLines ==
  ASSUME LinesInv, RestartEditor
  PROVE  LinesInv'
<1>1. line \in Seq(Chars) /\ dropped \in Seq(Chars) /\ ShownIsRun
  BY DEF LinesInv, LinesAreTrue, LinesTypeOK
<1>2. ShownIsRun' /\ dropped' \in Seq(Chars)
  <2>1. CASE peer = "telnet"
    BY <1>1, <2>1, RowMadeOf DEF RestartEditor, ShownIsRun, Prompt
  <2>2. CASE peer # "telnet"
    <3>1. dropped \o line \in Seq(Chars)
      BY <1>1, ConcatProperties
    <3>2. Prompt \o (dropped \o line) \o <<>> = Prompt \o dropped \o line
      BY RowMadeOf, ConcatAssociative, ConcatProperties, ConcatEmptySeq
    <3> QED
      BY <1>1, <2>2, <3>1, <3>2 DEF RestartEditor, ShownIsRun, Prompt
  <2> QED
    BY <2>1, <2>2
<1>3. KeyIsRead'
  BY DEF RestartEditor, KeyIsRead
<1>4. <<>> \in Seq(Bytes) /\ <<>> \in Seq(Chars) /\ Len(<<>>) = 0
  BY EmptySeq
<1>5. LinesTypeOK'
  <2>1. sent' \in Seq(Bytes) /\ line' \in Seq(Chars) /\ Len(line') <= LINE_BUFFER_LEN
    BY <1>4, LinesAssumption DEF RestartEditor
  <2> QED
    <3>1. sent' \in Seq(Chars \cup {"cr", "lf", "bs", "nul", "iac"})
      BY <2>1 DEF Bytes
    <3>2. /\ peer' \in {"console", "telnet"} /\ enter' \in Terminators
          /\ pressed' \in {"enter", "other"}
          /\ telnet_bytes_left' \in 0..2 /\ begun' \in 0..2 /\ runs' \in 0..2
      BY DEF RestartEditor, LinesInv, LinesAreTrue, LinesTypeOK
    <3>3. last_was_cr' \in BOOLEAN
      BY DEF RestartEditor
    <3> QED
      BY <1>2, <2>1, <3>1, <3>2, <3>3 DEF LinesTypeOK
<1> QED
  BY <1>2, <1>3, <1>5 DEF RestartEditor, LinesInv, LinesAreTrue, EnterOnce, NothingIsBegun, AfterReturn

LEMMA LinesStart == LinesInit => LinesInv
<1>. SUFFICES ASSUME LinesInit PROVE LinesInv
  OBVIOUS
<1>1. <<>> \in Seq(Bytes) /\ <<>> \in Seq(Chars) /\ Len(<<>>) = 0
  BY EmptySeq
<1>2. Prompt \o <<>> \o <<>> = Prompt
  <2>1. "prompt" \in Shown /\ <<"prompt">> \in Seq(Shown) /\ <<>> \in Seq(Shown)
    BY DEF Shown
  <2>2. Prompt \in Seq(Shown)
    BY <2>1 DEF Prompt
  <2> QED
    BY <2>2, ConcatEmptySeq
<1>3. LinesTypeOK
  <2>1. sent \in Seq(Bytes) /\ line \in Seq(Chars) /\ Len(line) <= LINE_BUFFER_LEN
    BY <1>1, LinesAssumption DEF LinesInit
  <2> QED
    <3>1. sent \in Seq(Chars \cup {"cr", "lf", "bs", "nul", "iac"})
      BY <2>1 DEF Bytes
    <3>2. /\ peer \in {"console", "telnet"} /\ enter \in Terminators /\ pressed \in {"enter", "other"}
          /\ telnet_bytes_left \in 0..2 /\ begun \in 0..2 /\ runs \in 0..2
      BY DEF LinesInit
    <3>3. last_was_cr \in BOOLEAN /\ dropped \in Seq(Chars)
      BY <1>1 DEF LinesInit
    <3> QED
      BY <2>1, <3>1, <3>2, <3>3 DEF LinesTypeOK
<1>4. ShownIsRun
  BY <1>2 DEF LinesInit, ShownIsRun
<1> QED
  BY <1>3, <1>4
     DEF LinesInit, LinesInv, LinesAreTrue, EnterOnce, NothingIsBegun, AfterReturn, KeyIsRead

\* LinesInv holds in every behaviour: every key is read byte by byte with the row and
\* the line changed alike.
THEOREM LinesInvariant == LinesSpec => []LinesInv
<1>1. LinesInv /\ [LinesNext]_lineVars => LinesInv'
  <2>1. ASSUME LinesInv, LinesNext PROVE LinesInv'
    BY <2>1, PressKeeps, ConsoleReads, TelnetReads, RestartKeepsLines DEF LinesNext
  <2>2. ASSUME LinesInv, UNCHANGED lineVars PROVE LinesInv'
    BY <2>2 DEF lineVars, LinesInv, LinesAreTrue, LinesTypeOK, ShownIsRun, Prompt, EnterOnce,
                NothingIsBegun, AfterReturn, KeyIsRead, OtherIsRead, EnterIsRead
  <2> QED
    BY <2>1, <2>2
<1> QED
  BY <1>1, LinesStart, PTL DEF LinesSpec

\* What a terminal shows is what Enter will run, however the line is edited, lost or
\* given up, and one press of Enter runs it once, whatever bytes it is sent as.
THEOREM LinesTrue == LinesSpec => []LinesAreTrue
<1>1. LinesInv => LinesAreTrue
  BY DEF LinesInv
<1> QED
  BY <1>1, LinesInvariant, PTL

-------------------------------------------------------------------------------
(* The neighbours *)

RxEvents == [event : Adverts \cup Responses, received_at_ms : 0 .. MaxTime]

NeighbourhoodTypes ==
  /\ NeighbourhoodTypeOK
  /\ now \in 0 .. MaxTime /\ asking \subseteq 0 .. now
  /\ asked \in {Never} \cup 0 .. now
  /\ inbound \in Seq(RxEvents)
  /\ heard \in [Keys -> {Never} \cup 0 .. now]

\* What waits was received in its order, and after all that was handled before.
HeardInOrder ==
  \A i \in DOMAIN inbound :
    /\ inbound[i].received_at_ms <= now
    /\ \A key \in Keys : heard[key] <= inbound[i].received_at_ms
    /\ \A j \in DOMAIN inbound : i <= j => inbound[i].received_at_ms <= inbound[j].received_at_ms

\* A discovery is the one last asked for, and is over once its minute is, for all
\* that may still be handled.
DiscoveryIsLast ==
  /\ pending # NoDiscover =>
       /\ asked # Never
       /\ pending = [tag |-> Tag(asked), expires_at_ms |-> asked + DISCOVER_NEIGHBOURS_TTL_MS]
  /\ pending = NoDiscover /\ asked # Never =>
       /\ asked + DISCOVER_NEIGHBOURS_TTL_MS < now
       /\ \A i \in DOMAIN inbound :
            asked + DISCOVER_NEIGHBOURS_TTL_MS < inbound[i].received_at_ms

\* No node is listed twice.
ListedOnce ==
  \A i, j \in DOMAIN neighbours : neighbours[i].key = neighbours[j].key => i = j

NeighboursInv ==
  /\ NeighbourhoodTypes /\ HeardInOrder /\ DiscoveryIsLast /\ ListedOnce /\ TableIsLatest

\* The least of some natural numbers is there.
LEMMA LeastThere ==
  ASSUME NEW S \in SUBSET Nat, S # {}
  PROVE  Min(S) \in S /\ \A n \in S : Min(S) <= n
<1>1. PICK least \in S : \A n \in S : ~ (<<n, least>> \in OpToRel(<, Nat))
  BY NatLessThanWellFounded, WFMin
<1>2. \A n \in S : least <= n
  <2>1. \A n, m \in Nat : n < m => <<n, m>> \in OpToRel(<, Nat)
    BY DEF OpToRel
  <2>2. \A n \in S : n \in Nat /\ least \in Nat /\ (n < least \/ least <= n)
    OBVIOUS
  <2> QED
    BY <1>1, <2>1, <2>2
<1> QED
  BY <1>2 DEF Min

\* FindIndex finds a node exactly if it is listed.
LEMMA FoundIndex ==
  ASSUME NEW entries \in Seq(Neighbours), NEW key
  PROVE  /\ FindIndex(entries, key) \in 0 .. Len(entries)
         /\ FindIndex(entries, key) # 0 => entries[FindIndex(entries, key)].key = key
         /\ FindIndex(entries, key) = 0 => \A i \in 1 .. Len(entries) : entries[i].key # key
<1>. DEFINE found == {i \in 1 .. Len(entries) : entries[i].key = key}
<1>1. FindIndex(entries, key) = IF found # {} THEN Min(found) ELSE 0
  BY DEF FindIndex, SelectInSeq
<1>2. Len(entries) \in Nat /\ found \subseteq Nat
  BY LenProperties
<1>3. found # {} => Min(found) \in found
  BY <1>2, LeastThere
<1> QED
  BY <1>1, <1>2, <1>3

\* OldestIndex finds one of those heard longest ago.
LEMMA OldestThere ==
  ASSUME NEW entries \in Seq(Neighbours), Len(entries) > 0
  PROVE  /\ OldestIndex(entries) \in 1 .. Len(entries)
         /\ \A i \in 1 .. Len(entries) : entries[OldestIndex(entries)].seen <= entries[i].seen
<1>. DEFINE times == {entries[i].seen : i \in 1 .. Len(entries)}
            firsts == {i \in 1 .. Len(entries) : entries[i].seen = Min(times)}
<1>1. /\ Len(entries) \in Nat /\ DOMAIN entries = 1 .. Len(entries)
      /\ \A i \in 1 .. Len(entries) : entries[i].seen \in Nat
  <2>1. \A i \in 1 .. Len(entries) : entries[i] \in Neighbours
    BY ElementOfSeq
  <2>2. 0 .. MaxTime \subseteq Nat
    BY NeighbourhoodAssumption
  <2> QED
    BY <2>1, <2>2, LenProperties DEF Neighbours
<1>2. Min(times) \in times /\ \A i \in 1 .. Len(entries) : Min(times) <= entries[i].seen
  <2>1. times \subseteq Nat /\ times # {}
    BY <1>1
  <2> QED
    BY <2>1, LeastThere
<1>3. Min(firsts) \in firsts /\ \A i \in firsts : Min(firsts) <= i
  <2>1. PICK i \in 1 .. Len(entries) : entries[i].seen = Min(times)
    BY <1>2
  <2>2. firsts \subseteq Nat /\ i \in firsts
    BY <1>1, <2>1
  <2>. HIDE DEF firsts
  <2> QED
    BY <2>2, LeastThere
<1>4. \E i \in DOMAIN entries : \A j \in DOMAIN entries :
        \/ entries[i].seen < entries[j].seen
        \/ entries[i].seen = entries[j].seen /\ i <= j
  <2>1. \A j \in 1 .. Len(entries) :
          entries[Min(firsts)].seen < entries[j].seen \/ j \in firsts
    <3>1. entries[Min(firsts)].seen = Min(times) /\ Min(times) \in Nat
      BY <1>1, <1>2, <1>3
    <3>2. \A m, n \in Nat : m <= n => m < n \/ n = m
      OBVIOUS
    <3>3. TAKE j \in 1 .. Len(entries)
    <3>4. Min(times) < entries[j].seen \/ entries[j].seen = Min(times)
      BY <1>1, <1>2, <3>1, <3>2, Zenon
    <3> QED
      BY <3>1, <3>4
  <2> QED
    BY <1>1, <1>3, <2>1
<1>5. /\ OldestIndex(entries) \in DOMAIN entries
      /\ \A j \in DOMAIN entries :
           \/ entries[OldestIndex(entries)].seen < entries[j].seen
           \/ entries[OldestIndex(entries)].seen = entries[j].seen /\ OldestIndex(entries) <= j
  BY <1>4 DEF OldestIndex
<1> QED
  BY <1>1, <1>5

\* As many nodes are listed as the table has entries.
LEMMA ListedCount ==
  ASSUME NEW entries \in Seq(Neighbours),
         \A i, j \in DOMAIN entries : entries[i].key = entries[j].key => i = j
  PROVE  Cardinality({entries[i].key : i \in DOMAIN entries}) = Len(entries)
<1>. DEFINE keys == {entries[i].key : i \in DOMAIN entries}
            f == [i \in 1 .. Len(entries) |-> entries[i].key]
<1>1. Len(entries) \in Nat /\ DOMAIN entries = 1 .. Len(entries)
  BY LenProperties
<1>2. f \in Bijection(1 .. Len(entries), keys)
  BY <1>1 DEF Bijection, Injection, Surjection, IsInjective
<1>3. ExistsBijection(1 .. Len(entries), keys)
  BY <1>2 DEF ExistsBijection
<1>. HIDE DEF keys, f
<1>4. Cardinality(keys) = Len(entries)
  BY <1>1, <1>3, FS_CountingElements
<1> QED
  BY <1>4 DEF keys

\* A time is never.
LEMMA NeverIsNoTime == \A t \in Nat : t # Never /\ Never <= t
BY DEF Never

\* The conjuncts of TableIsLatest, for a table without repetitions.
LEMMA LatestParts ==
  ASSUME NeighboursInv
  PROVE  /\ Listed \subseteq Known /\ IsFiniteSet(Known) /\ Cardinality(Known) \in Nat
         /\ Cardinality(Listed) = Len(neighbours)
         /\ Len(neighbours) = (IF Cardinality(Known) < max_neighbours THEN Cardinality(Known)
                               ELSE max_neighbours)
         /\ \A i \in DOMAIN neighbours :
              /\ neighbours[i].seen = heard[neighbours[i].key]
              /\ \A key \in Known \ Listed : heard[key] <= neighbours[i].seen
<1>1. IsFiniteSet(Known) /\ Cardinality(Known) \in Nat
  BY NeighbourhoodAssumption, FS_Subset, FS_CardinalityType DEF Known
<1> QED
  BY <1>1 DEF NeighboursInv, TableIsLatest

\* A neighbour heard now has its place among those heard last.
LEMMA HeardIsListed ==
  ASSUME NeighboursInv, NEW key \in Keys \ {Own}, NEW at \in 0 .. now,
         \A other \in Keys : heard[other] <= at,
         neighbours' = Observe(neighbours, key, Snr[key], at),
         heard' = [heard EXCEPT ![key] = at]
  PROVE  /\ neighbours' \in Seq(Neighbours) /\ Len(neighbours') <= max_neighbours
         /\ ListedOnce' /\ TableIsLatest'
<1>. DEFINE entry == Neighbour(key, Snr[key], at)
            index == FindIndex(neighbours, key)
<1>1. /\ neighbours \in Seq(Neighbours) /\ Len(neighbours) \in Nat
      /\ DOMAIN neighbours = 1 .. Len(neighbours)
      /\ Len(neighbours) <= max_neighbours /\ max_neighbours \in Nat /\ MaxTime \in Nat
      /\ now \in 0 .. MaxTime /\ at \in 0 .. MaxTime /\ at # Never
  BY LenProperties, NeighbourhoodAssumption, NeverIsNoTime
     DEF NeighboursInv, NeighbourhoodTypes, NeighbourhoodTypeOK
<1>2. entry \in Neighbours /\ entry.key = key /\ entry.seen = at
  BY <1>1 DEF Neighbour, Neighbours
<1>3. /\ index \in 0 .. Len(neighbours)
      /\ index # 0 => neighbours[index].key = key
      /\ index = 0 => \A i \in 1 .. Len(neighbours) : neighbours[i].key # key
  BY <1>1, FoundIndex
<1>4. /\ \A i, j \in DOMAIN neighbours : neighbours[i].key = neighbours[j].key => i = j
      /\ \A i \in DOMAIN neighbours :
           neighbours[i].key \in Keys \ {Own} /\ neighbours[i].seen \in 0 .. MaxTime
  <2>1. \A i \in DOMAIN neighbours : neighbours[i] \in Neighbours
    BY <1>1, ElementOfSeq
  <2> QED
    BY <2>1 DEF NeighboursInv, ListedOnce, Neighbours
<1>5. /\ heard \in [Keys -> {Never} \cup 0 .. now]
      /\ heard'[key] = at /\ \A other \in Keys : other # key => heard'[other] = heard[other]
      /\ \A other \in Keys : heard[other] \in Int /\ heard[other] <= at
  BY <1>1 DEF NeighboursInv, NeighbourhoodTypes, Never
<1>6. Known' = Known \cup {key}
  BY <1>1, <1>5 DEF Known
<1>7. /\ IsFiniteSet(Known') /\ Cardinality(Known') \in Nat
      /\ Cardinality(Known) \in Nat
      /\ Cardinality(Known') = Cardinality(Known) + (IF key \in Known THEN 0 ELSE 1)
  BY <1>6, LatestParts, FS_AddElement, FS_CardinalityType
<1>. HIDE DEF entry, index
<1>8. CASE index # 0
  <2>1. /\ neighbours' = [neighbours EXCEPT ![index] = entry] /\ index \in 1 .. Len(neighbours)
    BY <1>3, <1>8 DEF Observe, entry, index
  <2>2. /\ neighbours' \in Seq(Neighbours) /\ Len(neighbours') = Len(neighbours)
        /\ \A i \in 1 .. Len(neighbours) :
             neighbours'[i] = IF i = index THEN entry ELSE neighbours[i]
    BY <1>1, <1>2, <2>1, ExceptSeq
  <2>3. DOMAIN neighbours' = 1 .. Len(neighbours)
    BY <2>2, LenProperties
  <2>4. \A i \in 1 .. Len(neighbours) : neighbours'[i].key = neighbours[i].key
    BY <1>2, <1>3, <1>8, <2>2
  <2>5. ListedOnce'
    BY <1>1, <1>4, <2>3, <2>4 DEF ListedOnce
  <2>6. Listed' = Listed /\ key \in Listed
    BY <1>1, <1>3, <1>8, <2>1, <2>3, <2>4 DEF Listed
  <2>7. Known' = Known
    BY <1>6, <2>6, LatestParts
  <2>8. \A i \in 1 .. Len(neighbours) :
          /\ neighbours'[i].seen = heard'[neighbours'[i].key]
          /\ \A other \in Known \ Listed : heard'[other] <= neighbours'[i].seen
    <3>1. TAKE i \in 1 .. Len(neighbours)
    <3>2. CASE i = index
      BY <1>2, <1>5, <2>2, <2>6, <3>2 DEF Known
    <3>3. CASE i # index
      <4>1. neighbours'[i] = neighbours[i] /\ neighbours[i].key # key
        BY <1>1, <1>3, <1>4, <1>8, <2>1, <2>2, <3>3
      <4> QED
        BY <1>1, <1>4, <1>5, <2>6, <4>1, LatestParts DEF Known
    <3> QED
      BY <3>2, <3>3
  <2>9. TableIsLatest'
    BY <2>2, <2>3, <2>6, <2>7, <2>8, LatestParts DEF TableIsLatest
  <2> QED
    BY <1>1, <2>2, <2>5, <2>9
<1>9. CASE index = 0 /\ max_neighbours = 0
  <2>1. neighbours' = neighbours /\ Len(neighbours) = 0 /\ Listed = {} /\ Listed' = {}
    BY <1>1, <1>9 DEF Observe, index, Listed
  <2>2. Len(neighbours') = 0 /\ DOMAIN neighbours' = {}
    BY <1>1, <2>1
  <2>3. Cardinality({}) = 0
    BY FS_EmptySet
  <2>4. TableIsLatest'
    BY <1>7, <1>9, <2>1, <2>2, <2>3 DEF TableIsLatest
  <2> QED
    BY <1>1, <2>1, <2>2, <2>4 DEF ListedOnce
<1>10. CASE index = 0 /\ max_neighbours # 0 /\ Len(neighbours) < max_neighbours
  <2>1. neighbours' = Append(neighbours, entry)
    BY <1>10 DEF Observe, entry, index
  <2>2. /\ neighbours' \in Seq(Neighbours) /\ Len(neighbours') = Len(neighbours) + 1
        /\ \A i \in 1 .. Len(neighbours) : neighbours'[i] = neighbours[i]
        /\ neighbours'[Len(neighbours) + 1] = entry
    BY <1>1, <1>2, <2>1, AppendProperties
  <2>3. DOMAIN neighbours' = 1 .. Len(neighbours) + 1
    BY <2>2, LenProperties
  <2>4. ListedOnce'
    BY <1>1, <1>2, <1>3, <1>4, <1>10, <2>2, <2>3 DEF ListedOnce
  <2>5. Listed' = Listed \cup {key}
    BY <1>1, <1>2, <2>2, <2>3 DEF Listed
  <2>6. key \notin Listed
    BY <1>1, <1>3, <1>10 DEF Listed
  <2>7. Listed = Known
    BY <1>10, LatestParts, FS_Subset
  <2>8. Cardinality(Known') = Len(neighbours') /\ Listed' = Known'
    BY <1>1, <1>6, <1>7, <2>2, <2>5, <2>6, <2>7, LatestParts
  <2>9. \A i \in 1 .. Len(neighbours) + 1 : neighbours'[i].seen = heard'[neighbours'[i].key]
    <3>1. TAKE i \in 1 .. Len(neighbours) + 1
    <3>2. CASE i = Len(neighbours) + 1
      BY <1>2, <1>5, <2>2, <3>2
    <3>3. CASE i \in 1 .. Len(neighbours)
      <4>1. neighbours'[i] = neighbours[i] /\ neighbours[i].key # key
        BY <1>1, <1>3, <1>4, <1>10, <2>2, <3>3
      <4>2. neighbours[i].seen = heard[neighbours[i].key] /\ neighbours[i].key \in Keys
        <5>1. i \in DOMAIN neighbours
          BY <1>1, <3>3
        <5>2. neighbours[i].seen = heard[neighbours[i].key]
          BY <5>1, LatestParts
        <5> QED
          BY <1>4, <5>1, <5>2
      <4>3. heard'[neighbours[i].key] = heard[neighbours[i].key]
        BY <1>5, <4>1, <4>2
      <4> QED
        BY <4>1, <4>2, <4>3
    <3> QED
      BY <1>1, <3>2, <3>3
  <2>10. TableIsLatest'
    BY <1>1, <1>10, <2>2, <2>3, <2>8, <2>9 DEF TableIsLatest
  <2> QED
    BY <1>1, <1>10, <2>2, <2>4, <2>10
<1>11. CASE index = 0 /\ max_neighbours # 0 /\ Len(neighbours) = max_neighbours
  <2>. DEFINE oldest == OldestIndex(neighbours)
              left == neighbours[oldest].key
  <2>1. neighbours' = [neighbours EXCEPT ![oldest] = entry]
    BY <1>1, <1>11 DEF Observe, entry, index
  <2>2. /\ oldest \in 1 .. Len(neighbours)
        /\ \A i \in 1 .. Len(neighbours) : neighbours[oldest].seen <= neighbours[i].seen
    BY <1>1, <1>11, OldestThere
  <2>. HIDE DEF oldest
  <2>3. /\ neighbours' \in Seq(Neighbours) /\ Len(neighbours') = Len(neighbours)
        /\ \A i \in 1 .. Len(neighbours) :
             neighbours'[i] = IF i = oldest THEN entry ELSE neighbours[i]
    BY <1>1, <1>2, <2>1, <2>2, ExceptSeq
  <2>4. DOMAIN neighbours' = 1 .. Len(neighbours)
    BY <2>3, LenProperties
  <2>5. ListedOnce'
    BY <1>1, <1>2, <1>3, <1>4, <1>11, <2>3, <2>4 DEF ListedOnce
  <2>6. Listed' = (Listed \ {left}) \cup {key}
    <3>1. \A i \in 1 .. Len(neighbours) :
             /\ i = oldest => neighbours'[i].key = key
             /\ i # oldest => neighbours'[i].key = neighbours[i].key /\ neighbours[i].key # left
      BY <1>1, <1>2, <1>4, <2>2, <2>3
    <3>2. Listed' = {neighbours'[i].key : i \in 1 .. Len(neighbours)}
      BY <2>4 DEF Listed
    <3>3. Listed = {neighbours[i].key : i \in 1 .. Len(neighbours)}
      BY <1>1 DEF Listed
    <3> QED
      BY <2>2, <3>1, <3>2, <3>3
  <2>7. Cardinality(Listed') = Len(neighbours')
    BY <2>3, <2>5, ListedCount DEF Listed, ListedOnce
  <2>8. Cardinality(Known) >= max_neighbours /\ Listed \subseteq Known
    BY <1>11, LatestParts
  <2>9. Listed' \subseteq Known'
    BY <1>6, <2>6, <2>8
  <2>10. \A i \in 1 .. Len(neighbours) :
           /\ neighbours'[i].seen = heard'[neighbours'[i].key]
           /\ \A other \in Known' \ Listed' : heard'[other] <= neighbours'[i].seen
    <3>1. TAKE i \in 1 .. Len(neighbours)
    <3>2. \A other \in Known' \ Listed' :
            /\ other \in Keys /\ other # key /\ heard'[other] = heard[other]
            /\ other \in Known \ Listed \/ other = left
      BY <1>5, <1>6, <2>6 DEF Known
    <3>3. heard[left] = neighbours[oldest].seen
      BY <1>1, <2>2, LatestParts
    <3>4. CASE i = oldest
      BY <1>2, <1>5, <2>3, <3>2, <3>4
    <3>5. CASE i # oldest
      <4>1. neighbours'[i] = neighbours[i] /\ neighbours[i].key # key /\ neighbours[i].key \in Keys
        BY <1>1, <1>3, <1>4, <1>11, <2>3, <3>5
      <4>2. \A other \in Known \ Listed : heard[other] <= neighbours[i].seen
        BY <1>1, LatestParts
      <4>3. neighbours[i].seen = heard[neighbours[i].key]
        BY <1>1, LatestParts
      <4> QED
        BY <1>5, <2>2, <3>2, <3>3, <4>1, <4>2, <4>3
    <3> QED
      BY <3>4, <3>5
  <2>11. TableIsLatest'
    <3>1. ~(Cardinality(Known') < max_neighbours)
      BY <1>1, <1>7, <2>8
    <3> QED
      BY <1>11, <2>3, <2>4, <2>7, <2>9, <2>10, <3>1 DEF TableIsLatest
  <2> QED
    BY <1>1, <2>3, <2>5, <2>11
<1>12. \/ index # 0
       \/ index = 0 /\ max_neighbours = 0
       \/ index = 0 /\ max_neighbours # 0 /\ Len(neighbours) < max_neighbours
       \/ index = 0 /\ max_neighbours # 0 /\ Len(neighbours) = max_neighbours
  <2>1. \A m, n \in Nat : m <= n => m < n \/ m = n
    OBVIOUS
  <2>2. Len(neighbours) < max_neighbours \/ Len(neighbours) = max_neighbours
    BY <1>1, <2>1, Zenon
  <2> QED
    BY <2>2, Zenon
<1> QED
  BY <1>8, <1>9, <1>10, <1>11, <1>12

\* An answer is taken exactly if it is to the request queued last and came in time.
LEMMA AnswersCount ==
  ASSUME NeighboursInv, inbound # <<>>
  PROVE  /\ Head(inbound) \in RxEvents /\ Head(inbound).received_at_ms \in 0 .. now
         /\ \A key \in Keys : heard[key] <= Head(inbound).received_at_ms
         /\ Observes(Head(inbound).event, Head(inbound).received_at_ms)
              <=> CountsAsHeard(Head(inbound).event, Head(inbound).received_at_ms)
<1>. DEFINE event == Head(inbound).event
            at == Head(inbound).received_at_ms
<1>1. /\ inbound \in Seq(RxEvents) /\ Head(inbound) \in RxEvents
      /\ Head(inbound) = inbound[1] /\ 1 \in DOMAIN inbound
  BY HeadTailProperties, EmptySeq, LenProperties DEF NeighboursInv, NeighbourhoodTypes
<1>2. at \in 0 .. MaxTime /\ event \in Adverts \cup Responses
  BY <1>1 DEF RxEvents
<1>3. now \in 0 .. MaxTime /\ MaxTime \in Nat /\ DISCOVER_NEIGHBOURS_TTL_MS \in Nat
  BY NeighbourhoodAssumption DEF NeighboursInv, NeighbourhoodTypes
<1>4. at <= now /\ \A key \in Keys : heard[key] <= at
  BY <1>1 DEF NeighboursInv, HeardInOrder
<1>. HIDE DEF event, at
<1>5. at \in 0 .. now
  BY <1>2, <1>3, <1>4
<1>6. AcceptsResponse(event.tag, at)
        <=> /\ asked # Never /\ event.tag = Tag(asked)
            /\ at <= asked + DISCOVER_NEIGHBOURS_TTL_MS
  <2>1. CASE pending # NoDiscover
    <3>1. /\ asked # Never
          /\ pending.tag = Tag(asked)
          /\ pending.expires_at_ms = asked + DISCOVER_NEIGHBOURS_TTL_MS
      BY <2>1 DEF NeighboursInv, DiscoveryIsLast
    <3> QED
      BY <2>1, <3>1 DEF AcceptsResponse
  <2>2. CASE pending = NoDiscover /\ asked = Never
    BY <2>2 DEF AcceptsResponse
  <2>3. CASE pending = NoDiscover /\ asked # Never
    <3>1. asked + DISCOVER_NEIGHBOURS_TTL_MS < at /\ asked \in Nat
      BY <1>1, <1>3, <2>3 DEF NeighboursInv, DiscoveryIsLast, NeighbourhoodTypes, at
    <3> QED
      BY <1>3, <1>5, <2>3, <3>1 DEF AcceptsResponse
  <2> QED
    BY <2>1, <2>2, <2>3
<1>7. Observes(event, at) <=> CountsAsHeard(event, at)
  BY <1>6 DEF Observes, CountsAsHeard
<1> QED
  BY <1>1, <1>4, <1>5, <1>7 DEF event, at

\* What waits behind the first was received in its order as well.
LEMMA RestInOrder ==
  ASSUME NeighboursInv, inbound # <<>>, inbound' = Tail(inbound), now' = now,
         \A key \in Keys : heard'[key] \in Int /\ heard'[key] <= Head(inbound).received_at_ms
  PROVE  /\ HeardInOrder' /\ inbound' \in Seq(RxEvents) /\ Len(inbound') <= inbound_queue_len
         /\ DOMAIN inbound' = 1 .. Len(inbound')
         /\ \A i \in 1 .. Len(inbound') :
              /\ i + 1 \in DOMAIN inbound /\ inbound'[i] = inbound[i + 1]
              /\ Head(inbound).received_at_ms <= inbound'[i].received_at_ms
<1>1. /\ inbound \in Seq(RxEvents) /\ Head(inbound) \in RxEvents /\ Head(inbound) = inbound[1]
      /\ Len(inbound) \in Nat \ {0} /\ DOMAIN inbound = 1 .. Len(inbound)
      /\ Len(inbound) <= inbound_queue_len /\ inbound_queue_len \in Nat
      /\ inbound' \in Seq(RxEvents) /\ Len(inbound') = Len(inbound) - 1
      /\ \A i \in 1 .. Len(inbound') : inbound'[i] = inbound[i + 1]
  BY HeadTailProperties, EmptySeq, LenProperties, NeighbourhoodAssumption
     DEF NeighboursInv, NeighbourhoodTypes, NeighbourhoodTypeOK
<1>2. DOMAIN inbound' = 1 .. Len(inbound')
  BY <1>1, LenProperties
<1>3. \A i \in 1 .. Len(inbound') : i + 1 \in DOMAIN inbound /\ 1 \in DOMAIN inbound
  BY <1>1
<1>4. /\ \A i, j \in DOMAIN inbound : i <= j => inbound[i].received_at_ms <= inbound[j].received_at_ms
      /\ \A i \in DOMAIN inbound : inbound[i].received_at_ms <= now
  BY DEF NeighboursInv, HeardInOrder
<1>5. \A i \in 1 .. Len(inbound') : Head(inbound).received_at_ms <= inbound'[i].received_at_ms
  BY <1>1, <1>3, <1>4
<1>6. /\ \A i \in DOMAIN inbound : inbound[i].received_at_ms \in 0 .. MaxTime
      /\ Head(inbound).received_at_ms \in 0 .. MaxTime
  <2>1. \A i \in DOMAIN inbound : inbound[i] \in RxEvents
    BY <1>1, ElementOfSeq
  <2> QED
    BY <1>1, <2>1 DEF RxEvents
<1>7. \A i \in 1 .. Len(inbound') : \A key \in Keys : heard'[key] <= inbound'[i].received_at_ms
  <2>. SUFFICES ASSUME NEW i \in 1 .. Len(inbound'), NEW key \in Keys
                PROVE  heard'[key] <= inbound'[i].received_at_ms
    OBVIOUS
  <2>1. heard'[key] <= Head(inbound).received_at_ms /\ heard'[key] \in Int
    BY <1>6
  <2>2. Head(inbound).received_at_ms <= inbound'[i].received_at_ms
    BY <1>5
  <2>3. inbound'[i].received_at_ms \in Int /\ Head(inbound).received_at_ms \in Int
    BY <1>1, <1>3, <1>6
  <2> QED
    BY <2>1, <2>2, <2>3
<1>8. \A i, j \in 1 .. Len(inbound') : i <= j => inbound'[i].received_at_ms <= inbound'[j].received_at_ms
  BY <1>1, <1>3, <1>4
<1>9. \A i \in 1 .. Len(inbound') : inbound'[i].received_at_ms <= now'
  BY <1>1, <1>3, <1>4
<1> QED
  <2>1. HeardInOrder'
    BY <1>2, <1>7, <1>8, <1>9 DEF HeardInOrder
  <2>2. Len(inbound') <= inbound_queue_len
    BY <1>1
  <2> QED
    BY <1>1, <1>2, <1>3, <1>5, <2>1, <2>2

\* What is heard is queued last.
LEMMA HearKeeps == ASSUME NeighboursInv, Hear PROVE NeighboursInv'
<1>1. PICK event \in Adverts \cup Responses :
        inbound' = Append(inbound, [event |-> event, received_at_ms |-> now])
  BY DEF Hear
<1>. DEFINE latest == [event |-> event, received_at_ms |-> now]
<1>2. /\ now \in 0 .. MaxTime /\ inbound \in Seq(RxEvents) /\ Len(inbound) \in Nat
      /\ DOMAIN inbound = 1 .. Len(inbound) /\ latest \in RxEvents
      /\ Len(inbound) < inbound_queue_len /\ inbound_queue_len \in Nat /\ MaxTime \in Nat
      /\ UNCHANGED <<now, neighbours, pending, asking, asked, heard>>
  BY LenProperties, NeighbourhoodAssumption DEF Hear, NeighboursInv, NeighbourhoodTypes, RxEvents
<1>3. /\ inbound' \in Seq(RxEvents) /\ Len(inbound') = Len(inbound) + 1
      /\ \A i \in 1 .. Len(inbound) : inbound'[i] = inbound[i]
      /\ inbound'[Len(inbound) + 1] = latest
  BY <1>1, <1>2, AppendProperties
<1>4. DOMAIN inbound' = 1 .. Len(inbound) + 1 /\ latest.received_at_ms = now
  BY <1>3, LenProperties
<1>. HIDE DEF latest
<1>5. /\ \A i \in 1 .. Len(inbound) :
           /\ inbound[i].received_at_ms <= now
           /\ \A key \in Keys : heard[key] <= inbound[i].received_at_ms
           /\ \A j \in 1 .. Len(inbound) :
                i <= j => inbound[i].received_at_ms <= inbound[j].received_at_ms
      /\ \A key \in Keys : heard[key] <= now
  <2>1. \A key \in Keys : heard[key] \in {Never} \cup 0 .. now
    BY DEF NeighboursInv, NeighbourhoodTypes
  <2>2. \A key \in Keys : heard[key] <= now
    BY <1>2, <2>1 DEF Never
  <2> QED
    BY <1>2, <2>2 DEF NeighboursInv, HeardInOrder
<1>6. HeardInOrder'
  <2>1. SUFFICES ASSUME NEW i \in 1 .. Len(inbound) + 1
        PROVE /\ inbound'[i].received_at_ms <= now
              /\ \A key \in Keys : heard[key] <= inbound'[i].received_at_ms
              /\ \A j \in 1 .. Len(inbound) + 1 :
                   i <= j => inbound'[i].received_at_ms <= inbound'[j].received_at_ms
    BY <1>2, <1>4 DEF HeardInOrder
  <2>2. CASE i = Len(inbound) + 1
    <3>1. \A j \in 1 .. Len(inbound) + 1 : i <= j => j = i
      BY <1>2, <2>2
    <3> QED
      BY <1>2, <1>3, <1>4, <1>5, <2>2, <3>1
  <2>3. CASE i \in 1 .. Len(inbound)
    BY <1>2, <1>3, <1>4, <1>5, <2>3
  <2> QED
    BY <1>2, <2>2, <2>3
<1>7. DiscoveryIsLast'
  <2>1. pending = NoDiscover /\ asked # Never =>
          /\ asked + DISCOVER_NEIGHBOURS_TTL_MS < now
          /\ \A i \in 1 .. Len(inbound) :
               asked + DISCOVER_NEIGHBOURS_TTL_MS < inbound[i].received_at_ms
    BY <1>2 DEF NeighboursInv, DiscoveryIsLast
  <2>2. pending = NoDiscover /\ asked # Never =>
          \A i \in 1 .. Len(inbound) + 1 :
            asked + DISCOVER_NEIGHBOURS_TTL_MS < inbound'[i].received_at_ms
    BY <1>2, <1>3, <1>4, <2>1
  <2>3. UNCHANGED NoDiscover
    BY DEF NoDiscover
  <2> QED
    BY <1>2, <1>4, <2>1, <2>2 DEF NeighboursInv, DiscoveryIsLast
<1>8. NeighbourhoodTypes'
  BY <1>2, <1>3 DEF NeighboursInv, NeighbourhoodTypes, NeighbourhoodTypeOK
<1> QED
  BY <1>2, <1>6, <1>7, <1>8
     DEF NeighboursInv, ListedOnce, TableIsLatest, Known, Listed

\* The discovery that is over leaves nothing that would still count.
LEMMA HandledDiscovery ==
  ASSUME NeighboursInv, HandleHeard, DOMAIN inbound' = 1 .. Len(inbound'),
         \A i \in 1 .. Len(inbound') :
           /\ i + 1 \in DOMAIN inbound /\ inbound'[i] = inbound[i + 1]
           /\ inbound'[i].received_at_ms \in Nat
           /\ Head(inbound).received_at_ms <= inbound'[i].received_at_ms
  PROVE  DiscoveryIsLast' /\ pending' \in {pending, NoDiscover}
<1>. DEFINE at == Head(inbound).received_at_ms
<1>1. /\ at \in 0 .. now /\ now \in Nat /\ DISCOVER_NEIGHBOURS_TTL_MS \in Nat
      /\ UNCHANGED <<now, asked>>
  BY AnswersCount, NeighbourhoodAssumption DEF HandleHeard, NeighboursInv, NeighbourhoodTypes
<1>2. pending' = pending \/ (pending # NoDiscover /\ at > pending.expires_at_ms /\ pending' = NoDiscover)
  BY DEF HandleHeard, AfterResponse
<1>. HIDE DEF at
<1>3. CASE pending' = pending
  BY <1>1, <1>3 DEF NeighboursInv, DiscoveryIsLast
<1>4. CASE pending # NoDiscover /\ at > pending.expires_at_ms /\ pending' = NoDiscover
  <2>1. /\ asked # Never /\ asked \in Nat
        /\ pending.expires_at_ms = asked + DISCOVER_NEIGHBOURS_TTL_MS
    BY <1>4 DEF NeighboursInv, DiscoveryIsLast, NeighbourhoodTypes
  <2>2. asked + DISCOVER_NEIGHBOURS_TTL_MS < at
    BY <1>4, <2>1
  <2>3. /\ asked + DISCOVER_NEIGHBOURS_TTL_MS < now
        /\ \A i \in 1 .. Len(inbound') :
             asked + DISCOVER_NEIGHBOURS_TTL_MS < inbound'[i].received_at_ms
    BY <1>1, <2>1, <2>2 DEF at
  <2> QED
    BY <1>1, <1>4, <2>3 DEF DiscoveryIsLast
<1> QED
  BY <1>2, <1>3, <1>4

\* The event that waits longest is handled.
LEMMA HandleHeardKeeps == ASSUME NeighboursInv, HandleHeard PROVE NeighboursInv'
<1>. DEFINE event == Head(inbound).event
            at == Head(inbound).received_at_ms
<1>1. /\ inbound # <<>> /\ inbound' = Tail(inbound) /\ UNCHANGED <<now, asking, asked>>
      /\ neighbours' = IF Observes(event, at) THEN Observe(neighbours, event.key, Snr[event.key], at)
                       ELSE neighbours
      /\ heard' = IF CountsAsHeard(event, at) /\ event.key # Own
                  THEN [heard EXCEPT ![event.key] = at] ELSE heard
  BY DEF HandleHeard
<1>2. /\ Head(inbound) \in RxEvents /\ at \in 0 .. now /\ \A key \in Keys : heard[key] <= at
      /\ Observes(event, at) <=> CountsAsHeard(event, at)
  BY <1>1, AnswersCount
<1>3. event.key \in Keys
  BY <1>2, NeighbourhoodAssumption DEF RxEvents, Adverts, Responses
<1>4. /\ heard \in [Keys -> {Never} \cup 0 .. now] /\ now \in 0 .. MaxTime /\ MaxTime \in Nat
      /\ neighbours \in Seq(Neighbours) /\ Len(neighbours) <= max_neighbours
      /\ \A key \in Keys : heard[key] \in Int
  BY NeighbourhoodAssumption
     DEF NeighboursInv, NeighbourhoodTypes, NeighbourhoodTypeOK, Never
<1>. HIDE DEF event, at
<1>5. /\ neighbours' \in Seq(Neighbours) /\ Len(neighbours') <= max_neighbours
      /\ ListedOnce' /\ TableIsLatest'
  <2>1. CASE Observes(event, at) /\ event.key # Own
    BY <1>1, <1>2, <1>3, <2>1, HeardIsListed
  <2>2. CASE ~(Observes(event, at) /\ event.key # Own)
    <3>1. neighbours' = neighbours /\ heard' = heard
      BY <1>1, <1>2, <2>2 DEF Observe
    <3> QED
      BY <1>4, <3>1 DEF NeighboursInv, ListedOnce, TableIsLatest, Known, Listed
  <2> QED
    BY <2>1, <2>2
<1>6. /\ heard' \in [Keys -> {Never} \cup 0 .. now]
      /\ \A key \in Keys : heard'[key] \in Int /\ heard'[key] <= at
  <2>1. at \in Int /\ heard' \in [Keys -> {Never} \cup 0 .. now]
    BY <1>1, <1>2, <1>3, <1>4
  <2>2. \A key \in Keys : heard'[key] = heard[key] \/ heard'[key] = at
    BY <1>1, <1>4
  <2> QED
    BY <1>2, <1>4, <2>1, <2>2
<1>7. /\ HeardInOrder' /\ inbound' \in Seq(RxEvents) /\ Len(inbound') <= inbound_queue_len
      /\ DOMAIN inbound' = 1 .. Len(inbound')
      /\ \A i \in 1 .. Len(inbound') :
           /\ i + 1 \in DOMAIN inbound /\ inbound'[i] = inbound[i + 1]
           /\ Head(inbound).received_at_ms <= inbound'[i].received_at_ms
  BY <1>1, <1>6, RestInOrder DEF at
<1>8. \A i \in 1 .. Len(inbound') : inbound'[i].received_at_ms \in Nat
  <2>1. \A i \in 1 .. Len(inbound') : inbound'[i] \in RxEvents
    BY <1>7, ElementOfSeq
  <2> QED
    BY <1>4, <2>1 DEF RxEvents
<1>9. DiscoveryIsLast' /\ pending' \in {pending, NoDiscover}
  BY <1>7, <1>8, HandledDiscovery
<1>10. pending' \in [tag : 0 .. MaxTime, expires_at_ms : 0 .. MaxTime + DISCOVER_NEIGHBOURS_TTL_MS]
  <2>1. NoDiscover \in [tag : 0 .. MaxTime, expires_at_ms : 0 .. MaxTime + DISCOVER_NEIGHBOURS_TTL_MS]
    BY NeighbourhoodAssumption DEF NoDiscover
  <2> QED
    BY <1>9, <2>1 DEF NeighboursInv, NeighbourhoodTypes, NeighbourhoodTypeOK
<1>11. NeighbourhoodTypes'
  BY <1>1, <1>5, <1>6, <1>7, <1>10 DEF NeighboursInv, NeighbourhoodTypes, NeighbourhoodTypeOK
<1> QED
  BY <1>5, <1>7, <1>9, <1>11 DEF NeighboursInv

\* A command takes the time, and later queues its request or is refused.
LEMMA AskingKeeps ==
  ASSUME NeighboursInv, AskNeighbours \/ QueueDiscover \/ RefuseDiscover
  PROVE  NeighboursInv'
<1>1. /\ now \in 0 .. MaxTime /\ asking \subseteq 0 .. now /\ MaxTime \in Nat
      /\ DISCOVER_NEIGHBOURS_TTL_MS \in Nat
      /\ UNCHANGED <<now, neighbours, inbound, heard>>
  BY NeighbourhoodAssumption
     DEF NeighboursInv, NeighbourhoodTypes, AskNeighbours, QueueDiscover, RefuseDiscover
<1>2. asking' \subseteq 0 .. now
  <2>1. now \in 0 .. now
    BY <1>1
  <2>2. asking' \subseteq asking \cup {now}
    BY DEF AskNeighbours, QueueDiscover, RefuseDiscover
  <2> QED
    BY <1>1, <2>1, <2>2
<1>3. HeardInOrder' /\ ListedOnce' /\ TableIsLatest'
  BY <1>1 DEF NeighboursInv, HeardInOrder, ListedOnce, TableIsLatest, Known, Listed
<1>4. CASE UNCHANGED <<pending, asked>>
  <2>1. NeighbourhoodTypes'
    BY <1>1, <1>2, <1>4 DEF NeighboursInv, NeighbourhoodTypes, NeighbourhoodTypeOK
  <2>2. DiscoveryIsLast'
    BY <1>1, <1>4 DEF NeighboursInv, DiscoveryIsLast
  <2> QED
    BY <1>3, <2>1, <2>2 DEF NeighboursInv
<1>5. CASE QueueDiscover
  <2>1. PICK at \in asking : StartDiscover(at) /\ asked' = at
    BY <1>5 DEF QueueDiscover
  <2>2. /\ at \in 0 .. now /\ at \in 0 .. MaxTime /\ at # Never
        /\ pending' = [tag |-> Tag(at), expires_at_ms |-> at + DISCOVER_NEIGHBOURS_TTL_MS]
    BY <1>1, <2>1, NeverIsNoTime DEF StartDiscover
  <2>3. Tag(at) \in 0 .. MaxTime /\ Tag(at) # 0
    <3>1. CASE at # 0
      BY <2>2, <3>1 DEF Tag
    <3>2. CASE at = 0
      BY <3>2, NeighbourhoodAssumption DEF Tag
    <3> QED
      BY <3>1, <3>2
  <2>4. /\ pending' \in [tag : 0 .. MaxTime, expires_at_ms : 0 .. MaxTime + DISCOVER_NEIGHBOURS_TTL_MS]
        /\ pending' # NoDiscover /\ asked' # Never
    <3>1. at + DISCOVER_NEIGHBOURS_TTL_MS \in 0 .. MaxTime + DISCOVER_NEIGHBOURS_TTL_MS
      BY <1>1, <2>2
    <3>2. pending'.tag # NoDiscover.tag
      BY <2>2, <2>3 DEF NoDiscover
    <3> QED
      BY <2>1, <2>2, <2>3, <3>1, <3>2
  <2>5. NeighbourhoodTypes'
    BY <1>1, <1>2, <2>1, <2>2, <2>4 DEF NeighboursInv, NeighbourhoodTypes, NeighbourhoodTypeOK
  <2>6. DiscoveryIsLast'
    BY <2>1, <2>2, <2>4 DEF DiscoveryIsLast, NoDiscover
  <2> QED
    BY <1>3, <2>5, <2>6 DEF NeighboursInv
<1> QED
  BY <1>4, <1>5 DEF AskNeighbours, RefuseDiscover

\* Time passes.
LEMMA TimeKeepsNeighbours ==
  ASSUME NeighboursInv, Passes(MaxTime), UNCHANGED neighbourVars
  PROVE  NeighboursInv'
<1>1. now' = now + 1 /\ now < MaxTime /\ now \in Nat /\ MaxTime \in Nat /\ UNCHANGED neighbourVars
  BY NeighbourhoodAssumption DEF Passes, NeighboursInv, NeighbourhoodTypes
<1>. USE <1>1 DEF neighbourVars
<1>2. NeighbourhoodTypes'
  <2>1. now' \in 0 .. MaxTime /\ 0 .. now \subseteq 0 .. now'
    OBVIOUS
  <2>2. heard' \in [Keys -> {Never} \cup 0 .. now']
    BY <2>1 DEF NeighboursInv, NeighbourhoodTypes
  <2> QED
    BY <2>1, <2>2 DEF NeighboursInv, NeighbourhoodTypes, NeighbourhoodTypeOK
<1>3. HeardInOrder'
  <2>1. \A i \in DOMAIN inbound : inbound[i].received_at_ms \in 0 .. MaxTime
    <3>1. DOMAIN inbound = 1 .. Len(inbound) /\ inbound \in Seq(RxEvents)
      BY LenProperties DEF NeighboursInv, NeighbourhoodTypes
    <3>2. \A i \in DOMAIN inbound : inbound[i] \in RxEvents
      BY <3>1, ElementOfSeq
    <3> QED
      BY <3>2 DEF RxEvents
  <2> QED
    BY <2>1 DEF NeighboursInv, HeardInOrder
<1>4. DiscoveryIsLast'
  <2>1. asked # Never => asked + DISCOVER_NEIGHBOURS_TTL_MS \in Nat
    BY NeighbourhoodAssumption DEF NeighboursInv, NeighbourhoodTypes
  <2> QED
    BY <2>1 DEF NeighboursInv, DiscoveryIsLast
<1> QED
  BY <1>2, <1>3, <1>4 DEF NeighboursInv, ListedOnce, TableIsLatest, Known, Listed

LEMMA NeighboursStart == now = 0 /\ NeighbourhoodInit => NeighboursInv
<1>. SUFFICES ASSUME now = 0, NeighbourhoodInit PROVE NeighboursInv
  OBVIOUS
<1>. USE NeighbourhoodAssumption DEF NeighbourhoodInit
<1>1. /\ neighbours \in Seq(Neighbours) /\ Len(neighbours) = 0 /\ DOMAIN neighbours = {}
      /\ inbound \in Seq(RxEvents) /\ Len(inbound) = 0 /\ DOMAIN inbound = {}
  <2>1. <<>> \in Seq(Neighbours) /\ <<>> \in Seq(RxEvents) /\ Len(<<>>) = 0 /\ DOMAIN <<>> = {}
    BY EmptySeq
  <2> QED
    BY <2>1
<1>2. NeighbourhoodTypes
  <2>1. heard \in [Keys -> {Never} \cup 0 .. now]
    OBVIOUS
  <2>2. pending \in [tag : 0 .. MaxTime, expires_at_ms : 0 .. MaxTime + DISCOVER_NEIGHBOURS_TTL_MS]
    BY DEF NoDiscover
  <2> QED
    BY <1>1, <2>1, <2>2 DEF NeighbourhoodTypes, NeighbourhoodTypeOK
<1>3. TableIsLatest
  <2>1. Listed = {} /\ Known = {}
    BY <1>1 DEF Listed, Known
  <2> QED
    BY <1>1, <2>1, FS_EmptySet DEF TableIsLatest
<1> QED
  BY <1>1, <1>2, <1>3 DEF NeighboursInv, HeardInOrder, DiscoveryIsLast, ListedOnce

LEMMA NeighboursStep ==
  NeighboursInv /\ [NeighbourhoodNext]_<<now, neighbourVars>> => NeighboursInv'
<1>1. ASSUME NeighboursInv, NeighbourhoodNext PROVE NeighboursInv'
  BY <1>1, AskingKeeps, HearKeeps, HandleHeardKeeps, TimeKeepsNeighbours DEF NeighbourhoodNext
<1>2. ASSUME NeighboursInv, UNCHANGED <<now, neighbourVars>> PROVE NeighboursInv'
  BY <1>2 DEF neighbourVars, NeighboursInv, NeighbourhoodTypes, NeighbourhoodTypeOK,
     HeardInOrder, DiscoveryIsLast, ListedOnce, TableIsLatest, Known, Listed
<1> QED
  BY <1>1, <1>2

\* NeighboursInv holds in every behaviour: the table lists the nodes heard last, and
\* a discovery is the one asked for last until its minute is over.
THEOREM NeighboursInvariant == NeighbourhoodSpec => []NeighboursInv
BY NeighboursStart, NeighboursStep, PTL DEF NeighbourhoodSpec

\* The neighbours listed are those heard last, each once and with its last time, and
\* an answer counts exactly if it is to the request queued last and in its minute.
THEOREM NeighboursAreKept == NeighbourhoodSpec => NeighboursKept
<1>1. NeighboursInv => NeighbourhoodTypeOK /\ TableIsLatest
  BY DEF NeighboursInv, NeighbourhoodTypes
<1>. DEFINE Exact ==
       inbound # <<>> /\ inbound' = Tail(inbound) /\ Head(inbound).event.kind = "response"
         => Observes(Head(inbound).event, Head(inbound).received_at_ms)
              = CountsAsHeard(Head(inbound).event, Head(inbound).received_at_ms)
<1>2. NeighboursInv => Exact
  <2>1. ASSUME NeighboursInv, inbound # <<>>
        PROVE  Observes(Head(inbound).event, Head(inbound).received_at_ms)
                 = CountsAsHeard(Head(inbound).event, Head(inbound).received_at_ms)
    <3>1. /\ Observes(Head(inbound).event, Head(inbound).received_at_ms) \in BOOLEAN
          /\ CountsAsHeard(Head(inbound).event, Head(inbound).received_at_ms) \in BOOLEAN
      BY DEF Observes, CountsAsHeard
    <3> QED
      <4>1. Observes(Head(inbound).event, Head(inbound).received_at_ms)
              <=> CountsAsHeard(Head(inbound).event, Head(inbound).received_at_ms)
        BY <2>1, AnswersCount
      <4>2. \A p, q \in BOOLEAN : (p <=> q) => p = q
        OBVIOUS
      <4> QED
        BY <3>1, <4>1, <4>2, Zenon
  <2> QED
    BY <2>1
<1>3. NeighbourhoodSpec => AnswersToTheLatest
  <2>1. NeighboursInv /\ [NeighbourhoodNext]_<<now, neighbourVars>> => [Exact]_neighbourVars
    BY <1>2
  <2> QED
    BY <2>1, NeighboursInvariant, PTL DEF NeighbourhoodSpec, AnswersToTheLatest
<1> QED
  BY <1>1, <1>3, NeighboursInvariant, PTL DEF NeighboursKept

-------------------------------------------------------------------------------
(* The pages *)

\* What holds of 0, and of every number after one it holds of, holds up to n.
LEMMA CountUp ==
  ASSUME NEW n \in Nat, NEW T, 0 \in T, \A m \in 0 .. n : m # n /\ m \in T => m + 1 \in T
  PROVE  0 .. n \subseteq T
<1>. DEFINE without == (0 .. n) \ T
            k == Min(without)
<1>1. SUFFICES ASSUME without # {} PROVE FALSE
  OBVIOUS
<1>2. k \in without /\ \A i \in without : k <= i
  BY <1>1, LeastThere
<1>3. k \in 1 .. n /\ k \notin T
  BY <1>2
<1>. HIDE DEF k
<1>4. k - 1 \in 0 .. n /\ k - 1 # n /\ k - 1 < k /\ (k - 1) + 1 = k
  BY <1>3
<1>5. k - 1 \in T
  BY <1>2, <1>4
<1> QED
  BY <1>3, <1>4, <1>5

\* Steps from S to S, and what they come to one after another from a base.
Steps(step, n, S) == step \in [1 .. n -> [S -> S]]

Follows(f, base, step, n, S) ==
  f \in [0 .. n -> S] /\ f[0] = base /\ \A m \in 1 .. n : f[m] = step[m][f[m - 1]]

LEMMA StepsFollowed ==
  ASSUME NEW n \in Nat, NEW S, NEW base \in S, NEW step, Steps(step, n, S)
  PROVE  \E f : Follows(f, base, step, n, S)
<1>. DEFINE Takes(f, k) == \A m \in 0 .. k : f[m] = IF m = 0 THEN base ELSE step[m][f[m - 1]]
            taken == {k \in 0 .. n : \E f \in [0 .. k -> S] : Takes(f, k)}
<1>1. 0 \in taken
  <2>. DEFINE f == [m \in 0 .. 0 |-> base]
  <2>1. f \in [0 .. 0 -> S] /\ Takes(f, 0)
    OBVIOUS
  <2>. HIDE DEF f
  <2>2. 0 \in 0 .. n /\ \E g \in [0 .. 0 -> S] : Takes(g, 0)
    BY <2>1
  <2> QED
    BY <2>2
<1>2. ASSUME NEW j \in 0 .. n, j # n, j \in taken
      PROVE  j + 1 \in taken
  <2>1. j \in Nat /\ j + 1 \in 1 .. n /\ j + 1 \in 0 .. n
    BY <1>2
  <2>2. PICK f \in [0 .. j -> S] : Takes(f, j)
    BY <1>2
  <2>. DEFINE g == [m \in 0 .. j + 1 |-> IF m = j + 1 THEN step[j + 1][f[j]] ELSE f[m]]
  <2>3. \A m \in 0 .. j + 1 : m = j + 1 \/ m \in 0 .. j
    BY <2>1
  <2>4. f[j] \in S /\ step[j + 1][f[j]] \in S
    BY <2>1, <2>2 DEF Steps
  <2>5. g \in [0 .. j + 1 -> S]
    BY <2>3, <2>4
  <2>6. \A m \in 0 .. j : g[m] = f[m] /\ m \in 0 .. j + 1 /\ m # j + 1
    BY <2>1
  <2>7. g[j + 1] = step[j + 1][f[j]]
    BY <2>1
  <2>. HIDE DEF g
  <2>8. \A m \in 0 .. j : m # 0 => m - 1 \in 0 .. j
    BY <2>1
  <2>9. ASSUME NEW m \in 0 .. j + 1
        PROVE  g[m] = IF m = 0 THEN base ELSE step[m][g[m - 1]]
    <3>1. CASE m = j + 1
      <4>1. m # 0 /\ m - 1 = j /\ j \in 0 .. j
        BY <2>1, <3>1
      <4> QED
        BY <2>6, <2>7, <3>1, <4>1
    <3>2. CASE m \in 0 .. j
      BY <2>2, <2>6, <2>8, <3>2
    <3> QED
      BY <2>3, <3>1, <3>2
  <2> QED
    BY <2>1, <2>5, <2>9
<1>. HIDE DEF taken
<1>3. 0 .. n \subseteq taken
  BY <1>1, <1>2, CountUp
<1>4. n \in taken
  BY <1>3
<1>5. PICK f \in [0 .. n -> S] : Takes(f, n)
  BY <1>4 DEF taken
<1>6. 0 \in 0 .. n /\ \A m \in 1 .. n : m \in 0 .. n /\ m # 0
  OBVIOUS
<1>7. Follows(f, base, step, n, S)
  BY <1>5, <1>6 DEF Follows
<1> QED
  BY <1>7

\* Neighbours are ordered by a number.
Rank(entry, order) ==
  CASE order = "newest" -> - entry.seen
    [] order = "oldest" -> entry.seen
    [] order = "strongest" -> - entry.snr
    [] order = "weakest" -> entry.snr

LEMMA Ranked ==
  ASSUME NEW left \in Neighbours, NEW right \in Neighbours, NEW order \in Orders
  PROVE  /\ Rank(left, order) \in Int /\ Rank(right, order) \in Int
         /\ Precedes(left, right, order) <=> Rank(left, order) < Rank(right, order)
<1>1. left.seen \in Int /\ right.seen \in Int /\ left.snr \in Int /\ right.snr \in Int
  BY NeighbourhoodAssumption DEF Neighbours
<1>2. CASE order = "newest"
  BY <1>1, <1>2 DEF Rank, Precedes
<1>3. CASE order = "oldest"
  BY <1>1, <1>3 DEF Rank, Precedes
<1>4. CASE order = "strongest"
  BY <1>1, <1>4 DEF Rank, Precedes
<1>5. CASE order = "weakest"
  BY <1>1, <1>5 DEF Rank, Precedes
<1> QED
  BY <1>2, <1>3, <1>4, <1>5 DEF Orders

\* No entry from place i on precedes the one selected.
LEMMA SelectedFirst ==
  ASSUME NEW entries \in Seq(Neighbours), NEW i \in 1 .. Len(entries), NEW order \in Orders
  PROVE  /\ Selected(entries, i, order) \in i .. Len(entries)
         /\ \A j \in i .. Len(entries) :
              ~Precedes(entries[j], entries[Selected(entries, i, order)], order)
<1>. DEFINE n == Len(entries) - i
            Look(f, k) == IF k = 0 THEN i ELSE Better(entries, i + k, f[k - 1], order)
            after[k \in 0 .. n] == Look(after, k)
            Solves(f) == f = [k \in 0 .. n |-> Look(f, k)]
<1>1. n \in Nat /\ Len(entries) \in Nat /\ i \in Nat /\ i + n = Len(entries)
  BY LenProperties
<1>2. \A j \in 1 .. Len(entries) : entries[j] \in Neighbours
  BY ElementOfSeq
<1>3. \E f : Solves(f)
  <2>. DEFINE S == i .. Len(entries)
              step == [k \in 1 .. n |-> [j \in S |-> Better(entries, i + k, j, order)]]
  <2>1. i \in S
    BY <1>1
  <2>2. \A k \in 1 .. n, j \in S : Better(entries, i + k, j, order) \in S
    BY <1>1 DEF Better
  <2>3. Steps(step, n, S)
    BY <2>2 DEF Steps
  <2>. HIDE DEF n, S, step
  <2>4. PICK f : Follows(f, i, step, n, S)
    BY <1>1, <2>1, <2>3, StepsFollowed
  <2>5. \A k \in 0 .. n : k # 0 => k \in 1 .. n /\ k - 1 \in 0 .. n
    BY <1>1
  <2>6. \A k \in 1 .. n, j \in S : step[k][j] = Better(entries, i + k, j, order)
    BY DEF step
  <2>7. \A k \in 0 .. n : f[k] = Look(f, k)
    BY <2>4, <2>5, <2>6 DEF Follows
  <2>8. Solves(f)
    BY <2>4, <2>7 DEF Follows
  <2>. HIDE DEF Solves
  <2> QED
    BY <2>8
<1>4. Selected(entries, i, order) = after[n]
  BY DEF Selected
<1>5. Solves(after)
  <2>1. after = CHOOSE f : Solves(f)
    BY DEF after
  <2>. HIDE DEF Solves, after
  <2> QED
    BY <1>3, <2>1
<1>. HIDE DEF after
<1>6. after[0] = i /\ \A k \in 1 .. n : after[k] = Better(entries, i + k, after[k - 1], order)
  <2>1. \A k \in 0 .. n : after[k] = Look(after, k)
    BY <1>5
  <2>2. 0 \in 0 .. n /\ \A k \in 1 .. n : k \in 0 .. n /\ k # 0
    BY <1>1
  <2> QED
    BY <2>1, <2>2
<1>. HIDE DEF n
<1>. DEFINE Best(k) == /\ after[k] \in i .. i + k
                       /\ \A j \in i .. i + k : ~Precedes(entries[j], entries[after[k]], order)
            best == {k \in 0 .. n : Best(k)}
<1>7. \A j \in i .. Len(entries) : j \in 1 .. Len(entries)
  BY <1>1
<1>8. 0 \in best
  <2>1. \A j \in i .. i + 0 : j = i
    BY <1>1
  <2>2. entries[i] \in Neighbours
    BY <1>2
  <2>3. ~Precedes(entries[i], entries[i], order)
    BY <2>2, Ranked
  <2>4. i \in i .. i + 0 /\ 0 \in 0 .. n
    BY <1>1
  <2> QED
    BY <1>6, <2>1, <2>3, <2>4
<1>9. ASSUME NEW k \in 0 .. n, k # n, k \in best
      PROVE  k + 1 \in best
  <2>1. k + 1 \in 1 .. n /\ k + 1 \in 0 .. n /\ (k + 1) - 1 = k /\ i + (k + 1) \in i .. Len(entries)
    BY <1>1, <1>9
  <2>2. after[k + 1] = Better(entries, i + (k + 1), after[k], order)
    BY <1>6, <2>1
  <2>3. \A j \in i .. i + k : j \in i .. Len(entries) /\ j \in i .. i + (k + 1)
    BY <1>1, <2>1
  <2>4. \A j \in i .. i + (k + 1) : j \in i .. i + k \/ j = i + (k + 1)
    BY <1>1
  <2>. DEFINE new == entries[i + (k + 1)]
              old == entries[after[k]]
  <2>5. Best(k) /\ new \in Neighbours /\ old \in Neighbours
    BY <1>2, <1>7, <1>9, <2>1, <2>3
  <2>6. \A j \in i .. i + k : Rank(entries[j], order) \in Int
                              /\ Rank(old, order) <= Rank(entries[j], order)
    <3>. TAKE j \in i .. i + k
    <3>1. entries[j] \in Neighbours /\ ~Precedes(entries[j], old, order)
      BY <1>2, <1>7, <2>3, <2>5
    <3> QED
      BY <2>5, <3>1, Ranked
  <2>7. Rank(new, order) \in Int /\ Rank(old, order) \in Int
    BY <2>5, Ranked
  <2>8. CASE Precedes(new, old, order)
    <3>1. after[k + 1] = i + (k + 1)
      BY <2>2, <2>8 DEF Better
    <3>2. Rank(new, order) < Rank(old, order)
      BY <2>5, <2>8, Ranked
    <3>3. \A j \in i .. i + (k + 1) : ~Precedes(entries[j], new, order)
      <4>. TAKE j \in i .. i + (k + 1)
      <4>1. entries[j] \in Neighbours
        BY <1>2, <1>7, <2>1, <2>3, <2>4
      <4>2. ~(Rank(entries[j], order) < Rank(new, order))
        <5>1. CASE j \in i .. i + k
          BY <2>6, <2>7, <3>2, <5>1
        <5>2. CASE j = i + (k + 1)
          BY <2>7, <5>2
        <5> QED
          BY <2>4, <5>1, <5>2
      <4> QED
        BY <2>5, <4>1, <4>2, Ranked
    <3>4. i + (k + 1) \in i .. i + (k + 1)
      BY <1>1, <2>1
    <3> QED
      BY <2>1, <3>1, <3>3, <3>4
  <2>9. CASE ~Precedes(new, old, order)
    <3>1. after[k + 1] = after[k]
      BY <2>2, <2>9 DEF Better
    <3> QED
      BY <2>1, <2>3, <2>4, <2>5, <2>9, <3>1
  <2> QED
    BY <2>8, <2>9
<1>. HIDE DEF best
<1>10. 0 .. n \subseteq best
  BY <1>1, <1>8, <1>9, CountUp
<1>11. n \in best
  BY <1>1, <1>10
<1> QED
  BY <1>1, <1>4, <1>11 DEF best

\* A swap keeps the neighbours, and those before both places.
SwapOf(other, entries, i, j) ==
  /\ other \in Seq(Neighbours) /\ Len(other) = Len(entries) /\ ToSet(other) = ToSet(entries)
  /\ other[i] = entries[j]
  /\ \A k \in 1 .. Len(entries) : k < i => other[k] = entries[k]
  /\ \A k \in i .. Len(entries) : \E l \in i .. Len(entries) : other[k] = entries[l]

LEMMA SwapKeeps ==
  ASSUME NEW entries \in Seq(Neighbours), NEW i \in 1 .. Len(entries), NEW j \in i .. Len(entries)
  PROVE  SwapOf(Swapped(entries, i, j), entries, i, j)
<1>. DEFINE n == Len(entries)
<1>1. n \in Nat /\ entries \in [1 .. n -> Neighbours] /\ DOMAIN entries = 1 .. n
      /\ j \in 1 .. n /\ i \in i .. n
  BY LenProperties
<1>. DEFINE other == Swapped(entries, i, j)
<1>2. other = [k \in 1 .. n |-> IF k = j THEN entries[i] ELSE IF k = i THEN entries[j] ELSE entries[k]]
  BY <1>1 DEF Swapped
<1>. HIDE DEF n, other
<1>3. other \in [1 .. n -> Neighbours]
  BY <1>1, <1>2
<1>4. other \in Seq(Neighbours) /\ Len(other) = n
  BY <1>1, <1>3, SeqDef, LenProperties
<1>5. /\ other[i] = entries[j] /\ other[j] = entries[i]
      /\ \A k \in 1 .. n : k # i /\ k # j => other[k] = entries[k]
  BY <1>1, <1>2
<1>6. \A k \in 1 .. n : k < i => k # i /\ k # j
  BY <1>1
<1>7. ToSet(other) = ToSet(entries)
  <2>1. ToSet(other) = {other[k] : k \in 1 .. n} /\ ToSet(entries) = {entries[k] : k \in 1 .. n}
    BY <1>1, <1>3 DEF ToSet
  <2>2. \A k \in 1 .. n : \E l \in 1 .. n : other[k] = entries[l]
    BY <1>1, <1>5
  <2>3. \A k \in 1 .. n : \E l \in 1 .. n : entries[k] = other[l]
    BY <1>1, <1>5
  <2> QED
    BY <2>1, <2>2, <2>3
<1>8. \A k \in i .. n : \E l \in i .. n : other[k] = entries[l]
  <2>1. \A k \in i .. n : k \in 1 .. n
    BY <1>1
  <2>2. j \in i .. n
    BY DEF n
  <2> QED
    BY <1>1, <1>5, <2>1, <2>2
<1> QED
  BY <1>4, <1>5, <1>6, <1>7, <1>8 DEF SwapOf, n, other

\* Of two neighbours the first is not preceded by the second, as far as place i.
InOrder(entries, i, order) ==
  \A a \in 1 .. i, b \in 1 .. Len(entries) : a < b => ~Precedes(entries[b], entries[a], order)

\* After pass i the first i are in order, and the neighbours are the same.
SortedUpTo(other, entries, i, order) ==
  /\ other \in Seq(Neighbours) /\ Len(other) = Len(entries) /\ ToSet(other) = ToSet(entries)
  /\ InOrder(other, i, order)

LEMMA PassSorts ==
  ASSUME NEW entries, NEW order \in Orders, NEW before, NEW i \in 1 .. Len(entries),
         Len(entries) \in Nat, SortedUpTo(before, entries, i - 1, order)
  PROVE  SortedUpTo(Pass(before, i, order), entries, i, order)
<1>. DEFINE n == Len(entries)
            j == Selected(before, i, order)
            after == Pass(before, i, order)
<1>1. before \in Seq(Neighbours) /\ Len(before) = n /\ n \in Nat /\ i \in 1 .. n
  BY DEF SortedUpTo
<1>2. j \in i .. n /\ \A b \in i .. n : ~Precedes(before[b], before[j], order)
  BY <1>1, SelectedFirst
<1>3. after = Swapped(before, i, j)
  BY DEF Pass
<1>. HIDE DEF j, after
<1>4. /\ after \in Seq(Neighbours) /\ Len(after) = n /\ ToSet(after) = ToSet(before)
      /\ after[i] = before[j]
      /\ \A k \in 1 .. n : k < i => after[k] = before[k]
      /\ \A k \in i .. n : \E l \in i .. n : after[k] = before[l]
  <2>. HIDE DEF n
  <2>1. i \in 1 .. Len(before) /\ j \in i .. Len(before)
    BY <1>1, <1>2
  <2>2. SwapOf(after, before, i, j)
    BY <1>1, <1>3, <2>1, SwapKeeps
  <2> QED
    BY <1>1, <2>2 DEF SwapOf
<1>. HIDE DEF n
<1>5. \A a \in 1 .. i - 1, b \in 1 .. n : a < b => ~Precedes(before[b], before[a], order)
  BY <1>1 DEF SortedUpTo, InOrder
<1>6. ASSUME NEW a \in 1 .. i, NEW b \in 1 .. n, a < b
      PROVE  ~Precedes(after[b], after[a], order)
  <2>1. CASE a = i
    <3>1. b \in i .. n
      BY <1>1, <1>6, <2>1
    <3>2. PICK l \in i .. n : after[b] = before[l]
      BY <1>4, <3>1
    <3> QED
      BY <1>2, <1>4, <2>1, <3>2
  <2>2. CASE a # i
    <3>1. a \in 1 .. i - 1 /\ a \in 1 .. n /\ a < i
      BY <1>1, <2>2
    <3>2. CASE b < i
      BY <1>4, <1>5, <1>6, <3>1, <3>2
    <3>3. CASE ~(b < i)
      <4>1. b \in i .. n
        BY <1>1, <3>3
      <4>2. PICK l \in i .. n : after[b] = before[l]
        BY <1>4, <4>1
      <4>3. l \in 1 .. n /\ a < l
        BY <1>1, <3>1
      <4> QED
        BY <1>4, <1>5, <3>1, <4>2, <4>3
    <3> QED
      BY <3>2, <3>3
  <2> QED
    BY <2>1, <2>2
<1>7. ToSet(before) = ToSet(entries)
  BY DEF SortedUpTo
<1>8. SortedUpTo(after, entries, i, order)
  BY <1>4, <1>6, <1>7 DEF SortedUpTo, InOrder, n
<1> QED
  BY <1>8 DEF after

\* Sorting keeps the neighbours, and puts none before one that precedes it.
LEMMA SortSorts ==
  ASSUME NEW entries \in Seq(Neighbours), NEW order \in Orders
  PROVE  SortedUpTo(Sorted(entries, order), entries, Len(entries), order)
<1>. DEFINE n == Len(entries)
            Turn(f, i) == IF i = 0 THEN entries ELSE Pass(f[i - 1], i, order)
            after[i \in 0 .. n] == Turn(after, i)
            Solves(f) == f = [i \in 0 .. n |-> Turn(f, i)]
            S == {other \in Seq(Neighbours) : Len(other) = n}
<1>1. n \in Nat
  BY LenProperties
<1>2. \E f : Solves(f)
  <2>. DEFINE step == [i \in 1 .. n |-> [other \in S |-> Pass(other, i, order)]]
  <2>1. entries \in S
    OBVIOUS
  <2>2. ASSUME NEW i \in 1 .. n, NEW other \in S
        PROVE  Pass(other, i, order) \in S
    <3>1. Selected(other, i, order) \in i .. Len(other)
      BY <2>2, SelectedFirst
    <3>2. other \in Seq(Neighbours) /\ Len(other) = n
      OBVIOUS
    <3>. HIDE DEF n
    <3>3. i \in 1 .. Len(other)
      BY <3>2
    <3>4. SwapOf(Pass(other, i, order), other, i, Selected(other, i, order))
      BY <3>1, <3>2, <3>3, SwapKeeps DEF Pass
    <3> QED
      BY <3>2, <3>4 DEF SwapOf
  <2>3. Steps(step, n, S)
    BY <2>2 DEF Steps
  <2>4. \A i \in 1 .. n, other \in S : step[i][other] = Pass(other, i, order)
    OBVIOUS
  <2>5. \A i \in 0 .. n : i # 0 => i \in 1 .. n /\ i - 1 \in 0 .. n
    BY <1>1
  <2>. HIDE DEF n, S, step
  <2>6. PICK f : Follows(f, entries, step, n, S)
    BY <1>1, <2>1, <2>3, StepsFollowed
  <2>7. \A i \in 0 .. n : f[i] = Turn(f, i)
    BY <2>4, <2>5, <2>6 DEF Follows
  <2>8. Solves(f)
    BY <2>6, <2>7 DEF Follows
  <2>. HIDE DEF Solves
  <2> QED
    BY <2>8
<1>3. Sorted(entries, order) = after[n]
  BY DEF Sorted
<1>4. Solves(after)
  <2>1. after = CHOOSE f : Solves(f)
    BY DEF after
  <2>. HIDE DEF Solves, after
  <2> QED
    BY <1>2, <2>1
<1>. HIDE DEF after
<1>5. after[0] = entries /\ \A i \in 1 .. n : after[i] = Pass(after[i - 1], i, order)
  <2>1. \A i \in 0 .. n : after[i] = Turn(after, i)
    BY <1>4
  <2>2. 0 \in 0 .. n /\ \A i \in 1 .. n : i \in 0 .. n /\ i # 0
    BY <1>1
  <2> QED
    BY <2>1, <2>2
<1>. DEFINE done == {i \in 0 .. n : SortedUpTo(after[i], entries, i, order)}
<1>6. 0 \in done
  <2>1. SortedUpTo(entries, entries, 0, order)
    BY DEF SortedUpTo, InOrder
  <2> QED
    BY <1>1, <1>5, <2>1
<1>7. ASSUME NEW i \in 0 .. n, i # n, i \in done
      PROVE  i + 1 \in done
  <2>1. i + 1 \in 1 .. n /\ i + 1 \in 0 .. n /\ (i + 1) - 1 = i
    BY <1>1, <1>7
  <2>2. SortedUpTo(Pass(after[i], i + 1, order), entries, i + 1, order)
    BY <1>1, <1>7, <2>1, PassSorts
  <2> QED
    BY <1>5, <2>1, <2>2
<1>. HIDE DEF n, done
<1>8. 0 .. n \subseteq done
  BY <1>1, <1>6, <1>7, CountUp
<1>9. n \in done
  BY <1>1, <1>8
<1> QED
  BY <1>3, <1>9 DEF done, n

\* A page begins at its offset and ends at the count, the room or the last neighbour:
\* with an entry's size no larger than a page, all but the last get somewhere.
LEMMA PageTurned ==
  ASSUME NEW entries \in Seq(Neighbours), NEW order \in Orders,
         NEW from \in 0 .. Len(entries), NEW count \in Counts, NEW prefix \in KeyLengths
  PROVE  LET page == Page(entries, order, from, count, prefix)
         IN \E to \in from .. Len(entries) :
              /\ page = SubSeq(Sorted(entries, order), from + 1, to)
              /\ from < Len(entries) => from < to
              /\ (to - from) * (prefix + 5) <= MaxResults
<1>. DEFINE n == Len(entries)
            size == prefix + 5
            fitting == MaxResults \div size
            most == IF count < fitting THEN count ELSE fitting
            to == IF from + most < n THEN from + most ELSE n
<1>1. n \in Nat /\ from \in Nat /\ from <= n
  BY LenProperties
<1>2. count \in Nat /\ count >= 1 /\ size \in Nat /\ size >= 5 /\ MaxResults \in Nat
      /\ size <= MaxResults
  BY NeighbourhoodAssumption
<1>. HIDE DEF n, size
<1>3. fitting \in Nat /\ fitting >= 1 /\ fitting * size <= MaxResults
  BY <1>2
<1>. HIDE DEF fitting
<1>4. most \in 1 .. fitting
  BY <1>2, <1>3
<1>. HIDE DEF most
<1>5. to \in from .. n /\ (from < n => from < to) /\ to - from \in 0 .. most
  BY <1>1, <1>3, <1>4
<1>6. (to - from) * size <= MaxResults
  <2>. HIDE DEF to
  <2>1. to - from \in 0 .. fitting
    BY <1>3, <1>4, <1>5
  <2>. DEFINE d == to - from
  <2>. HIDE DEF d
  <2>2. d \in 0 .. fitting
    BY <2>1 DEF d
  <2>3. d * size <= fitting * size
    BY <1>2, <1>3, <2>2
  <2>4. d * size \in Nat /\ fitting * size \in Nat
    BY <1>2, <1>3, <2>2
  <2>5. d * size <= MaxResults
    BY <1>2, <1>3, <2>3, <2>4
  <2> QED
    BY <2>5 DEF d
<1>7. Page(entries, order, from, count, prefix) = SubSeq(Sorted(entries, order), from + 1, to)
  BY DEF Page, to, most, fitting, size, n
<1>. HIDE DEF to
<1> QED
  BY <1>5, <1>6, <1>7 DEF n, size

\* What a sequence begins with, and what comes after that.
LEMMA BeginningGrows ==
  ASSUME NEW S, NEW s \in Seq(S), NEW l \in 0 .. Len(s), NEW to \in l .. Len(s)
  PROVE  /\ SubSeq(s, 1, l) \in Seq(S) /\ Len(SubSeq(s, 1, l)) = l
         /\ SubSeq(s, 1, l) \o SubSeq(s, l + 1, to) = SubSeq(s, 1, to)
<1>1. Len(s) \in Nat /\ l \in Nat /\ to \in Nat /\ l <= to /\ to <= Len(s)
  BY LenProperties
<1>2. SubSeq(s, 1, l) \in Seq(S) /\ Len(SubSeq(s, 1, l)) = l
  BY <1>1, SubSeqProperties
<1>3. 1 \in 1 .. Len(s) + 1 /\ l \in 1 - 1 .. Len(s) /\ to \in l .. Len(s)
  BY <1>1
<1>4. SubSeq(s, 1, l) \o SubSeq(s, l + 1, to) = SubSeq(s, 1, to)
  BY <1>1, <1>3, ConcatAdjacentSubSeq
<1> QED
  BY <1>2, <1>4

\* As many requests as there are neighbours make up the table in the order asked for:
\* every page goes on where those before it ended, and gets somewhere.
LEMMA PagesTurned ==
  ASSUME neighbours \in Seq(Neighbours), NEW order \in Orders, NEW count \in Counts,
         NEW prefix \in KeyLengths
  PROVE  Pages(order, count, prefix) = Sorted(neighbours, order)
<1>. DEFINE n == Len(neighbours)
            sorted == Sorted(neighbours, order)
            More(before) == before \o Page(neighbours, order, Len(before), count, prefix)
            Request(f, k) == IF k = 0 THEN <<>> ELSE More(f[k - 1])
            got[k \in 0 .. n] == Request(got, k)
            Solves(f) == f = [k \in 0 .. n |-> Request(f, k)]
            Beginning(l) == SubSeq(sorted, 1, l)
            S == {Beginning(l) : l \in 0 .. n}
<1>1. n \in Nat /\ sorted \in Seq(Neighbours) /\ Len(sorted) = n
  BY LenProperties, SortSorts DEF SortedUpTo
<1>2. Beginning(0) = <<>>
  BY SubSeqEmpty
<1>3. ASSUME NEW l \in 0 .. n
      PROVE  \E to \in l .. n : More(Beginning(l)) = Beginning(to) /\ (l < n => l < to)
  <2>1. PICK to \in l .. n :
          /\ Page(neighbours, order, l, count, prefix) = SubSeq(sorted, l + 1, to)
          /\ l < n => l < to
    BY <1>3, PageTurned
  <2>. HIDE DEF n, sorted
  <2>2. l \in 0 .. Len(sorted) /\ to \in l .. Len(sorted)
    BY <1>1
  <2>3. Len(Beginning(l)) = l /\ Beginning(l) \o SubSeq(sorted, l + 1, to) = Beginning(to)
    BY <1>1, <2>2, BeginningGrows
  <2>4. More(Beginning(l)) = Beginning(to)
    BY <2>1, <2>3
  <2> QED
    BY <2>1, <2>4
<1>4. Pages(order, count, prefix) = got[n]
  BY DEF Pages
<1>. HIDE DEF sorted, More, Beginning
<1>5. \E f : Solves(f)
  <2>. DEFINE step == [k \in 1 .. n |-> [before \in S |-> More(before)]]
  <2>. HIDE DEF n
  <2>1. <<>> \in S
    BY <1>1, <1>2
  <2>2. ASSUME NEW before \in S
        PROVE  More(before) \in S
    <3>1. PICK l \in 0 .. n : before = Beginning(l)
      OBVIOUS
    <3>2. PICK to \in l .. n : More(Beginning(l)) = Beginning(to)
      BY <1>3
    <3>3. to \in 0 .. n
      BY <1>1
    <3> QED
      BY <3>1, <3>2, <3>3
  <2>3. Steps(step, n, S)
    BY <2>2 DEF Steps
  <2>4. \A k \in 1 .. n, before \in S : step[k][before] = More(before)
    OBVIOUS
  <2>5. \A k \in 0 .. n : k # 0 => k \in 1 .. n /\ k - 1 \in 0 .. n
    BY <1>1
  <2>. HIDE DEF S, step
  <2>6. PICK f : Follows(f, <<>>, step, n, S)
    BY <1>1, <2>1, <2>3, StepsFollowed
  <2>7. \A k \in 0 .. n : f[k] = Request(f, k)
    <3>1. /\ f \in [0 .. n -> S] /\ f[0] = <<>>
          /\ \A k \in 1 .. n : f[k] = step[k][f[k - 1]]
      BY <2>6 DEF Follows
    <3>. SUFFICES ASSUME NEW k \in 0 .. n PROVE f[k] = Request(f, k)
      OBVIOUS
    <3>2. CASE k = 0
      BY <3>1, <3>2
    <3>3. CASE k # 0
      <4>1. k \in 1 .. n /\ f[k - 1] \in S
        BY <2>5, <3>1, <3>3
      <4>2. f[k] = More(f[k - 1])
        BY <2>4, <3>1, <4>1
      <4> QED
        BY <3>3, <4>2
    <3> QED
      BY <3>2, <3>3
  <2>8. Solves(f)
    BY <2>6, <2>7 DEF Follows
  <2>. HIDE DEF Solves
  <2> QED
    BY <2>8
<1>6. Solves(got)
  <2>1. got = CHOOSE f : Solves(f)
    BY DEF got
  <2>. HIDE DEF Solves, got
  <2> QED
    BY <1>5, <2>1
<1>. HIDE DEF got
<1>7. got[0] = <<>> /\ \A k \in 1 .. n : got[k] = More(got[k - 1])
  <2>1. \A k \in 0 .. n : got[k] = Request(got, k)
    BY <1>6
  <2>2. 0 \in 0 .. n /\ \A k \in 1 .. n : k \in 0 .. n /\ k # 0
    BY <1>1
  <2> QED
    BY <2>1, <2>2
<1>. HIDE DEF n
<1>. DEFINE reached == {k \in 0 .. n : \E l \in k .. n : got[k] = Beginning(l)}
<1>8. 0 \in reached
  <2>1. 0 \in 0 .. n
    BY <1>1
  <2> QED
    BY <1>2, <1>7, <2>1
<1>9. ASSUME NEW k \in 0 .. n, k # n, k \in reached
      PROVE  k + 1 \in reached
  <2>1. k + 1 \in 1 .. n /\ k + 1 \in 0 .. n /\ (k + 1) - 1 = k
    BY <1>1, <1>9
  <2>2. PICK l \in k .. n : got[k] = Beginning(l)
    BY <1>9
  <2>3. l \in 0 .. n
    BY <1>1
  <2>4. PICK to \in l .. n : More(Beginning(l)) = Beginning(to) /\ (l < n => l < to)
    BY <1>3, <2>3
  <2>5. to \in k + 1 .. n
    BY <1>1, <1>9, <2>4
  <2>6. got[k + 1] = Beginning(to)
    BY <1>7, <2>1, <2>2, <2>4
  <2> QED
    BY <2>1, <2>5, <2>6
<1>. HIDE DEF reached
<1>10. 0 .. n \subseteq reached
  BY <1>1, <1>8, <1>9, CountUp
<1>11. n \in reached
  BY <1>1, <1>10
<1>12. got[n] = Beginning(n)
  <2>1. PICK l \in n .. n : got[n] = Beginning(l)
    BY <1>11 DEF reached
  <2>2. l = n
    BY <1>1
  <2> QED
    BY <2>1, <2>2
<1>13. Beginning(n) = sorted
  <2>1. SubSeq(sorted, 1, n) = sorted
    BY <1>1, SubSeqFull
  <2> QED
    BY <2>1 DEF Beginning
<1> QED
  BY <1>4, <1>12, <1>13 DEF sorted

\* Whatever table there is, and whatever a client asks for.
LEMMA PagesAreTable == neighbours \in Seq(Neighbours) => PagesMakeTable
<1>. SUFFICES ASSUME neighbours \in Seq(Neighbours),
                     NEW order \in Orders, NEW count \in Counts, NEW prefix \in KeyLengths
              PROVE  LET pages == Pages(order, count, prefix)
                     IN /\ Len(Page(neighbours, order, 0, count, prefix)) * (prefix + 5)
                             <= MaxResults
                        /\ ToSet(pages) = ToSet(neighbours) /\ Len(pages) = Len(neighbours)
                        /\ \A i \in 1 .. Len(pages) - 1 :
                             ~Precedes(pages[i + 1], pages[i], order)
  BY DEF PagesMakeTable
<1>. DEFINE n == Len(neighbours)
            pages == Pages(order, count, prefix)
            page == Page(neighbours, order, 0, count, prefix)
<1>1. n \in Nat
  BY LenProperties
<1>2. pages = Sorted(neighbours, order)
  BY PagesTurned
<1>. HIDE DEF pages
<1>3. SortedUpTo(pages, neighbours, n, order)
  BY <1>2, SortSorts
<1>4. /\ pages \in Seq(Neighbours) /\ Len(pages) = n
      /\ ToSet(pages) = ToSet(neighbours)
      /\ \A a \in 1 .. n, b \in 1 .. n : a < b => ~Precedes(pages[b], pages[a], order)
  BY <1>3 DEF SortedUpTo, InOrder
<1>5. \A i \in 1 .. n - 1 : ~Precedes(pages[i + 1], pages[i], order)
  <2>. HIDE DEF n
  <2>1. \A i \in 1 .. n - 1 : i \in 1 .. n /\ i + 1 \in 1 .. n /\ i < i + 1
    BY <1>1
  <2> QED
    BY <1>4, <2>1
<1>6. Len(page) * (prefix + 5) <= MaxResults
  <2>1. 0 \in 0 .. n
    BY <1>1
  <2>2. PICK to \in 0 .. n :
          page = SubSeq(pages, 0 + 1, to) /\ (to - 0) * (prefix + 5) <= MaxResults
    BY <1>2, <2>1, PageTurned
  <2>. HIDE DEF page, n
  <2>3. to \in 0 .. Len(pages) /\ page = SubSeq(pages, 1, to) /\ to - 0 = to
    BY <1>1, <1>4, <2>2
  <2>4. Len(pages) \in Len(pages) .. Len(pages) /\ Len(pages) \in to .. Len(pages)
    BY <1>1, <1>4, <2>3
  <2>5. Len(page) = to
    BY <1>4, <2>3, <2>4, BeginningGrows
  <2> QED
    BY <2>2, <2>3, <2>5
<1> QED
  BY <1>4, <1>5, <1>6 DEF pages

\* PagesMakeTable: for every table, the pages that encode_binary_response answers, asked
\* for one behind the other, are the neighbours in the order asked for, in no more
\* requests than there are neighbours; no page is too long for its packet.
THEOREM PagesAddUp == NeighbourhoodSpec => []PagesMakeTable
<1>1. NeighboursInv => PagesMakeTable
  BY PagesAreTable DEF NeighboursInv, NeighbourhoodTypes, NeighbourhoodTypeOK
<1> QED
  BY <1>1, NeighboursInvariant, PTL
==============================================================================
