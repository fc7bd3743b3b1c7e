# mcrs: a TLA+ verification development

mcrs is the firmware of a MeshCore LoRa repeater, in Rust without an operating
system. It hears packets, forwards some of them a little later, answers remote
administrators, and stays within a duty cycle while it does. The modules here
model the parts whose correctness rests on timing, order and limits; TLC checks
them on small instances and TLAPS proves the main results for every value of
their constants.

Paths below are relative to `src/`; `mod.rs` is `repeater/src/app/mod.rs`.

## 1. The system

`Repeater::run` (`repeater/src/repeater.rs:83-150`) polls six futures from one
`poll_fn`: the display and button, the console, the receive handler, the
battery, the periodic adverts and the radio. There is one executor and no
preemption, so **what a task does between two awaits that can suspend it is
atomic**; the mutexes of `AppContext` are never held across such an await and so
are never contended. The tasks share `AppContext`.

| part | state | operations | talks to |
|---|---|---|---|
| radio task (`mod.rs` radio_loop) | airtime budget, the packet in transmission, its timer | take the head of the queue, check the channel, transmit, retry, wait, receive | outbound queue, inbound queue, reservations, settings |
| outbound queue (`SortedOutboundChannel`) | sorted queue, `active`, a signal | `try_send`, `next`, `take_first`, `retry_current`, `complete_current` | every sender; the radio task is the only reader |
| reservations and seen packets | `pending_forwards`, `seen_packets` | `reserve_forward`, `release_forward` | handler reserves, radio task releases |
| receive handler (`handle_rx_event`) | none of its own | answer, observe, forward | inbound queue, remote sessions, neighbours, outbound queue |
| airtime budget | `available_ms`, `last_update_ms` | `ready_at_ms`, `record_transmit` | radio task, duty cycle setting |
| seen-packet cache (`protocol/src/seen_packet_cache.rs`) | a queue of signatures and times | `touch`, `contains`, `check_and_insert`, `prune` | reservations |
| forwarding rules (`mod.rs:1192-1460`) | none | `apply_repeater_rules`: flood, direct, trace; region capture, loop detection, limits | regions, settings, enqueue_forward |
| regions (`regions.rs`) | a table of entries with ids, a default id, the wildcard's flag | put, remove, allow, deny, choose the default, match a transport code, write and read lines | forwarding rules, command line, configuration |
| remote login (`remote.rs`, `acl.rs`, `cli.rs`) | two tables of four sessions, the access list | authenticate, accept a newer timestamp, use, expire, replace, revoke | handler, console, configuration |
| configuration (`config.rs`, storage) | the settings in memory and in the file | update, validate, save, load, erase | every task |
| storage at boot (`littlefs.rs`, `esp.rs`) | a flash partition, a record of earlier firmware | mount, format, migrate | configuration |
| discovery, neighbours (`discovery.rs`, `neighbours.rs`) | one pending request; a table of the nodes heard last | start, accept an answer, observe, remove, report pages | handler, console, remote sessions |
| periodic adverts (`periodic.rs`) | two schedules | look whether one is due | outbound queue |
| MQTT reporter (`mqtt.rs`, `mqtt/`) | per broker a channel, a state, a waker, a generation | connect, publish, ping, answer pings, restart | the radio task reports packets to it, the console restarts it |
| button and display (`ui.rs`) | what the task awaits, the hold timer | wake, show, follow a press | outbound queue |
| command lines (`cli.rs`, `telnet.rs`) | the line typed so far | echo, edit, submit | every command |
| firmware update (`esp.rs`, `heltec.rs`, `ota.rs`) | two flash slots, which is selected, the update in progress, a request and its generation | start, stop, serve one upload, write, select | console, bootloader |
| wall clock (`esp.rs`) | three registers that outlive a reset, or an offset | read, set | remote sessions, adverts, NTP |
| battery, nRF52840, drivers, codecs, cryptography, logging | - | - | - |

What is hard here: the radio task sleeps on three things at once (a signal, a
timer, the radio) and must miss none; a packet's right to be forwarded once is
handed from a reservation to a cache entry across several awaits; the settings
change during any await; the queue is bounded and the packet being transmitted
is outside it but may have to come back; channel checks and transmissions fail;
and the node reboots. Remote sessions live in two small tables that expire them
lazily and replace them when full, while commands sent in those sessions change
the access list they were opened under. Repeaters hear each other's copies, whose
hashes collide and which any of them may scope. A broker's task waits for four
things in one place and may be restarted in each; an upload may be stopped, cut
short, or followed by another; a press ends before it is seen, or before the screen it
wakes is drawn; power is cut in the middle of a format. `PROJECT.json` lists the hazards line by line.

## 2. The modules

| module | models |
|---|---|
| `AirtimeBudgetOps` | the methods of `AirtimeBudget` as operators on its two fields |
| `AirtimeBudget` | those methods as the radio task calls them, with a clock and duty-cycle changes |
| `SeenPacketCacheOps`, `SeenPacketCache` | the cache's methods, and the cache under any sequence of calls, next to a history of when each signature was last touched |
| `OutboundQueueOps` | `SortedOutboundChannel` as operators on its queue |
| `RadioLoop` | the radio task, the receive handler, and everything they share; composes the three `...Ops` modules above |
| `RemoteLoginOps` | the methods of `RemoteLoginTable` as operators on its two tables |
| `RemoteSessions` | `handle_remote_packet` with those tables and the access list, the console's changes of it, and the clock |
| `SessionPromise` | the abstract specification `RemoteSessions` implements: a set of live sessions, without tables or lazy expiry |
| `ConfigText` | the settings, their checks, and the text they are encoded into and decoded from |
| `ConfigStore` | the configuration in memory and in the file: commands, boots, `write_atomic` with its failures, power cuts |
| `StorePromise` | the abstract specification `ConfigStore` implements: what the `Storage` trait says of a file |
| `RegionTable` | `RegionMap` and its matching as operators on a table |
| `Regions` | the region commands, the saving of the table line by line and its reading at boot over the image's profile |
| `Forwarding` | `prepare_forward` with all its rules, on packets with paths, hops, samples and a scope |
| `Mesh` | several repeaters of `Forwarding`, who hears whom, and what each queues, sends, misses and forgets |
| `MqttSession` | one broker's task, from reading its host to its retry |
| `FirmwareUpdate` | the upload page, the flash it writes, and which slot boots |
| `Uptime` | the time the small tasks share |
| `NeighbourTable` | the neighbour table as operators; its orders and pages |
| `Neighbourhood` | the table, packets heard, and `discover.neighbours` from two consoles |
| `UserButton` | `run`, `handle_button` and the tracker of a press, `release_or_hold` |
| `PeriodicAdverts` | `Schedule` twice and the loop that asks them with `due` |
| `WallClock` | the platform's clock, register by register |
| `StorageMount` | what a boot does to have a file system, block by block |
| `LineEditors` | the console's and telnet's editing of a line, and what a terminal shows of it |
| `RadioLoop_proofs`, `RemoteSessions_proofs`, `ConfigStore_proofs`, `MqttSession_proofs` | the theorems about those modules |
| `RadioParts_proofs` | the theorems about `AirtimeBudget` and `SeenPacketCache` |
| `RadioLemmas` | lemmas about sequences, the cache's and the budget's operators, used by `RadioParts_proofs` and `RadioLoop_proofs` |
| `Mesh_proofs` | the theorems about `Mesh` and `Regions`, with lemmas about `Forwarding` and `RegionTable` |
| `Station_proofs` | the theorems about `PeriodicAdverts`, `WallClock`, `StorageMount`, `FirmwareUpdate`, `UserButton`, `LineEditors`, `Neighbourhood` and `NeighbourTable` |
| `MC*` | values of the constants for TLC, one `.cfg` per run |

`RadioLoop` has one action for each stretch of the radio task between two awaits.
`pc` is the await it is at:

    top       transmit_eligible_outbound decides about the head of the queue
    cad       radio.channel_is_busy()
    backoff   the delay after a busy channel
    transmit  radio.transmit()
    prepare   wait_for_read_or_eligible_outbound sets the wait up
    wait      the three-way wait of poll_fn
    error     the second's delay after a receive error

`top` and `prepare` follow the stretch before them with no await that suspends;
the model lets the other tasks run in between, which only adds behaviours.
`HandleRxEvent` is a whole iteration of `handler_loop`: the packet may be
answered and may be forwarded, in the code's order. What decides whether it is
(the remote and the forwarding rules) is a choice here. A reply that carries the
reboot flag (`enqueue_outbound_reboot_after_tx`) reboots once it is
transmitted; the flag of the context between request and reply is set and taken
in one iteration and needs no variable.

`RemoteSessions` is the part of the handler that answers remote packets, apart from
the queue. Storage is synchronous and no lock is held across an await that waits,
so a packet is one step from its first read of the tables to its last, and so is
a command with the change of the access list it makes. Its actions follow the
packet's kind: `Login`, `Subrequest`, `AnonymousCommand` and `IgnoreAnonymous` for
anonymous requests, `TextMessage`, `Request` and `IgnoreDirect` for those of a
session, `LocalCommand` for the console and telnet. Whether a packet decrypts is
the choice of its sender: a key's packets decrypt with its own session only. What
a command says is left open; what matters is whether its sender's privilege lets
it change anything (`RunCommand`). A session keeps the role its key had at its
login as a history (`role`), and `reply` is what the last packet was answered.
`Live` maps the tables to the promise's sessions: those that have not expired.

`ConfigStore` follows one file, `app.conf`, and the `AppConfig` in memory. A
command is one step (storage is synchronous and the configuration's lock is held
throughout), except for the save in it: each call `write_atomic` makes of the file
system is a step of its own (`RemovePending`, `WritePending`, `SyncPending`,
`RenamePending`, `SyncRename`), any of which may fail (`StorageFails`) or be the
last before `PowerOff`. `visible` is the file as it reads now, `durable` as a power
cut would leave it, and `Possible` what a power cut may leave at this moment: both,
and a torn file if unflushed data was renamed into place. The staged file needs
no variable, as every write removes it first. The file system itself is external:
the model takes of it that a rename is atomic and that `sync` makes all of it durable.

`ConfigText` keeps what the properties tell apart. A text is a function from the
settings it has a line for to their values. Settings handled alike are one:
`limit` stands for those checked before they are stored, `texts` for the long ones
stored as they are, `label` for those cut to a length; `frequency`, `power`,
`host`, `port`, `regions`, `name`, `key` and `acl` are handled each in its own way
and stand for themselves, with one broker for three. A value is `image` (the
default), `other`, or of a kind that some check refuses or some reading changes.
`regions` is the whole table with its default and `region.capture`, whose lines share
their names: `ReadAs` says which table the lines of a table read as, `Silent` which write
none, and `Unread` which no boot reads at all. Any command of the regions may make any
table here; which of them do is the subject of `Regions`.
`Decode` fills what a text does not have from the defaults of a seed drawn at this
boot, as `load_or_create` does; `name` is the setting whose default depends on it.
The running identity, which follows the stored one at a reboot, is not a variable.
`Fresh` says that random seeds do not repeat the stored key.

**Regions and forwarding.** A region's name is a model value, the one that `strip_hash`
leaves of what was typed; an entry also keeps whether it is private, since `$x` and
`#$x` are of one name and only the first is. What matters of a name is
which names begin with it (`Begins`, for `find_by_name_prefix`), what a line and a value
with it read as (`Read`, `ReadValue`: `strip_hash` takes one '#' off and '#' may stand
anywhere, so that the line of `##x` says `#x` and reads as `x`), whether a line with it
is refused (`Unreadable`, `Escaped`), and two names that collide with
other settings (`Capture`, `Default`). A word that is typed with a Unicode blank at its
beginning, which `put_region` takes off and the look-ups do not, is left out. A transport code is the region whose key made it,
or none known; codes of two regions do not collide. `RegionTable` is used twice: by `Regions`, where
commands and boots change it, and by `Forwarding`, where it decides.

`Forwarding` keeps of a packet its route, its scope, the kind and length of its
payload, the size of a hash, its path, and for a trace the hops asked for and the
samples taken. A hash is what a node's key begins with, so that two nodes may share
one. Each rule that drops or refuses is a conjunct in the order of `prepare_forward`; the reasons
are not told apart, but "drop" and "do not forward" are not either, as
`handle_rx_event` treats them alike.

In `Mesh` a copy carries the packet as it was first sent and those that sent it on
(a history). `Hear` is a copy arriving, or not; `Handle` a node's handler with the
forwarding rules and the reservations; `Transmit` its radio task, which may give
up (`GiveUp`); `Forget` the expiry of an entry of a cache. How each node queues and retries is
`RadioLoop`'s subject and is not repeated.

**The MQTT session.** `pc` is the await the task is at: the look at the
configuration, the three steps of connecting, the wait for a token, `select` (the
wait for a deadline, a pong or a packet), the write or the wait for an acknowledgement
of an operation, the answering of a WebSocket ping, the wait before a retry.
`Event`, `Control` and `Deadline` have the order `poll_fn` gives them. The broker is
external and may answer anything at any time. The generation counter is reduced to
whether it is the one read (`stale`); the waker, which `RequestRestart` takes, is a
variable, because a wake-up that is lost is the hazard. Losing the Wi-Fi drops
every future of the task, wherever it is (`WifiLost`).

**The firmware update.** The flash is a function from addresses to units; a write to
what is not erased leaves `Garbage`. `write_chunk`, `ensure_erased`, `finish` and the
selection are modelled with their buffer of a word's tail. The bootloader is
external: it boots the slot selected if its image is sound. A failure, a lost
connection, a stop or a reboot may come between any two reads of the body; an erasure
or a write that fails may have taken place in part (`Torn`). `unfinished` is a history:
the slots written to since an image in them was activated.

**The small tasks** share nothing but the clock, so `MCStation` runs one at a time
(`focus`) and their states add up. `UserButton` distinguishes the edges that a wait sees from
those that come while nothing waits; a wait keeps its edge until the task is polled, by
when the pin may have moved on. It follows `release_or_hold` from where the
code begins to poll it, which does not look at the pin first. `WallClock` has one action for each register access of a
call, between which the RTC ticks or a reset comes. `StorageMount` erases and
programs one block per action. `LineEditors` follows bytes; a terminal, which shows
what it is sent, is external, and characters are single bytes.

**Time.** `RadioLoop` counts time from the present: `Tick` moves every stored
time a millisecond into the past, and a time the code only compares with the
present stops where its value no longer matters (an eligible packet's at 0, an
expired cache entry's at `-(ttl_ticks + 1)`, the budget's last update at
`-DUTY_CYCLE_WINDOW_MS`, when the budget is full). The state space is finite
with no bound on time, so liveness can be checked without a constraint. `Tick`
is always allowed: timers may fire late, never early. `MqttSession` counts the ticks left
of a wait, and since what is bounded. The small tasks have a clock from the boot,
bounded in the runs only.

## 3. The properties

| property | says | hazard |
|---|---|---|
| `PlaceKeptForCurrent` | `active` counts the packet in transmission, and packets held never exceed the capacity: a retry always finds a place | other senders fill the queue during the transmission |
| `ReservationsMatchHeld` | a signature is reserved exactly while one packet with it is held | five ways out of the queue, each must release |
| `NoRepeatWhileRemembered` | a packet forwarded within the time to live is not queued again | the handover from reservation to cache |
| `QueueSorted` | the head is the packet eligible first | retries and delays inserted out of order |
| `WaitCoversQueue` | no wakeup is lost: the signal is pending or the timer covers the head | insertion against the reset of the signal |
| `NeverOverdrawn` | the budget is never negative | the duty cycle changes between check and charge |
| `DutyCycleBounded` | at a steady duty cycle, airtime granted is at most a full budget and the share of the elapsed time | rounding and the refill's own clock |
| `ReadyAtSuffices` | at the time `ready_at_ms` answers, the budget suffices | rounding |
| `ContainsIsExact`, `WithinCapacity` | the cache remembers exactly what was touched within the time to live and not pushed out; it never exceeds its size | prune relies on the queue's order |
| `OneSessionPerKey` | a key has one session at most, over both tables | a login with other rights leaves the old session behind |
| `SessionsFollowAcl` | every session was opened under the role its key has now | the access list changes under open sessions |
| `KeepsPromise` | every step is a step of `SessionPromise`: an expired session is never used and never costs a live one its place, the session unused for longest is replaced and only when all are taken, only an administrator's session changes anything, timestamps within a session only increase | lazy expiry, full tables, late copies |
| `AcknowledgedSurvives` | once a command was answered with success, every later boot that can read the file runs the very same configuration, but for the space at the end of a text cut to its length, which reading trims, and the regions whose lines name others | failed saves before it, the seed's defaults, sparse encoding |
| `RewriteKeeps` | a file rewritten at boot reads the same, or as what it then says, at any point of that write, unless it then has a region no boot reads | a power cut while the file of another image is rewritten |
| `CheckedSettingsLoad` | a configuration no boot could read back is due to one of three settings: the power, a port, the regions | setters and decoder disagree on what is valid |
| `KeepsPromise` (`ConfigStore`) | a power cut leaves the old or the new file, and once reported the new one | failure between the rename and its synchronisation |
| `ReservationsReleased` | every reservation is eventually released | busy channel, failing radio, exhausted budget |
| `DefaultIsChosen` | the default, kept as an id, is the region chosen by name | ids are reused or saturate |
| `RegionsReadBack` | what was saved is what a boot reads, keys and flags included, over any profile, with the exceptions named in `Unsayable` | lines share keys with other settings and leave out a '#' |
| `AllowedIsMatched` | an allowed region is found behind denied ones | the search ends too early |
| `PathIsWay` | a flood's path is the way it came; a direct packet or a trace follows what was asked, hop by hop | hashes collide |
| `SamplesAreMeasured` | a trace holds for each hop the SNR at that hop, cut to a byte | order of handlers, clamping |
| `ScopeIsRespected`, `CapturedAtFirstHop` | who sends a flood on allows its scope; only the first repeater captures, to its own default | capture comes before the rules |
| `LoopsAreBounded`, `DiesOut` | no node exceeds its threshold, and every packet comes to an end, with every cache forgotten | a flood that circulates |
| `RestartTakesEffect` | a restart is seen wherever the task waits | request between read and registration |
| `ShownIsTrue` | the status shown is that of this connection | a cancelled session ends in an error |
| `FramesAreWhole` | no frame begins behind part of another | timed-out writes |
| `AcksAreFresh` | only an answer to this ping ends its wait | late answers |
| `SilenceBounded`, `StatusStaysFresh` | the keepalive and the status are kept, up to two or three operations | a busy connection |
| `PongsAnswered`, `TakenIsWritten` (proved only) | pings are answered; what is taken is sent | three sources of one wait |
| `ChunksAddUp`, `OtherFlashKept` | the flash holds what has come, and nothing else is touched | chunks, words, sectors |
| `SelectedBoots`, `ToldIsTrue` | the selected slot boots; what a client was told is what boots | a cut or another upload |
| `NoWriteAfterStop`, `RequestsAreSeen` | a stop ends an upload at once and reaches every wait | the generation read per connection |
| `TableIsLatest`, `PagesMakeTable` | the table holds the nodes heard last; its pages together are the table | replacement, paging |
| `AnswersToTheLatest` | only an answer to the request queued last, within its minute, counts | two consoles |
| `HoldIsHeld` | no advert is sent of a press whose end came while it was followed and the hold timer ran | slow or failing display |
| `NeverTooSoon`, `NeverTooLate` | adverts keep their interval, without bursts | late polls, changed intervals |
| `ClockKeepsPace`, `ClockNeverBack` | the clock says what was set and has passed; it does not go back | resets between register writes |
| `LegacyKept`, `OnlyKnownErased` | the old configuration is always somewhere; nothing unknown is erased | power cut while formatting |
| `ShownIsRun`, `EnterOnce` | the row shown is the line that Enter runs, once | echo and edit decided apart |

`WaitCoversQueue` is stated with the slack the code has: `ready_at_ms` ignores the
time too short to have earned a millisecond, so the timer may fire up to
`100 / duty cycle` milliseconds later than the budget would allow. Other properties
are stated with the exceptions that the code has, named at each: `DefaultIsChosen` up
to the last id, `RegionsReadBack` but for `Unsayable`, `SelectedBoots` unless a later upload
began over the slot, `HoldIsHeld` but for a release before the press is followed, `ClockKeepsPace`
less the ticks that slip through. Section 6 says what they mean to a user.

Properties of one module that belong together are checked as one formula, most of them
with the module's type invariant as first part:

| checked as | parts, next to the types |
|---|---|
| `QueueKept` (`RadioLoop`) | `PlaceKeptForCurrent`, `QueueSorted` |
| `BudgetSuffices` (`AirtimeBudget`) | `NeverOverdrawn`, `ReadyAtSuffices` |
| `RemembersExactly` (`SeenPacketCache`) | `WithinCapacity`, `ContainsIsExact` |
| `TableKept` (`Regions`) | `DefaultIsChosen` |
| `CopiesAreTrue`, `ScopesAreKept` (`Mesh`) | `PathIsWay`, `SamplesAreMeasured`; `ScopeIsRespected`, `CapturedAtFirstHop` |
| `DeadlinesKept` (`MqttSession`) | `SilenceBounded`, `StatusStaysFresh` |
| `FlashIsKept`, `SelectedIsTrue` (`FirmwareUpdate`) | `ChunksAddUp`, `OtherFlashKept`; `SelectedBoots`, `ToldIsTrue` |
| `NeighboursKept` (`Neighbourhood`) | `TableIsLatest`, `AnswersToTheLatest` |
| `PressesAreFollowed` (`UserButton`) | `HoldIsHeld` |
| `LinesAreTrue` (`LineEditors`) | `ShownIsRun`, `EnterOnce` |
| `AdvertsKeepTime` (`PeriodicAdverts`) | `NeverTooSoon`, `NeverTooLate` |
| `ClockKeepsTime` (`WallClock`) | `ClockKeepsPace`, `ClockNeverBack` |
| `StorageIsSafe` (`StorageMount`) | `LegacyKept`, `OnlyKnownErased` |

The types of `RemoteSessions`, `ConfigStore` and `MqttSession` are proved and need no run.

## 4. The runs

| run | bounds | shows |
|---|---|---|
| `radio_loop` | 3 signatures (symmetric), 3 places, 2 attempts, 2 channel checks, cache of 2 entries and 2 ms, 2 inbound, forward delays 0 and 2 | the queue, the reservations and the cache agree in every interleaving |
| `radio_liveness` | 1 signature, 2 places, 2 attempts, 2 channel checks, duty cycles 50 and 100, a window of 6 ms, fairness | no lost wakeup, no overdraft, every reservation released |
| `airtime_budget` | window 12 ms, clock to 16, several duty cycles and airtimes | the token bucket |
| `seen_packets` | 4 signatures (symmetric), 3 entries, time to live 3, clock to 9 | the cache |
| `remote_sessions` | 3 keys (symmetric), 2 places in each table, timestamps 1 and 2, time to live 1, clock to 3 | the session tables and the access list, against `SessionPromise` |
| `config_store` | 2 keys, 3 names, 1 long text and 1 access rule of which one fits, at most 2 settings off their defaults, read errors, 4 initial files | the configuration and its file, against `StorePromise` |
| `config_identity` | as above, from an unused device, without read errors and with the transmit power as the only cause | a disagreement, see section 6 |
| `regions` | 9 names, one the beginning of another, one private, two that collide with other settings, two that cannot be read back, one that reads back as another; 4 places, ids to 6; a profile with a default and a denied region | the table, its lines and its matching |
| `mesh` | 4 repeaters in two rings, two sharing a hash, four configurations; floods, direct packets and traces; hashes of 1 and 2 bytes, paths of 7 bytes and 4 hops | the forwarding rules against the way a copy came |
| `mqtt` | 4 hosts (TCP, WebSocket over TLS, unparsed, none), a tick of 5 s: operations 2, keepalive 6, status 12, retry 2, channel of 2 | one broker's task against any broker |
| `firmware` | slots of two sectors of two words of two units; an image that fits, one with a wrong checksum, one that is none; lengths none, short, past a sector, exact and too long; reads up to 3 | uploads, stops, cuts, and what boots |
| `station` | neighbours: 4 keys, 2 places, 1 inbound, time to live 1, clock to 3, pages of 12 bytes, room for one entry or for two; adverts: intervals 0, 2 and 3, one changing, clock to 11; clock: 5 seconds; storage: 3 blocks; lines: 2 characters of room | the small tasks, one at a time |

Why the bounds are enough: with three signatures and three places the queue can be
full with and without a packet in transmission, a cache of two entries evicts,
a time to live of 2 expires between two copies of a packet, two attempts give
both a retry and a packet given up, and two channel checks give both a repeated
check and an exhausted one. The real sizes (16 places, 256 entries, 15 s, 5
attempts, 16 checks, 3,600,000 ms) only repeat these cases.
Three keys for two places fill a table and overflow it while roles change between
the logins; a time to live of 1 on a clock to 3 lets a session expire, be
replaced and be renewed, and two timestamps are one accepted and one refused.
Two keys are the stored one and the one drawn by a boot that fails to load it, in
both roles; three names are the two generated ones and one given; the setters
touch one setting each and the checks relate at most two (host and port, a long
text and a rule against the length limit; the six region tables are the image's, one
without lines, one that reads as itself, one as another, and those of `region put ##` and
`region put #`, the first of which reads as the second), so two settings off their defaults at a
time (`MaxOverrides`, a bound on the state space only) show every combination a
check looks at. The initial files are none, a reset one, one written by hand that
spells out a default and a generated name, and one that does not decode.
`AirtimeBudget`, `SeenPacketCache`, `RemoteSessions` and the station's tasks bound their
clocks and so stop there (`CHECK_DEADLOCK FALSE`); a packet in `Mesh` comes to its
end, and with it the run. The proofs hold for every value of these bounds. In all other runs deadlock is
checked.

The four repeaters of `mesh` are the fewest that have a ring of three, a hop that two
could take for theirs (`a` and `c` share a one-byte hash) and a link only one way.
`MaxPathBytes` and `MaxHops` let a flood without loop detection go round until
its path is full, and with two-byte hashes end in an odd byte. The configurations
differ in what the rules read: capture to an allowed, a private and a denied region,
loop detection strict, moderate and off.
Five-second ticks keep the order of the real timers (10 s for an operation, 30 s for
a ping, 10 s for a retry); the status interval of 12 instead of 180 ticks still holds several
pings and retries. Two words to a sector and two sectors to a slot let a read end
in a word, at a sector and beyond the slot. In `regions` the ids come to their end after a few commands; in the code they
are 16 bits wide. Two places of the neighbour table overflow with three
neighbours; a clock to 3 holds a request, its expiry and a late answer. A
partition of three blocks has one behind those the old record reaches into.
A clock to 11 has three rounds of the longest interval, polled late.

**Fairness.** `FairSpec` assumes weak fairness of the radio task's steps, of the
handler and of time: the executor polls every task for ever, the radio answers
every request, and clocks run. Nothing is assumed of the environment: the channel
may stay busy, every transmission may fail, packets, adverts and settings may
arrive for ever. A reboot is one of its actions. Fairness of the radio task is
over all its steps together, with the channel's answer left open:
`ChannelBusy` is the environment's and `ChannelClear` may be refused for ever
only by going through the bounded number of checks. The airtime of a packet is
at most the whole budget of a window, as it is for every setting the radio
accepts (a packet takes seconds, the smallest budget is 36 s): a larger one
would block the queue for ever, `mod.rs:1053`.

`MqttSession` assumes weak fairness of the task, which the executor polls whenever it
is woken, and of time; the broker, the network, users and packets need do nothing.
`Mesh` assumes that each handler and each radio task runs on; entries of a cache
need not expire, and copies may be missed. `FirmwareUpdate` assumes it of the task of the page only.

## 5. The proofs

All theorems hold for every value of the constants that the named assumptions of
the modules admit (`WindowAssumption`, `CacheAssumption`, `QueueAssumption`,
`RadioAssumption`, `LoginAssumption`, `SessionsAssumption`, `TextAssumption`,
`StoreAssumption`, `AdvertsAssumption`, `MqttAssumption` and the others in the modules); TLC evaluates the
assumptions in every run. Each proof finds one inductive invariant, shows that
`Init` establishes it and that every action keeps it, and derives the properties
from it; only the last step of a theorem is temporal.

**The budget** (`RadioParts_proofs`, invariant `BudgetInv`). `NeverOverdrawn` is
stated with the packet in transmission: what is left covers what is still to be
charged for it. That alone is not kept by a change of the duty cycle, which
shrinks the bucket before the charge; `CoveredByBucket` (the packet fits the
bucket of the duty cycle it was granted under) and `CountedUnderCurrent` (which
packets count against the current duty cycle) make it inductive.
`BudgetDutyCycleBounded` needs `Conserved`: airtime charged and airtime left
together are at most a full bucket and what the refills since the change earned,
an inequality that rounding down only widens. `BudgetReadyAtSuffices` is
arithmetic of the rounded-up wait, from the types, the ordered clocks and a budget
that is not negative.

**The cache** (`RadioParts_proofs`, invariant `CacheInv`). The queue *tells* the
history of the touches (`Tells`): no signature has two entries, entries are in
the order of their times, each has the time of the last touch of its signature
and behind it stand exactly the signatures touched since. So the entries behind
one count the touches after it, eviction at the front takes what is least recent,
and pruning at the front leaves nothing expired; with `Complete` (what is to be
remembered has an entry) both directions of `ContainsIsExact` follow. The lemmas
about `Prune` and `Touch` are in `RadioLemmas`.

**The radio loop** (`RadioLoop_proofs`, invariant `LoopInv`). Three parts:

- `Holding`: the queue is sorted, queue and packet in transmission together fit
  the capacity, and the signatures reserved are those of the packets held, each
  once (`Matches`). It is about the queue *and* the packet taken from it, as
  neither alone is kept: taking the head, putting it back later in the queue and
  finishing it move a packet between the two. One lemma per operation of
  `SortedOutboundChannel` (`HoldingSend`, `HoldingTake`, `HoldingRetry`,
  `HoldingFinish`, `HoldingDrop`), over what an insertion into a sequence does
  to the signatures in it.
- `Remembers`: for every signature that was on the air recently the cache has an
  entry as old as that, and behind it only signatures that were on the air
  since. `Prune` and `Touch` keep it (`RemembersPrune`, `RemembersTouch`).
- `NoneRecent`: nothing recent is reserved. A new reservation is made only if the
  cache denies the signature, which by `Remembers` means it is not recent; a
  transmission gives the reservation up in the step that makes it recent.

From these follow `RadioTypes`, `PlaceIsKept`, `ReservationsAreExact`,
`QueueStaysSorted` and `NoRepeat`.

`RadioInv` adds two parts, for `LoopNeverOverdrawn` and `NoWakeupLost`. `BudgetCovers`:
from the moment a packet is taken to its charge, the budget, at the duty cycle *read*
with it, has its airtime. The duty cycle may change meanwhile; what makes the
invariant inductive is that neither of the two things that take from a budget, a
charge and an update at another duty cycle, is done by the task in between, and that
the airtime fits the bucket of the duty cycle read. `TimerCovers` is the invariant
behind `WaitCoversQueue`: seen from the present, the timer ends no later than the head's
time or the time its airtime will be earned (`EarnedBy`), an expression that a tick
lowers by exactly one, where `ready_at_ms` itself, asked again at a later time, rounds
anew. The slack in the property is the difference of the two.

**The remote sessions** (`RemoteSessions_proofs`, invariant `SessionsInv`). `Placed`:
no place holds two sessions and no key has two over both tables; without it
`find_login_mut`, which takes the first, would not be the only one. `Follows`: a
session's role is its key's, so removing the changed keys is enough. `Seen`: no
session was used after the present. One lemma per table operation; from these
follow `SessionTypes`, `OneSession` and `AclIsFollowed`.

`KeepsSessionPromise` is the refinement. `Live` is unchanged by pruning
(`LivePruned`), replaces one session when it is used (`LiveUsed`), and loses the
changed keys (`LiveConfigured`). The hard step is a login (`LiveAuthenticated`): the
promise counts sessions, the table looks for a place, and the two agree because
places and live sessions are in bijection once the table is pruned
(`PlacesTaken`). Then every action is an action of the promise
(`PromisedSteps`).

**The configuration** (`ConfigStore_proofs`, invariant `StoreInv`). The algebra
comes first: `DecodeEncode` shows that decoding undoes encoding, up to trimmed
space and regions read as others, over the defaults of *any* seed; the name is the crux (`NameReadsBack`), and
needs `TextAssumption` to exclude an image whose profile names every device by the
name one key would generate, which `decode_config_layer` could not tell from a
generated one. TLC runs without a profile name, the proof covers both. `WriteInv`
says where the file stands at each stage of a write, a failed one before it
included: in particular whatever is visible is flushed. `ConfigInv` ties the text
on its way to the configuration in memory, `RewriteInv` a boot's rewriting to what
it loaded, `CheckedInv` what the setters let through. From these follow
`StoreTypes`, `AcknowledgedStays`, `RewriteIsSafe` and `ThreeSettingsOnly`, for any
tables and any `ReadAs` between them: what is read need not read as itself again, which
is why a rewriting at boot has two outcomes and `RewriteKeeps` a condition;
`StoreKeepsPromise` is the refinement, where a write's stages are steps of
`StorePromise` as `Possible` shrinks and grows, and its end is the one step that
answers the request.

**The regions** (`Mesh_proofs`, invariants `RegionsInv` and `SavedInv`). `Sound` is a table
that has no name twice, keeps within its places, and as long as the last id has not been
given out has no id twice and none beyond the next. The default is kept as an id, so
`TableIsKept` needs it for every table a boot passes through on its way: one lemma per
operation of `RegionMap`. `AllowedMatched` follows from the types alone, since the search ends
at the first of what it could end at.
`SavedReadBack` is about a file read line by line, each line changing the table that the
next is read over. `ReadsOn` says, in the middle of it, that whatever was saved is in the
table already or has its line in what is left; that no line puts in what was not saved,
so that the table never overflows on the way to one that fitted; and that the line of the
default is first, when the table is still the profile's, which it must be since the
default is looked up among what is there. That the lines are those `RegionLines` writes is
an induction over the table: `LinesRecursion` shows that the recursion has a solution and
`LinesFollow` that the solution says what it should, by a lemma about the least number
for which something fails (`CountUp`), stated of a set and not of an operator.

**The mesh** (`Mesh_proofs`, invariant `MeshInv`). Each copy, on the air or in a queue,
*came* by its history (`Came`): `TellsWay` (each hash is that of the node that sent it on,
at its place), `TellsSnr` (each sample is what the next measured of it), `InScope` (all that
sent it on allow its region, and if that was not in the packet first sent, the first
repeater put it there), and it fits its frame. No repeater knows the history; the proof
is that every rule of `prepare_forward` extends what the packet says by just the node that
applies it. A rule that counts equal hashes on the path counts at least the times its own
node has sent it on, which is `LoopsBounded`: an injection from one into the other.

**The adverts** (`Station_proofs`, invariant `AdvertsInv`). Both properties relate the
interval to the last advert, the code relates it to the time a schedule started.
`CountsFrom` ties the two: a schedule starts from an advert, or at most a round
after a change of the interval. `LookedAt` says what the last look left: nothing due,
or a change not yet seen; `RoundsInTime` bounds the time between two looks. Then
`AdvertsInTime` is a sum of the three, and `AdvertsKeepInterval` that a due schedule
started no earlier than the last advert.

**The storage** (invariant `MountInv`). `EraseIsSafe`: what is being erased was never
written, or its configuration is in RAM; `InRamWhileFormatting`: it is in RAM at no other
time. A boot that finds a record with some blocks erased is the step that needs both.

**The clock** (invariant `ClockInv`). Registers are written one by one, the checksum
first (`SumIsFirst`), so that a time half written is valid only by the whole's
checksum. `RegistersKeepTime` says, for every stage of a call, that the registers, or
once they are half written the call, keep the time that is due; `OffsetKeepsTime` the same of the
offset; `ShownIsPast` that no answer was later than that. The last needs `CallInTime`: a
reading that takes less than a second.

**The firmware update** (`Station_proofs`, invariant `OtaInv`). `InProgress` says how far an upload is: what has
come is flushed or in the tail, what is flushed is in the flash, what is erased ahead is
erased, and all of that lies in the slot that does not run. The proof is in
the arithmetic of whole words (`Flushable`) and of the end of a sector, which never passes the
slot's because a slot is whole sectors (`SectorsFit`); `WriteFacts` says what the flash holds
after a write at any place. Once a slot is written to it is `unfinished`, until `finish`
has verified and selected it: without that `SelectedTrue` is not inductive, as a second upload goes over a
slot already selected. `StopsWriting` is an action property: every step that writes begins
with the look at the generation.

**The button, the lines and the neighbours.** `ButtonInv` relates the tracker to the pin: while a
press is followed, there has been no release or its edge has been seen (`PressHeld`), whatever the
pin was when that began. `LinesInv` says which bytes of a key have not been read (`OtherIsRead`,
`EnterIsRead`), so that each is one of few; row and line then change alike, by lemmas about
the last character of a concatenation. `NeighboursInv` has, next to the table, that events wait in the
order they were received (`HeardInOrder`) and that the pending discovery is that of the request
queued last, or over for all that waits (`DiscoveryIsLast`). `PagesAddUp`: a selection
sort sorts (`SelectedFirst`, `PassSorts`, `SortSorts`), each page begins where those before
ended and gets somewhere if one entry fits a page (`PageTurned`), so that as many requests
as there are neighbours have them all (`PagesTurned`). `StepsFollowed` is what the three
recursions have in common: steps within a set can be taken one after another.

**The MQTT session** (`MqttSession_proofs`, invariant `MqttInv`). `WakesForRestart`
strengthens `RestartTakesEffect` to an equality: wherever a restart may find the task its
waker is kept, and taken only by a restart. `InTime` is the arithmetic: for each place
the task may be at, how long the broker has heard nothing and how old the status is,
in terms of what is left of the wait's timer; the bounds of `SilenceBounded` and
`StatusStaysFresh` follow at every place. `AnswersInOrder` says what of a broker's answers can be
believed where, `OneMarked` follows one packet through the channel. One lemma for each action.

**Model-checked only.** Every invariant and action property that a run checks has a
theorem. What remains with TLC is liveness (`ReservationsReleased`, `DiesOut`, `PongsAnswered`,
`RequestsAreSeen`), since the prover handles neither fairness nor ENABLED; and that what
is reported in section 6 as a disagreement is reached, which a run shows and a theorem cannot.

## 6. Where code and documents disagree

- `config_identity`: CONFIG.md:55 says that a device's key is generated on the first
  boot and stored, `platform/mod.rs:36` that a new one is used "when storage holds
  none". `load_or_create` replaces a stored identity, with all settings, whenever
  the file cannot be read or decoded, and commands bring that about: `set tx` stores
  a power before it refuses it (`config.rs:587-590`) and the next command saves it.
  Two more settings do the same (`CheckedSettingsLoad`, and `ThreeSettingsOnly`: no
  other does). A broker's port 0 is accepted (`config.rs:371`) and refused at boot. Of
  the regions, `region put #` is accepted (`regions.rs:423-442`), saved as
  `region.=true` (`regions.rs:319-323`) and refused at boot as an empty name
  (`config.rs:1061-1065`); the default's name may hold a backslash and is written
  unescaped (`regions.rs:291`), or be one that the name of a region of the image begins
  with (`regions.rs:112-129`). So does any read error at boot (`config.rs:888`).

Met on the way, stated as what the properties allow rather than as runs of their own:

- README.md:18-19 promises a rolling budget and accurate airtime. The budget is a
  token bucket that starts full, so an hour can carry a full budget and the refill
  until its end (`DutyCycleBounded` states what holds). `set radio` changes
  `config.radio()` at once and the radio only after a reboot (`cli.rs:1305-1318`); in
  between packets are charged an airtime they do not take.
- "OK - config reset, rebooting" (`cli.rs:798`) leaves the configuration in memory: a
  setting saved by another session before the reboot writes it back.
- Regions: `region put eng` and `region default eng` store a default by the beginning
  of a name that boot looks up whole (`regions.rs:112-129`, `362-370`); a region named
  `default` is not written, one named `capture` reads back as `region.capture`, one
  named `#` makes a line that cannot be read. `strip_hash` takes one '#' off a name as it
  is written and another as it is read (`regions.rs:444-446`), and '#' may stand anywhere
  in it: `##x` comes back as `x`, with another key, so that a boot loses a '#' of every
  name that has two (`region put ##` is `#` after the first boot, whose line the second
  refuses with the whole file: the condition of `RewriteKeeps`); `#$x` is usable until the
  boot and private after it (`regions.rs:405-416`); a blank behind the '#' is lost. The
  last id is given again (`regions.rs:69-71`); a private region that is allowed ends the
  search for those behind it (`regions.rs:210`). `Unsayable`, `DefaultIsChosen` and
  `AllowedIsMatched` name them.
- A repeater that hears its own flood back forwards it again once its cache has
  forgotten it and its hash is below its threshold: `LoopsAreBounded` is the bound.
- README.md:39 says the clock is synchronised every hour, `NTP_REFRESH_SECONDS` is six
  (`heltec.rs:37`). README.md:248 says the interval of zero-hop adverts cannot be
  configured; it can.
- README.md:41 sends an advert for a press that is held. A screen that is awake is
  drawn before the release is followed (`ui.rs:51-56`): a press released during that
  is taken for one held. So is, from a dark screen and without a display too, a press
  that ends before its task is polled: the wait keeps the falling edge while flash writes
  or ciphers hold the executor up, and `release_or_hold` then waits for a rising edge
  that has been (`ui.rs:127-148`), until its two seconds are over. A press in the moment
  the screen goes dark is not seen.
- A discovery's minute begins with the command, not with its transmission, which the
  queue may delay.
- `set mqtt.*` takes effect with the next session, not by a restart; a broker that is
  disabled keeps up to eight packets in its channel, sent when it is enabled again.
- A second upload before the reboot writes over the slot selected, which is then not
  bootable until it ends; the slot that runs still boots (`SelectedBoots`).
- A power cut while a partition is first formatted, or while the record of earlier
  firmware is moved, leaves what `MayFormat` takes for a damaged file system: it is
  never formatted again, and every boot runs from RAM with a new identity.
- The retained clock loses a second whenever the RTC ticks between its two readings
  (`ClockKeepsPace` counts them); a reset between the register writes loses the time, as
  does every reset on chips without the registers.
- A console line of more than `LINE_BUFFER_LEN` bytes is given up, and what is typed after
  it up to Enter is run as a command of its own (`cli.rs:105-108`); telnet ignores what
  does not fit instead. Both take one byte off the line for a backspace, whatever is shown
  (`cli.rs:95-97`, `telnet.rs:92-96`): of a character of several bytes the rest stays, the
  line is no UTF-8 and Enter runs it as an empty one. `LineEditors` has characters of one
  byte only.

## 7. What is not modelled, and what is left

Not worth modelling, or out of reach: cryptography and identity (arithmetic of
keys), drivers, board bring-up and display drawing (register access), the
battery loop (one stored value), the nRF52840 board, logging, the parsing and
wording of commands, the encoding of packets, JSON, TLS and the token of a broker.
The answer to another node's discovery request changes nothing but the queue.

What could follow:

1. An abstract specification of forwarding, "a packet is queued at most once while it
   is remembered", refined by `RadioLoop` and by `Mesh`.
2. The reboot promised in a reply, over a queue that may refuse it or give it up.
