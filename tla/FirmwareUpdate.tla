----------------------------- MODULE FirmwareUpdate ----------------------------
(***************************************************************************)
(* Firmware updates of the Heltec boards: the upload page that `ota start` *)
(* asks for and `ota stop` ends, one connection at a time, and the flash   *)
(* it writes: two app slots, one of them running, with the configuration's *)
(* storage behind them.  A power cut, a lost connection, lost Wi-Fi, a     *)
(* flash error or a stop may come between any two reads, and, which the    *)
(* code has no await for, between a connection and the next wait for one.  *)
(***************************************************************************)
EXTENDS Integers, Sequences

CONSTANTS
  Images, Uploads,   \* images, and those that may be uploaded
  Needed,            \* Needed[image]: units up to its checksum
  HasMagic,          \* images that begin with ESP_IMAGE_MAGIC
  Sound,             \* images whose segments and checksum are right
  First,             \* the image in both slots at first
  Lens,              \* Content-Length of an upload
  Word, Sector, Capacity,   \* units written and erased at once, and of a slot
  MaxRead            \* units that one read returns at most

ASSUME FirmwareAssumption ==
  /\ First \in Sound /\ Sound \subseteq HasMagic /\ HasMagic \subseteq Images
  /\ Uploads \subseteq Images
  /\ Needed \in [Images -> Nat \ {0}] /\ Needed[First] <= Capacity
  /\ Lens \subseteq Nat
  /\ Word \in Nat \ {0} /\ Sector \in Nat \ {0} /\ Capacity \in Nat /\ MaxRead \in Nat
  /\ Sector % Word = 0 /\ Capacity % Sector = 0

Slots == {0, 1}
Base(slot) == slot * Capacity
Other(slot) == 1 - slot
Addresses == 0 .. 2 * Capacity + Sector - 1

\* A unit of flash: of an image, of the storage, erased, or written over another.
Erased == <<"erased">>
Garbage == <<"garbage">>
Unit(image, i) == <<"unit", image, i>>
Stored == <<"stored">>

VARIABLES
  flash,      \* flash[address]
  selected,   \* the slot that the next boot is to run
  running,    \* the slot that runs
  station,    \* whether the Wi-Fi is a station's, or the access point of the page
  requested,  \* ota_requested
  stale,      \* ota_generation is not the one that the wait or connection has read
  waker,      \* ota_waker: "none", "registered", or "woken" once it is taken
  pc,         \* where the task that serves the page is
  upload,     \* the connection's upload
  update,     \* OtaUpdate
  reply,      \* what the connection is to answer
  told,       \* history: the image a client was last told is written, and since
              \* when no other upload has begun
  unfinished  \* history: slots written to since an image in them was activated

serving == <<requested, stale, waker>>
slots == <<selected, running, station>>
history == <<told, unfinished>>
otaVars == <<flash, slots, serving, pc, upload, update, reply, history>>

NoUpload == [image |-> First, len |-> 0, received |-> 0]
NoUpdate == [slot |-> 0, written |-> 0, flushed |-> 0, erased |-> 0, tail |-> <<>>]
NotTold == <<>>

\* What the bootloader accepts, and verify_image but for its length.
Holds(cells, slot, image) ==
  /\ image \in Sound
  /\ \A i \in 1 .. Needed[image] :
       cells[Base(slot) + i - 1] = Unit(image, i)
Boots(cells, slot) == \E image \in Images : Needed[image] <= Capacity /\ Holds(cells, slot, image)

OtaInit ==
  /\ flash = [a \in Addresses |->
       IF a >= 2 * Capacity THEN Stored
       ELSE IF a % Capacity < Needed[First] THEN Unit(First, (a % Capacity) + 1) ELSE Erased]
  /\ selected = 0 /\ running = 0 /\ station \in BOOLEAN
  /\ requested = FALSE /\ stale = FALSE /\ waker = "none"
  /\ pc = "down" /\ upload = NoUpload /\ update = NoUpdate /\ reply = "none"
  /\ told = NotTold /\ unfinished = {}

-------------------------------------------------------------------------------
(* The platform: ota start and stop *)

\* Starting again does not restart the page.
RequestOta(wanted) ==
  /\ requested # wanted
  /\ requested' = wanted
  /\ stale' = (pc # "down")
  /\ waker' = IF waker = "registered" THEN "woken" ELSE waker

StartOta ==
  /\ RequestOta(TRUE)
  /\ UNCHANGED <<flash, slots, pc, upload, update, reply, history>>

StopOta ==
  /\ RequestOta(FALSE)
  /\ UNCHANGED <<flash, slots, pc, upload, update, reply, history>>

-------------------------------------------------------------------------------
(* Serving *)

\* The generation is read and the waker left behind for the wait that follows.
Await(place) == pc' = place /\ stale' = FALSE /\ waker' = "registered"

\* Nothing is left of a connection: the update is dropped as far as it got.
Closed == upload' = NoUpload /\ update' = NoUpdate /\ reply' = "none"

\* wait_for_ota_requested_idle
WaitRequested ==
  /\ pc = "idle" /\ ~requested
  /\ Await("waiting")
  /\ UNCHANGED <<flash, slots, requested, upload, update, reply, history>>

SeeRequest ==
  /\ pc = "waiting" /\ waker = "woken"
  /\ pc' = "idle"
  /\ UNCHANGED <<flash, slots, serving, upload, update, reply, history>>

\* Of the two modes, the access point's adapter is first to be started.
Serve ==
  /\ pc = "idle" /\ requested
  /\ pc' = IF station THEN "listening" ELSE "starting"
  /\ UNCHANGED <<flash, slots, serving, upload, update, reply, history>>

AdapterUp ==
  /\ pc = "starting" /\ pc' = "listening"
  /\ UNCHANGED <<flash, slots, serving, upload, update, reply, history>>

\* The adapter or its DHCP server fails: the request is withdrawn.
AdapterFails ==
  /\ pc = "starting" /\ pc' = "idle"
  /\ (RequestOta(FALSE) \/ (~requested /\ UNCHANGED serving))
  /\ UNCHANGED <<flash, slots, upload, update, reply, history>>

\* serve_ota_session, once more while the page is wanted.
Listen ==
  /\ pc = "listening"
  /\ IF requested THEN Await("accepting") ELSE pc' = "idle" /\ UNCHANGED <<stale, waker>>
  /\ UNCHANGED <<flash, slots, requested, upload, update, reply, history>>

Connections == {"accepting", "header", "body", "replying"}

\* The connection or the wait for one is given up.
GiveUp ==
  /\ pc' = "listening" /\ Closed
  /\ UNCHANGED <<flash, slots, serving, history>>

\* Each poll first looks for a change of the request.
Stopped ==
  /\ pc \in Connections /\ waker = "woken" /\ (stale \/ ~requested)
  /\ GiveUp

\* The request is looked at, and not for how often it changed.
PolledRequested == requested

\* A poll goes on with what it serves.
Polled == requested /\ ~stale

\* handle_ota_connection leaves no waker behind.
AcceptQuietly ==
  /\ pc = "accepting" /\ Polled
  /\ pc' = "header" /\ stale' = FALSE /\ waker' = "none"
  /\ UNCHANGED <<flash, slots, requested, upload, update, reply, history>>

Accept ==
  /\ pc = "accepting" /\ Polled
  /\ Await("header")
  /\ UNCHANGED <<flash, slots, requested, upload, update, reply, history>>

\* The peer is gone, the header is too long, or another is no HTTP.
ConnectionFails ==
  /\ pc \in Connections /\ Polled
  /\ GiveUp

\* Any request but an upload is answered at once.
ReadRequest ==
  /\ pc = "header" /\ Polled
  /\ \E answer \in {"page", "status", "not found", "rebooting"} : reply' = answer
  /\ pc' = "replying"
  /\ UNCHANGED <<flash, slots, serving, upload, update, history>>

-------------------------------------------------------------------------------
(* OtaUpdate *)

\* next_partition: never the slot that runs.
NextSlot == Other(running)

\* How far an erasure reaches that must cover `end`: whole sectors.
ErasedTo(u, end) ==
  IF end <= u.erased THEN u.erased ELSE ((end + Sector - 1) \div Sector) * Sector

\* Every write begins with its own sector.
AfterEraseAgain(u, end) ==
  [a \in Addresses |->
     IF a \in Base(u.slot) + (u.flushed \div Sector) * Sector .. Base(u.slot) + ErasedTo(u, end) - 1
     THEN Erased ELSE flash[a]]

\* ensure_erased
AfterErase(u, end) ==
  [a \in Addresses |->
     IF a \in Base(u.slot) + u.erased .. Base(u.slot) + ErasedTo(u, end) - 1 THEN Erased
     ELSE flash[a]]

\* write_ota_aligned: only erased units take what is written.
AfterWrite(cells, u, data) ==
  LET start == Base(u.slot) + u.flushed
  IN [a \in Addresses |->
        IF a \in start .. start + Len(data) - 1
        THEN IF data[a - start + 1] = Erased THEN cells[a]
             ELSE IF cells[a] = Erased THEN data[a - start + 1] ELSE Garbage
        ELSE cells[a]]

\* What is written next is erased first where it is not, and may fail anywhere.
Flushed(u, data) == AfterWrite(AfterErase(u, u.flushed + Len(data)), u, data)
Torn(u, data) ==
  {AfterErase(u, end) : end \in u.flushed .. u.flushed + Len(data)}
    \cup {AfterWrite(AfterErase(u, u.flushed + Len(data)), u, SubSeq(data, 1, n * Word)) :
            n \in 1 .. Len(data) \div Word}

\* OtaUpdate::write of the next `count` units of the upload: whole words are
\* flushed, and the rest kept.
Pending(u, up, count) ==
  u.tail \o [i \in 1 .. count |-> Unit(up.image, up.received + i)]
Flushable(pending) == (Len(pending) \div Word) * Word
Whole(pending) == SubSeq(pending, 1, Flushable(pending))
Written(u, up, count) ==
  LET pending == Pending(u, up, count) n == Flushable(pending)
  IN [u EXCEPT !.written = @ + count, !.flushed = @ + n,
               !.erased = ErasedTo(u, u.flushed + n),
               !.tail = SubSeq(pending, n + 1, Len(pending))]

Accepts(u, up, count) ==
  /\ u.written = 0 => up.image \in HasMagic
  /\ u.written + count <= Capacity

\* A write of no data does nothing; one that is not accepted, or meets an error of
\* the flash after it has erased or written some, ends the update.
Reply(answer) == pc' = "replying" /\ reply' = answer /\ update' = NoUpdate

Write(u, up, count) ==
  \/ /\ count > 0 => Accepts(u, up, count)
     /\ update' = Written(u, up, count)
     /\ flash' = Flushed(u, Whole(Pending(u, up, count)))
     /\ unfinished' = IF update'.erased > 0 THEN unfinished \cup {u.slot} ELSE unfinished
     /\ pc' = "body" /\ reply' = "none"
  \/ /\ count > 0 /\ ~Accepts(u, up, count)
     /\ Reply("error") /\ UNCHANGED <<flash, unfinished>>
  \/ /\ count > 0 /\ Accepts(u, up, count)
     /\ flash' \in Torn(u, Whole(Pending(u, up, count)))
     /\ unfinished' = unfinished \cup {u.slot}
     /\ Reply("error")

-------------------------------------------------------------------------------
(* receive_update *)

\* begin_ota_update, and what of the body came with the header.
BeginUpdate ==
  /\ pc = "header" /\ Polled
  /\ \E image \in Uploads, len \in Lens : \E first \in 0 .. (IF len < MaxRead THEN len ELSE MaxRead) :
       LET up == [image |-> image, len |-> len, received |-> 0]
       IN /\ upload' = [up EXCEPT !.received = first]
          /\ Write([NoUpdate EXCEPT !.slot = NextSlot], up, first)
  /\ told' = NotTold
  /\ UNCHANGED <<slots, serving>>

ReadBody ==
  /\ pc = "body" /\ Polled /\ upload.received < upload.len
  /\ \E count \in 1 .. MaxRead :
       /\ upload.received + count <= upload.len
       /\ upload' = [upload EXCEPT !.received = @ + count]
       /\ Write(update, upload, count)
  /\ UNCHANGED <<slots, serving, told>>

\* The peer closes before all of Content-Length came.
BodyEnds ==
  /\ pc = "body" /\ Polled /\ upload.received < upload.len
  /\ Reply("error")
  /\ UNCHANGED <<flash, slots, serving, upload, history>>

\* finish: the tail is padded to a word, and the image is read back.
Padded(u) == u.tail \o [i \in 1 .. (Word - Len(u.tail)) % Word |-> Erased]
Finished(u) == Flushed(u, Padded(u))

\* The checksum is not compared.
VerifiesLength(cells, u, image) == Needed[image] <= u.written

Verifies(cells, u, image) == Needed[image] <= u.written /\ Holds(cells, u.slot, image)

\* finish_ota_update: verified, the slot is selected, and that is read back; the
\* flash may fail anywhere.
FinishUpdate ==
  /\ pc = "body" /\ Polled /\ upload.received = upload.len
  /\ LET fits == update.tail # <<>> => update.flushed + Word <= Capacity
         verified == /\ update.written > 0 /\ fits
                     /\ Verifies(Finished(update), update, upload.image)
     IN \/ /\ verified /\ flash' = Finished(update)
           /\ selected' = update.slot /\ unfinished' = unfinished \ {update.slot}
           /\ (Reply("written") \/ Reply("error"))
        \/ /\ IF update.written > 0 /\ fits
              THEN /\ flash' \in {Finished(update)} \cup Torn(update, Padded(update))
                   /\ unfinished' = unfinished \cup {update.slot}
              ELSE UNCHANGED <<flash, unfinished>>
           /\ Reply("error") /\ UNCHANGED selected
  /\ UNCHANGED <<running, station, serving, upload, told>>

\* The client has its answer; `POST /reboot` is answered first.
Boot == IF Boots(flash, selected) THEN selected ELSE Other(selected)

Restarted ==
  /\ running' = Boot /\ station' \in BOOLEAN
  /\ requested' = FALSE /\ stale' = FALSE /\ waker' = "none"
  /\ pc' = "down" /\ Closed
  /\ UNCHANGED <<flash, selected, unfinished>>

Answer ==
  /\ pc = "replying" /\ Polled
  /\ told' = (IF reply = "written" THEN <<upload.image, NextSlot>> ELSE told)
  /\ IF reply = "rebooting" THEN Restarted
     ELSE pc' = "listening" /\ Closed /\ UNCHANGED <<flash, slots, serving, unfinished>>

-------------------------------------------------------------------------------
(* The board *)

WifiUp ==
  /\ pc = "down"
  /\ pc' = "idle"
  /\ UNCHANGED <<flash, slots, serving, upload, update, reply, history>>

\* The futures of the page are dropped with the others of the network.
WifiLost ==
  /\ station /\ pc # "down"
  /\ pc' = "down" /\ stale' = FALSE /\ Closed
  /\ UNCHANGED <<flash, slots, requested, waker, history>>

\* `reboot`, a panic, or a loss of power.
Restart == Restarted /\ UNCHANGED told

\* What the task does once it is polled.
Task == WaitRequested \/ SeeRequest \/ Serve \/ Listen \/ Stopped

OtaNext ==
  \/ StartOta \/ StopOta \/ Task \/ AdapterUp \/ AdapterFails \/ Accept \/ ConnectionFails
  \/ ReadRequest \/ BeginUpdate \/ ReadBody \/ BodyEnds \/ FinishUpdate \/ Answer
  \/ WifiUp \/ WifiLost \/ Restart

\* Peers, Wi-Fi and users need do nothing.
OtaSpec == OtaInit /\ [][OtaNext]_otaVars /\ WF_otaVars(Task)

-------------------------------------------------------------------------------
(* Properties *)

\* The types of the variables: no erasure leaves the slot.
OtaTypeOK ==
  /\ DOMAIN flash = Addresses
  /\ selected \in Slots /\ running \in Slots /\ station \in BOOLEAN
  /\ requested \in BOOLEAN /\ stale \in BOOLEAN /\ waker \in {"none", "registered", "woken"}
  /\ pc \in {"down", "idle", "waiting", "starting", "listening"} \cup Connections
  /\ upload.image \in Images /\ upload.received \in 0 .. upload.len
  /\ update.slot \in Slots /\ Len(update.tail) < Word
  /\ update.flushed <= update.erased /\ update.erased <= Capacity
  /\ unfinished \subseteq Slots

\* However the body is cut into reads, what is in the flash and what waits for a
\* whole word make up what has come.
ChunksAddUp ==
  pc = "body" =>
    /\ update.written = upload.received
    /\ update.flushed + Len(update.tail) = update.written
    /\ \A i \in 1 .. update.flushed : flash[Base(update.slot) + i - 1] = Unit(upload.image, i)
    /\ \A i \in DOMAIN update.tail : update.tail[i] = Unit(upload.image, update.flushed + i)

\* No upload, whatever its length, touches the storage behind the slots or the slot
\* that runs.
OtherFlashKept ==
  /\ \A a \in 2 * Capacity .. 2 * Capacity + Sector - 1 : flash[a] = Stored
  /\ Boots(flash, running)

\* The slot selected for the next boot holds a whole image that the bootloader will
\* accept, unless another upload to that slot was begun after it had been activated
\* and before a reboot: then the slot that runs still boots.
SelectedBoots == selected \in unfinished \/ Boots(flash, selected)

\* "OK - wrote ... bytes; reboot to apply": until another upload begins, it is the
\* image uploaded that the next boot runs.
ToldIsTrue ==
  told # NotTold => selected = told[2] /\ Holds(flash, told[2], told[1])

\* Once the page is no longer wanted, or was not for a moment, nothing more of an
\* upload then in progress is written.
NoWriteAfterStop == [][stale \/ ~requested => UNCHANGED <<flash, selected>>]_otaVars

\* A stop reaches the task in whatever wait for a peer it is, and a start the task
\* that waits for one.
RequestsAreSeen ==
  /\ ~requested ~> requested \/ pc \notin Connections
  /\ requested ~> ~requested \/ pc \notin {"idle", "waiting"}

\* The flash holds what it should: what has come of the upload, and everything else
\* as it was.
FlashIsKept == OtaTypeOK /\ ChunksAddUp /\ OtherFlashKept

\* What the next boot runs is whole, and what the last upload was told.
SelectedIsTrue == SelectedBoots /\ ToldIsTrue
==============================================================================
