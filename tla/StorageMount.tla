----------------------------- MODULE StorageMount ------------------------------
(***************************************************************************)
(* What the ESP32 platform does at boot to have a file system: it mounts   *)
(* the partition, formats one that was never written, and moves the        *)
(* configuration of earlier firmware, a record at the partition's start,   *)
(* into a new file system.  The flash may fail at every call, and the      *)
(* power may be cut between any two, and in the middle of an erase or a    *)
(* write.  What is done with a mounted file system is ConfigStore's.       *)
(***************************************************************************)
EXTENDS Integers

CONSTANT Blocks  \* of the partition; the legacy record may reach into the second

ASSUME MountAssumption == Blocks \in Nat /\ Blocks >= 2

VARIABLES
  storage,    \* each block: "erased", "record", "fs" or "other"
  sound,      \* there is a record at first, with header and length right
  partition,  \* there is one with the label, writable and large enough
  file,       \* app.conf of the file system: "none", "moved" from the record, or "other"
  booting,    \* where the boot is
  next,       \* the block that is erased next
  config,     \* the legacy configuration in RAM, or "none"
  cut,        \* history: a format or the move after it was interrupted
  failed      \* history: the flash failed in this boot

mountVars == <<storage, sound, partition, file, booting, next, config, cut, failed>>

HasRecord == storage[1] = "record"
Mounts == storage[1] = "fs"
IsErased == \A b \in 1 .. Blocks : storage[b] = "erased"

\* Never written; a record; a file system; something else.
FirstFlash ==
  {[b \in 1 .. Blocks |-> "erased"],
   [b \in 1 .. Blocks |-> IF b <= 2 THEN "record" ELSE "other"],
   [b \in 1 .. Blocks |-> IF b = 1 THEN "fs" ELSE "erased"],
   [b \in 1 .. Blocks |-> IF b = 1 THEN "other" ELSE "erased"],
   [b \in 1 .. Blocks |-> IF b = 2 THEN "other" ELSE "erased"]}

MountInit ==
  /\ storage \in FirstFlash /\ sound \in BOOLEAN /\ (sound => HasRecord)
  /\ partition \in BOOLEAN
  /\ file = "none" /\ booting = "off" /\ next = 1 /\ config = "none"
  /\ cut = FALSE /\ failed = FALSE

Formatting == booting \in {"erasing", "programming", "restoring"}

-------------------------------------------------------------------------------
\* init_storage
FindPartition ==
  /\ booting = "off"
  /\ booting' = IF partition THEN "reading" ELSE "unavailable"
  /\ failed' = FALSE
  /\ UNCHANGED <<storage, sound, partition, file, next, config, cut>>

\* legacy_config can read it.
MayMove == HasRecord /\ sound

\* Whatever does not mount.
MayFormatAny == ~HasRecord /\ ~Mounts

\* "Never format a damaged filesystem or unknown format."
MayFormat == ~HasRecord /\ ~Mounts /\ IsErased

\* LittleFsStorage::new reads the record, if there is one, before it formats.
ReadPartition ==
  /\ booting = "reading"
  /\ config' = IF MayMove THEN "legacy" ELSE "none"
  /\ next' = 1
  /\ booting' = IF MayMove \/ MayFormat THEN "erasing"
                ELSE IF Mounts THEN "repairing" ELSE "unavailable"
  /\ UNCHANGED <<storage, sound, partition, file, cut, failed>>

\* format_device: the partition is erased, and then made a file system.
EraseBlock ==
  /\ booting = "erasing"
  /\ storage' = [storage EXCEPT ![next] = "erased"]
  /\ IF next < Blocks THEN next' = next + 1 /\ UNCHANGED booting
     ELSE booting' = "programming" /\ UNCHANGED next
  /\ UNCHANGED <<sound, partition, file, config, cut, failed>>

MakeFilesystem ==
  /\ booting = "programming"
  /\ storage' = [storage EXCEPT ![1] = "fs"]
  /\ booting' = IF config = "none" THEN "repairing" ELSE "restoring"
  /\ UNCHANGED <<sound, partition, file, next, config, cut, failed>>

\* write_atomic
RestoreConfig ==
  /\ booting = "restoring"
  /\ file' = "moved" /\ config' = "none" /\ booting' = "ready"
  /\ UNCHANGED <<storage, sound, partition, next, cut, failed>>

\* The mutable mount.
RepairMoves ==
  /\ booting = "repairing" /\ booting' = "ready"
  /\ UNCHANGED <<storage, sound, partition, file, next, config, cut, failed>>

\* The device saves its configuration, of which a file moved is the beginning.
SaveConfig ==
  /\ booting = "ready" /\ file = "none"
  /\ file' = "other"
  /\ UNCHANGED <<storage, sound, partition, booting, next, config, cut, failed>>

\* A call fails, and the boot goes on without storage.
FlashFails ==
  /\ booting \in {"reading", "repairing"} \/ Formatting
  /\ booting' = "unavailable" /\ config' = "none" /\ failed' = TRUE
  /\ cut' = (cut \/ Formatting)
  /\ UNCHANGED <<storage, sound, partition, file, next>>

\* What is being erased or written may be left as anything.
CutPower ==
  /\ booting # "off" /\ booting' = "off"
  /\ config' = "none" /\ failed' = FALSE
  /\ cut' = (cut \/ Formatting)
  /\ storage' \in {storage} \cup
       (CASE booting = "erasing" -> {[storage EXCEPT ![next] = "other"]}
          [] booting = "programming" -> {[storage EXCEPT ![1] = "other"]}
          [] OTHER -> {})
  /\ UNCHANGED <<sound, partition, file, next>>

MountNext ==
  \/ FindPartition \/ ReadPartition \/ EraseBlock \/ MakeFilesystem \/ RestoreConfig
  \/ RepairMoves \/ SaveConfig \/ FlashFails \/ CutPower

MountSpec == MountInit /\ [][MountNext]_mountVars

-------------------------------------------------------------------------------
(* Properties *)

\* The types of the variables.
MountTypeOK ==
  /\ storage \in [1 .. Blocks -> {"erased", "record", "fs", "other"}]
  /\ {sound, partition, cut, failed} \subseteq BOOLEAN
  /\ file \in {"none", "moved", "other"} /\ config \in {"none", "legacy"}
  /\ booting \in {"off", "reading", "erasing", "programming", "restoring", "repairing",
                  "ready", "unavailable"}
  /\ next \in 1 .. Blocks

\* However often a boot is cut short and tried again, no block that holds anything
\* is erased but while the configuration of a record found there is in RAM: none of
\* a file system, damaged or not, or of what is unknown.
OnlyKnownErased ==
  [][\A b \in 1 .. Blocks :
       storage'[b] # storage[b] /\ storage[b] # "erased" => config = "legacy"]_mountVars

\* A configuration of earlier firmware is in the flash, in RAM or in the new file,
\* however many boots end before the move has begun, and no other is ever saved in
\* its place; only an interruption between the first erase and the end of the move
\* loses it.
LegacyKept ==
  sound /\ ~cut =>
    \/ \A b \in 1 .. 2 : storage[b] = "record"
    \/ config = "legacy"
    \/ file = "moved"

\* Mounting loses nothing: neither what is known nor what is not.
StorageIsSafe == []LegacyKept /\ OnlyKnownErased
==============================================================================
