----------------------------- MODULE ConfigStore ------------------------------
(***************************************************************************)
(* The configuration in memory and in the file: update_config of mod.rs    *)
(* with the setters of config.rs, load_or_create at boot, and write_atomic *)
(* of littlefs.rs, whose file system may fail at each call and lose power  *)
(* before it has synchronised.                                             *)
(*                                                                         *)
(* Commands do not overlap: storage is synchronous, so update_config waits *)
(* for nothing between the change and the end of the save.                 *)
(***************************************************************************)
EXTENDS ConfigText

CONSTANTS
  InitialFiles,  \* what earlier firmware or an editor may have left
  MaxOverrides,  \* bound: settings off their defaults at a time
  ReadErrors     \* whether reading the file at boot may fail

\* No configuration while the device is off, and no write under way.
Off == [off |-> TRUE]
NoWrite == [stage |-> "none"]

FileLines(file) == IF IsText(file) THEN DOMAIN file ELSE {}

\* A file that is there holds a text.
IsStoredText(file) ==
  /\ IsText(file)
  /\ file = [s \in DOMAIN file |-> file[s]]
  /\ \A s \in DOMAIN file : file[s] \in Values[s]

IsFile(file) == file = NoFile \/ IsStoredText(file)

ASSUME StoreAssumption ==
  /\ MaxOverrides \in Nat
  /\ ReadErrors \in BOOLEAN
  /\ \A file \in InitialFiles :
       IsFile(file)

VARIABLES
  config,          \* AppConfig
  durable,         \* app.conf as a power cut would leave it
  visible,         \* app.conf as it reads now, and whether its data is flushed
  write,           \* write_atomic under way
  reply            \* to the last command

vars == <<config, durable, visible, write, reply>>

Clean(file) == [text |-> file, flushed |-> TRUE]

\* What the file may hold after a power cut.
Possible ==
  {durable, visible.text} \cup (IF visible.flushed THEN {} ELSE {Torn})

Init ==
  /\ config = Off
  /\ durable \in InitialFiles
  /\ visible = Clean(durable)
  /\ write = NoWrite
  /\ reply = "none"

-------------------------------------------------------------------------------
(* write_atomic *)

StartWrite(kind, text) ==
  write' = [kind |-> kind, text |-> text, stage |-> "begin", flushed |-> FALSE]

AtStage(stage) == write.stage = stage

\* What the caller reports of a write that succeeded; load_or_create ignores it.
Success(kind) == CASE kind = "set" -> "ok" [] kind = "reset" -> "reset"
                   [] kind = "boot" -> "none"

RemovePending ==
  /\ AtStage("begin")
  /\ write' = [write EXCEPT !.stage = "removed"]
  /\ UNCHANGED <<config, durable, visible, reply>>

WritePending ==
  /\ AtStage("removed")
  /\ write' = [write EXCEPT !.stage = "written"]
  /\ UNCHANGED <<config, durable, visible, reply>>

\* The whole file system: also a rename whose own synchronisation failed.
SyncPending ==
  /\ AtStage("written")
  /\ write' = [write EXCEPT !.stage = "synced", !.flushed = TRUE]
  /\ durable' = visible.text
  /\ visible' = Clean(visible.text)
  /\ UNCHANGED <<config, reply>>

RenamePending ==
  /\ AtStage("synced")
  /\ write' = [write EXCEPT !.stage = "renamed"]
  /\ visible' = [text |-> write.text, flushed |-> write.flushed]
  /\ UNCHANGED <<config, durable, reply>>

\* sync() left out after the rename.
SyncRenameNot ==
  /\ AtStage("renamed")
  /\ write' = NoWrite
  /\ reply' = Success(write.kind)
  /\ UNCHANGED <<config, durable, visible>>

SyncRename ==
  /\ AtStage("renamed")
  /\ durable' = visible.text
  /\ visible' = Clean(visible.text)
  /\ write' = NoWrite
  /\ reply' = Success(write.kind)
  /\ UNCHANGED config

\* The call the write has come to fails, and the write with it.
StorageFails ==
  /\ write # NoWrite
  /\ write' = NoWrite
  /\ reply' = IF write.kind = "boot" THEN "none" ELSE "error"
  /\ UNCHANGED <<config, durable, visible>>

-------------------------------------------------------------------------------
(* Commands *)

Idle == config # Off /\ write = NoWrite

\* The setter returned an error; what it has changed stays.
Refuse(new) ==
  /\ config' = new
  /\ reply' = "error"
  /\ UNCHANGED <<durable, visible, write>>

\* The setter accepted: update_config saves.
Save(new) ==
  /\ config' = new
  /\ IF Fits(Encode(new))
     THEN StartWrite("set", Encode(new)) /\ reply' = "none"
     ELSE reply' = "error" /\ UNCHANGED write
  /\ UNCHANGED <<durable, visible>>

\* The bound on the settings that vary, in the configuration or in the file.
Bounded(new) ==
  Cardinality((Overrides(new) \cup FileLines(durable)
                 \cup FileLines(visible.text)) \ {"key"})
    <= MaxOverrides

\* update_config with a setter that checks its value before it stores it.
Update(accepted, new) ==
  /\ Idle
  /\ Bounded(new)
  /\ IF accepted THEN Save(new) ELSE Refuse(config)

SetPrivateKey ==
  \E key \in Values.key : Update(TRUE, [config EXCEPT !.key = key])

SetNodeName ==
  \E name \in Values.name : Update(TRUE, [config EXCEPT !.name = name])

\* set radio without the check.
SetRadioUnchecked ==
  \E frequency \in Values.frequency :
    Update(TRUE, [config EXCEPT !.frequency = frequency])

\* set radio and set freq keep the power in use and check the whole.
SetRadio ==
  \E frequency \in Values.frequency :
    LET new == [config EXCEPT !.frequency = frequency]
    IN Update(RadioValid(new), new)

\* Stored first and checked then: a refused power stays in the configuration.
SetTransmitPower ==
  \E power \in Values.power :
    LET new == [config EXCEPT !.power = power]
    IN /\ Idle
       /\ Bounded(new)
       /\ IF RadioValid(new) THEN Save(new) ELSE Refuse(new)

SetLimit ==
  \E limit \in Values.limit :
    Update(limit # "outside", [config EXCEPT !.limit = limit])

SetMqttHost ==
  \E host \in Values.host :
    Update(host = "" \/ EndpointParses(host, config.port),
           [config EXCEPT !.host = host])

\* Any number: the host it makes an endpoint with is not looked at.
SetMqttPort ==
  \E port \in Values.port : Update(TRUE, [config EXCEPT !.port = port])

\* region put, remove, allowf, denyf and default, set region.default and
\* region.capture and their unset: refused by the table, or saved whatever its
\* lines will read as.
ChangeRegions ==
  \E regions \in Values.regions, accepted \in BOOLEAN :
    Update(accepted, [config EXCEPT !.regions = regions])

SetText ==
  \E texts \in Values.texts : Update(TRUE, [config EXCEPT !.texts = texts])

\* set owner.info and password: cut to their length.
SetLabel ==
  \E label \in Values.label : Update(TRUE, [config EXCEPT !.label = label])

\* set acl and unset acl of a key: refused when the text gets too long, or stays.
SetAcl ==
  \E key \in AclKeys, rule \in BOOLEAN :
    LET new == [config EXCEPT !.acl = IF rule THEN @ \cup {key} ELSE @ \ {key}]
    IN Update(Fits(Encode(new)), new)

\* unset of one setting, and of a broker's together; there is none of regions.
Unset ==
  \E group \in {{s} : s \in Settings \ {"key", "regions"}}
                 \cup {{"frequency", "power"}, {"host", "port", "texts"}} :
    Update(TRUE, [s \in Settings |->
                    IF s \in group THEN Defaults(config.key)[s] ELSE config[s]])

\* erase config: the configuration in memory is left as it is.
EraseConfig ==
  /\ Idle
  /\ StartWrite("reset", Unprovisioned)
  /\ reply' = "none"
  /\ UNCHANGED <<config, durable, visible>>

-------------------------------------------------------------------------------
(* Boots and power cuts *)

\* load_or_create writes what it runs with unless the file holds just that.
BootWith(new) ==
  /\ config' = new
  /\ IF durable = Encode(new) \/ ~Fits(Encode(new))
     THEN UNCHANGED write
     ELSE StartWrite("boot", Encode(new))
  /\ UNCHANGED <<durable, visible, reply>>

\* Random seeds do not repeat.
Fresh(seed) == HasKey(durable) => durable.key # seed

BootFromFile ==
  /\ config = Off
  /\ \E seed \in Keys :
       /\ Fresh(seed)
       /\ Loads(durable, seed)
       /\ BootWith(Decode(durable, seed))

\* No file, one that cannot be read or one that does not decode.
BootFromDefaults ==
  /\ config = Off
  /\ \E seed \in Keys :
       /\ Fresh(seed)
       /\ ReadErrors \/ ~Loads(durable, seed)
       /\ BootWith(Defaults(seed))

\* A reboot, or a power cut at any moment.
PowerOff ==
  /\ config # Off
  /\ durable' \in Possible
  /\ visible' = Clean(durable')
  /\ config' = Off
  /\ write' = NoWrite
  /\ reply' = "none"

Command ==
  \/ SetPrivateKey
  \/ SetNodeName
  \/ SetRadio
  \/ SetTransmitPower
  \/ SetLimit
  \/ SetMqttHost
  \/ SetMqttPort
  \/ ChangeRegions
  \/ SetText
  \/ SetLabel
  \/ SetAcl
  \/ Unset
  \/ EraseConfig

WriteStep ==
  \/ RemovePending
  \/ WritePending
  \/ SyncPending
  \/ RenamePending
  \/ SyncRename
  \/ StorageFails

Next ==
  \/ Command
  \/ WriteStep
  \/ BootFromFile
  \/ BootFromDefaults
  \/ PowerOff

Spec == Init /\ [][Next]_vars

-------------------------------------------------------------------------------
(* Properties *)

IsConfig(c) ==
  /\ DOMAIN c = Settings
  /\ c = [s \in Settings |-> c[s]]
  /\ \A s \in Settings : c[s] \in Values[s]

Stages == {"begin", "removed", "written", "synced", "renamed"}

\* The types of the variables; a file only partly written is never in place.
TypeOK ==
  /\ config = Off \/ IsConfig(config)
  /\ IsFile(durable)
  /\ IsFile(visible.text)
  /\ visible \in [text : {visible.text}, flushed : BOOLEAN]
  /\ \/ write = NoWrite
     \/ /\ IsStoredText(write.text)
        /\ write \in [kind : {"set", "reset", "boot"}, text : {write.text},
                     stage : Stages, flushed : BOOLEAN]
  /\ reply \in {"none", "ok", "error", "reset"}

\* After a command was acknowledged the device loses power whenever it may: the
\* next boot, whatever seed it draws, runs the very configuration of before,
\* identity and generated name included, up to the space around a value and to
\* regions whose lines name others.  update_config answers Ok only for that.
\* Settings that do not load are left to BootKeepsIdentity.
AcknowledgedSurvives ==
  config # Off /\ reply = "ok" /\ Loadable(config)
    => \A seed \in Keys, file \in {durable, visible.text} :
         Load(file, seed) = AsRead(config)

\* load_or_create rewrites a file that is not in its own form (of another
\* firmware's defaults, edited, of a region read as another): at no point of that
\* write would a boot come up with other settings than those just loaded, or
\* what these read as once written.  It may when the regions just loaded read
\* from their file and not from the new one (`region.#=true` is a region '#',
\* whose line is `region.=true`).
RewriteKeeps ==
  write # NoWrite /\ write.kind = "boot"
    /\ HasKey(durable) /\ durable.key = config.key
    /\ config.regions \notin Unread
    => \A seed \in Keys, file \in {durable, visible.text} :
         Load(file, seed) \in {config, AsRead(config)}

\* The setters and decode_config_layer agree on what a setting may be, but for
\* three: the transmit power, a broker's port and the regions with their default.
\* A configuration no boot could read back is always due to one of those.
CheckedSettingsLoad ==
  config # Off /\ ~Loadable(config)
    => \/ config.power = "outside"
       \/ config.host = "plain" /\ config.port = "0"
       \/ config.regions \in Unread

\* What is asked of the storage, and whether it was reported stored.
Requested == IF write = NoWrite THEN NoFile ELSE write.text
Outcome == IF reply \in {"ok", "reset"} THEN "stored" ELSE "none"

Promise == INSTANCE StorePromise WITH
  NoRequest <- NoFile, possible <- Possible, request <- Requested,
  outcome <- Outcome

\* write_atomic keeps the promise of the Storage trait: at every moment a power
\* cut leaves the old or the new file, and once reported the new one, also when
\* an earlier write failed between its rename and its synchronisation.
KeepsPromise == Promise!Spec

\* A boot never replaces a stored identity: "Each device generates a private key
\* automatically on the first boot and it is stored in the config" (CONFIG.md).
\* load_or_create does whenever it cannot read or decode the file.
BootKeepsIdentity ==
  write # NoWrite /\ write.kind = "boot" /\ HasKey(durable)
    => HasKey(write.text) /\ write.text.key = durable.key
==============================================================================
