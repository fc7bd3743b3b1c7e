-------------------------- MODULE ConfigStore_proofs --------------------------
(***************************************************************************)
(* Proofs about ConfigStore: what is encoded reads back, types, that an    *)
(* acknowledged configuration survives, and that write_atomic implements   *)
(* StorePromise.                                                           *)
(***************************************************************************)
EXTENDS ConfigStore, TLAPS

-------------------------------------------------------------------------------
(* Texts *)

LEMMA SettingNames ==
  /\ Settings = {"key", "name", "frequency", "power", "limit", "host", "port",
                 "regions", "label", "texts", "acl"}
  /\ \A key : DOMAIN Defaults(key) = Settings
  /\ \A key : Defaults(key) = [s \in Settings |-> Defaults(key)[s]]
  BY DEF Settings, Values, Defaults

LEMMA ValuesOf ==
  /\ Values["key"] = Keys /\ Values["name"] = Names
  /\ Values["frequency"] = Ranged /\ Values["power"] = Powers
  /\ Values["limit"] = Ranged
  /\ Values["host"] = {"", "plain", "url", "malformed"}
  /\ Values["port"] = Ports /\ Values["regions"] = Tables
  /\ Values["label"] = {"image", "other", "spaced"}
  /\ Values["texts"] = SUBSET Texts /\ Values["acl"] = SUBSET AclKeys
  BY DEF Values

\* Files, no file, no write and no configuration are told apart by their fields.
LEMMA Apart ==
  /\ ~IsText(NoFile) /\ ~HasKey(NoFile)
  /\ \A text : IsText(text) => text # NoFile /\ text # Torn
  /\ \A c : IsConfig(c) => c # Off
<1>1. /\ DOMAIN NoFile = {"missing"} /\ DOMAIN Torn = {"torn"}
      /\ DOMAIN Off = {"off"}
  BY DEF NoFile, Torn, Off
<1>2. "missing" \notin Settings /\ "torn" \notin Settings
      /\ "off" \notin Settings
  BY SettingNames
<1>3. "key" # "missing"
  OBVIOUS
<1> QED
  BY <1>1, <1>2, <1>3 DEF IsText, HasKey, IsConfig

LEMMA DefaultValues ==
  \A key :
    /\ Defaults(key)["frequency"] = "image" /\ Defaults(key)["power"] = "image"
    /\ Defaults(key)["limit"] = "image" /\ Defaults(key)["host"] = ""
    /\ Defaults(key)["port"] = "image" /\ Defaults(key)["regions"] = ImageTable
    /\ Defaults(key)["label"] = "image"
    /\ Defaults(key)["texts"] = {} /\ Defaults(key)["acl"] = {}
  BY DEF Defaults

\* Whatever key the defaults are of, only the key and the name differ.
LEMMA DefaultsAgree ==
  ASSUME NEW a, NEW b, NEW s \in Settings \ {"key", "name"}
  PROVE  Defaults(a)[s] = Defaults(b)[s]
<1>1. \/ s = "frequency" \/ s = "power" \/ s = "limit" \/ s = "host" \/ s = "port"
      \/ s = "regions" \/ s = "label" \/ s = "texts" \/ s = "acl"
  BY SettingNames
<1>2. CASE s = "frequency" \/ s = "power" \/ s = "limit" \/ s = "host"
  BY <1>2, DefaultValues
<1>3. CASE s = "port" \/ s = "regions" \/ s = "label" \/ s = "texts" \/ s = "acl"
  BY <1>3, DefaultValues
<1> QED
  BY <1>1, <1>2, <1>3

LEMMA DefaultsAreConfig ==
  ASSUME NEW key \in Keys
  PROVE  IsConfig(Defaults(key)) /\ Defaults(key).key = key
<1>1. Defaults(key).key = key
  BY DEF Defaults
<1>2. Defaults(key).name \in Names
  BY TextAssumption DEF Defaults
<1>3. \A s \in Settings : Defaults(key)[s] \in Values[s]
  <2>1. \A s \in {"key", "name"} : Defaults(key)[s] \in Values[s]
    BY <1>1, <1>2, ValuesOf
  <2>2. \A s \in {"frequency", "power", "limit", "port", "regions"} :
          Defaults(key)[s] \in Values[s]
    <3>1. /\ "image" \in Powers /\ "image" \in Ports
          /\ ImageTable \in Tables
      BY TextAssumption
    <3>2. "image" \in Ranged
      BY DEF Ranged
    <3>3. /\ Defaults(key)["frequency"] \in Values["frequency"]
          /\ Defaults(key)["limit"] \in Values["limit"]
      BY <3>2, DefaultValues, ValuesOf
    <3>4. /\ Defaults(key)["power"] \in Values["power"]
          /\ Defaults(key)["port"] \in Values["port"]
          /\ Defaults(key)["regions"] \in Values["regions"]
      BY <3>1, DefaultValues, ValuesOf
    <3> QED
      BY <3>3, <3>4
  <2>3. /\ Defaults(key)["host"] \in Values["host"]
        /\ Defaults(key)["label"] \in Values["label"]
    BY DefaultValues, ValuesOf
  <2>4. \A s \in {"texts", "acl"} : Defaults(key)[s] \in Values[s]
    BY DefaultValues, ValuesOf
  <2> QED
    BY <2>1, <2>2, <2>3, <2>4, SettingNames
<1> QED
  BY <1>1, <1>3, SettingNames DEF IsConfig

LEMMA EncodeIsText ==
  ASSUME NEW c, IsConfig(c)
  PROVE  /\ IsStoredText(Encode(c))
         /\ HasKey(Encode(c)) /\ Encode(c).key = c.key
<1>1. DOMAIN Encode(c) = {"key"} \cup Overrides(c)
  BY DEF Encode
<1>2. {"key"} \cup Overrides(c) \subseteq Settings
  BY SettingNames DEF Overrides
<1>3. \A s \in {"key"} \cup Overrides(c) : Encode(c)[s] = c[s]
  BY DEF Encode
<1>4. Encode(c) = [s \in DOMAIN Encode(c) |-> Encode(c)[s]]
  BY DEF Encode
<1> QED
  BY <1>1, <1>2, <1>3, <1>4 DEF IsStoredText, IsText, HasKey, IsConfig

LEMMA NameIsTyped ==
  ASSUME NEW key \in Keys, NEW seed \in Keys
  PROVE  NameWithoutLine(key, seed) \in Names
<1>1. Generated[key] \in Names
  BY TextAssumption
<1>2. Defaults(seed).name \in Names
  BY TextAssumption DEF Defaults
<1> QED
  BY <1>1, <1>2 DEF NameWithoutLine

LEMMA ReadTyped ==
  ASSUME NEW s \in Settings, NEW value \in Values[s]
  PROVE  ValueAsRead(s, value) \in Values[s]
<1>1. CASE s = "regions"
  BY <1>1, ValuesOf, TextAssumption DEF ValueAsRead
<1>2. CASE s # "regions"
  BY <1>2, ValuesOf DEF ValueAsRead
<1> QED
  BY <1>1, <1>2

\* Only a label and the regions may read as another value.
LEMMA ReadsAsItself ==
  /\ \A s, value : s \notin {"label", "regions"} => ValueAsRead(s, value) = value
  /\ \A value : ValueAsRead("regions", value) = ReadAs[value]
  BY DEF ValueAsRead

LEMMA DefaultReadsAsItself ==
  ASSUME NEW key, NEW s \in Settings
  PROVE  ValueAsRead(s, Defaults(key)[s]) = Defaults(key)[s]
<1>1. CASE s = "regions"
  <2>1. Defaults(key)[s] = ImageTable
    BY <1>1, DefaultValues
  <2>2. ValueAsRead(s, ImageTable) = ReadAs[ImageTable]
    BY <1>1, ReadsAsItself
  <2>3. ReadAs[ImageTable] = ImageTable
    BY TextAssumption
  <2> QED
    BY <2>1, <2>2, <2>3
<1>2. CASE s # "regions"
  BY <1>2, DefaultValues DEF ValueAsRead
<1> QED
  BY <1>1, <1>2

LEMMA DecodeIsConfig ==
  ASSUME NEW text, IsStoredText(text), NEW seed \in Keys
  PROVE  IsConfig(Decode(text, seed))
<1>1. IsConfig(Defaults(seed))
  BY DefaultsAreConfig
<1> DEFINE key == IF "key" \in DOMAIN text THEN text.key ELSE seed
<1>2. key \in Keys
  BY SettingNames DEF IsStoredText, Values
<1>3. NameWithoutLine(key, seed) \in Values["name"]
  <2> HIDE DEF key
  <2> QED
    BY <1>2, NameIsTyped DEF Values
<1>4. Decode(text, seed) =
        [s \in Settings |->
           IF s \in DOMAIN text THEN ValueAsRead(s, text[s])
           ELSE IF s = "name" THEN NameWithoutLine(key, seed)
           ELSE Defaults(seed)[s]]
  BY DEF Decode
<1> HIDE DEF key
<1>5. \A s \in DOMAIN text : ValueAsRead(s, text[s]) \in Values[s]
  BY ReadTyped DEF IsStoredText, IsText
<1>6. \A s \in Settings : Decode(text, seed)[s] \in Values[s]
  BY <1>1, <1>3, <1>4, <1>5 DEF IsConfig
<1> QED
  BY <1>4, <1>6 DEF IsConfig

\* The name is the one setting whose default depends on the key: the text of a
\* configuration read over another device's defaults gets back its own.
LEMMA NameReadsBack ==
  ASSUME NEW key \in Keys, NEW seed \in Keys
  PROVE  NameWithoutLine(key, seed) = Defaults(key).name
<1>1. \A k : Defaults(k).name =
        IF ProfileName = NoName THEN Generated[k] ELSE ProfileName
  BY DEF Defaults
<1> QED
  BY <1>1, TextAssumption DEF NameWithoutLine

\* decode_config_text undoes encode_config_text, over whatever defaults, but for
\* the space it trims and the regions that read as others.
LEMMA DecodeEncode ==
  ASSUME NEW c, IsConfig(c), NEW seed \in Keys
  PROVE  Decode(Encode(c), seed) = AsRead(c)
<1>1. /\ DOMAIN Encode(c) = {"key"} \cup Overrides(c)
      /\ \A s \in DOMAIN Encode(c) : Encode(c)[s] = c[s]
  BY DEF Encode
<1>2. c.key \in Keys
  BY SettingNames, ValuesOf DEF IsConfig
<1>3. \A s \in Settings \ {"key", "name"} :
        Defaults(seed)[s] = Defaults(c.key)[s]
  BY DefaultsAgree
<1>4. NameWithoutLine(c.key, seed) = Defaults(c.key)["name"]
  BY <1>2, NameReadsBack
<1>5. "key" \in DOMAIN Encode(c) /\ Encode(c).key = c.key
  BY <1>1
<1>6. Decode(Encode(c), seed) =
        [s \in Settings |->
           IF s \in DOMAIN Encode(c) THEN ValueAsRead(s, Encode(c)[s])
           ELSE IF s = "name" THEN NameWithoutLine(c.key, seed)
           ELSE Defaults(seed)[s]]
  BY <1>5 DEF Decode
<1>7. ASSUME NEW s \in Settings
      PROVE  Decode(Encode(c), seed)[s] = ValueAsRead(s, c[s])
  <2>1. CASE s \in DOMAIN Encode(c)
    BY <2>1, <1>1, <1>6
  <2>2. CASE s \notin DOMAIN Encode(c)
    <3>1. s \notin Overrides(c) /\ s # "key"
      BY <2>2, <1>1
    <3>2. Decode(Encode(c), seed)[s] = Defaults(c.key)[s]
      BY <3>1, <2>2, <1>3, <1>4, <1>6
    <3>3. CASE s = "regions"
      <4>1. c.regions \in Silent
        BY <3>1, <3>3 DEF Overrides
      <4>2. ReadAs[c.regions] = ImageTable
        BY <4>1, TextAssumption
      <4> QED
        BY <3>2, <3>3, <4>2, DefaultValues, ReadsAsItself
    <3>4. CASE s # "regions"
      <4>1. c[s] = Defaults(c.key)[s]
        BY <3>1, <3>4 DEF Overrides
      <4> QED
        BY <3>2, <4>1, DefaultReadsAsItself
    <3> QED
      BY <3>3, <3>4
  <2> QED
    BY <2>1, <2>2
<1>8. Decode(Encode(c), seed) =
        [s \in Settings |-> Decode(Encode(c), seed)[s]]
  BY <1>6
<1> QED
  BY <1>7, <1>8 DEF AsRead

LEMMA ReadTheSame ==
  ASSUME NEW c
  PROVE  \A s \in Settings \ {"label", "regions"} : AsRead(c)[s] = c[s]
  BY ReadsAsItself DEF AsRead

\* What can be loaded at all loads as its lines read.
LEMMA ReadsBack ==
  ASSUME NEW c, IsConfig(c), Loadable(c), NEW seed \in Keys
  PROVE  Load(Encode(c), seed) = AsRead(c)
<1>1. Decode(Encode(c), seed) = AsRead(c)
  BY DecodeEncode
<1>2. IsText(Encode(c))
  BY EncodeIsText DEF IsStoredText
<1>3. LinesParse(Encode(c))
  <2>1. "regions" \in DOMAIN Encode(c) => Encode(c).regions = c.regions
    BY DEF Encode
  <2> QED
    BY <2>1 DEF LinesParse, Loadable
<1>4. Valid(AsRead(c))
  <2>1. \A s \in {"frequency", "power", "limit", "host", "port"} :
          AsRead(c)[s] = c[s]
    BY ReadTheSame, SettingNames
  <2> QED
    BY <2>1 DEF Loadable, Valid, RadioValid
<1> QED
  BY <1>1, <1>2, <1>3, <1>4 DEF Load, Loads

-------------------------------------------------------------------------------
(* The inductive invariant *)

\* Where the file stands, at each stage of a write.  A rename that failed to
\* synchronise leaves durable behind until SyncPending of the next write.
WriteInv ==
  /\ visible.flushed
  /\ write # NoWrite /\ write.stage \in {"synced", "renamed"} => write.flushed
  /\ AtStage("synced") => durable = visible.text
  /\ AtStage("renamed") => visible.text = write.text
  /\ write # NoWrite => reply = "none"
  /\ reply \in {"ok", "reset"} => durable = visible.text

\* What is in the file or on its way there is the configuration in memory.
ConfigInv ==
  /\ config = Off => write = NoWrite /\ reply = "none" /\ durable = visible.text
  /\ write # NoWrite /\ write.kind \in {"set", "boot"}
       => write.text = Encode(config)
  /\ reply = "ok" => durable = Encode(config)

\* A boot that runs the stored identity rewrites only valid settings, and finds
\* the file as it is stored.
RewriteInv ==
  write # NoWrite /\ write.kind = "boot"
    => /\ AtStage("renamed") \/ visible.text = durable
       /\ HasKey(durable) /\ durable.key = config.key
            => /\ Valid(config)
               /\ \A seed \in Keys : Load(durable, seed) = config

\* What the setters check of every value they store.
Checked(c) ==
  c.frequency # "outside" /\ c.limit # "outside" /\ c.host # "malformed"

CheckedInv == config # Off => Checked(config)

StoreInv == TypeOK /\ WriteInv /\ ConfigInv /\ RewriteInv /\ CheckedInv

LEMMA StoreInitially == Init => StoreInv
<1> SUFFICES ASSUME Init PROVE StoreInv
  OBVIOUS
<1>1. visible.text = durable /\ visible.flushed = TRUE
      /\ visible \in [text : {visible.text}, flushed : BOOLEAN]
  BY DEF Init, Clean
<1>2. IsFile(durable)
  BY StoreAssumption DEF Init
<1>3. write.stage = "none" /\ write = NoWrite
  BY DEF Init, NoWrite
<1> QED
  BY <1>1, <1>2, <1>3
  DEF Init, StoreInv, TypeOK, WriteInv, ConfigInv, RewriteInv, CheckedInv,
      AtStage

\* A write just begun is one.
LEMMA BegunWrite ==
  ASSUME NEW kind \in {"set", "reset", "boot"}, NEW text, IsStoredText(text),
         StartWrite(kind, text)
  PROVE  /\ write'.kind = kind /\ write'.text = text
         /\ write'.stage = "begin"
         /\ write' # NoWrite
         /\ write' \in [kind : {"set", "reset", "boot"}, text : {write'.text},
                       stage : Stages, flushed : BOOLEAN]
<1>1. NoWrite.stage = "none"
  BY DEF NoWrite
<1>2. "begin" \in Stages
  BY DEF Stages
<1> QED
  BY <1>1, <1>2 DEF StartWrite

\* A command that saves keeps the invariant, whatever settings it has made.
LEMMA SaveKeeps ==
  ASSUME StoreInv, Idle, NEW new, IsConfig(new), Checked(new), Save(new)
  PROVE  StoreInv'
<1>1. new # Off
  BY Apart
<1>2. IsStoredText(Encode(new))
  BY EncodeIsText
<1>3. config' = new /\ UNCHANGED <<durable, visible>>
  BY DEF Save
<1>4. CASE Fits(Encode(new))
  <2>1. StartWrite("set", Encode(new)) /\ reply' = "none"
    BY <1>4 DEF Save
  <2>2. /\ write'.kind = "set" /\ write'.text = Encode(new)
        /\ write'.stage = "begin" /\ write' # NoWrite
        /\ write' \in [kind : {"set", "reset", "boot"}, text : {write'.text},
                      stage : Stages, flushed : BOOLEAN]
    BY <2>1, <1>2, BegunWrite
  <2>3. TypeOK'
    BY <1>2, <1>3, <2>1, <2>2 DEF StoreInv, TypeOK
  <2> QED
    BY <1>1, <1>3, <2>1, <2>2, <2>3
    DEF StoreInv, WriteInv, ConfigInv, RewriteInv, CheckedInv, AtStage
<1>5. CASE ~Fits(Encode(new))
  <2>1. write' = NoWrite /\ reply' = "error"
    BY <1>5 DEF Save, Idle
  <2>2. write'.stage = "none"
    BY <2>1 DEF NoWrite
  <2> QED
    BY <1>1, <1>3, <2>1, <2>2
    DEF StoreInv, TypeOK, WriteInv, ConfigInv, RewriteInv, CheckedInv, AtStage
<1> QED
  BY <1>4, <1>5

LEMMA RefuseKeeps ==
  ASSUME StoreInv, Idle, NEW new, IsConfig(new), Checked(new), Refuse(new)
  PROVE  StoreInv'
<1>1. new # Off
  BY Apart
<1>2. write' = NoWrite /\ reply' = "error" /\ config' = new
      /\ UNCHANGED <<durable, visible>>
  BY DEF Refuse, Idle
<1>3. write'.stage = "none"
  BY <1>2 DEF NoWrite
<1> QED
  BY <1>1, <1>2, <1>3
  DEF StoreInv, TypeOK, WriteInv, ConfigInv, RewriteInv, CheckedInv, AtStage

LEMMA EraseKeeps ==
  ASSUME StoreInv, EraseConfig
  PROVE  StoreInv'
<1>1. IsStoredText(Unprovisioned)
  BY DEF IsStoredText, IsText, Unprovisioned
<1>2. StartWrite("reset", Unprovisioned) /\ reply' = "none"
      /\ UNCHANGED <<config, durable, visible>>
      /\ config # Off
  BY DEF EraseConfig, Idle
<1>3. /\ write'.kind = "reset" /\ write'.text = Unprovisioned
      /\ write'.stage = "begin" /\ write' # NoWrite
      /\ write' \in [kind : {"set", "reset", "boot"}, text : {write'.text},
                    stage : Stages, flushed : BOOLEAN]
  BY <1>1, <1>2, BegunWrite
<1>4. TypeOK'
  BY <1>1, <1>2, <1>3 DEF StoreInv, TypeOK
<1> QED
  BY <1>2, <1>3, <1>4
  DEF StoreInv, WriteInv, ConfigInv, RewriteInv, CheckedInv, AtStage

-------------------------------------------------------------------------------
(* The setters *)

LEMMA SetTyped ==
  ASSUME NEW c, IsConfig(c), NEW s \in Settings, NEW value \in Values[s]
  PROVE  /\ IsConfig([c EXCEPT ![s] = value])
         /\ [c EXCEPT ![s] = value][s] = value
         /\ \A t \in Settings \ {s} : [c EXCEPT ![s] = value][t] = c[t]
  BY DEF IsConfig

\* A command that is not erase config saves or refuses settings of their types.
Settled(new) ==
  /\ Idle
  /\ IsConfig(new) /\ Checked(new)
  /\ Save(new) \/ Refuse(new)

LEMMA SettledKeeps ==
  ASSUME StoreInv, NEW new, Settled(new)
  PROVE  StoreInv'
  BY SaveKeeps, RefuseKeeps DEF Settled

LEMMA UpdateSettles ==
  ASSUME StoreInv, NEW accepted \in BOOLEAN, NEW new, IsConfig(new),
         accepted => Checked(new), Update(accepted, new)
  PROVE  \E c : Settled(c)
<1>1. IsConfig(config) /\ Checked(config) /\ Idle
  BY DEF StoreInv, TypeOK, CheckedInv, Update, Idle
<1>2. CASE accepted
  <2>1. Settled(new)
    BY <1>1, <1>2 DEF Update, Settled
  <2> QED
    BY <2>1
<1>3. CASE ~accepted
  <2>1. Settled(config)
    BY <1>1, <1>3 DEF Update, Settled
  <2> QED
    BY <2>1
<1> QED
  BY <1>2, <1>3

LEMMA CommandSettles ==
  ASSUME StoreInv, Command, ~EraseConfig
  PROVE  \E new : Settled(new)
<1>1. IsConfig(config) /\ Checked(config) /\ Idle
  BY DEF StoreInv, TypeOK, CheckedInv, Idle, Command, SetPrivateKey, SetNodeName,
         SetRadio, SetTransmitPower, SetLimit, SetMqttHost, SetMqttPort,
         ChangeRegions, SetText, SetLabel, SetAcl, Unset, Update
<1>2. CASE SetPrivateKey
  <2>1. PICK key \in Values.key : Update(TRUE, [config EXCEPT !.key = key])
    BY <1>2 DEF SetPrivateKey
  <2>2. LET new == [config EXCEPT !.key = key] IN IsConfig(new) /\ Checked(new)
    BY <1>1, SetTyped, SettingNames DEF Checked
  <2> QED
    BY <2>1, <2>2, UpdateSettles
<1>3. CASE SetNodeName
  <2>1. PICK name \in Values.name : Update(TRUE, [config EXCEPT !.name = name])
    BY <1>3 DEF SetNodeName
  <2>2. LET new == [config EXCEPT !.name = name]
        IN IsConfig(new) /\ Checked(new)
    BY <1>1, SetTyped, SettingNames DEF Checked
  <2> QED
    BY <2>1, <2>2, UpdateSettles
<1>4. CASE SetRadio
  <2>1. PICK frequency \in Values.frequency :
          LET new == [config EXCEPT !.frequency = frequency]
          IN Update(RadioValid(new), new)
    BY <1>4 DEF SetRadio
  <2>2. LET new == [config EXCEPT !.frequency = frequency]
        IN IsConfig(new) /\ (RadioValid(new) => Checked(new))
    BY <1>1, SetTyped, SettingNames DEF Checked, RadioValid
  <2>3. RadioValid([config EXCEPT !.frequency = frequency]) \in BOOLEAN
    BY DEF RadioValid
  <2> QED
    BY <2>1, <2>2, <2>3, UpdateSettles
<1>5. CASE SetTransmitPower
  <2>1. PICK power \in Values.power :
          LET new == [config EXCEPT !.power = power]
          IN Save(new) \/ Refuse(new)
    BY <1>5 DEF SetTransmitPower
  <2>2. LET new == [config EXCEPT !.power = power]
        IN IsConfig(new) /\ Checked(new)
    BY <1>1, SetTyped, SettingNames DEF Checked
  <2>3. Settled([config EXCEPT !.power = power])
    BY <1>1, <2>1, <2>2 DEF Settled
  <2> QED
    BY <2>3
<1>6. CASE SetLimit
  <2>1. PICK limit \in Values.limit :
          Update(limit # "outside", [config EXCEPT !.limit = limit])
    BY <1>6 DEF SetLimit
  <2>2. LET new == [config EXCEPT !.limit = limit]
        IN IsConfig(new) /\ (limit # "outside" => Checked(new))
    BY <1>1, SetTyped, SettingNames DEF Checked
  <2> QED
    BY <2>1, <2>2, UpdateSettles
<1>7. CASE SetMqttHost
  <2>1. PICK host \in Values.host :
          Update(host = "" \/ EndpointParses(host, config.port),
                 [config EXCEPT !.host = host])
    BY <1>7 DEF SetMqttHost
  <2>2. LET new == [config EXCEPT !.host = host]
        IN /\ IsConfig(new) /\ new.host = host
           /\ new.frequency = config.frequency /\ new.limit = config.limit
    BY <1>1, SetTyped, SettingNames
  <2>3. host = "" \/ EndpointParses(host, config.port) => host # "malformed"
    BY DEF EndpointParses
  <2>4. LET new == [config EXCEPT !.host = host]
        IN host = "" \/ EndpointParses(host, config.port) => Checked(new)
    BY <1>1, <2>2, <2>3 DEF Checked
  <2>5. (host = "" \/ EndpointParses(host, config.port)) \in BOOLEAN
    BY DEF EndpointParses
  <2> QED
    BY <2>1, <2>2, <2>4, <2>5, UpdateSettles
<1>8. CASE SetMqttPort
  <2>1. PICK port \in Values.port : Update(TRUE, [config EXCEPT !.port = port])
    BY <1>8 DEF SetMqttPort
  <2>2. LET new == [config EXCEPT !.port = port]
        IN IsConfig(new) /\ Checked(new)
    BY <1>1, SetTyped, SettingNames DEF Checked
  <2> QED
    BY <2>1, <2>2, UpdateSettles
<1>9. CASE ChangeRegions
  <2>1. PICK regions \in Values.regions, accepted \in BOOLEAN :
          Update(accepted, [config EXCEPT !.regions = regions])
    BY <1>9 DEF ChangeRegions
  <2>2. LET new == [config EXCEPT !.regions = regions]
        IN IsConfig(new) /\ Checked(new)
    BY <1>1, SetTyped, SettingNames DEF Checked
  <2> QED
    BY <2>1, <2>2, UpdateSettles
<1>10. CASE SetLabel
  <2>1. PICK label \in Values.label :
          Update(TRUE, [config EXCEPT !.label = label])
    BY <1>10 DEF SetLabel
  <2>2. LET new == [config EXCEPT !.label = label]
        IN IsConfig(new) /\ Checked(new)
    BY <1>1, SetTyped, SettingNames DEF Checked
  <2> QED
    BY <2>1, <2>2, UpdateSettles
<1>11. CASE SetText
  <2>1. PICK texts \in Values.texts :
          Update(TRUE, [config EXCEPT !.texts = texts])
    BY <1>11 DEF SetText
  <2>2. LET new == [config EXCEPT !.texts = texts]
        IN IsConfig(new) /\ Checked(new)
    BY <1>1, SetTyped, SettingNames DEF Checked
  <2> QED
    BY <2>1, <2>2, UpdateSettles
<1>12. CASE SetAcl
  <2>1. PICK key \in AclKeys, rule \in BOOLEAN :
          LET new == [config EXCEPT !.acl =
                        IF rule THEN @ \cup {key} ELSE @ \ {key}]
          IN Update(Fits(Encode(new)), new)
    BY <1>12 DEF SetAcl
  <2> DEFINE acl == IF rule THEN config.acl \cup {key} ELSE config.acl \ {key}
  <2>2. acl \in Values.acl
    <3>1. "acl" \in Settings
      BY SettingNames
    <3>2. config["acl"] \in Values["acl"]
      BY <1>1, <3>1 DEF IsConfig
    <3>3. config["acl"] \subseteq AclKeys
      BY <3>2, ValuesOf
    <3>4. acl \subseteq AclKeys
      BY <3>3
    <3> HIDE DEF acl
    <3> QED
      BY <3>4, ValuesOf
  <2>3. LET new == [config EXCEPT !.acl = acl] IN Update(Fits(Encode(new)), new)
    BY <2>1
  <2> HIDE DEF acl
  <2>4. LET new == [config EXCEPT !.acl = acl] IN IsConfig(new) /\ Checked(new)
    BY <1>1, <2>2, SetTyped, SettingNames DEF Checked
  <2>5. Fits(Encode([config EXCEPT !.acl = acl])) \in BOOLEAN
    BY DEF Fits
  <2> QED
    BY <2>3, <2>4, <2>5, UpdateSettles
<1>13. CASE Unset
  <2>1. PICK group \in SUBSET Settings :
          Update(TRUE, [s \in Settings |->
                          IF s \in group THEN Defaults(config.key)[s]
                          ELSE config[s]])
    BY <1>13, SettingNames DEF Unset
  <2> DEFINE new == [s \in Settings |->
                       IF s \in group THEN Defaults(config.key)[s]
                       ELSE config[s]]
  <2>2. config.key \in Keys
    BY <1>1, SettingNames, ValuesOf DEF IsConfig
  <2>3. IsConfig(Defaults(config.key))
    BY <2>2, DefaultsAreConfig
  <2>4. IsConfig(new)
    BY <1>1, <2>3 DEF IsConfig
  <2>5. Checked(new)
    BY <1>1, DefaultValues, SettingNames DEF Checked
  <2>6. Update(TRUE, new)
    BY <2>1
  <2> HIDE DEF new
  <2> QED
    BY <2>4, <2>5, <2>6, UpdateSettles
<1> QED
  BY <1>2, <1>3, <1>4, <1>5, <1>6, <1>7, <1>8, <1>9, <1>11, <1>12, <1>13,
     <1>10
  DEF Command

LEMMA CommandKeeps ==
  ASSUME StoreInv, Command
  PROVE  StoreInv'
<1>1. CASE EraseConfig
  BY <1>1, EraseKeeps
<1>2. CASE ~EraseConfig
  <2>1. PICK new : Settled(new)
    BY <1>2, CommandSettles
  <2> QED
    BY <2>1, SettledKeeps
<1> QED
  BY <1>1, <1>2

-------------------------------------------------------------------------------
(* write_atomic, boots and power cuts *)

WriteType ==
  /\ IsStoredText(write.text)
  /\ write \in [kind : {"set", "reset", "boot"}, text : {write.text},
               stage : Stages, flushed : BOOLEAN]

LEMMA WriteTyped ==
  ASSUME StoreInv
  PROVE  /\ write # NoWrite => WriteType
         /\ write.stage # "none" => write # NoWrite
         /\ NoWrite.stage = "none"
  BY DEF StoreInv, TypeOK, WriteType, NoWrite

\* A stage that touches nothing but the staged file.
LEMMA StageKeeps ==
  ASSUME StoreInv, NEW from \in {"begin", "removed"}, NEW to \in {"removed", "written"},
         AtStage(from), write' = [write EXCEPT !.stage = to],
         UNCHANGED <<config, durable, visible, reply>>
  PROVE  StoreInv'
<1>1. WriteType /\ write # NoWrite
  BY WriteTyped DEF AtStage
<1>2. /\ write'.stage = to /\ write'.text = write.text
      /\ write'.kind = write.kind
  BY <1>1 DEF WriteType
<1>3. write' # NoWrite
  BY <1>2, WriteTyped
<1>4. WriteType'
  BY <1>1, <1>2 DEF WriteType, Stages
<1>5. TypeOK'
  BY <1>4 DEF StoreInv, TypeOK, WriteType
<1>6. RewriteInv'
  BY <1>1, <1>2 DEF StoreInv, RewriteInv, AtStage
<1> QED
  BY <1>1, <1>2, <1>3, <1>5, <1>6
  DEF StoreInv, WriteInv, ConfigInv, CheckedInv, AtStage

LEMMA SyncPendingKeeps ==
  ASSUME StoreInv, SyncPending
  PROVE  StoreInv'
<1>1. WriteType /\ write # NoWrite /\ write.stage = "written"
  BY WriteTyped DEF SyncPending, AtStage
<1>2. /\ write'.stage = "synced" /\ write'.text = write.text
      /\ write'.kind = write.kind /\ write'.flushed = TRUE
  BY <1>1 DEF WriteType, SyncPending
<1>3. write' # NoWrite
  BY <1>2, WriteTyped
<1>4. WriteType'
  <2>1. write' \in [kind : {"set", "reset", "boot"}, text : {write.text},
                   stage : Stages, flushed : BOOLEAN]
    BY <1>1 DEF WriteType, SyncPending, Stages
  <2> QED
    BY <1>1, <1>2, <2>1 DEF WriteType
<1>5. /\ durable' = visible.text /\ visible' = [text |-> visible.text,
                                              flushed |-> TRUE]
      /\ UNCHANGED <<config, reply>>
  BY DEF SyncPending, Clean
<1>6. visible'.text = visible.text /\ visible'.flushed = TRUE
  BY <1>5
<1>7. TypeOK'
  BY <1>4, <1>5, <1>6 DEF StoreInv, TypeOK, WriteType
<1>8. RewriteInv'
  BY <1>1, <1>2, <1>5, <1>6 DEF StoreInv, RewriteInv, AtStage
<1> QED
  BY <1>1, <1>2, <1>3, <1>5, <1>6, <1>7, <1>8
  DEF StoreInv, WriteInv, ConfigInv, CheckedInv, AtStage

LEMMA RenamePendingKeeps ==
  ASSUME StoreInv, RenamePending
  PROVE  StoreInv'
<1>1. WriteType /\ write # NoWrite /\ write.stage = "synced"
  BY WriteTyped DEF RenamePending, AtStage
<1>2. /\ write'.stage = "renamed" /\ write'.text = write.text
      /\ write'.kind = write.kind /\ write'.flushed = write.flushed
  BY <1>1 DEF WriteType, RenamePending
<1>3. write' # NoWrite
  BY <1>2, WriteTyped
<1>4. WriteType'
  BY <1>1, <1>2 DEF WriteType, RenamePending, Stages
<1>5. /\ visible' = [text |-> write.text, flushed |-> write.flushed]
      /\ UNCHANGED <<config, durable, reply>>
  BY DEF RenamePending
<1>6. visible'.text = write.text /\ visible'.flushed = write.flushed
  BY <1>5
<1>7. write.flushed = TRUE
  BY <1>1 DEF StoreInv, WriteInv, WriteType
<1>8. TypeOK'
  BY <1>1, <1>4, <1>5, <1>6, <1>7 DEF StoreInv, TypeOK, WriteType, IsFile
<1>9. RewriteInv'
  BY <1>1, <1>2, <1>5 DEF StoreInv, RewriteInv, AtStage
<1> QED
  BY <1>1, <1>2, <1>3, <1>5, <1>6, <1>7, <1>8, <1>9
  DEF StoreInv, WriteInv, ConfigInv, CheckedInv, AtStage

LEMMA SyncRenameKeeps ==
  ASSUME StoreInv, SyncRename
  PROVE  StoreInv'
<1>1. WriteType /\ write # NoWrite /\ write.stage = "renamed"
  BY WriteTyped DEF SyncRename, AtStage
<1>2. /\ durable' = visible.text
      /\ visible' = [text |-> visible.text, flushed |-> TRUE]
      /\ write' = NoWrite /\ config' = config
  BY DEF SyncRename, Clean
<1>3. /\ visible'.text = visible.text /\ visible'.flushed = TRUE
      /\ write'.stage = "none"
  BY <1>2, WriteTyped
<1>4. /\ reply' \in {"none", "ok", "reset"}
      /\ reply' = "ok" => write.kind = "set"
  BY <1>1 DEF SyncRename, Success, WriteType, StoreInv, TypeOK
<1>5. visible.text = write.text
  BY <1>1 DEF StoreInv, WriteInv, AtStage
<1>6. TypeOK'
  BY <1>2, <1>3, <1>4 DEF StoreInv, TypeOK
<1>7. config # Off
  BY <1>1 DEF StoreInv, ConfigInv
<1> QED
  BY <1>1, <1>2, <1>3, <1>4, <1>5, <1>6, <1>7
  DEF StoreInv, WriteInv, ConfigInv, RewriteInv, CheckedInv, AtStage

LEMMA StorageFailsKeeps ==
  ASSUME StoreInv, StorageFails
  PROVE  StoreInv'
<1>1. write # NoWrite /\ config # Off
  BY DEF StorageFails, StoreInv, ConfigInv
<1>2. /\ write' = NoWrite /\ reply' \in {"none", "error"}
      /\ UNCHANGED <<config, durable, visible>>
  BY DEF StorageFails
<1>3. write'.stage = "none"
  BY <1>2, WriteTyped
<1> QED
  BY <1>1, <1>2, <1>3
  DEF StoreInv, TypeOK, WriteInv, ConfigInv, RewriteInv, CheckedInv, AtStage

LEMMA PowerOffKeeps ==
  ASSUME StoreInv, PowerOff
  PROVE  StoreInv'
<1>1. visible.flushed = TRUE
  BY DEF StoreInv, WriteInv, TypeOK
<1>2. durable' \in {durable, visible.text}
  BY <1>1 DEF PowerOff, Possible
<1>3. /\ visible' = [text |-> durable', flushed |-> TRUE] /\ config' = Off
      /\ write' = NoWrite /\ reply' = "none"
  BY DEF PowerOff, Clean
<1>4. /\ visible'.text = durable' /\ visible'.flushed = TRUE
      /\ write'.stage = "none"
  BY <1>3, WriteTyped
<1>5. IsFile(durable')
  BY <1>2 DEF StoreInv, TypeOK
<1>6. TypeOK'
  BY <1>3, <1>4, <1>5 DEF TypeOK
<1> QED
  BY <1>3, <1>4, <1>6
  DEF StoreInv, WriteInv, ConfigInv, RewriteInv, CheckedInv, AtStage

\* A text with a key reads the same at every boot.
LEMMA SeedDoesNotMatter ==
  ASSUME NEW text, IsStoredText(text), HasKey(text),
         NEW seed \in Keys, NEW other \in Keys
  PROVE  Decode(text, seed) = Decode(text, other)
<1>1. text.key \in Keys
  BY SettingNames, ValuesOf DEF IsStoredText, HasKey
<1>2. NameWithoutLine(text.key, seed) = NameWithoutLine(text.key, other)
  BY <1>1, NameReadsBack
<1>3. \A s \in Settings \ {"key", "name"} :
        Defaults(seed)[s] = Defaults(other)[s]
  BY DefaultsAgree
<1>4. \A k \in Keys : Decode(text, k) =
        [s \in Settings |->
           IF s \in DOMAIN text THEN ValueAsRead(s, text[s])
           ELSE IF s = "name" THEN NameWithoutLine(text.key, k)
           ELSE Defaults(k)[s]]
  BY DEF Decode, HasKey
<1>5. \A s \in Settings : Decode(text, seed)[s] = Decode(text, other)[s]
  BY <1>2, <1>3, <1>4 DEF HasKey
<1>6. \A k \in Keys :
        Decode(text, k) = [s \in Settings |-> Decode(text, k)[s]]
  BY <1>4
<1> QED
  BY <1>5, <1>6

\* What a boot finds in the file has passed the checks.
LEMMA LoadedIsValid ==
  ASSUME NEW text, IsStoredText(text), NEW seed \in Keys, Loads(text, seed)
  PROVE  /\ IsConfig(Decode(text, seed))
         /\ Valid(Decode(text, seed)) /\ Checked(Decode(text, seed))
<1>1. IsConfig(Decode(text, seed)) /\ Valid(Decode(text, seed))
  BY DecodeIsConfig DEF Loads
<1>2. Checked(Decode(text, seed))
  BY <1>1 DEF Valid, RadioValid, EndpointParses, Checked
<1> QED
  BY <1>1, <1>2

LEMMA BootKeeps ==
  ASSUME StoreInv, config = Off, NEW new, IsConfig(new), Checked(new),
         BootWith(new),
         HasKey(durable) /\ durable.key = new.key
           => Valid(new) /\ \A seed \in Keys : Load(durable, seed) = new
  PROVE  StoreInv'
<1>1. new # Off
  BY Apart
<1>2. /\ write = NoWrite /\ reply = "none" /\ durable = visible.text
      /\ config' = new /\ UNCHANGED <<durable, visible, reply>>
  BY DEF StoreInv, ConfigInv, BootWith
<1>3. IsStoredText(Encode(new))
  BY EncodeIsText
<1>4. CASE UNCHANGED write
  <2>1. write' = NoWrite /\ write'.stage = "none"
    BY <1>2, <1>4, WriteTyped
  <2> QED
    BY <1>1, <1>2, <2>1
    DEF StoreInv, TypeOK, WriteInv, ConfigInv, RewriteInv, CheckedInv, AtStage
<1>5. CASE StartWrite("boot", Encode(new))
  <2>1. /\ write'.kind = "boot" /\ write'.text = Encode(new)
        /\ write'.stage = "begin" /\ write' # NoWrite
        /\ write' \in [kind : {"set", "reset", "boot"}, text : {write'.text},
                      stage : Stages, flushed : BOOLEAN]
    BY <1>3, <1>5, BegunWrite
  <2>2. TypeOK'
    BY <1>2, <1>3, <2>1 DEF StoreInv, TypeOK
  <2>3. RewriteInv'
    BY <1>2, <2>1 DEF RewriteInv
  <2> QED
    BY <1>1, <1>2, <2>1, <2>2, <2>3
    DEF StoreInv, WriteInv, ConfigInv, CheckedInv, AtStage
<1> QED
  BY <1>4, <1>5 DEF BootWith

LEMMA BootFromFileKeeps ==
  ASSUME StoreInv, BootFromFile
  PROVE  StoreInv'
<1>1. PICK seed \in Keys : Loads(durable, seed) /\ BootWith(Decode(durable, seed))
  BY DEF BootFromFile
<1>2. IsStoredText(durable)
  BY <1>1, Apart DEF Loads, StoreInv, TypeOK, IsFile
<1> DEFINE new == Decode(durable, seed)
<1>3. IsConfig(new) /\ Valid(new) /\ Checked(new)
  BY <1>1, <1>2, LoadedIsValid
<1>4. ASSUME HasKey(durable), NEW other \in Keys
      PROVE  Load(durable, other) = new
  <2>1. Decode(durable, other) = new
    BY <1>2, <1>4, SeedDoesNotMatter
  <2> QED
    BY <1>1, <2>1 DEF Load, Loads
<1>5. config = Off /\ BootWith(new)
  BY <1>1 DEF BootFromFile
<1> HIDE DEF new
<1> QED
  BY <1>3, <1>4, <1>5, BootKeeps

LEMMA BootFromDefaultsKeeps ==
  ASSUME StoreInv, BootFromDefaults
  PROVE  StoreInv'
<1>1. PICK seed \in Keys : Fresh(seed) /\ BootWith(Defaults(seed))
  BY DEF BootFromDefaults
<1>2. IsConfig(Defaults(seed)) /\ Defaults(seed).key = seed
  BY DefaultsAreConfig
<1>3. Checked(Defaults(seed))
  BY DefaultValues DEF Checked
<1>4. ~(HasKey(durable) /\ durable.key = Defaults(seed).key)
  BY <1>1, <1>2 DEF Fresh
<1>5. config = Off
  BY DEF BootFromDefaults
<1> QED
  BY <1>1, <1>2, <1>3, <1>4, <1>5, BootKeeps

LEMMA StoreInvariant == Spec => []StoreInv
<1>1. Init => StoreInv
  BY StoreInitially
<1>2. StoreInv /\ [Next]_vars => StoreInv'
  <2> SUFFICES ASSUME StoreInv, [Next]_vars PROVE StoreInv'
    OBVIOUS
  <2>1. CASE Command
    BY <2>1, CommandKeeps
  <2>2. CASE RemovePending
    BY <2>2, StageKeeps DEF RemovePending
  <2>3. CASE WritePending
    BY <2>3, StageKeeps DEF WritePending
  <2>4. CASE SyncPending \/ RenamePending \/ SyncRename \/ StorageFails
    BY <2>4, SyncPendingKeeps, RenamePendingKeeps, SyncRenameKeeps,
       StorageFailsKeeps
  <2>5. CASE BootFromFile \/ BootFromDefaults \/ PowerOff
    BY <2>5, BootFromFileKeeps, BootFromDefaultsKeeps, PowerOffKeeps
  <2>6. CASE UNCHANGED vars
    <3>1. UNCHANGED <<config, durable, visible, write, reply>>
      BY <2>6 DEF vars
    <3> QED
      BY <3>1
      DEF StoreInv, TypeOK, WriteInv, ConfigInv, RewriteInv, CheckedInv, AtStage
  <2> QED
    BY <2>1, <2>2, <2>3, <2>4, <2>5, <2>6 DEF Next, WriteStep
<1> QED
  BY <1>1, <1>2, PTL DEF Spec

-------------------------------------------------------------------------------
(* The properties *)

\* The variables keep their types, and no file only partly written is in place.
THEOREM StoreTypes == Spec => []TypeOK
<1>1. StoreInv => TypeOK
  BY DEF StoreInv
<1> QED
  BY <1>1, StoreInvariant, PTL

\* An acknowledged configuration is what every later boot that can read the
\* file runs, for any keys, names and power cuts.
THEOREM AcknowledgedStays == Spec => []AcknowledgedSurvives
<1>1. StoreInv => AcknowledgedSurvives
  <2> SUFFICES ASSUME StoreInv, config # Off, reply = "ok", Loadable(config),
                      NEW seed \in Keys, NEW file \in {durable, visible.text}
               PROVE  Load(file, seed) = AsRead(config)
    BY DEF AcknowledgedSurvives
  <2>1. file = Encode(config)
    BY DEF StoreInv, WriteInv, ConfigInv
  <2>2. IsConfig(config)
    BY DEF StoreInv, TypeOK
  <2> QED
    BY <2>1, <2>2, ReadsBack
<1> QED
  BY <1>1, StoreInvariant, PTL

\* Rewriting a file at boot never changes what a later boot makes of it, but for
\* regions whose lines name others.
THEOREM RewriteIsSafe == Spec => []RewriteKeeps
<1>1. StoreInv => RewriteKeeps
  <2> SUFFICES ASSUME StoreInv, write # NoWrite, write.kind = "boot",
                      HasKey(durable), durable.key = config.key,
                      config.regions \notin Unread,
                      NEW seed \in Keys, NEW file \in {durable, visible.text}
               PROVE  Load(file, seed) \in {config, AsRead(config)}
    BY DEF RewriteKeeps
  <2>1. Loadable(config) /\ Load(durable, seed) = config
    BY DEF StoreInv, RewriteInv, Loadable
  <2>2. IsConfig(config)
    BY DEF StoreInv, TypeOK, ConfigInv
  <2>3. CASE AtStage("renamed")
    <3>1. visible.text = Encode(config)
      BY <2>3 DEF StoreInv, WriteInv, ConfigInv
    <3> QED
      BY <2>1, <2>2, <3>1, ReadsBack
  <2>4. CASE ~AtStage("renamed")
    BY <2>1, <2>4 DEF StoreInv, RewriteInv
  <2> QED
    BY <2>3, <2>4
<1> QED
  BY <1>1, StoreInvariant, PTL

\* Only the transmit power, a broker's port and the regions with their default can
\* make a configuration that no boot reads back.
THEOREM ThreeSettingsOnly == Spec => []CheckedSettingsLoad
<1>1. StoreInv => CheckedSettingsLoad
  <2> SUFFICES ASSUME StoreInv, config # Off, ~Loadable(config),
                      config.power # "outside", config.regions \notin Unread
               PROVE  config.host = "plain" /\ config.port = "0"
    BY DEF CheckedSettingsLoad
  <2>1. Checked(config)
    BY DEF StoreInv, CheckedInv
  <2>2. config.host # "" /\ ~EndpointParses(config.host, config.port)
    BY <2>1 DEF Loadable, Valid, RadioValid, Checked
  <2>3. config["host"] \in {"", "plain", "url", "malformed"}
    BY SettingNames, ValuesOf DEF StoreInv, TypeOK, IsConfig
  <2> QED
    BY <2>1, <2>2, <2>3 DEF EndpointParses, Checked
<1> QED
  BY <1>1, StoreInvariant, PTL

-------------------------------------------------------------------------------
(* write_atomic implements StorePromise *)

LEMMA PossibleContents ==
  ASSUME StoreInv
  PROVE  Possible = {durable, visible.text}
  BY DEF StoreInv, WriteInv, Possible

LEMMA RequestedText ==
  ASSUME StoreInv, write # NoWrite
  PROVE  /\ Requested = write.text /\ Requested # NoFile
         /\ Outcome = "none"
<1>1. IsText(write.text) /\ reply = "none"
  BY DEF StoreInv, TypeOK, WriteInv, IsStoredText
<1> QED
  BY <1>1, Apart DEF Requested, Outcome

LEMMA RequestedNothing ==
  ASSUME write = NoWrite
  PROVE  Requested = NoFile
  BY DEF Requested

LEMMA PromisedInit ==
  ASSUME Init
  PROVE  Promise!Init
<1>1. Possible = {durable} /\ Requested = NoFile /\ Outcome = "none"
  BY DEF Init, Clean, Possible, Requested, Outcome
<1> QED
  BY <1>1 DEF Promise!Init

\* A write begins: what was there before stays possible.
LEMMA AskPromised ==
  ASSUME StoreInv, write = NoWrite, UNCHANGED <<durable, visible>>,
         reply' = "none",
         NEW kind \in {"set", "reset", "boot"}, NEW text, IsStoredText(text),
         StartWrite(kind, text)
  PROVE  Promise!Ask
<1>1. write' # NoWrite /\ write'.text = text
  BY BegunWrite
<1>2. text # NoFile
  BY Apart DEF IsStoredText
<1>3. Requested' = text /\ Outcome' = "none" /\ Possible' = Possible
  BY <1>1 DEF Requested, Outcome, Possible
<1> QED
  BY <1>2, <1>3, RequestedNothing DEF Promise!Ask

\* Nothing is written and nothing reported as stored.
LEMMA FailPromised ==
  ASSUME UNCHANGED <<durable, visible>>, write' = NoWrite,
         reply' \in {"none", "error"}
  PROVE  Promise!Fail
<1>1. Requested' = NoFile /\ Outcome' = "none" /\ Possible' = Possible
  BY DEF Requested, Outcome, Possible
<1> QED
  BY <1>1 DEF Promise!Fail

LEMMA CommandPromised ==
  ASSUME StoreInv, Command
  PROVE  Promise!Next
<1>1. CASE EraseConfig
  <2>1. IsStoredText(Unprovisioned)
    BY DEF Unprovisioned, IsStoredText, IsText
  <2>2. /\ write = NoWrite /\ UNCHANGED <<durable, visible>>
        /\ reply' = "none" /\ StartWrite("reset", Unprovisioned)
    BY <1>1 DEF EraseConfig, Idle
  <2>3. Promise!Ask
    BY <2>1, <2>2, AskPromised
  <2> QED
    BY <2>3 DEF Promise!Next
<1>2. CASE ~EraseConfig
  <2>1. PICK new : Settled(new)
    BY <1>2, CommandSettles
  <2>2. /\ write = NoWrite /\ IsStoredText(Encode(new))
        /\ Save(new) \/ Refuse(new)
    BY <2>1, EncodeIsText DEF Settled, Idle
  <2>3. CASE Save(new) /\ Fits(Encode(new))
    <3>1. Promise!Ask
      BY <2>2, <2>3, AskPromised DEF Save
    <3> QED
      BY <3>1 DEF Promise!Next
  <2>4. CASE Refuse(new) \/ (Save(new) /\ ~Fits(Encode(new)))
    <3>1. UNCHANGED <<durable, visible>> /\ write' = NoWrite /\ reply' = "error"
      BY <2>2, <2>4 DEF Save, Refuse
    <3>2. Promise!Fail
      BY <3>1, FailPromised
    <3> QED
      BY <3>2 DEF Promise!Next
  <2> QED
    BY <2>2, <2>3, <2>4
<1> QED
  BY <1>1, <1>2

LEMMA WriteStepPromised ==
  ASSUME StoreInv, StoreInv', WriteStep
  PROVE  Promise!Next \/ UNCHANGED Promise!vars
<1>1. write # NoWrite /\ WriteType
  BY WriteTyped
  DEF WriteStep, RemovePending, WritePending, SyncPending, RenamePending,
      SyncRename, StorageFails, AtStage
<1>2. /\ Requested = write.text /\ Requested # NoFile
      /\ Possible = {durable, visible.text}
  BY <1>1, RequestedText, PossibleContents
<1>3. Possible' = {durable', visible'.text}
  BY DEF StoreInv, WriteInv, Possible
<1>4. ASSUME write' # NoWrite, write'.text = write.text, reply' = reply
      PROVE  Requested' = Requested /\ Outcome' = Outcome
  BY <1>1, <1>4 DEF Requested, Outcome
<1>5. CASE RemovePending \/ WritePending
  <2>1. /\ write' # NoWrite /\ write'.text = write.text /\ reply' = reply
        /\ UNCHANGED <<durable, visible>>
    <3>1. \A to \in Stages : [write EXCEPT !.stage = to].text = write.text
                            /\ [write EXCEPT !.stage = to].stage = to
      BY <1>1 DEF WriteType
    <3>2. \A to \in Stages : to # "none"
      BY DEF Stages
    <3> QED
      BY <1>5, <3>1, <3>2, WriteTyped
      DEF RemovePending, WritePending, Stages
  <2>2. UNCHANGED <<Possible, Requested, Outcome>>
    BY <1>4, <2>1 DEF Possible
  <2> QED
    BY <2>2 DEF Promise!vars
<1>6. CASE SyncPending
  <2>1. write' # NoWrite /\ write'.text = write.text /\ reply' = reply
    <3>1. write'.stage = "synced" /\ write'.text = write.text
      BY <1>1, <1>6 DEF WriteType, SyncPending
    <3> QED
      BY <1>6, <3>1, WriteTyped DEF SyncPending
  <2>2. durable' = visible.text /\ visible'.text = visible.text
    BY <1>6 DEF SyncPending, Clean
  <2>3. Promise!Work
    BY <1>2, <1>3, <1>4, <2>1, <2>2 DEF Promise!Work
  <2> QED
    BY <2>3 DEF Promise!Next
<1>7. CASE RenamePending
  <2>1. write' # NoWrite /\ write'.text = write.text /\ reply' = reply
    <3>1. write'.stage = "renamed" /\ write'.text = write.text
      BY <1>1, <1>7 DEF WriteType, RenamePending
    <3> QED
      BY <1>7, <3>1, WriteTyped DEF RenamePending
  <2>2. durable' = durable /\ visible'.text = write.text
    BY <1>7 DEF RenamePending
  <2>3. Promise!Work
    BY <1>2, <1>3, <1>4, <2>1, <2>2 DEF Promise!Work
  <2> QED
    BY <2>3 DEF Promise!Next
<1>8. CASE SyncRename
  <2>1. visible.text = write.text
    BY <1>8 DEF SyncRename, StoreInv, WriteInv
  <2>2. durable' = visible.text /\ visible'.text = visible.text /\ write' = NoWrite
    BY <1>8 DEF SyncRename, Clean
  <2>3. Requested' = NoFile
    BY <2>2 DEF Requested
  <2>4. Promise!Store
    BY <1>2, <1>3, <2>1, <2>2, <2>3 DEF Promise!Store
  <2> QED
    BY <2>4 DEF Promise!Next
<1>9. CASE StorageFails
  <2>1. Promise!Fail
    BY <1>9, FailPromised DEF StorageFails
  <2> QED
    BY <2>1 DEF Promise!Next
<1> QED
  BY <1>5, <1>6, <1>7, <1>8, <1>9 DEF WriteStep

LEMMA BootPromised ==
  ASSUME StoreInv, config = Off, NEW new, IsConfig(new), BootWith(new)
  PROVE  Promise!Next \/ UNCHANGED Promise!vars
<1>1. /\ write = NoWrite /\ reply' = "none" /\ reply = "none"
      /\ UNCHANGED <<durable, visible>>
  BY DEF StoreInv, ConfigInv, BootWith
<1>2. CASE UNCHANGED write
  <2>1. UNCHANGED <<Possible, Requested, Outcome>>
    BY <1>1, <1>2 DEF Possible, Requested, Outcome
  <2> QED
    BY <2>1 DEF Promise!vars
<1>3. CASE StartWrite("boot", Encode(new))
  <2>1. Promise!Ask
    BY <1>1, <1>3, EncodeIsText, AskPromised
  <2> QED
    BY <2>1 DEF Promise!Next
<1> QED
  BY <1>2, <1>3 DEF BootWith

LEMMA PowerOffPromised ==
  ASSUME StoreInv, StoreInv', PowerOff
  PROVE  Promise!PowerCut
<1>1. /\ durable' \in Possible /\ visible'.text = durable'
      /\ write' = NoWrite /\ reply' = "none"
  BY DEF PowerOff, Clean
<1>2. Possible' = {durable'}
  BY <1>1 DEF StoreInv, WriteInv, Possible
<1>3. Requested' = NoFile /\ Outcome' = "none"
  BY <1>1 DEF Requested, Outcome
<1> QED
  BY <1>1, <1>2, <1>3 DEF Promise!PowerCut

LEMMA PromisedSteps ==
  ASSUME StoreInv, StoreInv', [Next]_vars
  PROVE  [Promise!Next]_(Promise!vars)
<1>1. CASE Command
  BY <1>1, CommandPromised
<1>2. CASE WriteStep
  BY <1>2, WriteStepPromised
<1>3. CASE BootFromFile
  <2>1. PICK seed \in Keys :
          Loads(durable, seed) /\ BootWith(Decode(durable, seed))
    BY <1>3 DEF BootFromFile
  <2>2. IsStoredText(durable)
    BY <2>1, Apart DEF Loads, StoreInv, TypeOK, IsFile
  <2>3. IsConfig(Decode(durable, seed))
    BY <2>2, DecodeIsConfig
  <2> QED
    BY <1>3, <2>1, <2>3, BootPromised DEF BootFromFile
<1>4. CASE BootFromDefaults
  <2>1. PICK seed \in Keys : BootWith(Defaults(seed))
    BY <1>4 DEF BootFromDefaults
  <2>2. IsConfig(Defaults(seed))
    BY DefaultsAreConfig
  <2> QED
    BY <1>4, <2>1, <2>2, BootPromised DEF BootFromDefaults
<1>5. CASE PowerOff
  BY <1>5, PowerOffPromised DEF Promise!Next
<1>6. CASE UNCHANGED vars
  <2>1. UNCHANGED <<Possible, Requested, Outcome>>
    BY <1>6 DEF vars, Possible, Requested, Outcome
  <2> QED
    BY <2>1 DEF Promise!vars
<1> QED
  BY <1>1, <1>2, <1>3, <1>4, <1>5, <1>6 DEF Next

\* write_atomic, whichever of its calls fail and wherever power is cut, leaves
\* the old or the new file, and the new one once it has reported it.
THEOREM StoreKeepsPromise == Spec => KeepsPromise
  BY StoreInvariant, PromisedInit, PromisedSteps, PTL
  DEF Spec, KeepsPromise, Promise!Spec
==============================================================================
