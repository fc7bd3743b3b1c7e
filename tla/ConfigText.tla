------------------------------ MODULE ConfigText ------------------------------
(***************************************************************************)
(* The settings of config.rs and the text they are kept in.  The text      *)
(* holds the device's key and, of the other settings, those that differ    *)
(* from the image's defaults: here a function from the settings it has a   *)
(* line for to their values.                                               *)
(*                                                                         *)
(* A setting stands for all those treated alike: "limit" for the ones      *)
(* checked before they are stored (duty cycle, hops, path hash mode, tier, *)
(* coordinates, NTP host, Wi-Fi, and those that their command parses:      *)
(* repeat, loop detection, advert intervals), "texts" for the long ones    *)
(* stored as they are given (MQTT credentials and topics), "label" for the *)
(* ones cut to a length, which may leave a space at their end (owner       *)
(* information, password), "regions" for the region table, its default and *)
(* region.capture, whose lines share their names.  Of a value only its     *)
(* validity, what its lines read as and whether it is the image's matter;  *)
(* module Regions says which regions read as others, and which not at all. *)
(***************************************************************************)
EXTENDS FiniteSets, Integers

CONSTANTS
  Keys,         \* private keys
  Names,        \* node names
  Generated,    \* generated_node_name: the name made of a key
  NoName,       \* no name
  ProfileName,  \* the node name the image's profile gives, or NoName
  Texts,        \* the long settings
  AclKeys,      \* the nodes the access list may name
  Powers, Ports,  \* the values commands bring of these settings
  Tables,       \* the region tables
  ImageTable,   \* the one of the image's profile
  Silent,       \* those that write no lines, as for a region named "default"
  ReadAs,       \* the table that the lines of a table read as
  Unread,       \* those with a line that no boot reads: of a region named '#', or
                \* of a default with a backslash or one that the name of a region
                \* of the image begins with
  MaxLen        \* APP_CONFIG_MAX_LEN, in lines of long settings and rules

ASSUME TextAssumption ==
  /\ NoName \notin Names
  /\ ProfileName \in Names \cup {NoName}
  /\ Generated \in [Keys -> Names]
  \* Else decode_config_layer takes the profile's name for the seed's own.
  /\ \A key \in Keys : Generated[key] # ProfileName
  /\ {"image"} \subseteq Powers /\ Powers \subseteq {"image", "other", "outside"}
  /\ {"image"} \subseteq Ports /\ Ports \subseteq {"image", "other", "0"}
  /\ ImageTable \in Silent /\ Silent \subseteq Tables
  /\ ReadAs \in [Tables -> Tables]
  /\ \A table \in Silent : ReadAs[table] = ImageTable
  /\ Unread \subseteq Tables \ Silent
  /\ IsFiniteSet(Texts) /\ IsFiniteSet(AclKeys)
  /\ MaxLen \in Nat

Ranged == {"image", "other", "outside"}

\* StoredAppConfig: each setting with the values commands may bring.
Values ==
  [key |-> Keys, name |-> Names, frequency |-> Ranged, power |-> Powers,
   limit |-> Ranged, host |-> {"", "plain", "url", "malformed"},
   port |-> Ports, regions |-> Tables, label |-> {"image", "other", "spaced"},
   texts |-> SUBSET Texts, acl |-> SUBSET AclKeys]

Settings == DOMAIN Values

\* default_with_private_key
Defaults(key) ==
  [key |-> key,
   name |-> IF ProfileName = NoName THEN Generated[key] ELSE ProfileName,
   frequency |-> "image", power |-> "image", limit |-> "image", host |-> "",
   port |-> "image", regions |-> ImageTable, label |-> "image", texts |-> {}, acl |-> {}]

\* RadioConfig::validate
RadioValid(config) ==
  /\ config.frequency # "outside"
  /\ config.power # "outside"

\* Endpoint::parse: a host without a scheme takes the configured port.
EndpointParses(host, port) ==
  \/ host = "url"
  \/ host = "plain" /\ port # "0"

\* What decode_config_layer requires of the settings it has read.
Valid(config) ==
  /\ RadioValid(config)
  /\ config.limit # "outside"
  /\ config.host = "" \/ EndpointParses(config.host, config.port)

\* The settings with lines of their own.
Overrides(config) ==
  {s \in Settings : IF s = "regions" THEN config.regions \notin Silent
                    ELSE config[s] # Defaults(config.key)[s]}

\* Without the key, which never differs from its own defaults.
EncodeOverrides(config) == [s \in Overrides(config) |-> config[s]]

\* encode_config_text
Encode(config) == [s \in {"key"} \cup Overrides(config) |-> config[s]]

\* UNPROVISIONED_CONFIG_TEXT: a version and nothing else.
Unprovisioned == [s \in {} |-> s]

\* What a file that does not exist holds, and one only partly written.
NoFile == [missing |-> TRUE]
Torn == [torn |-> TRUE]

IsText(file) == DOMAIN file \subseteq Settings
HasKey(file) == "key" \in DOMAIN file

LineCount(text, setting) ==
  IF setting \in DOMAIN text THEN Cardinality(text[setting]) ELSE 0

Fits(text) == LineCount(text, "texts") + LineCount(text, "acl") <= MaxLen

\* The name when a text has none, whatever its key.
NameOfDefaults(key, seed) == Defaults(seed).name

\* The name of a text without one: the defaults' unless that was made of the
\* key they were made with and the text has a key of its own.
NameWithoutLine(key, seed) ==
  IF key # seed /\ Defaults(seed).name = Generated[seed]
  THEN Generated[key]
  ELSE Defaults(seed).name

\* The space around a value is trimmed as its line is read, and the lines of
\* regions make the table they name: what is read need not read as itself.
ValueAsRead(setting, value) ==
  CASE setting = "regions" -> ReadAs[value]
    [] setting = "label" -> IF value = "spaced" THEN "other" ELSE value
    [] OTHER -> value

AsRead(config) == [s \in Settings |-> ValueAsRead(s, config[s])]

\* decode_config_layer, over the defaults of a key made for this boot.
Decode(text, seed) ==
  [s \in Settings |->
     IF s \in DOMAIN text THEN ValueAsRead(s, text[s])
     ELSE IF s = "name"
       THEN NameWithoutLine(IF "key" \in DOMAIN text THEN text.key ELSE seed,
                            seed)
     ELSE Defaults(seed)[s]]

\* A line that the parser, set_region_from_config or set_default_from_config
\* refuses is the end of the whole text.
LinesParse(text) == "regions" \in DOMAIN text => text.regions \notin Unread

\* load_config_file finds settings in the file.
Loads(file, seed) ==
  IsText(file) /\ LinesParse(file) /\ Valid(Decode(file, seed))

\* What load_or_create runs with when the file can be read.
Load(file, seed) ==
  IF Loads(file, seed) THEN Decode(file, seed) ELSE Defaults(seed)

\* The settings a later boot can read back.
Loadable(config) == Valid(config) /\ config.regions \notin Unread
==============================================================================
