-------------------------------- MODULE Regions --------------------------------
(***************************************************************************)
(* The region commands of cli.rs on the table of one repeater, the saving  *)
(* of the table after each and its reading at boot, line by line, over the *)
(* defaults of the image's profile.                                        *)
(***************************************************************************)
EXTENDS RegionTable

CONSTANTS
  Profile,         \* the table of the image's profile
  ProfileCapture,  \* region.capture of the profile
  Codes,           \* transport codes
  Read, ReadValue, \* what a name reads as, where it is a key and where a value
  Unreadable,      \* names whose key is refused: empty, or blank at its beginning
  Escaped          \* names that are refused as a value, for a backslash

\* A name as it is typed, or read.
Words ==
  {word \in [name : Names, private : BOOLEAN] : word.private => word.name \in Private}

NoWord == [name |-> NoName, private |-> FALSE]

\* A line holds a name without its '#': that of `##x`, `#x`, reads as `x`, and that
\* of `#$x` as the private `$x`.  As a value, two backslashes read as one, a blank at
\* the beginning as none, and an empty one as no region.
ASSUME ReadAssumption ==
  /\ Read \in [Names -> Words]
  /\ ReadValue \in [Names -> Words \cup {NoWord}]
  /\ Unreadable \subseteq Names /\ Escaped \subseteq Names

ASSUME ProfileAssumption ==
  /\ Profile \in RegionMaps
  /\ ProfileCapture \in BOOLEAN
  /\ Len(Profile.entries) <= MaxRegions
  /\ \A i, j \in DOMAIN Profile.entries :
       i # j => /\ Profile.entries[i].name # Profile.entries[j].name
                /\ Profile.entries[i].id # Profile.entries[j].id
  /\ \A i \in DOMAIN Profile.entries : Profile.entries[i].id < Profile.next_id
  /\ Profile.default_id = NoId
       \/ \E i \in DOMAIN Profile.entries : Profile.entries[i].id = Profile.default_id

VARIABLES
  regions, region_capture,  \* AppConfig
  file,     \* the lines of app.conf about them
  rest,     \* the lines still to be read by the boot under way
  booting,
  chosen,   \* history: the default region, by the name it was chosen by
  saved     \* history: what the lines were written from

regionVars == <<regions, region_capture, file, rest, booting, chosen, saved>>

Text(map, capture) == LinesOf(map, capture, Profile, ProfileCapture)

\* A file written of this configuration.
WrittenOf(map, capture) ==
  /\ file' = Text(map, capture)
  /\ saved' = [regions |-> map, capture |-> capture]

RegionsInit ==
  /\ regions = Profile
  /\ region_capture = ProfileCapture
  /\ file = Text(Profile, ProfileCapture)
  /\ rest = <<>>
  /\ booting = FALSE
  /\ chosen = DefaultName(Profile)
  /\ saved = [regions |-> Profile, capture |-> ProfileCapture]

-------------------------------------------------------------------------------
(* Commands: an accepted one is saved at once. *)

Accept(map, capture) ==
  /\ ~booting
  /\ regions' = map
  /\ region_capture' = capture
  /\ WrittenOf(map, capture)
  /\ UNCHANGED <<rest, booting>>

\* region put: also allows the flooding of a region that is there.
PutRegion ==
  \E word \in Words :
    /\ CanPut(regions, word.name)
    /\ Accept(Put(regions, word.name, word.private), region_capture)
    /\ UNCHANGED chosen

\* Whether the profile's regions may be removed is not asked.
RemoveAnyRegion ==
  \E name \in Names :
    /\ Knows(regions, name)
    /\ Accept(RemoveFrom(regions, name), region_capture)
    /\ chosen' = IF chosen = name THEN NoName ELSE chosen

\* region remove: one the profile brings would be back at the next boot.
RemoveRegion ==
  \E name \in Names :
    /\ ~Knows(Profile, name)
    /\ Knows(regions, name)
    /\ Accept(RemoveFrom(regions, name), region_capture)
    /\ chosen' = IF chosen = name THEN NoName ELSE chosen

\* region allowf and region denyf
SetRegionFlood ==
  \E name \in Names \cup {Wildcard}, allowed \in BOOLEAN :
    /\ CanSetFlood(regions, name)
    /\ Accept(SetFlood(regions, name, allowed), region_capture)
    /\ UNCHANGED chosen

\* region default, and unset region.default, which takes the profile's.
SetDefaultRegion ==
  \E word \in Words \cup {NoWord, [name |-> Wildcard, private |-> FALSE]} :
    /\ CanChooseDefault(regions, word.name, word.private)
    /\ Accept(ChooseDefault(regions, word.name, word.private), region_capture)
    /\ chosen' = IF word.name \in Names THEN word.name ELSE NoName

\* region capture, and unset region.capture
SetCapture ==
  \E enabled \in BOOLEAN :
    /\ Accept(regions, enabled)
    /\ UNCHANGED chosen

-------------------------------------------------------------------------------
(* The boot *)

Reboot ==
  /\ ~booting
  /\ booting' = TRUE
  /\ regions' = Profile
  /\ region_capture' = ProfileCapture
  /\ chosen' = DefaultName(Profile)
  /\ rest' = file
  /\ UNCHANGED <<file, saved>>

\* set_default_from_config: `<null>` is no region.
ReadDefault(value) == IF value = NoName THEN NoWord ELSE ReadValue[value]

\* What decode_config_layer accepts of the line it has come to.
Readable(line) ==
  CASE line.key = "default" ->
         LET word == ReadDefault(line.value)
         IN line.value \notin Escaped /\ CanChooseDefault(regions, word.name, word.private)
    [] line.key = "flood" ->
         line.name \notin {Wildcard, Capture}
           => line.name \notin Unreadable /\ CanPut(regions, Read[line.name].name)
    [] line.key = "capture" -> TRUE

\* The region named `capture` sets what its key says.
ReadLine ==
  /\ booting /\ rest # <<>>
  /\ Readable(Head(rest))
  /\ rest' = Tail(rest)
  /\ LET line == Head(rest)
     IN CASE line.key = "default" ->
               LET word == ReadDefault(line.value)
               IN /\ regions' = ChooseDefault(regions, word.name, word.private)
                  /\ chosen' = word.name
                  /\ UNCHANGED region_capture
          [] line.key = "flood" /\ line.name = Capture ->
               /\ region_capture' = line.allowed
               /\ UNCHANGED <<regions, chosen>>
          [] line.key = "flood" /\ line.name = Wildcard ->
               /\ regions' = SetFlood(regions, Wildcard, line.allowed)
               /\ UNCHANGED <<region_capture, chosen>>
          [] line.key = "flood" /\ line.name \notin {Wildcard, Capture} ->
               LET word == Read[line.name]
               IN /\ regions' = SetFlood(Put(regions, word.name, word.private),
                                         word.name, line.allowed)
                  /\ UNCHANGED <<region_capture, chosen>>
          [] line.key = "capture" ->
               /\ region_capture' = line.value
               /\ UNCHANGED <<regions, chosen>>
  /\ UNCHANGED <<file, booting, saved>>

\* One line that does not decode gives up the whole file.
ReadFails ==
  /\ booting /\ rest # <<>>
  /\ ~Readable(Head(rest))
  /\ rest' = <<>>
  /\ booting' = FALSE
  /\ regions' = Profile
  /\ region_capture' = ProfileCapture
  /\ chosen' = DefaultName(Profile)
  /\ WrittenOf(Profile, ProfileCapture)

\* load_or_create brings the file into its own form.
BootDone ==
  /\ booting /\ rest = <<>>
  /\ booting' = FALSE
  /\ WrittenOf(regions, region_capture)
  /\ UNCHANGED <<regions, region_capture, rest, chosen>>

RegionsNext ==
  \/ PutRegion
  \/ RemoveRegion
  \/ SetRegionFlood
  \/ SetDefaultRegion
  \/ SetCapture
  \/ Reboot
  \/ ReadLine
  \/ ReadFails
  \/ BootDone

RegionsSpec == RegionsInit /\ [][RegionsNext]_regionVars

-------------------------------------------------------------------------------
(* Properties *)

Lines ==
  [key : {"default"}, value : Names \cup {NoName}]
    \cup [key : {"flood"}, name : Names \cup {Wildcard}, allowed : BOOLEAN]
    \cup [key : {"capture"}, value : BOOLEAN]

\* The types of the variables; the table holds no more than MAX_REGIONS regions,
\* boots included, and no name twice.
RegionsTypeOK ==
  /\ regions \in RegionMaps
  /\ Len(regions.entries) <= MaxRegions
  /\ \A i, j \in DOMAIN regions.entries :
       i # j => regions.entries[i].name # regions.entries[j].name
  /\ region_capture \in BOOLEAN
  /\ file \in Seq(Lines) /\ rest \in Seq(Lines)
  /\ booting \in BOOLEAN
  /\ chosen \in Names \cup {NoName}
  /\ saved \in [regions : RegionMaps, capture : BOOLEAN]

\* The default region, kept as an id, is the one chosen by its name, through the
\* removal of others, of itself and of what was put before it, for as long as put
\* and remove have not come to the last id since the boot.
DefaultIsChosen == regions.next_id < MaxId => DefaultName(regions) = chosen

\* Read so, an entry comes back under another name, or private where it was not or
\* the reverse; a region of the profile is what it is there.
Misread(entry, word) ==
  \/ word.name # entry.name
  \/ word.private # entry.private /\ ~Knows(Profile, entry.name)

\* What the lines cannot say: a region named like another setting; one whose line is
\* refused or read as another (`#`, `##x`, `#$x`, a blank after the '#'); as the
\* default one with an escape or read as another, or one that a region of the profile
\* begins with but is not; a denied default, which the profile denies too and the
\* line of the default allows.
Unsayable(map) ==
  LET default == DefaultName(map)
      moved == default # DefaultName(Profile)
  IN \/ Knows(map, Default) \/ Knows(map, Capture)
     \/ \E i \in DOMAIN map.entries :
          LET entry == map.entries[i]
          IN /\ HasLine(Profile, entry)
             /\ entry.name \in Unreadable \/ Misread(entry, Read[entry.name])
     \/ moved /\ default \in Escaped
     \/ \E i \in Positions(map, default) : moved /\ Misread(map.entries[i], ReadValue[default])
     \/ /\ moved /\ default \in Names
        /\ ~Knows(Profile, default) /\ FoundByPrefix(Profile, default) # {}
     \/ /\ moved
        /\ \E i \in Positions(map, default) :
             map.entries[i].denied /\ SameFlag(Profile, map.entries[i])

Flags(map) ==
  {<<map.entries[i].name, map.entries[i].private, map.entries[i].denied>> :
     i \in DOMAIN map.entries}

SameRegions(map, other) ==
  /\ Flags(map) = Flags(other)
  /\ map.wildcard_denied = other.wildcard_denied
  /\ DefaultName(map) = DefaultName(other)

\* A boot comes up with the regions, their keys and flags, the default and the
\* capture that were saved: every line reads back over the profile, and together
\* they say all that differs from it, but for what Unsayable names.
RegionsReadBack ==
  booting /\ ~Unsayable(saved.regions)
    => IF rest = <<>>
       THEN SameRegions(regions, saved.regions) /\ region_capture = saved.capture
       ELSE Readable(Head(rest))

\* A flood scoped to a region that may be flooded is matched by one with its
\* code, whatever denied regions come before it in the table; a private region
\* that is allowed ends the search for all behind it.
AllowedIsMatched ==
  \A i \in Allowed(regions), codes \in [{name \in Names : Knows(regions, name)} -> Codes] :
    \/ \E j \in Allowed(regions) : j <= i /\ regions.entries[j].private
    \/ LET match == MatchTransport(regions, codes, codes[regions.entries[i].name])
       IN match # NoName /\ codes[match] = codes[regions.entries[i].name]

\* The table is what the commands have made of it, its default included.
TableKept == RegionsTypeOK /\ DefaultIsChosen
==============================================================================
