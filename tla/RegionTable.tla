------------------------------ MODULE RegionTable ------------------------------
(***************************************************************************)
(* The region table of regions.rs: the regions a repeater knows, whether   *)
(* each may be flooded, the one its own packets are scoped to, and the     *)
(* lines that keep all this in the configuration file.                     *)
(*                                                                         *)
(* A name is one value, the one that strip_hash leaves of what was typed:  *)
(* the table compares and writes names without the '#' they may begin with *)
(* and derives keys from names with it.  Only one is taken off, so that a  *)
(* name may itself begin with '#', or be empty.  A region is private when  *)
(* what was typed begins with '$': `$x` is, and `#$x`, of the same name,   *)
(* is not.  Of the characters only what a name begins with matters.        *)
(***************************************************************************)
EXTENDS Integers, SequencesExt

CONSTANTS
  Names,       \* what strip_hash leaves of names that normalize_region_name accepts
  Begins,      \* Begins[p]: the names that begin with p
  Private,     \* names beginning with '$': typed so, no key is made of the region
  Default, Capture,  \* the names `default` and `capture`
  Wildcard, NoName,  \* `*`, and no region: `<null>`
  MaxRegions,  \* MAX_REGIONS
  MaxId        \* u16::MAX

ASSUME RegionAssumption ==
  /\ Wildcard \notin Names /\ NoName \notin Names /\ Wildcard # NoName
  /\ {Default, Capture} \cap {Wildcard, NoName} = {}
  /\ Begins \in [Names -> SUBSET Names] /\ \A p \in Names : p \in Begins[p]
  /\ Private \subseteq Names
  /\ MaxRegions \in Nat
  /\ MaxId \in Nat \ {0}

\* The wildcard's id, which no region has.
NoId == 0

Entries == [id : 1 .. MaxId, name : Names, private : BOOLEAN, denied : BOOLEAN]

RegionMaps ==
  [next_id : 1 .. MaxId, default_id : 0 .. MaxId, wildcard_denied : BOOLEAN,
   entries : Seq(Entries)]

Positions(map, name) == {i \in DOMAIN map.entries : map.entries[i].name = name}

Knows(map, name) == Positions(map, name) # {}

\* A name is in the table once: the first position is the only one.
SetFlag(map, name, denied) ==
  [map EXCEPT !.entries =
     [i \in DOMAIN @ |->
        IF i \in Positions(map, name) THEN [@[i] EXCEPT !.denied = denied] ELSE @[i]]]

-------------------------------------------------------------------------------
(* The operations; a refused one, whose condition fails, changes nothing. *)

CanPut(map, name) ==
  name \in Names /\ (Knows(map, name) \/ Len(map.entries) < MaxRegions)

\* put_region's entry.
NewEntry(id, name, private) ==
  [id |-> id, name |-> name, private |-> private, denied |-> FALSE]

\* Ids of removed regions taken again.
PutReusing(map, name, private) ==
  IF Knows(map, name) THEN SetFlag(map, name, FALSE)
  ELSE [map EXCEPT !.entries = Append(@, NewEntry(Len(@) + 1, name, private))]

\* The last id is given out again and again: next_id saturates.  A region that is
\* there stays private or not, however it is typed now.
Put(map, name, private) ==
  IF Knows(map, name) THEN SetFlag(map, name, FALSE)
  ELSE [map EXCEPT
          !.next_id = IF @ < MaxId THEN @ + 1 ELSE MaxId,
          !.entries = Append(@, NewEntry(map.next_id, name, private))]

RemoveFrom(map, name) ==
  [map EXCEPT
     !.entries = RemoveAt(@, CHOOSE i \in Positions(map, name) : TRUE),
     !.default_id =
        IF \E i \in Positions(map, name) : map.entries[i].id = @ THEN NoId ELSE @]

CanSetFlood(map, name) == name = Wildcard \/ Knows(map, name)

SetFlood(map, name, allowed) ==
  IF name = Wildcard THEN [map EXCEPT !.wildcard_denied = ~allowed]
  ELSE SetFlag(map, name, ~allowed)

\* find_by_name_prefix: the region of that name, else the last that begins so.
FoundByPrefix(map, prefix) ==
  IF Knows(map, prefix) THEN Positions(map, prefix)
  ELSE LET partial == {i \in DOMAIN map.entries : map.entries[i].name \in Begins[prefix]}
       IN IF partial = {} THEN {} ELSE {Max(partial)}

\* A region found by its prefix only is not found by set_flood_allowed.
CanSetDefault(map, name) == name \in {NoName, Wildcard} \/ Knows(map, name)

SetDefault(map, name) ==
  IF name \in {NoName, Wildcard} THEN [map EXCEPT !.default_id = NoId]
  ELSE LET found == CHOOSE i \in FoundByPrefix(map, name) : TRUE
       IN [SetFlood(map, name, TRUE) EXCEPT !.default_id = map.entries[found].id]

\* set_default_region and set_default_from_config: a region that no name in the
\* table begins with is put first.
Putting(map, name, private) ==
  IF name \in Names /\ FoundByPrefix(map, name) = {} THEN Put(map, name, private) ELSE map

CanChooseDefault(map, name, private) ==
  /\ name \in Names /\ FoundByPrefix(map, name) = {} => CanPut(map, name)
  /\ CanSetDefault(Putting(map, name, private), name)

ChooseDefault(map, name, private) == SetDefault(Putting(map, name, private), name)

\* default_region: the first with the id.
DefaultName(map) ==
  LET found == {i \in DOMAIN map.entries : map.entries[i].id = map.default_id}
  IN IF found = {} THEN NoName ELSE map.entries[Min(found)].name

\* A name is in the table once.
DefaultPrivate(map) == \E i \in Positions(map, DefaultName(map)) : map.entries[i].private

-------------------------------------------------------------------------------
(* Matching a flooded packet, whose codes under each region's key are `codes` *)

Allowed(map) == {i \in DOMAIN map.entries : ~map.entries[i].denied}

\* The search stopped by a region that may not be flooded.
HitsUnlessDenied(map, codes, primary) ==
  {i \in DOMAIN map.entries : map.entries[i].denied \/ codes[map.entries[i].name] = primary}

\* The regions the search ends at: one with the packet's code, or a private one,
\* at which it gives up.
Hits(map, codes, primary) ==
  {i \in Allowed(map) :
     map.entries[i].private \/ codes[map.entries[i].name] = primary}

\* match_transport_region
MatchTransport(map, codes, primary) ==
  LET hits == Hits(map, codes, primary)
  IN IF hits = {} THEN NoName
     ELSE LET entry == map.entries[Min(hits)]
          IN IF entry.denied \/ entry.private THEN NoName ELSE entry.name

-------------------------------------------------------------------------------
(* The configuration's lines, over the defaults they are read with *)

SameFlag(defaults, entry) ==
  \E i \in Positions(defaults, entry.name) : defaults.entries[i].denied = entry.denied

\* Whether the region has a line: not the one named like region.default, and not
\* one that the defaults bring with the same flag.
HasLine(defaults, entry) == entry.name # Default /\ ~SameFlag(defaults, entry)

FloodLine(name, denied) == [key |-> "flood", name |-> name, allowed |-> ~denied]

\* The lines of the regions, in the order of the table.
RegionLines(map, defaults) ==
  LET upto[n \in 0 .. Len(map.entries)] ==
        IF n = 0 THEN <<>>
        ELSE LET entry == map.entries[n]
             IN IF HasLine(defaults, entry)
                THEN Append(upto[n - 1], FloodLine(entry.name, entry.denied))
                ELSE upto[n - 1]
  IN upto[Len(map.entries)]

DefaultLine(map, defaults) ==
  IF DefaultName(map) = DefaultName(defaults) THEN <<>>
  ELSE <<[key |-> "default", value |-> DefaultName(map)]>>

WildcardLine(map, defaults) ==
  IF map.wildcard_denied = defaults.wildcard_denied THEN <<>>
  ELSE <<FloodLine(Wildcard, map.wildcard_denied)>>

\* write_config_lines_changed, and the line of region.capture after it.
LinesOf(map, capture, defaults, default_capture) ==
  DefaultLine(map, defaults) \o WildcardLine(map, defaults)
    \o RegionLines(map, defaults)
    \o (IF capture = default_capture THEN <<>>
        ELSE <<[key |-> "capture", value |-> capture]>>)
==============================================================================
