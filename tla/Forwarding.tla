------------------------------- MODULE Forwarding ------------------------------
(***************************************************************************)
(* What a repeater makes of a packet it has heard: prepare_forward and     *)
(* queue_repeater_packet of mod.rs with the paths, hops and signatures of  *)
(* the protocol crate.                                                     *)
(***************************************************************************)
EXTENDS RegionTable

CONSTANTS
  Nodes,         \* repeaters and the clients near them
  Hash,          \* Hash[size][node]: the first bytes of a node's public key
  Sizes,         \* bytes of a hash in a path
  Payloads,      \* what is carried, each with its kind and encoded length
  MaxPathBytes, MaxHops, MaxUnit  \* MAX_PATH_SIZE, 63, MAX_TRANS_UNIT

Floods == {"flood", "transport_flood"}
Directs == {"direct", "transport_direct"}
HasCodes(route) == route \in {"transport_flood", "transport_direct"}

HashValues == {Hash[size][node] : size \in Sizes, node \in Nodes}

LoopDetections == {"off", "minimal", "moderate", "strict"}

\* AppConfig, as far as forwarding goes.
Settings ==
  [repeat : BOOLEAN, capture : BOOLEAN, regions : RegionMaps,
   max_unscoped : 0 .. MaxHops, max_advert : 0 .. MaxHops, loop : LoopDetections]

\* A transport code is known by the region it is made for; NoName for none.  Of
\* a trace `asked` is the way to go, in its payload, and `samples` what each hop
\* measured, in the place of its path.
Packets ==
  [route : Floods \cup Directs, scope : Names \cup {NoName}, payload : Payloads,
   size : Sizes, path : Seq(HashValues), asked : Seq(HashValues), samples : Seq(Int)]

IsTrace(packet) == packet.payload.kind = "trace"

ASSUME ForwardingAssumption ==
  /\ Sizes \subseteq {1, 2, 3, 4}
  /\ Hash \in [Sizes -> [Nodes -> HashValues]]
  /\ MaxPathBytes \in Nat /\ MaxHops \in Nat /\ MaxUnit \in Nat
  /\ \A payload \in Payloads :
       /\ payload.kind \in {"advert", "trace", "unsupported", "other"}
       /\ payload.len \in Nat

-------------------------------------------------------------------------------
(* Loops *)

Occurrences(path, hash) == {i \in DOMAIN path : path[i] = hash}

\* Shorter hashes may be those of others: some are tolerated.
Threshold(loop, size) ==
  CASE loop = "minimal" /\ size = 1 -> 4
    [] loop = "minimal" /\ size = 2 -> 2
    [] loop = "moderate" /\ size = 1 -> 2
    [] OTHER -> 1

\* One occurrence more than tolerated.
DetectsLoopLate(loop, path, size, hash) ==
  loop # "off" /\ Cardinality(Occurrences(path, hash)) > Threshold(loop, size)

DetectsLoop(loop, path, size, hash) ==
  loop # "off" /\ Cardinality(Occurrences(path, hash)) >= Threshold(loop, size)

-------------------------------------------------------------------------------
(* Flood *)

\* Capture of whatever is not scoped, forwarded before or not.
CapturesAny(node, packet) == node.capture /\ packet.route = "flood"

\* Only what comes from its sender itself.
Captures(node, packet) ==
  node.capture /\ packet.route = "flood" /\ packet.path = <<>>

\* apply_default_scope: nothing without a default region.
Scoped(node, packet) ==
  LET default == DefaultName(node.regions)
  IN IF Captures(node, packet) /\ default # NoName
     THEN [packet EXCEPT !.route = "transport_flood", !.scope = default]
     ELSE packet

\* The default region has no key.
CaptureFails(node, packet) ==
  Captures(node, packet) /\ DefaultPrivate(node.regions)

\* Codes of two regions that happen to be equal are left to Regions.
OwnCodes == [name \in Names |-> name]

\* match_flood_region
MatchFlood(map, packet) ==
  IF packet.route = "transport_flood"
  THEN MatchTransport(map, OwnCodes, packet.scope)
  ELSE IF map.wildcard_denied THEN NoName ELSE Wildcard

\* append_hash
CanAppend(path, size) == (Len(path) + 1) * size <= MaxPathBytes /\ Len(path) < MaxHops

\* The hop added to a copy that is not the one sent.
HopLost(packet, hash) == packet

Hop(packet, hash) == [packet EXCEPT !.path = Append(@, hash)]

\* The packets, one or none, to send on for a flood.
FloodForwards(node, hash, packet) ==
  LET scoped == Scoped(node, packet)
      match == MatchFlood(node.regions, scoped)
      hops == Len(packet.path)
  IN {forward \in {Hop(scoped, hash)} :
        /\ packet.route \in Floods
        /\ ~CaptureFails(node, packet)
        /\ match # NoName
        /\ ~DetectsLoop(node.loop, packet.path, packet.size, hash)
        /\ packet.payload.kind = "advert" => hops < node.max_advert
        /\ match = Wildcard => hops < node.max_unscoped
        /\ CanAppend(packet.path, packet.size)}

-------------------------------------------------------------------------------
(* Direct and trace *)

\* The hop may be anywhere on the path.
DirectForwardsAnywhere(hash, packet) ==
  {[packet EXCEPT !.path = SubSeq(@, i + 1, Len(@))] :
     i \in {i \in Occurrences(packet.path, hash) : packet.route \in Directs}}

\* consume_direct_hop: the packet is for the first hop of what is left.
DirectForwards(hash, packet) ==
  {forward \in {[packet EXCEPT !.path = IF @ = <<>> THEN @ ELSE Tail(@)]} :
     /\ packet.route \in Directs
     /\ packet.path # <<>>
     /\ Head(packet.path) = hash}

\* i8::MIN to i8::MAX, for an SNR in quarters of a decibel.
Clamp(snr) == IF snr < -128 THEN -128 ELSE IF snr > 127 THEN 127 ELSE snr

TraceForwards(hash, snr, packet) ==
  LET taken == Len(packet.samples)
  IN {forward \in {[packet EXCEPT !.samples = Append(@, Clamp(snr))]} :
        /\ packet.route = "direct"
        /\ taken < Len(packet.asked)
        /\ packet.asked[taken + 1] = hash
        /\ taken < MaxHops}

-------------------------------------------------------------------------------

\* dedup_signature: not of the path, but of the hops a trace has made.
Signature(packet) ==
  [payload |-> packet.payload, route |-> packet.route, scope |-> packet.scope,
   asked |-> packet.asked, taken |-> IF IsTrace(packet) THEN Len(packet.samples) ELSE 0]

\* Packet::encode
EncodedLen(packet) ==
  packet.payload.len + (IF HasCodes(packet.route) THEN 4 ELSE 0)
    + IF IsTrace(packet) THEN Len(packet.samples) ELSE Len(packet.path) * packet.size

\* prepare_forward, and the first half of queue_repeater_packet.  The signature is
\* taken after a capture and before the hop is added.
Forwards(node, hash, snr, packet) ==
  {forward \in
     CASE ~node.repeat \/ packet.payload.kind = "unsupported" -> {}
       [] node.repeat /\ IsTrace(packet) -> TraceForwards(hash, snr, packet)
       [] OTHER -> FloodForwards(node, hash, packet) \cup DirectForwards(hash, packet) :
     EncodedLen(forward) <= MaxUnit}

ForwardSignature(node, packet) ==
  IF IsTrace(packet) THEN Signature(packet) ELSE Signature(Scoped(node, packet))
==============================================================================
