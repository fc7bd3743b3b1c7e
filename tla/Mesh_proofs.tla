------------------------------ MODULE Mesh_proofs ------------------------------
(***************************************************************************)
(* Theorems about packets on their way through repeaters that hear one     *)
(* another, for every set of nodes, links, settings, hashes (those of      *)
(* different nodes may be equal) and packets first sent, and whatever is   *)
(* missed, given up or forgotten; and about the region table that scopes   *)
(* them, for every profile, MAX_REGIONS and last id: its commands, the     *)
(* saving of it and its reading back, line by line.                        *)
(***************************************************************************)
EXTENDS Mesh, Regions, SequenceTheorems, FiniteSetTheorems, NaturalsInduction,
        WellFoundedInduction, TLAPS

------------------------------------------------------------------------------
(* The invariant *)

\* The hash of the i-th hop of a packet that senders have sent on.
HopHash(packet, senders, i) == Hash[packet.size][senders[i + 1]]

\* The packet's path tells its way: each hop taken has left its hash in the path
\* of a flood, is the next that a trace asked for, and was taken off the front of
\* the path a direct packet was first sent with.
TellsWay(packet, first, senders) ==
  LET hops == Len(senders) - 1
  IN /\ IsTrace(packet) =>
          /\ Len(packet.samples) = hops /\ hops <= Len(packet.asked)
          /\ \A i \in 1 .. hops : packet.asked[i] = HopHash(packet, senders, i)
     /\ packet.route \in Floods /\ ~IsTrace(packet) =>
          /\ Len(packet.path) = hops
          /\ \A i \in 1 .. hops : packet.path[i] = HopHash(packet, senders, i)
     /\ packet.route \in Directs /\ ~IsTrace(packet) =>
          /\ Len(first.path) = hops + Len(packet.path)
          /\ \A i \in 1 .. hops : first.path[i] = HopHash(packet, senders, i)
          /\ \A i \in 1 .. Len(packet.path) : packet.path[i] = first.path[hops + i]

\* Each sample is what the hop measured of the one before it.  Only a trace has
\* any.
TellsSnr(packet, senders) ==
  /\ Len(packet.samples) < Len(senders)
  /\ \A i \in 1 .. Len(packet.samples) :
       packet.samples[i] = Clamp(Snr[<<senders[i], senders[i + 1]>>])

\* All that sent it on match its region, as it has been since its first hop.
InScope(packet, first, senders) ==
  /\ packet.route \in Floods =>
       \A i \in 2 .. Len(senders) : MatchFlood(Config[senders[i]].regions, packet) # NoName
  /\ packet.scope # first.scope \/ packet.route # first.route =>
       /\ first.route = "flood"
       /\ Len(senders) > 1
       /\ Config[senders[2]].capture
       /\ packet.scope = DefaultName(Config[senders[2]].regions)

\* A packet that came by these senders, the first of which made it.
Came(packet, first, senders) ==
  /\ packet \in Packets /\ first \in Packets
  /\ Fits(packet) /\ Len(first.path) <= MaxHops
  /\ senders \in Seq(Nodes) /\ Len(senders) \in 1 .. MaxHops + 1
  /\ TellsWay(packet, first, senders)
  /\ TellsSnr(packet, senders)
  /\ InScope(packet, first, senders)

CopyTypes == [packet : Packets, first : Packets, via : Seq(Nodes)]

\* A copy that is heard came by its history.
HeardOK(event) ==
  LET copy == event.copy via == copy.via
  IN /\ event.at \in Nodes /\ copy \in CopyTypes
     /\ Came(copy.packet, copy.first, via)
     /\ <<via[Len(via)], event.at>> \in Links
     /\ event.snr = Snr[<<via[Len(via)], event.at>>]

\* The times its node has sent a packet on, as one of senders.
TimesSent(node, senders) == {i \in 2 .. Len(senders) : senders[i] = node}

\* A copy that is queued came by its history and the node it is queued at, which
\* has sent it on no more often than it tolerates.
QueuedOK(item) ==
  LET copy == item.copy senders == Append(copy.via, item.at)
  IN /\ item.at \in Nodes /\ copy \in CopyTypes
     /\ Came(copy.packet, copy.first, senders)
     /\ copy.packet.route \in Floods /\ Config[item.at].loop # "off" =>
          Cardinality(TimesSent(item.at, senders))
            <= Threshold(Config[item.at].loop, copy.packet.size)

MeshInv ==
  /\ \A event \in heard : HeardOK(event)
  /\ \A item \in queue : QueuedOK(item)
  /\ DOMAIN seen = Nodes

------------------------------------------------------------------------------
(* Sequences and counting *)

\* The least of some natural numbers is there.
LEMMA MinThere ==
  ASSUME NEW S \in SUBSET Nat, S # {}
  PROVE  Min(S) \in S /\ \A n \in S : Min(S) <= n
  <1>1. PICK least \in S : \A n \in S : ~ (<<n, least>> \in OpToRel(<, Nat))
    BY NatLessThanWellFounded, WFMin
  <1>2. \A n \in S : least <= n
    <2>1. \A n, m \in Nat : n < m => <<n, m>> \in OpToRel(<, Nat)
      BY DEF OpToRel
    <2>2. \A n \in S : n \in Nat /\ least \in Nat /\ (n < least \/ least <= n)
      OBVIOUS
    <2>3. QED
      BY <1>1, <2>1, <2>2
  <1>3. QED
    BY <1>2 DEF Min

\* Induction, stated of a set: what holds of 0 and goes from one number up to n to the
\* next holds of them all.
LEMMA CountUp ==
  ASSUME NEW n \in Nat, NEW T, 0 \in T, \A m \in 0 .. n : m # n /\ m \in T => m + 1 \in T
  PROVE  0 .. n \subseteq T
  <1> DEFINE without == (0 .. n) \ T
  <1>1. SUFFICES ASSUME without # {} PROVE FALSE
    OBVIOUS
  <1>2. without \in SUBSET Nat
    OBVIOUS
  <1>3. Min(without) \in without /\ \A k \in without : Min(without) <= k
    BY <1>1, <1>2, MinThere
  <1> DEFINE k == Min(without)
  <1>4. k \in 1 .. n /\ k \notin T
    BY <1>3
  <1>5. k - 1 \in 0 .. n /\ k - 1 # n /\ k - 1 < k /\ (k - 1) + 1 = k
    <2> HIDE DEF k
    <2>1. QED
      BY <1>4
  <1>6. k - 1 \in T
    <2>1. k - 1 \notin without
      <3>1. \A i \in without : k <= i
        BY <1>3
      <3> HIDE DEF k, without
      <3>2. QED
        BY <1>4, <3>1
    <2>2. QED
      BY <1>5, <2>1
  <1>7. QED
    BY <1>4, <1>5, <1>6

\* A set without more members than another it can be sent into one to one.
LEMMA ShiftedCount ==
  ASSUME NEW n \in Nat, NEW S, NEW T \in SUBSET (1 .. n), S \subseteq 2 .. n + 1,
         \A i \in S : i - 1 \in T
  PROVE  /\ IsFiniteSet(S) /\ IsFiniteSet(T)
         /\ Cardinality(S) \in Nat /\ Cardinality(T) \in Nat
         /\ Cardinality(S) <= Cardinality(T)
  <1>1. IsFiniteSet(T)
    <2>1. IsFiniteSet(1 .. n)
      BY FS_Interval
    <2>2. QED
      BY <2>1, FS_Subset
  <1> DEFINE shift == [i \in S |-> i - 1]
  <1>2. shift \in Injection(S, T)
    <2>1. shift \in [S -> T]
      OBVIOUS
    <2>2. \A i, j \in S : shift[i] = shift[j] => i = j
      OBVIOUS
    <2>3. QED
      BY <2>1, <2>2 DEF Injection, IsInjective
  <1> HIDE DEF shift
  <1>3. IsFiniteSet(S) /\ Cardinality(S) <= Cardinality(T)
    BY <1>1, <1>2, FS_Injection
  <1>4. QED
    BY <1>1, <1>3, FS_CardinalityType

------------------------------------------------------------------------------
(* What the rules make of a packet *)

\* The settings of a node.
LEMMA ConfigTyped ==
  ASSUME NEW node \in Nodes
  PROVE  /\ Config[node] \in Settings /\ Config[node].regions \in RegionMaps
         /\ \A size \in Sizes : Hash[size][node] \in HashValues
  <1>1. Config[node] \in Settings
    BY MeshAssumption
  <1>2. QED
    BY <1>1, ForwardingAssumption DEF Settings, HashValues

\* What a table's type says of its regions.
LEMMA MapFacts ==
  ASSUME NEW map \in RegionMaps
  PROVE  /\ map.entries \in Seq(Entries)
         /\ Len(map.entries) \in Nat
         /\ DOMAIN map.entries = 1 .. Len(map.entries)
         /\ \A i \in DOMAIN map.entries :
              /\ map.entries[i] \in Entries
              /\ map.entries[i].id \in 1 .. MaxId
              /\ map.entries[i].name \in Names
              /\ map.entries[i].denied \in BOOLEAN
              /\ map.entries[i].private \in BOOLEAN
         /\ map.next_id \in 1 .. MaxId /\ map.default_id \in 0 .. MaxId
         /\ map.wildcard_denied \in BOOLEAN
  <1>1. map.entries \in Seq(Entries)
    BY DEF RegionMaps
  <1>2. /\ Len(map.entries) \in Nat
        /\ DOMAIN map.entries = 1 .. Len(map.entries)
        /\ \A i \in DOMAIN map.entries : map.entries[i] \in Entries
    BY <1>1, LenProperties, ElementOfSeq
  <1>3. \A i \in DOMAIN map.entries :
          /\ map.entries[i].id \in 1 .. MaxId
          /\ map.entries[i].name \in Names
          /\ map.entries[i].denied \in BOOLEAN
          /\ map.entries[i].private \in BOOLEAN
    BY <1>2 DEF Entries
  <1>4. QED
    BY <1>1, <1>2, <1>3 DEF RegionMaps

\* The name of the default region is one, or none.
LEMMA DefaultNameTyped ==
  ASSUME NEW map \in RegionMaps
  PROVE  DefaultName(map) \in Names \cup {NoName}
  <1> DEFINE found == {i \in DOMAIN map.entries : map.entries[i].id = map.default_id}
  <1>1. CASE found = {}
    BY <1>1 DEF DefaultName
  <1>2. CASE found # {}
    <2>1. found \in SUBSET Nat
      BY MapFacts
    <2>2. Min(found) \in found
      BY <1>2, <2>1, MinThere
    <2>3. map.entries[Min(found)].name \in Names
      BY <2>2, MapFacts
    <2>4. QED
      BY <1>2, <2>3 DEF DefaultName
  <1>3. QED
    BY <1>1, <1>2

\* A capture scopes a flood that comes from its sender to the default region, and
\* changes nothing else.
LEMMA ScopedFacts ==
  ASSUME NEW node \in Settings, NEW packet \in Packets
  PROVE  LET scoped == Scoped(node, packet)
         IN /\ scoped \in Packets
            /\ scoped.payload = packet.payload /\ scoped.size = packet.size
            /\ scoped.path = packet.path /\ scoped.samples = packet.samples
            /\ scoped.asked = packet.asked
            /\ packet.route \in Floods => scoped.route \in Floods
            /\ scoped # packet =>
                 /\ node.capture /\ packet.route = "flood" /\ packet.path = <<>>
                 /\ scoped.scope = DefaultName(node.regions)
  <1> DEFINE default == DefaultName(node.regions)
  <1>1. CASE Captures(node, packet) /\ default # NoName
    <2>1. default \in Names
      BY <1>1, DefaultNameTyped DEF Settings
    <2>2. Scoped(node, packet) = [packet EXCEPT !.route = "transport_flood", !.scope = default]
      BY <1>1 DEF Scoped
    <2> HIDE DEF default
    <2>3. QED
      BY <1>1, <2>1, <2>2 DEF Captures, Packets, Floods, default
  <1>2. CASE ~(Captures(node, packet) /\ default # NoName)
    BY <1>2 DEF Scoped
  <1>3. QED
    BY <1>1, <1>2

\* A region matches two packets alike that are scoped alike.
LEMMA MatchedAlike ==
  ASSUME NEW map, NEW packet, NEW other,
         packet.route = other.route, packet.scope = other.scope
  PROVE  MatchFlood(map, packet) = MatchFlood(map, other)
  BY DEF MatchFlood

\* A sequence of nodes and one more.
LEMMA OneMore ==
  ASSUME NEW via \in Seq(Nodes), NEW at \in Nodes
  PROVE  LET senders == Append(via, at)
         IN /\ senders \in Seq(Nodes) /\ Len(via) \in Nat /\ Len(senders) = Len(via) + 1
            /\ \A i \in 1 .. Len(via) : senders[i] = via[i]
            /\ senders[Len(via) + 1] = at
  BY AppendProperties, LenProperties

\* What a packet that came this way is like.
LEMMA CameFacts ==
  ASSUME NEW packet, NEW first, NEW senders, Came(packet, first, senders)
  PROVE  /\ packet.size \in Nat /\ packet.size \in Sizes
         /\ packet.path \in Seq(HashValues) /\ Len(packet.path) \in Nat
         /\ packet.asked \in Seq(HashValues) /\ Len(packet.asked) \in Nat
         /\ packet.samples \in Seq(Int) /\ Len(packet.samples) \in Nat
         /\ first.path \in Seq(HashValues) /\ Len(first.path) \in Nat
         /\ packet.route \in Floods \cup Directs
         /\ MaxHops \in Nat /\ MaxPathBytes \in Nat /\ MaxUnit \in Nat
  <1>1. packet \in Packets /\ first \in Packets
    BY DEF Came
  <1>2. Sizes \subseteq Nat
    BY ForwardingAssumption
  <1>3. QED
    BY <1>1, <1>2, LenProperties, ForwardingAssumption DEF Packets

\* A flood forwarded came by its forwarder too, and by it no more often than that
\* one tolerates.
LEMMA FloodHop ==
  ASSUME NEW at \in Nodes, NEW packet, NEW first, NEW via, Came(packet, first, via),
         ~IsTrace(packet),
         NEW forward \in FloodForwards(Config[at], Hash[packet.size][at], packet),
         EncodedLen(forward) <= MaxUnit
  PROVE  /\ Came(forward, first, Append(via, at))
         /\ Config[at].loop # "off" =>
              Cardinality(TimesSent(at, Append(via, at)))
                <= Threshold(Config[at].loop, forward.size)
  <1> DEFINE node == Config[at]
             hash == Hash[packet.size][at]
             scoped == Scoped(node, packet)
             senders == Append(via, at)
             hops == Len(packet.path)
  <1>1. /\ packet \in Packets /\ first \in Packets /\ Fits(packet)
        /\ Len(first.path) <= MaxHops
        /\ via \in Seq(Nodes) /\ Len(via) \in 1 .. MaxHops + 1
        /\ TellsWay(packet, first, via) /\ TellsSnr(packet, via)
        /\ InScope(packet, first, via)
    BY DEF Came
  <1>2. /\ node \in Settings /\ hash \in HashValues
    BY ConfigTyped, CameFacts
  <1>3. /\ forward = Hop(scoped, hash) /\ packet.route \in Floods
        /\ MatchFlood(node.regions, scoped) # NoName
        /\ ~DetectsLoop(node.loop, packet.path, packet.size, hash)
        /\ CanAppend(packet.path, packet.size)
    BY DEF FloodForwards
  <1>4. /\ scoped \in Packets
        /\ scoped.payload = packet.payload /\ scoped.size = packet.size
        /\ scoped.path = packet.path /\ scoped.samples = packet.samples
        /\ scoped.asked = packet.asked /\ scoped.route \in Floods
        /\ scoped # packet =>
             /\ node.capture /\ packet.route = "flood" /\ packet.path = <<>>
             /\ scoped.scope = DefaultName(node.regions)
    BY <1>1, <1>2, <1>3, ScopedFacts
  <1>5. /\ hops \in Nat /\ packet.path \in Seq(HashValues)
        /\ Append(packet.path, hash) \in Seq(HashValues)
        /\ Len(Append(packet.path, hash)) = hops + 1
        /\ \A i \in 1 .. hops : Append(packet.path, hash)[i] = packet.path[i]
        /\ Append(packet.path, hash)[hops + 1] = hash
    BY <1>2, CameFacts, AppendProperties
  <1>6. /\ forward \in Packets
        /\ forward.path = Append(packet.path, hash)
        /\ forward.payload = packet.payload /\ forward.size = packet.size
        /\ forward.samples = packet.samples /\ forward.asked = packet.asked
        /\ forward.route = scoped.route /\ forward.scope = scoped.scope
    BY <1>3, <1>4, <1>5 DEF Hop, Packets
  <1>7. /\ ~IsTrace(forward) /\ forward.route \in Floods /\ forward.route \notin Directs
    BY <1>4, <1>6 DEF IsTrace, Floods, Directs
  <1>8. /\ senders \in Seq(Nodes) /\ Len(senders) = Len(via) + 1 /\ Len(via) \in Nat
        /\ \A i \in 1 .. Len(via) : senders[i] = via[i]
        /\ senders[Len(via) + 1] = at
    BY <1>1, OneMore
  <1>9. /\ hops = Len(via) - 1 /\ Len(via) = hops + 1
        /\ \A i \in 1 .. hops : packet.path[i] = Hash[packet.size][via[i + 1]]
    <2>1. /\ Len(packet.path) = Len(via) - 1
          /\ \A i \in 1 .. Len(via) - 1 : packet.path[i] = HopHash(packet, via, i)
      BY <1>1, <1>3 DEF TellsWay
    <2>2. hops = Len(via) - 1 /\ Len(via) = hops + 1
      BY <1>5, <1>8, <2>1
    <2>3. QED
      BY <2>1, <2>2 DEF HopHash
  <1>10. hops < MaxHops /\ (hops + 1) * packet.size <= MaxPathBytes
    BY <1>3 DEF CanAppend
  <1> HIDE DEF node, hash, scoped, senders, hops
  <1>11. Fits(forward)
    <2>1. Len(forward.samples) <= MaxHops
      BY <1>1, <1>6 DEF Fits
    <2>2. Len(forward.path) <= MaxHops
      BY <1>5, <1>6, <1>10, CameFacts
    <2>3. Len(forward.path) * forward.size <= MaxPathBytes
      BY <1>5, <1>6, <1>10
    <2>4. QED
      BY <2>1, <2>2, <2>3 DEF Fits
  <1>12. TellsWay(forward, first, senders)
    <2>1. Len(forward.path) = Len(senders) - 1
      BY <1>5, <1>6, <1>8, <1>9
    <2>2. ASSUME NEW i \in 1 .. Len(senders) - 1
          PROVE  forward.path[i] = HopHash(forward, senders, i)
      <3>1. CASE i = hops + 1
        BY <1>5, <1>6, <1>8, <1>9, <3>1 DEF HopHash, hash
      <3>2. CASE i # hops + 1
        <4>1. i \in 1 .. hops /\ i + 1 \in 1 .. Len(via)
          BY <1>5, <1>8, <1>9, <3>2
        <4>2. QED
          BY <1>5, <1>6, <1>8, <1>9, <4>1 DEF HopHash
      <3>3. QED
        BY <3>1, <3>2
    <2>3. QED
      BY <1>7, <2>1, <2>2 DEF TellsWay
  <1>13. TellsSnr(forward, senders)
    <2>1. /\ Len(packet.samples) < Len(via) /\ Len(packet.samples) \in Nat
          /\ \A i \in 1 .. Len(packet.samples) :
               packet.samples[i] = Clamp(Snr[<<via[i], via[i + 1]>>])
      BY <1>1, CameFacts DEF TellsSnr
    <2>2. Len(forward.samples) < Len(senders)
      BY <1>6, <1>8, <2>1
    <2>3. ASSUME NEW i \in 1 .. Len(forward.samples)
          PROVE  forward.samples[i] = Clamp(Snr[<<senders[i], senders[i + 1]>>])
      <3>1. i \in 1 .. Len(packet.samples) /\ i \in 1 .. Len(via) /\ i + 1 \in 1 .. Len(via)
        BY <1>6, <1>8, <2>1
      <3>2. QED
        BY <1>6, <1>8, <2>1, <3>1
    <2>4. QED
      BY <2>2, <2>3 DEF TellsSnr
  <1>14. InScope(forward, first, senders)
    <2>1. /\ \A i \in 2 .. Len(via) : MatchFlood(Config[via[i]].regions, packet) # NoName
          /\ packet.scope # first.scope \/ packet.route # first.route =>
               /\ first.route = "flood" /\ Len(via) > 1
               /\ Config[via[2]].capture
               /\ packet.scope = DefaultName(Config[via[2]].regions)
      BY <1>1, <1>3 DEF InScope
    <2>2. MatchFlood(Config[at].regions, forward) # NoName
      BY <1>3, <1>6, MatchedAlike DEF node
    <2>3. CASE scoped = packet
      <3>1. ASSUME NEW i \in 2 .. Len(senders)
            PROVE  MatchFlood(Config[senders[i]].regions, forward) # NoName
        <4>1. CASE i = Len(via) + 1
          BY <1>8, <2>2, <4>1
        <4>2. CASE i # Len(via) + 1
          <5>1. i \in 2 .. Len(via) /\ i \in 1 .. Len(via)
            BY <1>8, <4>2
          <5>2. MatchFlood(Config[via[i]].regions, packet) # NoName
            BY <2>1, <5>1
          <5>3. QED
            BY <1>6, <1>8, <2>3, <5>1, <5>2, MatchedAlike
        <4>3. QED
          BY <4>1, <4>2
      <3>2. Len(via) > 1 => 2 \in 1 .. Len(via) /\ Len(senders) > 1
        BY <1>8
      <3>3. QED
        BY <1>6, <1>8, <2>1, <2>3, <3>1, <3>2 DEF InScope
    <2>4. CASE scoped # packet
      <3>1. hops = 0 /\ Len(via) = 1 /\ Len(senders) = 2
        <4>1. hops = 0
          BY <1>4, <2>4 DEF hops
        <4>2. QED
          BY <1>8, <1>9, <4>1
      <3>2. first.route = "flood"
        BY <1>4, <2>1, <2>4, <3>1
      <3>3. senders[2] = at
        BY <1>8, <3>1
      <3>4. Config[senders[2]].capture
            /\ forward.scope = DefaultName(Config[senders[2]].regions)
        BY <1>4, <1>6, <2>4, <3>3 DEF node
      <3>5. \A i \in 2 .. Len(senders) :
              MatchFlood(Config[senders[i]].regions, forward) # NoName
        BY <2>2, <3>1, <3>3
      <3>6. QED
        BY <3>1, <3>2, <3>4, <3>5 DEF InScope
    <2>5. QED
      BY <2>3, <2>4
  <1>15. Came(forward, first, senders)
    <2>1. Len(senders) \in 1 .. MaxHops + 1
      BY <1>5, <1>8, <1>9, <1>10, CameFacts
    <2>2. QED
      BY <1>1, <1>6, <1>8, <1>11, <1>12, <1>13, <1>14, <2>1 DEF Came
  <1>16. ASSUME node.loop # "off"
         PROVE  Cardinality(TimesSent(at, senders)) <= Threshold(node.loop, forward.size)
    <2> DEFINE before == TimesSent(at, via)
               known == Occurrences(packet.path, hash)
    <2>1. /\ known \in SUBSET (1 .. hops)
          /\ \A i \in before : i - 1 \in known
      <3>1. DOMAIN packet.path = 1 .. hops
        BY <1>5, LenProperties DEF hops
      <3>2. ASSUME NEW i \in before
            PROVE  i - 1 \in known
        <4>1. i - 1 \in 1 .. hops /\ (i - 1) + 1 = i /\ via[i] = at
          BY <1>5, <1>9 DEF TimesSent
        <4>2. packet.path[i - 1] = hash
          BY <1>9, <4>1 DEF hash
        <4>3. QED
          BY <3>1, <4>1, <4>2 DEF Occurrences
      <3>3. QED
        BY <3>1, <3>2 DEF Occurrences
    <2>2. before \subseteq 2 .. hops + 1
      BY <1>9 DEF TimesSent
    <2>3. /\ IsFiniteSet(before) /\ Cardinality(before) \in Nat /\ Cardinality(known) \in Nat
          /\ Cardinality(before) <= Cardinality(known)
      <3> HIDE DEF before, known
      <3>1. QED
        BY <1>5, <2>1, <2>2, ShiftedCount
    <2>4. TimesSent(at, senders) = before \cup {Len(via) + 1}
      BY <1>5, <1>8, <1>9 DEF TimesSent
    <2>5. Len(via) + 1 \notin before
      BY <1>8 DEF TimesSent
    <2>6. Cardinality(TimesSent(at, senders)) = Cardinality(before) + 1
      <3> HIDE DEF before
      <3>1. QED
        BY <2>3, <2>4, <2>5, FS_AddElement
    <2>7. ~(Cardinality(known) >= Threshold(node.loop, packet.size))
      BY <1>3, <1>16 DEF DetectsLoop
    <2>8. Threshold(node.loop, packet.size) \in Nat
      BY DEF Threshold
    <2> HIDE DEF before, known
    <2>9. QED
      BY <1>6, <2>3, <2>6, <2>7, <2>8
  <1>17. QED
    BY <1>15, <1>16 DEF node, senders

\* What is not a flood stays as it is scoped.
LEMMA ScopeStays ==
  ASSUME NEW via \in Seq(Nodes), NEW at \in Nodes, NEW packet, NEW forward, NEW first,
         InScope(packet, first, via), packet.route \notin Floods,
         forward.route = packet.route, forward.scope = packet.scope
  PROVE  InScope(forward, first, Append(via, at))
  <1> DEFINE senders == Append(via, at)
  <1>1. /\ Len(senders) = Len(via) + 1 /\ Len(via) \in Nat
        /\ \A i \in 1 .. Len(via) : senders[i] = via[i]
    BY OneMore
  <1> HIDE DEF senders
  <1>2. Len(via) > 1 => Len(senders) > 1 /\ senders[2] = via[2]
    BY <1>1
  <1>3. InScope(forward, first, senders)
    BY <1>2 DEF InScope
  <1>4. QED
    BY <1>3 DEF senders

\* Samples stay what was measured when another node sends a packet on.
LEMMA SamplesStay ==
  ASSUME NEW via \in Seq(Nodes), NEW at \in Nodes, NEW packet,
         packet.samples \in Seq(Int), TellsSnr(packet, via)
  PROVE  /\ Len(packet.samples) < Len(Append(via, at))
         /\ \A i \in 1 .. Len(packet.samples) :
              packet.samples[i] = Clamp(Snr[<<Append(via, at)[i], Append(via, at)[i + 1]>>])
  <1> DEFINE senders == Append(via, at)
  <1>1. /\ Len(senders) = Len(via) + 1 /\ Len(via) \in Nat
        /\ \A i \in 1 .. Len(via) : senders[i] = via[i]
    BY OneMore
  <1>2. Len(packet.samples) \in Nat
    BY LenProperties
  <1>3. /\ Len(packet.samples) < Len(via)
        /\ \A i \in 1 .. Len(packet.samples) :
             packet.samples[i] = Clamp(Snr[<<via[i], via[i + 1]>>])
    BY DEF TellsSnr
  <1> HIDE DEF senders
  <1>4. Len(packet.samples) < Len(senders)
    BY <1>1, <1>2, <1>3
  <1>5. ASSUME NEW i \in 1 .. Len(packet.samples)
        PROVE  packet.samples[i] = Clamp(Snr[<<senders[i], senders[i + 1]>>])
    <2>1. i \in 1 .. Len(via) /\ i + 1 \in 1 .. Len(via)
      BY <1>1, <1>2, <1>3
    <2>2. QED
      BY <1>1, <1>3, <2>1
  <1>6. QED
    BY <1>4, <1>5 DEF senders

\* A direct packet forwarded came by its forwarder, the next on its path.
LEMMA DirectHop ==
  ASSUME NEW at \in Nodes, NEW packet, NEW first, NEW via, Came(packet, first, via),
         ~IsTrace(packet),
         NEW forward \in DirectForwards(Hash[packet.size][at], packet),
         EncodedLen(forward) <= MaxUnit
  PROVE  Came(forward, first, Append(via, at)) /\ forward.route \notin Floods
  <1> DEFINE hash == Hash[packet.size][at]
             senders == Append(via, at)
             left == Len(packet.path)
             hops == Len(via) - 1
  <1>1. /\ packet \in Packets /\ first \in Packets /\ Fits(packet)
        /\ Len(first.path) <= MaxHops
        /\ via \in Seq(Nodes) /\ Len(via) \in 1 .. MaxHops + 1
        /\ TellsWay(packet, first, via) /\ TellsSnr(packet, via)
        /\ InScope(packet, first, via)
    BY DEF Came
  <1>2. /\ forward = [packet EXCEPT !.path = IF @ = <<>> THEN @ ELSE Tail(@)]
        /\ packet.route \in Directs /\ packet.path # <<>> /\ Head(packet.path) = hash
    BY DEF DirectForwards
  <1>3. packet.path \in Seq(HashValues) /\ left \in Nat
    BY CameFacts
  <1>4. /\ Tail(packet.path) \in Seq(HashValues) /\ left >= 1
        /\ Len(Tail(packet.path)) = left - 1
        /\ \A i \in 1 .. left - 1 : Tail(packet.path)[i] = packet.path[i + 1]
        /\ packet.path[1] = hash
    BY <1>2, <1>3, HeadTailProperties, EmptySeq
  <1>5. /\ forward \in Packets
        /\ forward.path = Tail(packet.path)
        /\ forward.payload = packet.payload /\ forward.size = packet.size
        /\ forward.samples = packet.samples /\ forward.asked = packet.asked
        /\ forward.route = packet.route /\ forward.scope = packet.scope
    BY <1>1, <1>2, <1>4 DEF Packets
  <1>6. /\ ~IsTrace(forward) /\ forward.route \notin Floods /\ packet.route \notin Floods
    BY <1>2, <1>5 DEF IsTrace, Floods, Directs
  <1>7. /\ senders \in Seq(Nodes) /\ Len(senders) = Len(via) + 1 /\ Len(via) \in Nat
        /\ \A i \in 1 .. Len(via) : senders[i] = via[i]
        /\ senders[Len(via) + 1] = at
    BY <1>1, OneMore
  <1>8. /\ Len(first.path) = hops + left
        /\ \A i \in 1 .. hops : first.path[i] = Hash[packet.size][via[i + 1]]
        /\ \A i \in 1 .. left : packet.path[i] = first.path[hops + i]
    BY <1>1, <1>2 DEF TellsWay, HopHash
  <1>9. hops \in Nat /\ Len(via) = hops + 1 /\ Len(senders) - 1 = hops + 1
    BY <1>1, <1>7
  <1> HIDE DEF hash, senders, left, hops
  <1>10. Fits(forward)
    <2>1. Len(forward.samples) <= MaxHops /\ left <= MaxHops /\ left * packet.size <= MaxPathBytes
      BY <1>1, <1>5 DEF Fits, left
    <2>2. Len(forward.path) <= MaxHops
      BY <1>3, <1>4, <1>5, <2>1, CameFacts
    <2>3. packet.size \in {1, 2, 3, 4}
      BY CameFacts, ForwardingAssumption
    <2>4. (left - 1) * packet.size <= MaxPathBytes
      BY <1>3, <2>1, <2>3, CameFacts
    <2>5. QED
      BY <1>4, <1>5, <2>1, <2>2, <2>4 DEF Fits
  <1>11. TellsWay(forward, first, senders)
    <2>1. Len(first.path) = (Len(senders) - 1) + Len(forward.path)
      <3>1. Len(forward.path) = left - 1 /\ left \in Nat
        BY <1>3, <1>4, <1>5
      <3>2. Len(first.path) = hops + left /\ Len(senders) - 1 = hops + 1 /\ hops \in Nat
        BY <1>8, <1>9
      <3>3. QED
        BY <3>1, <3>2
    <2>2. ASSUME NEW i \in 1 .. Len(senders) - 1
          PROVE  first.path[i] = HopHash(forward, senders, i)
      <3>1. CASE i = hops + 1
        <4>1. first.path[i] = hash
          BY <1>3, <1>4, <1>8, <1>9, <3>1
        <4>2. QED
          BY <1>5, <1>7, <1>9, <3>1, <4>1 DEF HopHash, hash
      <3>2. CASE i # hops + 1
        <4>1. i \in 1 .. hops /\ i + 1 \in 1 .. Len(via)
          BY <1>9, <3>2
        <4>2. QED
          BY <1>5, <1>7, <1>8, <4>1 DEF HopHash
      <3>3. QED
        BY <3>1, <3>2
    <2>3. ASSUME NEW i \in 1 .. Len(forward.path)
          PROVE  forward.path[i] = first.path[(Len(senders) - 1) + i]
      <3>1. i \in 1 .. left - 1 /\ i + 1 \in 1 .. left
        BY <1>3, <1>4, <1>5
      <3>2. forward.path[i] = first.path[hops + (i + 1)]
        BY <1>4, <1>5, <1>8, <3>1
      <3>3. hops + (i + 1) = (Len(senders) - 1) + i
        BY <1>9, <3>1
      <3>4. QED
        BY <3>2, <3>3
    <2>4. QED
      BY <1>6, <2>1, <2>2, <2>3 DEF TellsWay
  <1>12. TellsSnr(forward, senders)
    <2>1. packet.samples \in Seq(Int)
      BY CameFacts
    <2>2. QED
      BY <1>1, <1>5, <2>1, SamplesStay DEF TellsSnr, senders
  <1>13. InScope(forward, first, senders)
    BY <1>1, <1>5, <1>6, ScopeStays DEF senders
  <1>14. Len(senders) \in 1 .. MaxHops + 1
    BY <1>1, <1>3, <1>4, <1>8, <1>9, CameFacts
  <1>15. QED
    BY <1>1, <1>5, <1>6, <1>7, <1>10, <1>11, <1>12, <1>13, <1>14 DEF Came, senders

\* A trace forwarded came by its forwarder, the next that it asked for, with what
\* that one measured of the last.
LEMMA TraceHop ==
  ASSUME NEW at \in Nodes, NEW packet, NEW first, NEW via, Came(packet, first, via),
         IsTrace(packet), <<via[Len(via)], at>> \in Links,
         NEW forward \in TraceForwards(Hash[packet.size][at], Snr[<<via[Len(via)], at>>], packet),
         EncodedLen(forward) <= MaxUnit
  PROVE  Came(forward, first, Append(via, at)) /\ forward.route \notin Floods
  <1> DEFINE hash == Hash[packet.size][at]
             sample == Clamp(Snr[<<via[Len(via)], at>>])
             senders == Append(via, at)
             taken == Len(packet.samples)
  <1>1. /\ packet \in Packets /\ first \in Packets /\ Fits(packet)
        /\ Len(first.path) <= MaxHops
        /\ via \in Seq(Nodes) /\ Len(via) \in 1 .. MaxHops + 1
        /\ TellsWay(packet, first, via) /\ TellsSnr(packet, via)
        /\ InScope(packet, first, via)
    BY DEF Came
  <1>2. /\ forward = [packet EXCEPT !.samples = Append(@, sample)]
        /\ packet.route = "direct" /\ taken < Len(packet.asked)
        /\ packet.asked[taken + 1] = hash /\ taken < MaxHops
    BY DEF TraceForwards
  <1>3. sample \in Int
    <2>1. Snr[<<via[Len(via)], at>>] \in Int
      BY MeshAssumption
    <2>2. QED
      BY <2>1 DEF Clamp
  <1>4. /\ packet.samples \in Seq(Int) /\ taken \in Nat
        /\ Append(packet.samples, sample) \in Seq(Int)
        /\ Len(Append(packet.samples, sample)) = taken + 1
        /\ \A i \in 1 .. taken : Append(packet.samples, sample)[i] = packet.samples[i]
        /\ Append(packet.samples, sample)[taken + 1] = sample
    BY <1>3, CameFacts, AppendProperties
  <1>5. /\ forward \in Packets
        /\ forward.samples = Append(packet.samples, sample)
        /\ forward.payload = packet.payload /\ forward.size = packet.size
        /\ forward.path = packet.path /\ forward.asked = packet.asked
        /\ forward.route = packet.route /\ forward.scope = packet.scope
    BY <1>1, <1>2, <1>4 DEF Packets
  <1>6. /\ IsTrace(forward) /\ forward.route \notin Floods /\ packet.route \notin Floods
    BY <1>2, <1>5 DEF IsTrace, Floods
  <1>7. /\ senders \in Seq(Nodes) /\ Len(senders) = Len(via) + 1 /\ Len(via) \in Nat
        /\ \A i \in 1 .. Len(via) : senders[i] = via[i]
        /\ senders[Len(via) + 1] = at
    BY <1>1, OneMore
  <1>8. /\ taken = Len(via) - 1
        /\ \A i \in 1 .. Len(via) - 1 : packet.asked[i] = Hash[packet.size][via[i + 1]]
    BY <1>1 DEF TellsWay, HopHash
  <1>9. Len(via) = taken + 1 /\ Len(senders) - 1 = taken + 1 /\ Len(senders) = taken + 2
    BY <1>4, <1>7, <1>8
  <1> HIDE DEF hash, sample, senders, taken
  <1>10. Fits(forward)
    <2>1. /\ Len(packet.path) * packet.size <= MaxPathBytes /\ Len(packet.path) <= MaxHops
      BY <1>1 DEF Fits
    <2>2. Len(forward.samples) <= MaxHops
      BY <1>2, <1>4, <1>5, CameFacts
    <2>3. QED
      BY <1>5, <2>1, <2>2 DEF Fits
  <1>11. TellsWay(forward, first, senders)
    <2>1. Len(packet.asked) \in Nat
      BY CameFacts
    <2>2. Len(forward.samples) = Len(senders) - 1 /\ Len(senders) - 1 <= Len(forward.asked)
      BY <1>2, <1>4, <1>5, <1>9, <2>1
    <2>3. ASSUME NEW i \in 1 .. Len(senders) - 1
          PROVE  forward.asked[i] = HopHash(forward, senders, i)
      <3>1. CASE i = taken + 1
        BY <1>2, <1>5, <1>7, <1>9, <3>1 DEF HopHash, hash
      <3>2. CASE i # taken + 1
        <4>1. i \in 1 .. Len(via) - 1 /\ i + 1 \in 1 .. Len(via)
          BY <1>4, <1>9, <3>2
        <4>2. QED
          BY <1>5, <1>7, <1>8, <4>1 DEF HopHash
      <3>3. QED
        BY <3>1, <3>2
    <2>4. QED
      BY <1>6, <2>2, <2>3 DEF TellsWay
  <1>12. TellsSnr(forward, senders)
    <2>1. \A i \in 1 .. taken :
            packet.samples[i] = Clamp(Snr[<<senders[i], senders[i + 1]>>])
      BY <1>1, <1>4, SamplesStay DEF senders, taken
    <2>2. Len(forward.samples) < Len(senders)
      BY <1>4, <1>5, <1>9
    <2>3. ASSUME NEW i \in 1 .. Len(forward.samples)
          PROVE  forward.samples[i] = Clamp(Snr[<<senders[i], senders[i + 1]>>])
      <3>1. CASE i = taken + 1
        <4>1. senders[i] = via[Len(via)] /\ senders[i + 1] = at
          BY <1>4, <1>7, <1>9, <3>1
        <4>2. QED
          BY <1>4, <1>5, <3>1, <4>1 DEF sample
      <3>2. CASE i # taken + 1
        <4>1. i \in 1 .. taken
          BY <1>4, <1>5, <3>2
        <4>2. QED
          BY <1>4, <1>5, <2>1, <4>1
      <3>3. QED
        BY <3>1, <3>2
    <2>4. QED
      BY <2>2, <2>3 DEF TellsSnr
  <1>13. InScope(forward, first, senders)
    BY <1>1, <1>5, <1>6, ScopeStays DEF senders
  <1>14. Len(senders) \in 1 .. MaxHops + 1
    BY <1>2, <1>4, <1>9, CameFacts
  <1>15. QED
    BY <1>1, <1>5, <1>6, <1>7, <1>10, <1>11, <1>12, <1>13, <1>14 DEF Came, senders

------------------------------------------------------------------------------
(* Steps *)

\* What is queued of what is heard, by any of the rules, has come so.
LEMMA HopTaken ==
  ASSUME NEW event, HeardOK(event), NEW signature,
         NEW forward \in Forwards(Config[event.at],
                                  Hash[event.copy.packet.size][event.at],
                                  event.snr, event.copy.packet)
  PROVE  QueuedOK([at |-> event.at, signature |-> signature,
                   copy |-> [event.copy EXCEPT !.packet = forward]])
  <1> DEFINE at == event.at
             packet == event.copy.packet
             first == event.copy.first
             via == event.copy.via
             hash == Hash[packet.size][at]
             copy == [event.copy EXCEPT !.packet = forward]
  <1>1. /\ at \in Nodes /\ event.copy \in CopyTypes /\ Came(packet, first, via)
        /\ <<via[Len(via)], at>> \in Links /\ event.snr = Snr[<<via[Len(via)], at>>]
    BY DEF HeardOK
  <1>2. /\ EncodedLen(forward) <= MaxUnit
        /\ IF IsTrace(packet) THEN forward \in TraceForwards(hash, event.snr, packet)
           ELSE \/ forward \in FloodForwards(Config[at], hash, packet)
                \/ forward \in DirectForwards(hash, packet)
    BY DEF Forwards
  <1>3. /\ Came(forward, first, Append(via, at))
        /\ forward.route \in Floods /\ Config[at].loop # "off" =>
             Cardinality(TimesSent(at, Append(via, at)))
               <= Threshold(Config[at].loop, forward.size)
    <2>1. CASE IsTrace(packet)
      BY <1>1, <1>2, <2>1, TraceHop
    <2>2. CASE ~IsTrace(packet) /\ forward \in FloodForwards(Config[at], hash, packet)
      BY <1>1, <1>2, <2>2, FloodHop
    <2>3. CASE ~IsTrace(packet) /\ forward \in DirectForwards(hash, packet)
      BY <1>1, <1>2, <2>3, DirectHop
    <2>4. QED
      BY <1>2, <2>1, <2>2, <2>3
  <1>4. forward \in Packets
    BY <1>3 DEF Came
  <1>5. /\ copy.packet = forward /\ copy.first = first /\ copy.via = via
        /\ copy \in CopyTypes
    BY <1>1, <1>4 DEF CopyTypes
  <1> HIDE DEF at, packet, first, via, hash, copy
  <1>6. QueuedOK([at |-> at, signature |-> signature, copy |-> copy])
    BY <1>1, <1>3, <1>5 DEF QueuedOK
  <1>7. QED
    BY <1>6 DEF at, copy

\* What is sent of what is queued is heard as it came: the history of a packet is
\* never cut short.
LEMMA HopSent ==
  ASSUME NEW item, QueuedOK(item), NEW node \in Nodes, <<item.at, node>> \in Links
  PROVE  HeardOK([at |-> node, snr |-> Snr[<<item.at, node>>],
                  copy |-> Sent(item.copy, item.at)])
  <1> DEFINE at == item.at
             senders == Append(item.copy.via, at)
             copy == Sent(item.copy, at)
  <1>1. /\ at \in Nodes /\ item.copy \in CopyTypes
        /\ Came(item.copy.packet, item.copy.first, senders)
    BY DEF QueuedOK
  <1>2. item.copy.via \in Seq(Nodes)
    BY <1>1 DEF CopyTypes
  <1>3. /\ senders \in Seq(Nodes) /\ Len(item.copy.via) \in Nat
        /\ Len(senders) = Len(item.copy.via) + 1
        /\ senders[Len(senders)] = at
    BY <1>1, <1>2, OneMore
  <1>4. Len(item.copy.via) <= MaxHops
    <2>1. Len(senders) \in 1 .. MaxHops + 1
      BY <1>1 DEF Came
    <2>2. QED
      BY <1>3, <2>1, ForwardingAssumption
  <1>5. copy = [item.copy EXCEPT !.via = senders]
    BY <1>1, <1>4 DEF Sent, CopyTypes
  <1>6. /\ copy.packet = item.copy.packet /\ copy.first = item.copy.first
        /\ copy.via = senders /\ copy \in CopyTypes
    BY <1>1, <1>3, <1>5 DEF CopyTypes
  <1> HIDE DEF at, senders, copy
  <1>7. HeardOK([at |-> node, snr |-> Snr[<<at, node>>], copy |-> copy])
    BY <1>1, <1>3, <1>6 DEF HeardOK, at
  <1>8. QED
    BY <1>7 DEF at, copy

\* A packet as it is first sent has not come yet.
LEMMA FirstSent ==
  ASSUME NEW sending \in Sendings
  PROVE  QueuedOK([at |-> sending.by, signature |-> NoSignature,
                   copy |-> Copy(sending.packet, sending.packet, <<>>)])
  <1> DEFINE at == sending.by
             packet == sending.packet
             senders == Append(<<>>, at)
  <1>1. /\ at \in Nodes /\ packet \in Packets /\ packet.samples = <<>>
        /\ packet.route \in Floods => packet.path = <<>>
        /\ Fits(packet)
    BY MeshAssumption
  <1>2. /\ <<>> \in Seq(Nodes) /\ Len(<<>>) = 0
    BY EmptySeq
  <1>3. /\ senders \in Seq(Nodes) /\ Len(senders) = 1
    BY <1>1, <1>2, OneMore
  <1>4. /\ Len(packet.path) \in Nat /\ Len(packet.asked) \in Nat
        /\ Len(packet.samples) = 0
        /\ packet.route \in Floods => Len(packet.path) = 0
    BY <1>1, <1>2, LenProperties DEF Packets
  <1> HIDE DEF at, packet, senders
  <1>5. TellsWay(packet, packet, senders)
    BY <1>3, <1>4 DEF TellsWay
  <1>6. TellsSnr(packet, senders)
    BY <1>3, <1>4 DEF TellsSnr
  <1>7. InScope(packet, packet, senders)
    BY <1>3 DEF InScope
  <1>8. Came(packet, packet, senders)
    <2>1. Len(packet.path) <= MaxHops
      BY <1>1 DEF Fits
    <2>2. Len(senders) \in 1 .. MaxHops + 1
      BY <1>3, ForwardingAssumption
    <2>3. QED
      BY <1>1, <1>3, <1>5, <1>6, <1>7, <2>1, <2>2 DEF Came
  <1>9. Cardinality(TimesSent(at, senders)) = 0
    <2>1. TimesSent(at, senders) = {}
      BY <1>3 DEF TimesSent
    <2>2. QED
      BY <2>1, FS_EmptySet
  <1>10. Threshold(Config[at].loop, packet.size) \in Nat
    BY DEF Threshold
  <1> DEFINE copy == Copy(packet, packet, <<>>)
  <1>11. /\ copy.packet = packet /\ copy.first = packet /\ copy.via = <<>>
         /\ copy \in CopyTypes
    BY <1>1, <1>2 DEF Copy, CopyTypes
  <1> HIDE DEF copy
  <1> DEFINE item == [at |-> at, signature |-> NoSignature, copy |-> copy]
  <1>12. QueuedOK(item)
    <2>1. item.at = at /\ item.copy = copy /\ Append(copy.via, at) = senders
      BY <1>11 DEF senders
    <2> HIDE DEF item
    <2>2. Cardinality(TimesSent(at, senders)) <= Threshold(Config[at].loop, packet.size)
      BY <1>9, <1>10
    <2>3. QED
      BY <1>1, <1>8, <1>11, <2>1, <2>2 DEF QueuedOK
  <1>13. QED
    BY <1>12 DEF at, packet, copy

LEMMA MeshInvInit ==
  Init => MeshInv
  <1> SUFFICES ASSUME Init PROVE MeshInv
    OBVIOUS
  <1>1. \A event \in heard : HeardOK(event)
    BY DEF Init
  <1>2. \A item \in queue : QueuedOK(item)
    <2>1. PICK sending \in Sendings :
            queue = {[at |-> sending.by, signature |-> NoSignature,
                      copy |-> Copy(sending.packet, sending.packet, <<>>)]}
      BY DEF Init
    <2>2. QED
      BY <2>1, FirstSent
  <1>3. DOMAIN seen = Nodes
    BY DEF Init
  <1>4. QED
    BY <1>1, <1>2, <1>3 DEF MeshInv

LEMMA HandleKeeps ==
  ASSUME MeshInv, Handle
  PROVE  MeshInv'
  <1>1. PICK event \in heard :
          LET packet == event.copy.packet
              node == Config[event.at]
              signature == ForwardSignature(node, packet)
              forwards == Forwards(node, Hash[packet.size][event.at], event.snr, packet)
          IN /\ heard' = heard \ {event}
             /\ queue' = queue \cup
                  (IF SeenOrPending(event.at, signature) THEN {}
                   ELSE {[at |-> event.at, signature |-> signature,
                          copy |-> [event.copy EXCEPT !.packet = forward]] :
                           forward \in forwards})
             /\ UNCHANGED seen
    BY DEF Handle
  <1> DEFINE packet == event.copy.packet
             signature == ForwardSignature(Config[event.at], packet)
             forwards == Forwards(Config[event.at], Hash[packet.size][event.at],
                                  event.snr, packet)
             Queued(forward) == [at |-> event.at, signature |-> signature,
                                 copy |-> [event.copy EXCEPT !.packet = forward]]
  <1>2. HeardOK(event)
    BY DEF MeshInv
  <1>3. \A forward \in forwards : QueuedOK(Queued(forward))
    BY <1>2, HopTaken
  <1>4. queue' \subseteq queue \cup {Queued(forward) : forward \in forwards}
    BY <1>1
  <1> HIDE DEF Queued, forwards
  <1>5. \A item \in queue' : QueuedOK(item)
    BY <1>3, <1>4 DEF MeshInv
  <1>6. \A other \in heard' : HeardOK(other)
    BY <1>1 DEF MeshInv
  <1>7. DOMAIN seen' = Nodes
    BY <1>1 DEF MeshInv
  <1>8. QED
    BY <1>5, <1>6, <1>7 DEF MeshInv, HeardOK, QueuedOK

LEMMA TransmitKeeps ==
  ASSUME MeshInv, Transmit
  PROVE  MeshInv'
  <1>1. PICK item \in queue :
          \E hearers \in SUBSET {node \in Nodes : <<item.at, node>> \in Links} :
            /\ queue' = queue \ {item}
            /\ seen' = [seen EXCEPT ![item.at] = @ \cup ({item.signature} \ {NoSignature})]
            /\ heard' = heard \cup
                 {[at |-> node, snr |-> Snr[<<item.at, node>>],
                   copy |-> Sent(item.copy, item.at)] : node \in hearers}
    BY DEF Transmit
  <1> DEFINE inRange == {node \in Nodes : <<item.at, node>> \in Links}
             Heard(node) == [at |-> node, snr |-> Snr[<<item.at, node>>],
                             copy |-> Sent(item.copy, item.at)]
  <1>2. QueuedOK(item)
    BY DEF MeshInv
  <1>3. \A node \in inRange : HeardOK(Heard(node))
    BY <1>2, HopSent
  <1>4. heard' \subseteq heard \cup {Heard(node) : node \in inRange}
    BY <1>1
  <1> HIDE DEF inRange, Heard
  <1>5. \A event \in heard' : HeardOK(event)
    BY <1>3, <1>4 DEF MeshInv
  <1>6. \A other \in queue' : QueuedOK(other)
    BY <1>1 DEF MeshInv
  <1>7. DOMAIN seen' = Nodes
    BY <1>1 DEF MeshInv
  <1>8. QED
    BY <1>5, <1>6, <1>7 DEF MeshInv, HeardOK, QueuedOK

LEMMA OthersKeep ==
  ASSUME MeshInv, GiveUp \/ Forget \/ UNCHANGED vars
  PROVE  MeshInv'
  <1>1. /\ heard' = heard /\ queue' \subseteq queue
        /\ DOMAIN seen' = DOMAIN seen
    BY DEF GiveUp, Forget, vars
  <1>2. /\ \A event \in heard' : HeardOK(event)
        /\ \A item \in queue' : QueuedOK(item)
        /\ DOMAIN seen' = Nodes
    BY <1>1 DEF MeshInv
  <1>3. QED
    BY <1>2 DEF MeshInv, HeardOK, QueuedOK

\* All that is heard or queued came by its history.
THEOREM MeshInvariant == Spec => []MeshInv
  <1>1. MeshInv /\ [Next]_vars => MeshInv'
    BY HandleKeeps, TransmitKeeps, OthersKeep DEF Next
  <1>2. QED
    BY <1>1, MeshInvInit, PTL DEF Spec

------------------------------------------------------------------------------
(* What follows *)

\* The hashes of those that a packet has been sent on by.
LEMMA HopsFacts ==
  ASSUME NEW senders \in Seq(Nodes), Len(senders) >= 1, NEW packet, packet.size \in Sizes
  PROVE  LET hops == HashesOf(Tail(senders), packet.size)
         IN /\ hops \in Seq(HashValues) /\ Len(hops) = Len(senders) - 1
            /\ \A i \in 1 .. Len(hops) : hops[i] = HopHash(packet, senders, i)
  <1> DEFINE others == Tail(senders)
             hops == HashesOf(others, packet.size)
             n == Len(senders) - 1
  <1>1. n \in Nat /\ senders # <<>>
    BY LenProperties, EmptySeq
  <1>2. /\ others \in Seq(Nodes) /\ Len(others) = n
        /\ \A i \in 1 .. n : others[i] = senders[i + 1]
    BY <1>1, HeadTailProperties
  <1>3. DOMAIN others = 1 .. n /\ \A i \in 1 .. n : others[i] \in Nodes
    BY <1>2, LenProperties, ElementOfSeq
  <1> HIDE DEF others, n
  <1>4. hops = [i \in 1 .. n |-> Hash[packet.size][others[i]]]
    BY <1>3 DEF HashesOf
  <1>5. \A i \in 1 .. n : Hash[packet.size][others[i]] \in HashValues
    BY <1>3, ConfigTyped
  <1>6. hops \in [1 .. n -> HashValues]
    BY <1>4, <1>5
  <1>7. hops \in Seq(HashValues) /\ Len(hops) = n
    <2> HIDE DEF hops
    <2>1. hops \in Seq(HashValues)
      BY <1>1, <1>6, SeqDef
    <2>2. QED
      BY <1>1, <1>6, <2>1, LenProperties
  <1>8. \A i \in 1 .. n : hops[i] = HopHash(packet, senders, i)
    BY <1>2, <1>4 DEF HopHash
  <1>9. QED
    BY <1>7, <1>8 DEF n, others

\* The way a queued copy came is the one its path tells.
LEMMA WayTold ==
  ASSUME MeshInv
  PROVE  PathIsWay
  <1> SUFFICES ASSUME NEW item \in queue
               PROVE  LET packet == item.copy.packet
                          hops == HashesOf(Tail(Senders(item)), packet.size)
                      IN CASE IsTrace(packet) ->
                                /\ Len(packet.samples) = Len(hops)
                                /\ hops = SubSeq(packet.asked, 1, Len(hops))
                           [] packet.route \in Floods /\ ~IsTrace(packet) ->
                                packet.path = hops
                           [] packet.route \in Directs /\ ~IsTrace(packet) ->
                                hops \o packet.path = item.copy.first.path
    BY DEF PathIsWay
  <1> DEFINE packet == item.copy.packet
             first == item.copy.first
             senders == Senders(item)
             hops == HashesOf(Tail(senders), packet.size)
             n == Len(senders) - 1
  <1>1. Came(packet, first, senders)
    BY DEF MeshInv, QueuedOK, Senders
  <1> HIDE DEF packet, first, senders
  <1>2. /\ packet.path \in Seq(HashValues) /\ Len(packet.path) \in Nat
        /\ packet.asked \in Seq(HashValues) /\ Len(packet.asked) \in Nat
        /\ first.path \in Seq(HashValues) /\ Len(first.path) \in Nat
        /\ packet.size \in Sizes /\ packet.route \in Floods \cup Directs
    BY <1>1, CameFacts
  <1>3. /\ senders \in Seq(Nodes) /\ Len(senders) \in 1 .. MaxHops + 1
        /\ TellsWay(packet, first, senders)
    BY <1>1 DEF Came
  <1>4. n \in Nat /\ Len(senders) >= 1
    BY <1>3, ForwardingAssumption
  <1>5. /\ hops \in Seq(HashValues) /\ Len(hops) = n
        /\ \A i \in 1 .. n : hops[i] = HopHash(packet, senders, i)
    BY <1>2, <1>3, <1>4, HopsFacts
  <1> HIDE DEF hops
  <1>6. CASE IsTrace(packet)
    <2>1. /\ Len(packet.samples) = n /\ n <= Len(packet.asked)
          /\ \A i \in 1 .. n : packet.asked[i] = HopHash(packet, senders, i)
      BY <1>3, <1>6 DEF TellsWay
    <2> HIDE DEF n
    <2>2. \A i \in 1 .. n : packet.asked[i] \in HashValues
      BY <1>2, <1>4, <2>1, ElementOfSeq
    <2>3. /\ SubSeq(packet.asked, 1, n) \in Seq(HashValues)
          /\ Len(SubSeq(packet.asked, 1, n)) = n
          /\ \A i \in 1 .. n : SubSeq(packet.asked, 1, n)[i] = packet.asked[i]
      BY <1>4, <2>2, SubSeqProperties
    <2>4. hops = SubSeq(packet.asked, 1, n)
      BY <1>5, <2>1, <2>3, SeqEqual
    <2>5. QED
      BY <1>5, <1>6, <2>1, <2>4 DEF packet, senders, hops
  <1>7. CASE packet.route \in Floods /\ ~IsTrace(packet)
    <2>1. /\ Len(packet.path) = n
          /\ \A i \in 1 .. n : packet.path[i] = HopHash(packet, senders, i)
      BY <1>3, <1>7 DEF TellsWay
    <2>2. packet.path = hops
      BY <1>2, <1>5, <2>1, SeqEqual
    <2>3. packet.route \notin Directs
      BY <1>7 DEF Floods, Directs
    <2>4. QED
      BY <1>7, <2>2, <2>3 DEF packet, senders, hops
  <1>8. CASE packet.route \in Directs /\ ~IsTrace(packet)
    <2> DEFINE whole == hops \o packet.path
               left == Len(packet.path)
    <2>1. /\ Len(first.path) = n + left
          /\ \A i \in 1 .. n : first.path[i] = HopHash(packet, senders, i)
          /\ \A i \in 1 .. left : packet.path[i] = first.path[n + i]
      BY <1>3, <1>8 DEF TellsWay
    <2>2. /\ whole \in Seq(HashValues) /\ Len(whole) = n + left
          /\ \A i \in 1 .. n + left : whole[i] = IF i <= n THEN hops[i] ELSE packet.path[i - n]
      <3>1. /\ whole \in Seq(HashValues) /\ Len(whole) = Len(hops) + left
            /\ \A i \in 1 .. Len(hops) + left :
                 whole[i] = IF i <= Len(hops) THEN hops[i] ELSE packet.path[i - Len(hops)]
        BY <1>2, <1>5, ConcatProperties
      <3> HIDE DEF whole, left, n
      <3>2. QED
        BY <1>5, <3>1
    <2> HIDE DEF whole, left, n
    <2>3. ASSUME NEW i \in 1 .. n + left
          PROVE  whole[i] = first.path[i]
      <3>1. left \in Nat
        BY <1>2 DEF left
      <3>2. CASE i <= n
        BY <1>4, <1>5, <2>1, <2>2, <3>1, <3>2
      <3>3. CASE i > n
        <4>1. i - n \in 1 .. left /\ n + (i - n) = i /\ ~(i <= n)
          BY <1>4, <3>1, <3>3
        <4>2. packet.path[i - n] = first.path[i]
          BY <2>1, <4>1
        <4>3. QED
          BY <2>2, <4>1, <4>2
      <3>4. QED
        BY <1>4, <3>1, <3>2, <3>3
    <2>4. whole = first.path
      BY <1>2, <2>1, <2>2, <2>3, SeqEqual
    <2>5. packet.route \notin Floods
      BY <1>8 DEF Floods, Directs
    <2>6. QED
      BY <1>8, <2>4, <2>5 DEF packet, first, senders, hops, whole
  <1>9. QED
    BY <1>2, <1>6, <1>7, <1>8 DEF packet

\* Samples are what each hop measured of the one before it.
LEMMA SnrTold ==
  ASSUME MeshInv
  PROVE  SamplesAreMeasured
  <1> SUFFICES ASSUME NEW item \in queue
               PROVE  \A i \in DOMAIN item.copy.packet.samples :
                        item.copy.packet.samples[i]
                          = Clamp(Snr[<<Senders(item)[i], Senders(item)[i + 1]>>])
    BY DEF SamplesAreMeasured
  <1>1. Came(item.copy.packet, item.copy.first, Senders(item))
    BY DEF MeshInv, QueuedOK, Senders
  <1>2. TellsSnr(item.copy.packet, Senders(item))
    BY <1>1 DEF Came
  <1>3. DOMAIN item.copy.packet.samples = 1 .. Len(item.copy.packet.samples)
    BY <1>1, CameFacts, LenProperties
  <1>4. QED
    BY <1>2, <1>3 DEF TellsSnr

LEMMA MeshTyped ==
  ASSUME MeshInv
  PROVE  TypeOK
  <1>1. ASSUME NEW event \in heard
        PROVE  /\ event.at \in Nodes /\ event.snr \in Int
               /\ event.copy.packet \in Packets /\ event.copy.first \in Packets
               /\ event.copy.via \in Seq(Nodes) /\ Fits(event.copy.packet)
    <2>1. HeardOK(event)
      BY DEF MeshInv
    <2>2. event.snr \in Int
      BY <2>1, MeshAssumption DEF HeardOK
    <2>3. QED
      BY <2>1, <2>2 DEF HeardOK, Came
  <1>2. ASSUME NEW item \in queue
        PROVE  /\ item.at \in Nodes
               /\ item.copy.packet \in Packets /\ item.copy.first \in Packets
               /\ item.copy.via \in Seq(Nodes) /\ Fits(item.copy.packet)
    BY DEF MeshInv, QueuedOK, Came, CopyTypes
  <1>3. DOMAIN seen = Nodes
    BY DEF MeshInv
  <1>4. QED
    BY <1>1, <1>2, <1>3 DEF TypeOK, Copies

\* Scopes are kept to, and captured at the first hop.
LEMMA ScopesTold ==
  ASSUME MeshInv
  PROVE  ScopesAreKept
  <1>1. \A item \in queue :
          InScope(item.copy.packet, item.copy.first, Senders(item))
    BY DEF MeshInv, QueuedOK, Senders, Came
  <1>2. ScopeIsRespected
    BY <1>1 DEF ScopeIsRespected, InScope
  <1>3. CapturedAtFirstHop
    BY <1>1 DEF CapturedAtFirstHop, InScope
  <1>4. QED
    BY <1>2, <1>3 DEF ScopesAreKept

\* No copy's path or frame is too long, and it tells the way it came: the hashes of
\* a flood's hops, those a direct packet or a trace was sent to, none skipped or
\* taken twice, and what each hop of a trace measured of the last.
THEOREM CopiesTrue == Spec => []CopiesAreTrue
  <1>1. MeshInv => CopiesAreTrue
    BY MeshTyped, WayTold, SnrTold DEF CopiesAreTrue
  <1>2. QED
    BY <1>1, MeshInvariant, PTL

\* All that send a flood on allow the region it is scoped to, and only its first
\* hop can have captured it, to a default region of its own.
THEOREM ScopesKept == Spec => []ScopesAreKept
  BY ScopesTold, MeshInvariant, PTL

\* Whatever is forgotten, no node sends a flood on more often than its loop
\* detection tolerates, its own hash among equal hashes of others included.
THEOREM LoopsBounded == Spec => []LoopsAreBounded
  <1>1. MeshInv => LoopsAreBounded
    BY DEF MeshInv, QueuedOK, LoopsAreBounded, TimesSent, Senders
  <1>2. QED
    BY <1>1, MeshInvariant, PTL

------------------------------------------------------------------------------
(* The region table: the invariant, and what its operations keep *)

\* A table of types and sizes right, no name in it twice, whose default region is
\* `default`: as long as the last id has not been given out, ids are told apart and
\* the next one is new, so that the default's id, if there is one, is that of one
\* region.
Sound(map, default) ==
  /\ map \in RegionMaps
  /\ Len(map.entries) <= MaxRegions
  /\ \A i, j \in DOMAIN map.entries : i # j => map.entries[i].name # map.entries[j].name
  /\ default \in Names \cup {NoName}
  /\ map.next_id < MaxId =>
       /\ \A i \in DOMAIN map.entries : map.entries[i].id < map.next_id
       /\ \A i, j \in DOMAIN map.entries : i # j => map.entries[i].id # map.entries[j].id
       /\ \/ map.default_id = NoId /\ default = NoName
          \/ \E i \in DOMAIN map.entries :
               map.entries[i].id = map.default_id /\ map.entries[i].name = default

\* A table has every region of another.
Keeps(map, other) == \A name \in Names : Knows(map, name) => Knows(other, name)

\* The inductive invariant
RegionsInv == RegionsTypeOK /\ Sound(regions, chosen)

\* Of a sound table that has not given out the last id, it is `default`.
LEMMA DefaultNamed ==
  ASSUME NEW map, NEW default, Sound(map, default), map.next_id < MaxId
  PROVE  DefaultName(map) = default
  <1> DEFINE found == {i \in DOMAIN map.entries : map.entries[i].id = map.default_id}
  <1>1. map \in RegionMaps
    BY DEF Sound
  <1>2. CASE map.default_id = NoId /\ default = NoName
    <2>1. \A i \in DOMAIN map.entries : map.entries[i].id # 0
      BY <1>1, MapFacts
    <2>2. found = {}
      BY <1>2, <2>1 DEF NoId
    <2>3. QED
      BY <1>2, <2>2 DEF DefaultName
  <1>3. CASE \E i \in DOMAIN map.entries :
               map.entries[i].id = map.default_id /\ map.entries[i].name = default
    <2>1. PICK i \in DOMAIN map.entries :
                 map.entries[i].id = map.default_id /\ map.entries[i].name = default
      BY <1>3
    <2>2. found = {i}
      BY <2>1 DEF Sound
    <2>3. found \in SUBSET Nat
      BY <1>1, MapFacts
    <2>4. Min(found) = i
      BY <2>2, <2>3, MinThere
    <2>5. QED
      BY <2>1, <2>2, <2>4 DEF DefaultName
  <1>4. QED
    BY <1>2, <1>3 DEF Sound

\* A table with the ids, names and default of a sound one is sound.
LEMMA SameRows ==
  ASSUME NEW map, NEW default, Sound(map, default),
         NEW other \in RegionMaps,
         DOMAIN other.entries = DOMAIN map.entries,
         \A i \in DOMAIN map.entries :
           other.entries[i].id = map.entries[i].id /\ other.entries[i].name = map.entries[i].name,
         other.next_id = map.next_id, other.default_id = map.default_id
  PROVE  Sound(other, default)
  <1>1. map \in RegionMaps
    BY DEF Sound
  <1>2. Len(other.entries) = Len(map.entries)
    BY <1>1, MapFacts
  <1>3. QED
    BY <1>2 DEF Sound

\* set_flag changes flags only.
LEMMA SetFlagFacts ==
  ASSUME NEW map \in RegionMaps, NEW name, NEW denied \in BOOLEAN,
         NEW other, other = SetFlag(map, name, denied)
  PROVE  /\ other \in RegionMaps
         /\ DOMAIN other.entries = DOMAIN map.entries
         /\ \A i \in DOMAIN map.entries :
              /\ other.entries[i].id = map.entries[i].id
              /\ other.entries[i].name = map.entries[i].name
         /\ \A i \in DOMAIN map.entries :
              /\ map.entries[i].name = name => other.entries[i].denied = denied
              /\ map.entries[i].name # name =>
                   other.entries[i].denied = map.entries[i].denied
         /\ \A i \in DOMAIN map.entries : other.entries[i].private = map.entries[i].private
         /\ other.next_id = map.next_id /\ other.default_id = map.default_id
         /\ other.wildcard_denied = map.wildcard_denied
  <1> DEFINE entries == [i \in DOMAIN map.entries |->
                           IF i \in Positions(map, name)
                           THEN [map.entries[i] EXCEPT !.denied = denied] ELSE map.entries[i]]
  <1>1. \A i \in DOMAIN map.entries :
          /\ entries[i] \in Entries
          /\ entries[i].id = map.entries[i].id
          /\ entries[i].name = map.entries[i].name
          /\ map.entries[i].name = name => entries[i].denied = denied
          /\ map.entries[i].name # name => entries[i].denied = map.entries[i].denied
          /\ entries[i].private = map.entries[i].private
    BY MapFacts DEF Entries, Positions
  <1>2. entries \in Seq(Entries) /\ DOMAIN entries = DOMAIN map.entries
    <2>1. entries \in [1 .. Len(map.entries) -> Entries]
      BY <1>1, MapFacts
    <2>2. Len(map.entries) \in Nat /\ DOMAIN map.entries = 1 .. Len(map.entries)
      BY MapFacts
    <2> HIDE DEF entries
    <2>3. entries \in Seq(Entries)
      BY <2>1, <2>2, SeqDef
    <2>4. QED
      BY <2>1, <2>2, <2>3
  <1>3. other = [map EXCEPT !.entries = entries]
    BY DEF SetFlag
  <1> HIDE DEF entries
  <1>4. QED
    BY <1>1, <1>2, <1>3 DEF RegionMaps

\* ... and keeps a table sound.
LEMMA SetFlagSound ==
  ASSUME NEW map, NEW default, Sound(map, default), NEW name, NEW denied \in BOOLEAN
  PROVE  /\ Sound(SetFlag(map, name, denied), default)
         /\ \A any : Positions(SetFlag(map, name, denied), any) = Positions(map, any)
  <1> DEFINE other == SetFlag(map, name, denied)
  <1>1. map \in RegionMaps
    BY DEF Sound
  <1> HIDE DEF other
  <1>2. other = SetFlag(map, name, denied)
    BY DEF other
  <1>3. /\ other \in RegionMaps
        /\ DOMAIN other.entries = DOMAIN map.entries
        /\ \A i \in DOMAIN map.entries :
             other.entries[i].id = map.entries[i].id /\ other.entries[i].name = map.entries[i].name
        /\ other.next_id = map.next_id /\ other.default_id = map.default_id
    BY <1>1, <1>2, SetFlagFacts
  <1>4. Sound(other, default)
    BY <1>3, SameRows
  <1>5. \A any : Positions(other, any) = Positions(map, any)
    BY <1>3 DEF Positions
  <1>6. QED
    BY <1>2, <1>4, <1>5

\* set_flood_allowed keeps a table sound.
LEMMA SetFloodSound ==
  ASSUME NEW map, NEW default, Sound(map, default), NEW name, NEW allowed \in BOOLEAN
  PROVE  Sound(SetFlood(map, name, allowed), default) /\ Keeps(map, SetFlood(map, name, allowed))
  <1>1. map \in RegionMaps
    BY DEF Sound
  <1>2. CASE name = Wildcard
    <2>1. SetFlood(map, name, allowed) = [map EXCEPT !.wildcard_denied = ~allowed]
      BY <1>2 DEF SetFlood
    <2>2. QED
      BY <1>1, <2>1, SameRows DEF RegionMaps, Keeps, Knows, Positions
  <1>3. CASE name # Wildcard
    <2>1. SetFlood(map, name, allowed) = SetFlag(map, name, ~allowed)
      BY <1>3 DEF SetFlood
    <2>2. (~allowed) \in BOOLEAN
      OBVIOUS
    <2>3. /\ Sound(SetFlag(map, name, ~allowed), default)
          /\ \A any : Positions(SetFlag(map, name, ~allowed), any) = Positions(map, any)
      BY <2>2, SetFlagSound
    <2>4. QED
      BY <2>1, <2>3 DEF Keeps, Knows
  <1>4. QED
    BY <1>2, <1>3

\* put_region keeps a table sound: the id it gives out is new, unless it is the last.
LEMMA PutSound ==
  ASSUME NEW map, NEW default, Sound(map, default), NEW name, CanPut(map, name),
         NEW private \in BOOLEAN
  PROVE  /\ Sound(Put(map, name, private), default)
         /\ Knows(Put(map, name, private), name) /\ Keeps(map, Put(map, name, private))
  <1>1. map \in RegionMaps /\ name \in Names
    BY DEF Sound, CanPut
  <1>2. CASE Knows(map, name)
    <2>1. Put(map, name, private) = SetFlag(map, name, FALSE)
      BY <1>2 DEF Put
    <2>2. FALSE \in BOOLEAN
      OBVIOUS
    <2>3. /\ Sound(SetFlag(map, name, FALSE), default)
          /\ \A any : Positions(SetFlag(map, name, FALSE), any) = Positions(map, any)
      BY <2>2, SetFlagSound
    <2>4. QED
      BY <1>2, <2>1, <2>3 DEF Knows, Keeps
  <1>3. CASE ~Knows(map, name)
    <2> DEFINE entry   == NewEntry(map.next_id, name, private)
               entries == Append(map.entries, entry)
               next    == IF map.next_id < MaxId THEN map.next_id + 1 ELSE MaxId
               put     == [map EXCEPT !.next_id = next, !.entries = entries]
               n       == Len(map.entries)
    <2>1. Put(map, name, private) = put
      BY <1>3 DEF Put
    <2>2. /\ map.entries \in Seq(Entries) /\ n \in Nat /\ DOMAIN map.entries = 1 .. n
          /\ \A i \in 1 .. n : map.entries[i].name \in Names /\ map.entries[i].name # name
          /\ \A i \in 1 .. n : map.entries[i].id \in 1 .. MaxId
          /\ map.next_id \in 1 .. MaxId /\ map.default_id \in 0 .. MaxId
      BY <1>1, <1>3, MapFacts DEF Knows, Positions
    <2>3. MaxId \in Nat \ {0} /\ MaxRegions \in Nat
      BY RegionAssumption
    <2>4. entry \in Entries /\ next \in 1 .. MaxId
      BY <1>1, <2>2, <2>3 DEF Entries, NewEntry
    <2>5. /\ entries \in Seq(Entries) /\ Len(entries) = n + 1
          /\ DOMAIN entries = 1 .. n + 1
          /\ \A i \in 1 .. n : entries[i] = map.entries[i]
          /\ entries[n + 1] = entry
      <3> HIDE DEF entry
      <3>1. QED
        BY <2>2, <2>4, AppendProperties, LenProperties
    <2>6. n + 1 <= MaxRegions
      BY <1>3, <2>2, <2>3 DEF CanPut
    <2>7. entry.id = map.next_id /\ entry.name = name
      BY DEF NewEntry
    <2> HIDE DEF entry, entries, next, n
    <2>8. /\ put \in RegionMaps
          /\ put.entries = entries /\ put.next_id = next /\ put.default_id = map.default_id
      BY <1>1, <2>4, <2>5 DEF RegionMaps
    <2>9. \A i, j \in 1 .. n + 1 : i # j => entries[i].name # entries[j].name
      <3>1. \A i, j \in 1 .. n : i # j => entries[i].name # entries[j].name
        BY <2>2, <2>5 DEF Sound
      <3>2. \A i \in 1 .. n : entries[i].name # name
        BY <2>2, <2>5
      <3>3. \A i \in 1 .. n + 1 : i \in 1 .. n \/ i = n + 1
        BY <2>2
      <3>4. QED
        BY <2>5, <2>7, <3>1, <3>2, <3>3
    <2>10. ASSUME next < MaxId
           PROVE  /\ \A i \in 1 .. n + 1 : entries[i].id < next
                  /\ \A i, j \in 1 .. n + 1 : i # j => entries[i].id # entries[j].id
                  /\ \/ map.default_id = NoId /\ default = NoName
                     \/ \E i \in 1 .. n + 1 :
                          entries[i].id = map.default_id /\ entries[i].name = default
      <3>1. next = map.next_id + 1 /\ map.next_id < MaxId
        BY <2>2, <2>3, <2>10 DEF next
      <3>2. /\ \A i \in 1 .. n : entries[i].id < map.next_id
            /\ \A i, j \in 1 .. n : i # j => entries[i].id # entries[j].id
            /\ \/ map.default_id = NoId /\ default = NoName
               \/ \E i \in 1 .. n :
                    entries[i].id = map.default_id /\ entries[i].name = default
        BY <2>2, <2>5, <3>1 DEF Sound
      <3>3. \A i \in 1 .. n + 1 : i \in 1 .. n \/ i = n + 1
        BY <2>2
      <3>4. \A i \in 1 .. n : i \in 1 .. n + 1
        BY <2>2
      <3>5. \A i \in 1 .. n : entries[i].id \in Int
        BY <2>2, <2>5
      <3>6. \A i \in 1 .. n + 1 : entries[i].id < next
        BY <2>2, <2>5, <2>7, <3>1, <3>2, <3>3, <3>5
      <3>7. \A i, j \in 1 .. n + 1 : i # j => entries[i].id # entries[j].id
        BY <2>2, <2>5, <2>7, <3>1, <3>2, <3>3, <3>5
      <3>8. QED
        BY <3>2, <3>4, <3>6, <3>7
    <2>11. Sound(put, default)
      <3> HIDE DEF put
      <3>1. default \in Names \cup {NoName} /\ Len(put.entries) <= MaxRegions
        BY <2>5, <2>6, <2>8 DEF Sound
      <3>2. QED
        BY <2>5, <2>8, <2>9, <2>10, <3>1 DEF Sound
    <2>12. Knows(put, name)
      <3>1. n + 1 \in 1 .. n + 1
        BY <2>2 DEF n
      <3>2. QED
        BY <2>5, <2>7, <2>8, <3>1 DEF Knows, Positions
    <2>13. Keeps(map, put)
      <3>1. \A i \in 1 .. n : i \in 1 .. n + 1
        BY <2>2
      <3>2. QED
        BY <2>2, <2>5, <2>8, <3>1 DEF Keeps, Knows, Positions
    <2>14. QED
      BY <2>1, <2>11, <2>12, <2>13
  <1>4. QED
    BY <1>2, <1>3

\* A sequence without the element at a position.
LEMMA RemoveAtRemoves ==
  ASSUME NEW S, NEW s \in Seq(S), NEW k \in 1 .. Len(s)
  PROVE  /\ RemoveAt(s, k) \in Seq(S)
         /\ Len(RemoveAt(s, k)) = Len(s) - 1
         /\ \A i \in 1 .. Len(s) - 1 : RemoveAt(s, k)[i] = s[IF i < k THEN i ELSE i + 1]
  <1> DEFINE front == SubSeq(s, 1, k - 1)
             back  == SubSeq(s, k + 1, Len(s))
  <1>1. Len(s) \in Nat /\ \A i \in 1 .. Len(s) : s[i] \in S
    BY LenProperties, ElementOfSeq
  <1>2. /\ front \in Seq(S)
        /\ Len(front) = k - 1
        /\ \A i \in 1 .. k - 1 : front[i] = s[i]
    <2>1. \A i \in 1 .. k - 1 : s[i] \in S
      BY <1>1
    <2>2. QED
      BY <1>1, <2>1, SubSeqProperties, Z3
  <1>3. /\ back \in Seq(S)
        /\ Len(back) = Len(s) - k
        /\ \A i \in 1 .. Len(s) - k : back[i] = s[k + i]
    <2>1. \A i \in k + 1 .. Len(s) : s[i] \in S
      BY <1>1
    <2>2. QED
      BY <1>1, <2>1, SubSeqProperties, Z3
  <1> HIDE DEF front, back
  <1>4. /\ front \o back \in Seq(S)
        /\ Len(front \o back) = Len(front) + Len(back)
        /\ \A i \in 1 .. Len(front) + Len(back) :
             (front \o back)[i] = IF i <= Len(front) THEN front[i] ELSE back[i - Len(front)]
    BY <1>2, <1>3, ConcatProperties
  <1>5. Len(front) + Len(back) = Len(s) - 1
    BY <1>1, <1>2, <1>3
  <1>6. \A i \in 1 .. Len(s) - 1 :
          (front \o back)[i] = s[IF i < k THEN i ELSE i + 1]
    <2>1. \A i \in 1 .. Len(s) - 1 : i < k => (front \o back)[i] = s[i]
      BY <1>1, <1>2, <1>4, <1>5
    <2>2. \A i \in 1 .. Len(s) - 1 : ~(i < k) =>
            (front \o back)[i] = back[i - (k - 1)] /\ i - (k - 1) \in 1 .. Len(s) - k
      BY <1>1, <1>2, <1>4, <1>5
    <2>3. \A i \in 1 .. Len(s) - 1 : k + (i - (k - 1)) = i + 1
      BY <1>1
    <2>4. QED
      BY <1>3, <2>1, <2>2, <2>3
  <1>7. RemoveAt(s, k) = front \o back
    BY DEF RemoveAt, front, back
  <1>8. QED
    BY <1>4, <1>5, <1>6, <1>7

\* remove_region keeps a table sound, without a default region when it was the one.
LEMMA RemoveSound ==
  ASSUME NEW map, NEW default, Sound(map, default), NEW name, Knows(map, name)
  PROVE  /\ Sound(RemoveFrom(map, name), IF default = name THEN NoName ELSE default)
         /\ \A any : any # name /\ Knows(map, any) => Knows(RemoveFrom(map, name), any)
  <1> DEFINE k       == CHOOSE i \in Positions(map, name) : TRUE
             entries == RemoveAt(map.entries, k)
             n       == Len(map.entries)
             was(i)  == IF i < k THEN i ELSE i + 1
             id      == IF map.entries[k].id = map.default_id THEN NoId ELSE map.default_id
             left    == [map EXCEPT !.entries = entries, !.default_id = id]
             then    == IF default = name THEN NoName ELSE default
  <1>1. map \in RegionMaps
    BY DEF Sound
  <1>2. /\ map.entries \in Seq(Entries) /\ n \in Nat /\ DOMAIN map.entries = 1 .. n
        /\ \A i \in 1 .. n : map.entries[i].id \in 1 .. MaxId /\ map.entries[i].name \in Names
        /\ map.default_id \in 0 .. MaxId
    BY <1>1, MapFacts
  <1>3. k \in Positions(map, name)
    BY DEF Knows
  <1>4. k \in 1 .. n /\ map.entries[k].name = name
    BY <1>2, <1>3 DEF Positions
  <1>5. Positions(map, name) = {k}
    <2> HIDE DEF k
    <2>1. QED
      BY <1>2, <1>3, <1>4 DEF Positions, Sound
  <1> HIDE DEF k
  <1>6. RemoveFrom(map, name) = left
    <2>1. (\E i \in Positions(map, name) : map.entries[i].id = map.default_id)
            <=> map.entries[k].id = map.default_id
      BY <1>5
    <2>2. QED
      BY <2>1 DEF RemoveFrom, k
  <1>7. /\ entries \in Seq(Entries) /\ Len(entries) = n - 1 /\ DOMAIN entries = 1 .. n - 1
        /\ \A i \in 1 .. n - 1 : entries[i] = map.entries[was(i)] /\ was(i) \in 1 .. n
        /\ \A i, j \in 1 .. n - 1 : i # j => was(i) # was(j)
        /\ \A i \in 1 .. n - 1 : was(i) # k
    <2>1. /\ entries \in Seq(Entries) /\ Len(entries) = n - 1
          /\ \A i \in 1 .. n - 1 : entries[i] = map.entries[was(i)]
      BY <1>2, <1>4, RemoveAtRemoves
    <2>2. DOMAIN entries = 1 .. n - 1
      BY <2>1, LenProperties
    <2> HIDE DEF entries, n
    <2>3. QED
      BY <1>2, <1>4, <2>1, <2>2
  <1>8. \A i \in 1 .. n : i # k => \E j \in 1 .. n - 1 : was(j) = i
    <2> HIDE DEF entries, n
    <2>1. ASSUME NEW i \in 1 .. n, i < k PROVE \E j \in 1 .. n - 1 : was(j) = i
      <3>1. i \in 1 .. n - 1 /\ was(i) = i
        BY <1>2, <1>4, <2>1
      <3>2. QED
        BY <3>1
    <2>2. ASSUME NEW i \in 1 .. n, i > k PROVE \E j \in 1 .. n - 1 : was(j) = i
      <3>1. i - 1 \in 1 .. n - 1 /\ was(i - 1) = i
        BY <1>2, <1>4, <2>2
      <3>2. QED
        BY <3>1
    <2>3. \A i \in 1 .. n : i # k => i < k \/ i > k
      BY <1>2, <1>4
    <2>4. QED
      BY <2>1, <2>2, <2>3
  <1>9. id \in 0 .. MaxId
    BY <1>2, RegionAssumption DEF NoId
  <1> HIDE DEF entries, n, id, was
  <1>10. /\ left \in RegionMaps /\ left.entries = entries
         /\ left.next_id = map.next_id /\ left.default_id = id
    BY <1>1, <1>7, <1>9 DEF RegionMaps
  <1>11. n - 1 <= MaxRegions
    BY <1>2, RegionAssumption DEF Sound, n
  <1>12. \A i, j \in 1 .. n - 1 : i # j => entries[i].name # entries[j].name
    <2>1. \A i, j \in 1 .. n : i # j => map.entries[i].name # map.entries[j].name
      BY <1>2 DEF Sound
    <2>2. QED
      BY <1>7, <2>1
  <1>13. then \in Names \cup {NoName}
    BY DEF Sound
  <1>14. ASSUME map.next_id < MaxId
         PROVE  /\ \A i \in 1 .. n - 1 : entries[i].id < map.next_id
                /\ \A i, j \in 1 .. n - 1 : i # j => entries[i].id # entries[j].id
                /\ \/ id = NoId /\ then = NoName
                   \/ \E i \in 1 .. n - 1 : entries[i].id = id /\ entries[i].name = then
    <2>2. /\ \A i \in 1 .. n : map.entries[i].id < map.next_id
          /\ \A i, j \in 1 .. n : i # j => map.entries[i].id # map.entries[j].id
      BY <1>2, <1>14 DEF Sound
    <2>1. /\ \A i \in 1 .. n - 1 : entries[i].id < map.next_id
          /\ \A i, j \in 1 .. n - 1 : i # j => entries[i].id # entries[j].id
      BY <1>7, <2>2
    <2>3. CASE map.default_id = NoId /\ default = NoName
      <3>1. name # NoName
        BY <1>2, <1>4, RegionAssumption
      <3>2. id = NoId
        BY <2>3 DEF id
      <3>3. QED
        BY <2>1, <2>3, <3>1, <3>2
    <2>4. CASE \E i \in 1 .. n : map.entries[i].id = map.default_id /\ map.entries[i].name = default
      <3>1. PICK i \in 1 .. n : map.entries[i].id = map.default_id /\ map.entries[i].name = default
        BY <2>4
      <3>2. CASE i = k
        <4>1. then = NoName /\ id = NoId
          BY <1>4, <3>1, <3>2 DEF id
        <4>2. QED
          BY <2>1, <4>1
      <3>3. CASE i # k
        <4>1. default # name
          BY <1>2, <1>4, <3>1, <3>3 DEF Sound
        <4>2. map.entries[k].id # map.default_id
          BY <1>4, <2>2, <3>1, <3>3
        <4>3. id = map.default_id /\ then = default
          BY <4>1, <4>2 DEF id
        <4>4. PICK j \in 1 .. n - 1 : was(j) = i
          BY <1>8, <3>3
        <4>5. entries[j].id = id /\ entries[j].name = then
          BY <1>7, <3>1, <4>3, <4>4
        <4>6. QED
          BY <2>1, <4>5
      <3>4. QED
        BY <3>2, <3>3
    <2>5. QED
      BY <1>2, <1>14, <2>3, <2>4 DEF Sound
  <1>15. Sound(left, then)
    <2> HIDE DEF left, then
    <2>1. QED
      BY <1>7, <1>10, <1>11, <1>12, <1>13, <1>14 DEF Sound
  <1>16. \A any : any # name /\ Knows(map, any) => Knows(left, any)
    <2>1. ASSUME NEW any, any # name, Knows(map, any)
          PROVE  Knows(left, any)
      <3>1. PICK i \in 1 .. n : map.entries[i].name = any
        BY <1>2, <2>1 DEF Knows, Positions
      <3>2. i # k
        BY <1>4, <2>1, <3>1
      <3>3. PICK j \in 1 .. n - 1 : was(j) = i
        BY <1>8, <3>2
      <3>4. j \in DOMAIN left.entries /\ left.entries[j].name = any
        BY <1>7, <1>10, <3>1, <3>3
      <3>5. QED
        BY <3>4 DEF Knows, Positions
    <2>2. QED
      BY <2>1
  <1>17. QED
    BY <1>6, <1>15, <1>16

\* A sound table with another default region is sound, if it has that region.
LEMMA DefaultSound ==
  ASSUME NEW map, NEW default, Sound(map, default), NEW id \in 0 .. MaxId,
         NEW then \in Names \cup {NoName},
         \/ id = NoId /\ then = NoName
         \/ \E i \in DOMAIN map.entries : map.entries[i].id = id /\ map.entries[i].name = then
  PROVE  Sound([map EXCEPT !.default_id = id], then) /\ Keeps(map, [map EXCEPT !.default_id = id])
  <1> DEFINE other == [map EXCEPT !.default_id = id]
  <1>1. /\ other \in RegionMaps /\ other.entries = map.entries
        /\ other.next_id = map.next_id /\ other.default_id = id
    BY DEF Sound, RegionMaps
  <1> HIDE DEF other
  <1>2. Sound(other, then)
    BY <1>1 DEF Sound
  <1>3. Keeps(map, other)
    BY <1>1 DEF Keeps, Knows, Positions
  <1>4. QED
    BY <1>2, <1>3 DEF other

\* The choice of a default region keeps a table sound, and is its default then.
LEMMA ChooseDefaultSound ==
  ASSUME NEW map, NEW default, Sound(map, default), NEW name \in Names \cup {Wildcard, NoName},
         NEW private \in BOOLEAN, CanChooseDefault(map, name, private)
  PROVE  /\ Sound(ChooseDefault(map, name, private), IF name \in Names THEN name ELSE NoName)
         /\ Keeps(map, ChooseDefault(map, name, private))
  <1> DEFINE put  == Putting(map, name, private)
             then == IF name \in Names THEN name ELSE NoName
  <1>1. Sound(put, default) /\ Keeps(map, put)
    <2>1. CASE name \in Names /\ FoundByPrefix(map, name) = {}
      <3>1. put = Put(map, name, private) /\ CanPut(map, name)
        BY <2>1 DEF Putting, CanChooseDefault
      <3>2. Sound(Put(map, name, private), default) /\ Keeps(map, Put(map, name, private))
        BY <3>1, PutSound
      <3>3. QED
        BY <3>1, <3>2
    <2>2. CASE ~ (name \in Names /\ FoundByPrefix(map, name) = {})
      BY <2>2 DEF Putting, Keeps
    <2>3. QED
      BY <2>1, <2>2
  <1>2. CanSetDefault(put, name) /\ ChooseDefault(map, name, private) = SetDefault(put, name)
    BY DEF CanChooseDefault, ChooseDefault
  <1> HIDE DEF put
  <1>3. MaxId \in Nat \ {0} /\ NoName \notin Names /\ Wildcard \notin Names
    BY RegionAssumption
  <1>4. CASE name \in {NoName, Wildcard}
    <2>1. SetDefault(put, name) = [put EXCEPT !.default_id = NoId] /\ then = NoName
      BY <1>3, <1>4 DEF SetDefault
    <2>2. NoId \in 0 .. MaxId
      BY <1>3 DEF NoId
    <2>3. /\ Sound([put EXCEPT !.default_id = NoId], NoName)
          /\ Keeps(put, [put EXCEPT !.default_id = NoId])
      BY <1>1, <2>2, DefaultSound
    <2>4. QED
      BY <1>1, <1>2, <2>1, <2>3 DEF Keeps
  <1>5. CASE name \notin {NoName, Wildcard}
    <2> DEFINE flood == SetFlag(put, name, ~TRUE)
               k     == CHOOSE i \in FoundByPrefix(put, name) : TRUE
    <2>1. then = name /\ Knows(put, name)
      BY <1>2, <1>5 DEF CanSetDefault
    <2>2. FoundByPrefix(put, name) = Positions(put, name)
      BY <2>1 DEF FoundByPrefix
    <2>3. k \in Positions(put, name)
      BY <2>1, <2>2 DEF Knows
    <2>4. SetDefault(put, name) = [flood EXCEPT !.default_id = put.entries[k].id]
      BY <1>5 DEF SetDefault, SetFlood
    <2>5. (~TRUE) \in BOOLEAN
      OBVIOUS
    <2>6. /\ Sound(flood, default)
          /\ \A any : Positions(flood, any) = Positions(put, any)
      BY <1>1, <2>5, SetFlagSound
    <2> DEFINE no == ~TRUE
    <2>7. put \in RegionMaps /\ no \in BOOLEAN /\ flood = SetFlag(put, name, no)
      BY <1>1, <2>5 DEF Sound
    <2> HIDE DEF flood, k, no
    <2>8. /\ DOMAIN flood.entries = DOMAIN put.entries
          /\ \A i \in DOMAIN put.entries : flood.entries[i].id = put.entries[i].id
      BY <2>7, SetFlagFacts
    <2>9. /\ k \in DOMAIN flood.entries /\ flood.entries[k].name = name
          /\ put.entries[k].id \in 0 .. MaxId /\ flood.entries[k].id = put.entries[k].id
      <3>1. k \in DOMAIN flood.entries /\ flood.entries[k].name = name
        BY <2>3, <2>6 DEF Positions
      <3>2. k \in DOMAIN put.entries
        BY <2>3 DEF Positions
      <3>3. put.entries[k].id \in 1 .. MaxId
        BY <2>7, <3>2, MapFacts
      <3>4. QED
        BY <1>3, <2>8, <3>1, <3>2, <3>3
    <2>10. name \in Names
      BY <1>5
    <2>11. /\ Sound([flood EXCEPT !.default_id = put.entries[k].id], name)
           /\ Keeps(flood, [flood EXCEPT !.default_id = put.entries[k].id])
      BY <2>6, <2>9, <2>10, DefaultSound
    <2>12. Keeps(put, flood)
      BY <2>6 DEF Keeps, Knows
    <2>13. QED
      BY <1>1, <1>2, <2>1, <2>4, <2>11, <2>12 DEF Keeps
  <1>6. QED
    BY <1>4, <1>5

------------------------------------------------------------------------------
(* The lines of the file *)

\* The lines of the first m regions of a table, when `upto` gives those of fewer.
NextLines(map, defaults, upto, m) ==
  IF m = 0 THEN <<>>
  ELSE LET entry == map.entries[m]
       IN IF HasLine(defaults, entry)
          THEN Append(upto[m - 1], FloodLine(entry.name, entry.denied))
          ELSE upto[m - 1]

\* The recursion of RegionLines over the first n regions has a solution.
LEMMA LinesRecursion ==
  ASSUME NEW map, NEW defaults, NEW n \in Nat
  PROVE  \E upto : upto = [m \in 0 .. n |-> NextLines(map, defaults, upto, m)]
  <1> DEFINE Solves(upto, k) == upto = [m \in 0 .. k |-> NextLines(map, defaults, upto, m)]
             solved == {k \in Nat : \E upto : Solves(upto, k)}
  <1>1. 0 \in solved
    <2> DEFINE none == [m \in 0 .. 0 |-> <<>>]
    <2>1. \A m \in 0 .. 0 : NextLines(map, defaults, none, m) = <<>>
      BY DEF NextLines
    <2>2. Solves(none, 0)
      BY <2>1
    <2>3. QED
      BY <2>2
  <1>2. ASSUME NEW j \in 0 .. n, j # n, j \in solved
        PROVE  j + 1 \in solved
    <2>1. j \in Nat /\ j + 1 \in Nat
      OBVIOUS
    <2>2. PICK fewer : Solves(fewer, j)
      BY <1>2
    <2> DEFINE more == [m \in 0 .. j + 1 |-> NextLines(map, defaults, fewer, m)]
    <2>3. \A m \in 0 .. j : fewer[m] = NextLines(map, defaults, fewer, m)
      BY <2>2
    <2>4. \A m \in 0 .. j : more[m] = fewer[m]
      BY <2>1, <2>3
    <2>5. \A m \in 0 .. j + 1 : m # 0 => m - 1 \in 0 .. j
      BY <2>1
    <2> HIDE DEF more
    <2>6. \A m \in 0 .. j + 1 :
            NextLines(map, defaults, fewer, m) = NextLines(map, defaults, more, m)
      BY <2>4, <2>5 DEF NextLines
    <2>7. Solves(more, j + 1)
      BY <2>6 DEF more
    <2>8. QED
      BY <2>1, <2>7
  <1> HIDE DEF solved
  <1>3. 0 .. n \subseteq solved
    BY <1>1, <1>2, CountUp
  <1>4. n \in solved
    BY <1>3
  <1>5. QED
    BY <1>4 DEF solved

\* RegionLines follows its recursion.
LEMMA LinesFollow ==
  ASSUME NEW map, NEW defaults, Len(map.entries) \in Nat
  PROVE  \E upto :
           /\ RegionLines(map, defaults) = upto[Len(map.entries)]
           /\ upto[0] = <<>>
           /\ \A m \in 1 .. Len(map.entries) :
                upto[m] = NextLines(map, defaults, upto, m)
  <1> DEFINE n == Len(map.entries)
             upto[m \in 0 .. n] == NextLines(map, defaults, upto, m)
  <1>1. RegionLines(map, defaults) = upto[n]
    BY DEF RegionLines, NextLines
  <1>2. upto = [m \in 0 .. n |-> NextLines(map, defaults, upto, m)]
    <2> DEFINE Solves(f) == f = [m \in 0 .. n |-> NextLines(map, defaults, f, m)]
    <2>1. \E f : Solves(f)
      BY LinesRecursion
    <2>2. upto = CHOOSE f : Solves(f)
      BY DEF upto
    <2> HIDE DEF Solves, upto
    <2>3. Solves(upto)
      BY <2>1, <2>2
    <2>4. QED
      BY <2>3 DEF Solves
  <1> HIDE DEF upto
  <1>3. \A m \in 0 .. n : upto[m] = NextLines(map, defaults, upto, m)
    BY <1>2
  <1>4. NextLines(map, defaults, upto, 0) = <<>>
    BY DEF NextLines
  <1>5. 0 \in 0 .. n /\ \A m \in 1 .. n : m \in 0 .. n
    OBVIOUS
  <1>6. upto[0] = <<>>
    BY <1>3, <1>4, <1>5
  <1>7. QED
    BY <1>1, <1>3, <1>5, <1>6

\* The lines of a table are lines.
LEMMA RegionLinesTyped ==
  ASSUME NEW map \in RegionMaps, NEW defaults
  PROVE  RegionLines(map, defaults) \in Seq(Lines)
  <1> DEFINE n == Len(map.entries)
  <1>1. n \in Nat /\ \A m \in 1 .. n :
          map.entries[m].name \in Names /\ map.entries[m].denied \in BOOLEAN
    BY MapFacts
  <1>2. PICK upto :
          /\ RegionLines(map, defaults) = upto[n]
          /\ upto[0] = <<>>
          /\ \A m \in 1 .. n : upto[m] = NextLines(map, defaults, upto, m)
    BY <1>1, LinesFollow
  <1> HIDE DEF n
  <1>3. \A m \in 1 .. n : FloodLine(map.entries[m].name, map.entries[m].denied) \in Lines
    BY <1>1 DEF FloodLine, Lines
  <1> DEFINE typed == {m \in 0 .. n : upto[m] \in Seq(Lines)}
  <1>4. 0 \in typed
    <2>1. 0 \in 0 .. n /\ <<>> \in Seq(Lines)
      BY <1>1
    <2>2. QED
      BY <1>2, <2>1
  <1>5. ASSUME NEW m \in 0 .. n, m # n, m \in typed
        PROVE  m + 1 \in typed
    <2>1. m + 1 \in 1 .. n /\ (m + 1) - 1 = m /\ m + 1 # 0 /\ m + 1 \in 0 .. n
      BY <1>1, <1>5
    <2>2. \/ upto[m + 1] = upto[m]
          \/ upto[m + 1] = Append(upto[m], FloodLine(map.entries[m + 1].name,
                                                     map.entries[m + 1].denied))
      BY <1>2, <2>1 DEF NextLines
    <2>3. upto[m] \in Seq(Lines)
      BY <1>5
    <2>4. FloodLine(map.entries[m + 1].name, map.entries[m + 1].denied) \in Lines
      BY <1>3, <2>1
    <2>5. upto[m + 1] \in Seq(Lines)
      BY <2>2, <2>3, <2>4, AppendProperties
    <2>6. QED
      BY <2>1, <2>5
  <1>6. 0 .. n \subseteq typed
    <2> HIDE DEF typed
    <2>1. QED
      BY <1>1, <1>4, <1>5, CountUp
  <1>7. n \in 0 .. n
    BY <1>1
  <1>8. QED
    BY <1>2, <1>6, <1>7

\* What is written to the file are lines.
LEMMA TextTyped ==
  ASSUME NEW map \in RegionMaps, NEW capture \in BOOLEAN
  PROVE  Text(map, capture) \in Seq(Lines)
  <1> DEFINE last == IF capture = ProfileCapture THEN <<>>
                     ELSE <<[key |-> "capture", value |-> capture]>>
  <1>1. DefaultLine(map, Profile) \in Seq(Lines)
    <2>1. [key |-> "default", value |-> DefaultName(map)] \in Lines
      BY DefaultNameTyped DEF Lines
    <2>2. QED
      BY <2>1 DEF DefaultLine
  <1>2. WildcardLine(map, Profile) \in Seq(Lines)
    <2>1. FloodLine(Wildcard, map.wildcard_denied) \in Lines
      BY MapFacts DEF Lines, FloodLine
    <2>2. QED
      BY <2>1 DEF WildcardLine
  <1>3. RegionLines(map, Profile) \in Seq(Lines)
    BY RegionLinesTyped
  <1>4. last \in Seq(Lines)
    <2>1. [key |-> "capture", value |-> capture] \in Lines
      BY DEF Lines
    <2>2. QED
      BY <2>1
  <1> HIDE DEF last
  <1>5. Text(map, capture) =
          ((DefaultLine(map, Profile) \o WildcardLine(map, Profile)) \o RegionLines(map, Profile))
             \o last
    BY DEF Text, LinesOf, last
  <1>6. QED
    BY <1>1, <1>2, <1>3, <1>4, <1>5, ConcatProperties

------------------------------------------------------------------------------
(* The region commands and the boot keep the invariant *)

\* The table of the profile is sound.
LEMMA ProfileSound ==
  Sound(Profile, DefaultName(Profile))
  <1> DEFINE found == {i \in DOMAIN Profile.entries : Profile.entries[i].id = Profile.default_id}
  <1>1. Profile \in RegionMaps
    BY ProfileAssumption
  <1>2. DefaultName(Profile) \in Names \cup {NoName}
    BY <1>1, DefaultNameTyped
  <1>3. \/ Profile.default_id = NoId /\ DefaultName(Profile) = NoName
        \/ \E i \in DOMAIN Profile.entries :
             /\ Profile.entries[i].id = Profile.default_id
             /\ Profile.entries[i].name = DefaultName(Profile)
    <2>1. CASE found = {}
      BY <2>1, ProfileAssumption DEF DefaultName
    <2>2. CASE found # {}
      <3>1. found \in SUBSET Nat
        BY <1>1, MapFacts
      <3>2. Min(found) \in found
        BY <2>2, <3>1, MinThere
      <3>3. QED
        BY <2>2, <3>2 DEF DefaultName
    <2>3. QED
      BY <2>1, <2>2
  <1>4. QED
    BY <1>1, <1>2, <1>3, ProfileAssumption DEF Sound

\* What every step that writes the file does to the types.
LEMMA WrittenTyped ==
  ASSUME NEW map \in RegionMaps, NEW capture \in BOOLEAN, WrittenOf(map, capture)
  PROVE  file' \in Seq(Lines) /\ saved' \in [regions : RegionMaps, capture : BOOLEAN]
  BY TextTyped DEF WrittenOf

\* The invariant, of a state in which the table is sound.
LEMMA RegionsInvHolds ==
  ASSUME Sound(regions, chosen), region_capture \in BOOLEAN,
         file \in Seq(Lines), rest \in Seq(Lines), booting \in BOOLEAN,
         saved \in [regions : RegionMaps, capture : BOOLEAN]
  PROVE  RegionsInv
  BY DEF RegionsInv, RegionsTypeOK, Sound

\* ... after a step.
LEMMA RegionsInvKept ==
  ASSUME Sound(regions', chosen'), region_capture' \in BOOLEAN,
         file' \in Seq(Lines), rest' \in Seq(Lines), booting' \in BOOLEAN,
         saved' \in [regions : RegionMaps, capture : BOOLEAN]
  PROVE  RegionsInv'
  BY DEF RegionsInv, RegionsTypeOK, Sound

\* An accepted command keeps the invariant when its table is sound.
LEMMA AcceptKept ==
  ASSUME RegionsInv, NEW map, NEW capture \in BOOLEAN, Accept(map, capture), Sound(map, chosen')
  PROVE  RegionsInv'
  <1>1. map \in RegionMaps
    BY DEF Sound
  <1>2. /\ WrittenOf(map, capture) /\ regions' = map /\ region_capture' = capture
        /\ rest' = rest /\ booting' = booting
    BY DEF Accept
  <1>3. file' \in Seq(Lines) /\ saved' \in [regions : RegionMaps, capture : BOOLEAN]
    BY <1>1, <1>2, WrittenTyped
  <1>4. rest \in Seq(Lines) /\ booting \in BOOLEAN
    BY DEF RegionsInv, RegionsTypeOK
  <1>5. QED
    BY <1>2, <1>3, <1>4, RegionsInvKept

\* What a name reads as is a name, typed so.
LEMMA WordsRead ==
  /\ \A name \in Names : Read[name].name \in Names /\ Read[name].private \in BOOLEAN
  /\ \A value \in Names \cup {NoName} :
       /\ ReadDefault(value).name \in Names \cup {NoName}
       /\ ReadDefault(value).private \in BOOLEAN
  <1>1. \A word \in Words : word.name \in Names /\ word.private \in BOOLEAN
    BY DEF Words
  <1>2. NoWord.name = NoName /\ NoWord.private \in BOOLEAN
    BY DEF NoWord
  <1>3. \A name \in Names : Read[name] \in Words /\ ReadValue[name] \in Words \cup {NoWord}
    BY ReadAssumption
  <1>4. QED
    BY <1>1, <1>2, <1>3 DEF ReadDefault

\* A line of the file, read, keeps it too.
LEMMA ReadLineKept ==
  ASSUME RegionsInv, ReadLine
  PROVE  RegionsInv'
  <1> DEFINE line == Head(rest)
  <1>1. /\ Sound(regions, chosen) /\ region_capture \in BOOLEAN /\ rest \in Seq(Lines)
        /\ file \in Seq(Lines) /\ booting \in BOOLEAN
        /\ saved \in [regions : RegionMaps, capture : BOOLEAN]
    BY DEF RegionsInv, RegionsTypeOK
  <1>2. /\ rest # <<>> /\ Readable(line) /\ rest' = Tail(rest)
        /\ file' = file /\ booting' = booting /\ saved' = saved
    BY DEF ReadLine
  <1>3. line \in Lines /\ rest' \in Seq(Lines)
    BY <1>1, <1>2, HeadTailProperties
  <1> HIDE DEF line
  <1>4. CASE line.key = "default"
    <2> DEFINE word == ReadDefault(line.value)
               name == word.name
               private == word.private
    <2>1. line.value \in Names \cup {NoName}
      BY <1>3, <1>4 DEF Lines
    <2>2. name \in Names \cup {NoName} /\ private \in BOOLEAN
      BY <2>1, WordsRead
    <2>3. CanChooseDefault(regions, name, private)
      BY <1>2, <1>4 DEF Readable
    <2>4. /\ regions' = ChooseDefault(regions, name, private) /\ chosen' = name
          /\ region_capture' = region_capture
      BY <1>4 DEF ReadLine, line
    <2> HIDE DEF word, name, private
    <2>5. Sound(ChooseDefault(regions, name, private), IF name \in Names THEN name ELSE NoName)
      BY <1>1, <2>2, <2>3, ChooseDefaultSound
    <2>6. name = IF name \in Names THEN name ELSE NoName
      BY <2>2
    <2>7. Sound(regions', chosen')
      BY <2>4, <2>5, <2>6
    <2>8. QED
      BY <1>1, <1>2, <1>3, <2>4, <2>7, RegionsInvKept
  <1>5. CASE line.key = "flood" /\ line.name = Capture
    <2>1. line.allowed \in BOOLEAN /\ Wildcard # Capture
      BY <1>3, <1>5, RegionAssumption DEF Lines
    <2>2. region_capture' = line.allowed /\ regions' = regions /\ chosen' = chosen
      BY <1>5, <2>1 DEF ReadLine, line
    <2>3. Sound(regions', chosen')
      BY <1>1, <2>2
    <2>4. QED
      BY <1>1, <1>2, <1>3, <2>1, <2>2, <2>3, RegionsInvKept
  <1>6. CASE line.key = "flood" /\ line.name = Wildcard
    <2>1. line.allowed \in BOOLEAN /\ Wildcard # Capture
      BY <1>3, <1>6, RegionAssumption DEF Lines
    <2>2. /\ regions' = SetFlood(regions, Wildcard, line.allowed)
          /\ region_capture' = region_capture /\ chosen' = chosen
      BY <1>6, <2>1 DEF ReadLine, line
    <2>3. Sound(regions', chosen')
      BY <1>1, <2>1, <2>2, SetFloodSound
    <2>4. QED
      BY <1>1, <1>2, <1>3, <2>2, <2>3, RegionsInvKept
  <1>7. CASE line.key = "flood" /\ line.name \notin {Wildcard, Capture}
    <2> DEFINE word == Read[line.name]
               name == word.name
               private == word.private
               put == Put(regions, name, private)
    <2>1. line.allowed \in BOOLEAN /\ private \in BOOLEAN
      BY <1>3, <1>7, WordsRead DEF Lines
    <2>2. CanPut(regions, name)
      BY <1>2, <1>7 DEF Readable
    <2>3. /\ regions' = SetFlood(put, name, line.allowed)
          /\ region_capture' = region_capture /\ chosen' = chosen
      BY <1>7 DEF ReadLine, line
    <2> HIDE DEF word, name, private
    <2>4. Sound(put, chosen)
      BY <1>1, <2>1, <2>2, PutSound
    <2> HIDE DEF put
    <2>5. Sound(SetFlood(put, name, line.allowed), chosen)
      BY <2>1, <2>4, SetFloodSound
    <2>6. Sound(regions', chosen')
      BY <2>3, <2>5
    <2>7. QED
      BY <1>1, <1>2, <1>3, <2>3, <2>6, RegionsInvKept
  <1>8. CASE line.key = "capture"
    <2>1. line.value \in BOOLEAN
      BY <1>3, <1>8 DEF Lines
    <2>2. region_capture' = line.value /\ regions' = regions /\ chosen' = chosen
      BY <1>8 DEF ReadLine, line
    <2>3. Sound(regions', chosen')
      BY <1>1, <2>2
    <2>4. QED
      BY <1>1, <1>2, <1>3, <2>1, <2>2, <2>3, RegionsInvKept
  <1>9. line.key \in {"default", "flood", "capture"}
    BY <1>3 DEF Lines
  <1>10. QED
    BY <1>4, <1>5, <1>6, <1>7, <1>8, <1>9

\* What is typed as a default region is a name, `*` or `<null>`.
LEMMA DefaultWords ==
  \A word \in Words \cup {NoWord, [name |-> Wildcard, private |-> FALSE]} :
    word.name \in Names \cup {Wildcard, NoName} /\ word.private \in BOOLEAN
  <1>1. \A word \in Words : word.name \in Names /\ word.private \in BOOLEAN
    BY DEF Words
  <1>2. NoWord.name = NoName /\ NoWord.private = FALSE
    BY DEF NoWord
  <1> DEFINE star == [name |-> Wildcard, private |-> FALSE]
  <1>3. star.name = Wildcard /\ star.private = FALSE
    OBVIOUS
  <1> HIDE DEF star
  <1>4. \A word \in Words \cup {NoWord, star} :
          word.name \in Names \cup {Wildcard, NoName} /\ word.private \in BOOLEAN
    BY <1>1, <1>2, <1>3
  <1>5. QED
    BY <1>4 DEF star

\* Every step keeps the invariant.
LEMMA RegionsStep ==
  ASSUME RegionsInv, [RegionsNext]_regionVars
  PROVE  RegionsInv'
  <1>1. /\ Sound(regions, chosen) /\ region_capture \in BOOLEAN /\ rest \in Seq(Lines)
        /\ file \in Seq(Lines) /\ booting \in BOOLEAN
        /\ saved \in [regions : RegionMaps, capture : BOOLEAN]
    BY DEF RegionsInv, RegionsTypeOK
  <1>2. Sound(Profile, DefaultName(Profile)) /\ Profile \in RegionMaps /\ ProfileCapture \in BOOLEAN
    BY ProfileSound, ProfileAssumption
  <1>3. CASE PutRegion
    <2>1. PICK word \in Words :
                 /\ CanPut(regions, word.name) /\ chosen' = chosen
                 /\ Accept(Put(regions, word.name, word.private), region_capture)
      BY <1>3 DEF PutRegion
    <2> DEFINE name == word.name
               private == word.private
    <2>2. private \in BOOLEAN
      BY DEF Words
    <2> HIDE DEF name, private
    <2>3. Sound(Put(regions, name, private), chosen')
      BY <1>1, <2>1, <2>2, PutSound DEF name
    <2>4. QED
      BY <1>1, <2>1, <2>3, AcceptKept DEF name, private
  <1>4. CASE RemoveRegion
    <2>1. PICK name \in Names :
                 /\ Knows(regions, name)
                 /\ Accept(RemoveFrom(regions, name), region_capture)
                 /\ chosen' = IF chosen = name THEN NoName ELSE chosen
      BY <1>4 DEF RemoveRegion
    <2>2. Sound(RemoveFrom(regions, name), chosen')
      BY <1>1, <2>1, RemoveSound
    <2>3. QED
      BY <1>1, <2>1, <2>2, AcceptKept
  <1>5. CASE SetRegionFlood
    <2>1. PICK name \in Names \cup {Wildcard}, allowed \in BOOLEAN :
                 Accept(SetFlood(regions, name, allowed), region_capture) /\ chosen' = chosen
      BY <1>5 DEF SetRegionFlood
    <2>2. Sound(SetFlood(regions, name, allowed), chosen')
      BY <1>1, <2>1, SetFloodSound
    <2>3. QED
      BY <1>1, <2>1, <2>2, AcceptKept
  <1>6. CASE SetDefaultRegion
    <2>1. PICK word \in Words \cup {NoWord, [name |-> Wildcard, private |-> FALSE]} :
                 /\ CanChooseDefault(regions, word.name, word.private)
                 /\ Accept(ChooseDefault(regions, word.name, word.private), region_capture)
                 /\ chosen' = IF word.name \in Names THEN word.name ELSE NoName
      BY <1>6 DEF SetDefaultRegion
    <2> DEFINE name == word.name
               private == word.private
    <2>2. name \in Names \cup {Wildcard, NoName} /\ private \in BOOLEAN
      BY <2>1, DefaultWords
    <2> HIDE DEF name, private
    <2>3. Sound(ChooseDefault(regions, name, private), chosen')
      BY <1>1, <2>1, <2>2, ChooseDefaultSound DEF name, private
    <2>4. QED
      BY <1>1, <2>1, <2>3, AcceptKept DEF name, private
  <1>7. CASE SetCapture
    <2>1. PICK enabled \in BOOLEAN : Accept(regions, enabled) /\ chosen' = chosen
      BY <1>7 DEF SetCapture
    <2>2. Sound(regions, chosen')
      BY <1>1, <2>1
    <2>3. QED
      BY <2>1, <2>2, AcceptKept
  <1>8. CASE Reboot
    <2>1. /\ regions' = Profile /\ region_capture' = ProfileCapture /\ booting' = TRUE
          /\ chosen' = DefaultName(Profile) /\ rest' = file /\ file' = file /\ saved' = saved
      BY <1>8 DEF Reboot
    <2>2. Sound(regions', chosen')
      BY <1>2, <2>1
    <2>3. QED
      BY <1>1, <1>2, <2>1, <2>2, RegionsInvKept
  <1>9. CASE ReadLine
    BY <1>9, ReadLineKept
  <1>10. CASE ReadFails
    <2>1. /\ regions' = Profile /\ region_capture' = ProfileCapture /\ booting' = FALSE
          /\ chosen' = DefaultName(Profile) /\ rest' = <<>>
          /\ WrittenOf(Profile, ProfileCapture)
      BY <1>10 DEF ReadFails
    <2>2. Sound(regions', chosen')
      BY <1>2, <2>1
    <2>3. <<>> \in Seq(Lines)
      OBVIOUS
    <2>4. file' \in Seq(Lines) /\ saved' \in [regions : RegionMaps, capture : BOOLEAN]
      BY <1>2, <2>1, WrittenTyped
    <2>5. QED
      BY <1>2, <2>1, <2>2, <2>3, <2>4, RegionsInvKept
  <1>11. CASE BootDone
    <2>1. /\ regions' = regions /\ region_capture' = region_capture /\ booting' = FALSE
          /\ chosen' = chosen /\ rest' = rest /\ WrittenOf(regions, region_capture)
      BY <1>11 DEF BootDone
    <2>2. Sound(regions', chosen') /\ regions \in RegionMaps
      BY <1>1, <2>1 DEF Sound
    <2>3. file' \in Seq(Lines) /\ saved' \in [regions : RegionMaps, capture : BOOLEAN]
      BY <1>1, <2>1, <2>2, WrittenTyped
    <2>4. QED
      BY <1>1, <2>1, <2>2, <2>3, RegionsInvKept
  <1>12. CASE UNCHANGED regionVars
    BY <1>12 DEF regionVars, RegionsInv, RegionsTypeOK, Sound
  <1>13. QED
    BY <1>3, <1>4, <1>5, <1>6, <1>7, <1>8, <1>9, <1>10, <1>11, <1>12 DEF RegionsNext

\* The region table stays sound under every command, every boot and every line that
\* a boot reads, whatever the profile's table and the limits are.
THEOREM RegionsInvariant == RegionsSpec => []RegionsInv
<1>1. ASSUME RegionsInit
      PROVE  RegionsInv
  <2>1. Sound(Profile, DefaultName(Profile)) /\ Profile \in RegionMaps /\ ProfileCapture \in BOOLEAN
    BY ProfileSound, ProfileAssumption
  <2>2. Text(Profile, ProfileCapture) \in Seq(Lines) /\ <<>> \in Seq(Lines)
    BY <2>1, TextTyped
  <2>3. /\ regions = Profile /\ region_capture = ProfileCapture /\ rest = <<>>
        /\ file = Text(Profile, ProfileCapture) /\ booting = FALSE
        /\ chosen = DefaultName(Profile)
        /\ saved = [regions |-> Profile, capture |-> ProfileCapture]
    BY <1>1 DEF RegionsInit
  <2>4. QED
    BY <2>1, <2>2, <2>3, RegionsInvHolds
<1>2. QED
  BY <1>1, RegionsStep, PTL DEF RegionsSpec

\* TableKept: no command, boot or line puts a region in twice or beyond MAX_REGIONS,
\* and the default region remains the one that was chosen.
THEOREM TableIsKept == RegionsSpec => []TableKept
<1>1. ASSUME RegionsInv
      PROVE  TableKept
  <2>1. RegionsTypeOK /\ Sound(regions, chosen)
    BY <1>1 DEF RegionsInv
  <2>2. DefaultIsChosen
    BY <2>1, DefaultNamed DEF DefaultIsChosen
  <2>3. QED
    BY <2>1, <2>2 DEF TableKept
<1>2. QED
  BY <1>1, RegionsInvariant, PTL

\* AllowedIsMatched: match_flood_region finds a region for every flood scoped to one
\* that may be flooded, unless a private one comes before.
THEOREM AllowedMatched == RegionsSpec => []AllowedIsMatched
<1>1. ASSUME RegionsInv
      PROVE  AllowedIsMatched
  <2>1. regions \in RegionMaps
    BY <1>1 DEF RegionsInv, RegionsTypeOK
  <2>2. SUFFICES ASSUME NEW i \in Allowed(regions),
                        NEW codes \in [{name \in Names : Knows(regions, name)} -> Codes]
                 PROVE  \/ \E j \in Allowed(regions) :
                             j <= i /\ regions.entries[j].private
                        \/ LET match == MatchTransport(regions, codes,
                                                       codes[regions.entries[i].name])
                           IN match # NoName /\ codes[match] = codes[regions.entries[i].name]
    BY DEF AllowedIsMatched
  <2> DEFINE primary == codes[regions.entries[i].name]
             hits    == Hits(regions, codes, primary)
             k       == Min(hits)
  <2>3. i \in hits
    BY DEF Hits
  <2>4. hits \in SUBSET Nat /\ hits # {}
    BY <2>1, <2>3, MapFacts DEF Hits, Allowed
  <2>5. k \in hits /\ k <= i
    BY <2>3, <2>4, MinThere
  <2>6. k \in DOMAIN regions.entries /\ ~regions.entries[k].denied /\ k \in Allowed(regions)
    BY <2>5 DEF Hits, Allowed
  <2>7. regions.entries[k].name \in Names
    BY <2>1, <2>6, MapFacts
  <2> HIDE DEF k
  <2>8. CASE regions.entries[k].private
    BY <2>5, <2>6, <2>8
  <2>9. CASE ~regions.entries[k].private
    <3>1. codes[regions.entries[k].name] = primary
      BY <2>5, <2>9 DEF Hits
    <3>2. MatchTransport(regions, codes, primary) = regions.entries[k].name
      BY <2>4, <2>6, <2>9 DEF MatchTransport, k
    <3>3. regions.entries[k].name # NoName
      BY <2>7, RegionAssumption
    <3>4. QED
      BY <3>1, <3>2, <3>3
  <2>10. QED
    BY <2>8, <2>9
<1>2. QED
  BY <1>1, RegionsInvariant, PTL

------------------------------------------------------------------------------
(* What is saved reads back: what each line does to a table *)

\* The lines that keep a table and region.capture.
DefaultTold(map) == [key |-> "default", value |-> DefaultName(map)]
EntryTold(map, i) == FloodLine(map.entries[i].name, map.entries[i].denied)
CaptureTold(capture) == [key |-> "capture", value |-> capture]

\* The table has the region, with the flag.
Has(map, name, denied) ==
  \E i \in DOMAIN map.entries : map.entries[i].name = name /\ map.entries[i].denied = denied

\* The default region of a table, if it has one, is in it.
DefaultThere(map) ==
  map.default_id = NoId \/ \E i \in DOMAIN map.entries : map.entries[i].id = map.default_id

\* The table has the region, typed so.
OfKind(map, name, private) ==
  \E i \in DOMAIN map.entries : map.entries[i].name = name /\ map.entries[i].private = private

\* No region of both tables is private in one of them only.
Alike(map, other) ==
  \A name \in Names, p, q \in BOOLEAN : OfKind(map, name, p) /\ OfKind(other, name, q) => p = q

\* A table has regions of another only, typed as they are there, but for one that may
\* be new to it.
Stays(now, map) ==
  \A any \in Names, p \in BOOLEAN : OfKind(now, any, p) => OfKind(map, any, p)
StaysBut(now, map, name, private) ==
  \A any \in Names, p \in BOOLEAN :
    OfKind(now, any, p) =>
      \/ OfKind(map, any, p)
      \/ any = name /\ p = private /\ ~Knows(map, name)

\* Reading on: each thing that was saved is in the table already or has its line in
\* what is left of the file, and the table has no region that was not saved.  The line
\* of the default region is the first and is read over the profile.
ReadsOn(map, capture, now, nowCapture, left) ==
  /\ \A line \in Range(left) :
       \/ line = DefaultTold(map)
       \/ line = FloodLine(Wildcard, map.wildcard_denied)
       \/ \E i \in DOMAIN map.entries :
            HasLine(Profile, map.entries[i]) /\ line = EntryTold(map, i)
       \/ line = CaptureTold(capture)
  /\ \A k \in DOMAIN left : left[k].key = "default" =>
       k = 1 /\ now = Profile /\ DefaultName(map) # DefaultName(Profile)
  /\ DefaultTold(map) \notin Range(left) => DefaultName(now) = DefaultName(map)
  /\ FloodLine(Wildcard, map.wildcard_denied) \notin Range(left) =>
       now.wildcard_denied = map.wildcard_denied
  /\ CaptureTold(capture) \notin Range(left) => nowCapture = capture
  /\ \A i \in DOMAIN map.entries : EntryTold(map, i) \notin Range(left) =>
       Has(now, map.entries[i].name, map.entries[i].denied)
  /\ \A name \in Names : Knows(now, name) => Knows(map, name)
  /\ Alike(map, now)
  /\ DefaultThere(now)

\* The inductive invariant of saving and reading.
SavedInv ==
  /\ file = Text(saved.regions, saved.capture)
  /\ Len(saved.regions.entries) <= MaxRegions
  /\ \A i, j \in DOMAIN saved.regions.entries :
       i # j => saved.regions.entries[i].name # saved.regions.entries[j].name
  /\ Keeps(Profile, saved.regions) /\ Keeps(Profile, regions)
  /\ Alike(Profile, saved.regions) /\ Alike(Profile, regions)
  /\ booting /\ ~Unsayable(saved.regions) =>
       ReadsOn(saved.regions, saved.capture, regions, region_capture, rest)

\* What is left of a file after its first line.
LEMMA RangeOfTail ==
  ASSUME NEW S, NEW s \in Seq(S), s # <<>>
  PROVE  /\ Range(Tail(s)) \subseteq Range(s)
         /\ Range(s) = Range(Tail(s)) \cup {Head(s)}
         /\ \A k \in DOMAIN Tail(s) : k + 1 \in DOMAIN s /\ Tail(s)[k] = s[k + 1] /\ k + 1 # 1
         /\ Head(s) = s[1] /\ 1 \in DOMAIN s
  <1>1. /\ Len(s) \in Nat /\ DOMAIN s = 1 .. Len(s) /\ Tail(s) \in Seq(S)
        /\ Len(Tail(s)) = Len(s) - 1 /\ DOMAIN Tail(s) = 1 .. Len(s) - 1
    BY LenProperties, HeadTailProperties
  <1>2. Len(s) # 0
    BY EmptySeq
  <1>3. \A k \in 1 .. Len(s) - 1 : Tail(s)[k] = s[k + 1]
    BY HeadTailProperties
  <1>4. Head(s) = s[1]
    BY HeadTailProperties
  <1>5. /\ \A k \in DOMAIN Tail(s) : k + 1 \in DOMAIN s /\ Tail(s)[k] = s[k + 1] /\ k + 1 # 1
        /\ 1 \in DOMAIN s
    BY <1>1, <1>2, <1>3
  <1>6. \A k \in DOMAIN s : k # 1 => k - 1 \in DOMAIN Tail(s) /\ s[k] = Tail(s)[k - 1]
    <2>1. \A k \in DOMAIN s : k # 1 => k - 1 \in 1 .. Len(s) - 1 /\ (k - 1) + 1 = k
      BY <1>1
    <2>2. QED
      BY <1>1, <1>3, <2>1
  <1>7. QED
    BY <1>4, <1>5, <1>6 DEF Range

\* Of two sequences put together.
LEMMA RangeOfConcat ==
  ASSUME NEW S, NEW s \in Seq(S), NEW t \in Seq(S)
  PROVE  /\ s \o t \in Seq(S)
         /\ Range(s \o t) = Range(s) \cup Range(t)
         /\ \A k \in DOMAIN (s \o t) :
              \/ k \in DOMAIN s /\ (s \o t)[k] = s[k]
              \/ (s \o t)[k] \in Range(t)
  <1>1. /\ Len(s) \in Nat /\ DOMAIN s = 1 .. Len(s) /\ Len(t) \in Nat /\ DOMAIN t = 1 .. Len(t)
    BY LenProperties
  <1>2. /\ s \o t \in Seq(S) /\ Len(s \o t) = Len(s) + Len(t)
        /\ DOMAIN (s \o t) = 1 .. Len(s) + Len(t)
        /\ \A k \in 1 .. Len(s) + Len(t) :
             (s \o t)[k] = IF k <= Len(s) THEN s[k] ELSE t[k - Len(s)]
    BY ConcatProperties, LenProperties
  <1> DEFINE both == s \o t
  <1>3. \A k \in 1 .. Len(s) : k \in DOMAIN both /\ both[k] = s[k]
    BY <1>1, <1>2
  <1>4. \A k \in 1 .. Len(t) : Len(s) + k \in DOMAIN both /\ both[Len(s) + k] = t[k]
    <2>1. \A k \in 1 .. Len(t) : /\ Len(s) + k \in 1 .. Len(s) + Len(t)
                                 /\ ~(Len(s) + k <= Len(s)) /\ (Len(s) + k) - Len(s) = k
      BY <1>1
    <2>2. QED
      BY <1>2, <2>1
  <1>5. \A k \in DOMAIN both : \/ k \in 1 .. Len(s) /\ both[k] = s[k]
                               \/ k - Len(s) \in 1 .. Len(t) /\ both[k] = t[k - Len(s)]
    BY <1>1, <1>2
  <1> HIDE DEF both
  <1>6. Range(both) = Range(s) \cup Range(t)
    BY <1>1, <1>3, <1>4, <1>5 DEF Range
  <1>7. \A k \in DOMAIN both : \/ k \in DOMAIN s /\ both[k] = s[k]
                               \/ both[k] \in Range(t)
    BY <1>1, <1>5 DEF Range
  <1>8. QED
    BY <1>2, <1>6, <1>7 DEF both

\* Tables with the same ids and names have the same default region.
LEMMA SameDefault ==
  ASSUME NEW map, NEW other,
         DOMAIN other.entries = DOMAIN map.entries,
         \A i \in DOMAIN map.entries :
           other.entries[i].id = map.entries[i].id /\ other.entries[i].name = map.entries[i].name,
         other.default_id = map.default_id, map \in RegionMaps
  PROVE  /\ DefaultName(other) = DefaultName(map)
         /\ DefaultThere(map) => DefaultThere(other)
  <1> DEFINE found == {i \in DOMAIN map.entries : map.entries[i].id = map.default_id}
  <1>1. {i \in DOMAIN other.entries : other.entries[i].id = other.default_id} = found
    OBVIOUS
  <1>2. CASE found = {}
    BY <1>1, <1>2 DEF DefaultName, DefaultThere
  <1>3. CASE found # {}
    <2>1. found \in SUBSET Nat
      BY MapFacts
    <2>2. Min(found) \in DOMAIN map.entries
      BY <1>3, <2>1, MinThere
    <2>3. other.entries[Min(found)].name = map.entries[Min(found)].name
      BY <2>2
    <2>4. DefaultName(other) = DefaultName(map)
      BY <1>1, <1>3, <2>3 DEF DefaultName
    <2>5. QED
      BY <2>4 DEF DefaultThere
  <1>4. QED
    BY <1>2, <1>3

\* What set_flag does to the names, flags and default of a table.
LEMMA SetFlagReads ==
  ASSUME NEW map \in RegionMaps, NEW name, NEW denied \in BOOLEAN,
         NEW other, other = SetFlag(map, name, denied)
  PROVE  /\ \A any : Knows(other, any) <=> Knows(map, any)
         /\ \A any, flag : any # name /\ Has(map, any, flag) => Has(other, any, flag)
         /\ Knows(map, name) => Has(other, name, denied)
         /\ other.wildcard_denied = map.wildcard_denied
         /\ DefaultName(other) = DefaultName(map)
         /\ DefaultThere(map) => DefaultThere(other)
  <1>1. /\ DOMAIN other.entries = DOMAIN map.entries
        /\ \A i \in DOMAIN map.entries :
             other.entries[i].id = map.entries[i].id /\ other.entries[i].name = map.entries[i].name
        /\ other.default_id = map.default_id
        /\ other.wildcard_denied = map.wildcard_denied
    BY SetFlagFacts
  <1>2. \A i \in DOMAIN map.entries :
          /\ map.entries[i].name = name => other.entries[i].denied = denied
          /\ map.entries[i].name # name => other.entries[i].denied = map.entries[i].denied
    BY SetFlagFacts
  <1>3. DefaultName(other) = DefaultName(map) /\ (DefaultThere(map) => DefaultThere(other))
    BY <1>1, SameDefault
  <1>4. \A any : Knows(other, any) <=> Knows(map, any)
    BY <1>1 DEF Knows, Positions
  <1>5. \A any, flag : any # name /\ Has(map, any, flag) => Has(other, any, flag)
    BY <1>1, <1>2 DEF Has
  <1>6. Knows(map, name) => Has(other, name, denied)
    BY <1>1, <1>2 DEF Has, Knows, Positions
  <1>7. QED
    BY <1>1, <1>3, <1>4, <1>5, <1>6

\* What put_region does to them: a default region that is in the table stays it, also
\* when the last id is given out again.
LEMMA PutReads ==
  ASSUME NEW map \in RegionMaps, NEW name, CanPut(map, name), DefaultThere(map),
         NEW private \in BOOLEAN
  PROVE  /\ \A any : Knows(Put(map, name, private), any) <=> Knows(map, any) \/ any = name
         /\ \A any, flag :
              any # name /\ Has(map, any, flag) => Has(Put(map, name, private), any, flag)
         /\ Has(Put(map, name, private), name, FALSE)
         /\ Put(map, name, private).wildcard_denied = map.wildcard_denied
         /\ DefaultName(Put(map, name, private)) = DefaultName(map)
         /\ DefaultThere(Put(map, name, private))
  <1>1. CASE Knows(map, name)
    <2>1. Put(map, name, private) = SetFlag(map, name, FALSE)
      BY <1>1 DEF Put
    <2> DEFINE no == FALSE
               put == Put(map, name, private)
    <2>2. no \in BOOLEAN /\ put = SetFlag(map, name, no)
      BY <2>1
    <2> HIDE DEF no, put
    <2>3. /\ \A any : Knows(put, any) <=> Knows(map, any)
          /\ \A any, flag : any # name /\ Has(map, any, flag) => Has(put, any, flag)
          /\ Has(put, name, no)
          /\ put.wildcard_denied = map.wildcard_denied
          /\ DefaultName(put) = DefaultName(map)
          /\ DefaultThere(put)
      BY <1>1, <2>2, SetFlagReads
    <2>4. QED
      BY <1>1, <2>3 DEF no, put
  <1>2. CASE ~Knows(map, name)
    <2> DEFINE n == Len(map.entries)
               entry == NewEntry(map.next_id, name, private)
               put == Put(map, name, private)
    <2>1. /\ map.entries \in Seq(Entries) /\ n \in Nat /\ DOMAIN map.entries = 1 .. n
          /\ \A i \in 1 .. n : map.entries[i].id \in 1 .. MaxId
          /\ map.next_id \in 1 .. MaxId
      BY MapFacts
    <2>2. /\ put.entries = Append(map.entries, entry)
          /\ put.default_id = map.default_id /\ put.wildcard_denied = map.wildcard_denied
      BY <1>2 DEF Put, RegionMaps
    <2>3. entry \in Entries
      BY <2>1 DEF Entries, CanPut, NewEntry
    <2>4. entry.id = map.next_id /\ entry.name = name /\ entry.denied = FALSE
      BY DEF NewEntry
    <2> HIDE DEF entry, put, n
    <2>5. /\ DOMAIN put.entries = 1 .. n + 1
          /\ \A i \in 1 .. n : put.entries[i] = map.entries[i]
          /\ put.entries[n + 1] = entry
      BY <2>1, <2>2, <2>3, AppendProperties, LenProperties DEF n
    <2>6. /\ \A i \in 1 .. n + 1 : i \in 1 .. n \/ i = n + 1
          /\ \A i \in 1 .. n : i \in 1 .. n + 1 /\ i <= n + 1 /\ i # n + 1
          /\ n + 1 \in 1 .. n + 1
      BY <2>1
    <2>7. \A any : Knows(put, any) <=> Knows(map, any) \/ any = name
      <3>1. \A any : Knows(put, any) <=> \E i \in 1 .. n + 1 : put.entries[i].name = any
        BY <2>5 DEF Knows, Positions
      <3>2. \A any : Knows(map, any) <=> \E i \in 1 .. n : map.entries[i].name = any
        BY <2>1 DEF Knows, Positions
      <3>3. QED
        BY <2>4, <2>5, <2>6, <3>1, <3>2
    <2>8. \A any, flag : any # name /\ Has(map, any, flag) => Has(put, any, flag)
      BY <2>1, <2>5, <2>6 DEF Has
    <2>9. Has(put, name, FALSE)
      BY <2>4, <2>5, <2>6 DEF Has
    <2>10. DefaultThere(put)
      BY <2>1, <2>2, <2>5, <2>6 DEF DefaultThere
    <2>11. DefaultName(put) = DefaultName(map)
      <3> DEFINE found == {i \in DOMAIN map.entries : map.entries[i].id = map.default_id}
                 after == {i \in DOMAIN put.entries : put.entries[i].id = put.default_id}
      <3>1. CASE map.default_id = NoId
        <4>1. found = {} /\ after = {}
          BY <2>1, <2>2, <2>4, <2>5, <2>6, <3>1 DEF NoId
        <4>2. QED
          BY <4>1 DEF DefaultName
      <3>2. CASE map.default_id # NoId
        <4>1. found # {}
          BY <3>2 DEF DefaultThere
        <4>2. found \in SUBSET Nat /\ after \in SUBSET Nat
          BY <2>1, <2>5
        <4>3. found \subseteq after /\ after \subseteq found \cup {n + 1}
          BY <2>1, <2>2, <2>5, <2>6
        <4>4. Min(found) \in found /\ \A i \in found : Min(found) <= i
          BY <4>1, <4>2, MinThere
        <4>5. Min(after) \in after /\ \A i \in after : Min(after) <= i
          BY <4>1, <4>2, <4>3, MinThere
        <4>6. Min(found) \in 1 .. n
          BY <2>1, <4>4
        <4>7. Min(after) = Min(found)
          <5>1. Min(after) <= Min(found)
            BY <4>3, <4>4, <4>5
          <5>2. Min(after) # n + 1
            BY <2>1, <4>2, <4>5, <4>6, <5>1
          <5>3. Min(after) \in found
            BY <4>3, <4>5, <5>2
          <5>4. Min(found) <= Min(after)
            BY <4>4, <5>3
          <5> DEFINE a == Min(after)
                     b == Min(found)
          <5>5. a \in Nat /\ b \in Nat /\ a <= b /\ b <= a
            BY <4>2, <4>4, <4>5, <5>1, <5>4
          <5> HIDE DEF a, b
          <5>6. a = b
            BY <5>5
          <5>7. QED
            BY <5>6 DEF a, b
        <4>8. put.entries[Min(found)].name = map.entries[Min(found)].name
          BY <2>5, <4>6
        <4>9. after # {}
          BY <4>1, <4>3
        <4>10. DefaultName(map) = map.entries[Min(found)].name
          BY <4>1 DEF DefaultName
        <4>11. DefaultName(put) = put.entries[Min(after)].name
          BY <4>9 DEF DefaultName
        <4>12. QED
          BY <4>7, <4>8, <4>10, <4>11
      <3>3. QED
        BY <3>1, <3>2
    <2>12. QED
      BY <2>2, <2>7, <2>8, <2>9, <2>10, <2>11 DEF put
  <1>3. QED
    BY <1>1, <1>2

\* A table with only regions of another has room for one of the other that it lacks.
LEMMA Room ==
  ASSUME NEW now \in RegionMaps, NEW map \in RegionMaps, NEW name,
         \A i, j \in DOMAIN now.entries : i # j => now.entries[i].name # now.entries[j].name,
         \A any \in Names : Knows(now, any) => Knows(map, any),
         Knows(map, name), ~Knows(now, name)
  PROVE  Len(now.entries) < Len(map.entries)
  <1> DEFINE n == Len(now.entries)
             m == Len(map.entries)
             at == [i \in 1 .. n |->
                      CHOOSE j \in 1 .. m : map.entries[j].name = now.entries[i].name]
  <1>1. /\ n \in Nat /\ DOMAIN now.entries = 1 .. n /\ m \in Nat /\ DOMAIN map.entries = 1 .. m
        /\ \A i \in 1 .. n : now.entries[i].name \in Names
    BY MapFacts
  <1>2. PICK k \in 1 .. m : map.entries[k].name = name
    BY <1>1 DEF Knows, Positions
  <1>3. \A i \in 1 .. n : \E j \in 1 .. m : map.entries[j].name = now.entries[i].name
    <2>1. \A i \in 1 .. n : Knows(now, now.entries[i].name)
      BY <1>1 DEF Knows, Positions
    <2>2. \A i \in 1 .. n : Knows(map, now.entries[i].name)
      BY <1>1, <2>1
    <2>3. QED
      BY <1>1, <2>2 DEF Knows, Positions
  <1>4. \A i \in 1 .. n : at[i] \in 1 .. m /\ map.entries[at[i]].name = now.entries[i].name
    BY <1>3
  <1>5. \A i \in 1 .. n : at[i] # k
    <2>1. \A i \in 1 .. n : now.entries[i].name # name
      BY <1>1 DEF Knows, Positions
    <2>2. QED
      BY <1>2, <1>4, <2>1
  <1>6. at \in [1 .. n -> (1 .. m) \ {k}]
    BY <1>4, <1>5
  <1>7. at \in Injection(1 .. n, (1 .. m) \ {k})
    <2> HIDE DEF at, n, m
    <2>1. ASSUME NEW i \in 1 .. n, NEW j \in 1 .. n, at[i] = at[j]
          PROVE  i = j
      <3>1. now.entries[i].name = now.entries[j].name
        BY <1>4, <2>1
      <3>2. i \in DOMAIN now.entries /\ j \in DOMAIN now.entries
        BY <1>1
      <3> QED
        BY <3>1, <3>2
    <2>2. QED
      BY <1>6, <2>1 DEF Injection, IsInjective
  <1> HIDE DEF at, n, m
  <1>8. IsFiniteSet(1 .. m) /\ Cardinality(1 .. m) = m /\ Cardinality(1 .. n) = n
    <2>1. IsFiniteSet(1 .. m) /\ Cardinality(1 .. m) = IF 1 > m THEN 0 ELSE m - 1 + 1
      BY <1>1, FS_Interval
    <2>2. Cardinality(1 .. n) = IF 1 > n THEN 0 ELSE n - 1 + 1
      BY <1>1, FS_Interval
    <2>3. QED
      BY <1>1, <2>1, <2>2
  <1>9. IsFiniteSet((1 .. m) \ {k}) /\ Cardinality((1 .. m) \ {k}) = m - 1
    BY <1>2, <1>8, FS_RemoveElement
  <1>10. Cardinality(1 .. n) <= Cardinality((1 .. m) \ {k})
    BY <1>7, <1>9, FS_Injection
  <1>11. QED
    BY <1>1, <1>8, <1>9, <1>10 DEF n, m

\* What the line of a region does to a table that can take it.
LEMMA FloodLineReads ==
  ASSUME NEW now, NEW default, Sound(now, default), DefaultThere(now),
         NEW name \in Names, CanPut(now, name), NEW denied \in BOOLEAN,
         NEW private \in BOOLEAN,
         NEW other, other = SetFlag(Put(now, name, private), name, denied)
  PROVE  /\ \A any : Knows(other, any) <=> Knows(now, any) \/ any = name
         /\ \A any, flag : any # name /\ Has(now, any, flag) => Has(other, any, flag)
         /\ Has(other, name, denied)
         /\ other.wildcard_denied = now.wildcard_denied
         /\ DefaultName(other) = DefaultName(now)
         /\ DefaultThere(other)
  <1> DEFINE put == Put(now, name, private)
  <1>1. now \in RegionMaps
    BY DEF Sound
  <1>2. put \in RegionMaps
    BY PutSound DEF Sound
  <1>3. /\ \A any : Knows(put, any) <=> Knows(now, any) \/ any = name
        /\ \A any, flag : any # name /\ Has(now, any, flag) => Has(put, any, flag)
        /\ put.wildcard_denied = now.wildcard_denied
        /\ DefaultName(put) = DefaultName(now)
        /\ DefaultThere(put)
    BY <1>1, PutReads
  <1> HIDE DEF put
  <1>4. other = SetFlag(put, name, denied)
    BY DEF put
  <1>5. /\ \A any : Knows(other, any) <=> Knows(put, any)
        /\ \A any, flag : any # name /\ Has(put, any, flag) => Has(other, any, flag)
        /\ Knows(put, name) => Has(other, name, denied)
        /\ other.wildcard_denied = put.wildcard_denied
        /\ DefaultName(other) = DefaultName(put)
        /\ DefaultThere(put) => DefaultThere(other)
    BY <1>2, <1>4, SetFlagReads
  <1>6. QED
    BY <1>3, <1>5

\* What the line of the default region does to the profile's table.
LEMMA DefaultLineReads ==
  ASSUME NEW v \in Names \cup {NoName}, NEW private \in BOOLEAN,
         CanChooseDefault(Profile, v, private),
         NEW other, other = ChooseDefault(Profile, v, private)
  PROVE  /\ \A any \in Names : Knows(other, any) => Knows(Profile, any) \/ any = v
         /\ \A any : Knows(Profile, any) => Knows(other, any)
         /\ \A any, flag : any # v /\ Has(Profile, any, flag) => Has(other, any, flag)
         /\ v \in Names => Has(other, v, FALSE)
         /\ other.wildcard_denied = Profile.wildcard_denied
         /\ DefaultName(other) = v
         /\ DefaultThere(other)
  <1> DEFINE put == Putting(Profile, v, private)
  <1>1. /\ Profile \in RegionMaps /\ Sound(Profile, DefaultName(Profile))
        /\ NoName \notin Names /\ Wildcard \notin Names /\ Wildcard # NoName
        /\ MaxId \in Nat \ {0}
    BY ProfileSound, ProfileAssumption, RegionAssumption
  <1>2. DefaultThere(Profile)
    BY ProfileAssumption DEF DefaultThere
  <1>3. CanSetDefault(put, v) /\ other = SetDefault(put, v)
    BY DEF CanChooseDefault, ChooseDefault
  <1>4. /\ put \in RegionMaps
        /\ \A any : Knows(put, any) => Knows(Profile, any) \/ any = v
        /\ \A any : Knows(Profile, any) => Knows(put, any)
        /\ \A any, flag : any # v /\ Has(Profile, any, flag) => Has(put, any, flag)
        /\ put.wildcard_denied = Profile.wildcard_denied
        /\ \A i, j \in DOMAIN put.entries : i # j => put.entries[i].id # put.entries[j].id
        /\ \A i, j \in DOMAIN put.entries : i # j => put.entries[i].name # put.entries[j].name
    <2>1. CASE v \in Names /\ FoundByPrefix(Profile, v) = {}
      <3>1. put = Put(Profile, v, private) /\ CanPut(Profile, v)
        BY <2>1 DEF Putting, CanChooseDefault
      <3>2. ~Knows(Profile, v)
        BY <2>1 DEF FoundByPrefix, Knows
      <3>3. /\ \A any : Knows(put, any) => Knows(Profile, any) \/ any = v
            /\ \A any : Knows(Profile, any) => Knows(put, any)
            /\ \A any, flag : any # v /\ Has(Profile, any, flag) => Has(put, any, flag)
            /\ put.wildcard_denied = Profile.wildcard_denied
        <4>1. /\ \A any : Knows(Put(Profile, v, private), any) <=> Knows(Profile, any) \/ any = v
              /\ \A any, flag :
                   any # v /\ Has(Profile, any, flag) => Has(Put(Profile, v, private), any, flag)
              /\ Put(Profile, v, private).wildcard_denied = Profile.wildcard_denied
          BY <1>1, <1>2, <3>1, PutReads
        <4> HIDE DEF put
        <4>2. QED
          BY <3>1, <4>1
      <3>4. /\ put \in RegionMaps
            /\ \A i, j \in DOMAIN put.entries : i # j => put.entries[i].name # put.entries[j].name
        <4>1. Sound(put, DefaultName(Profile))
          BY <1>1, <3>1, PutSound
        <4> HIDE DEF put
        <4>2. QED
          BY <4>1 DEF Sound
      <3> DEFINE entry == NewEntry(Profile.next_id, v, private)
                 n == Len(Profile.entries)
      <3>5. /\ Profile.entries \in Seq(Entries) /\ n \in Nat /\ DOMAIN Profile.entries = 1 .. n
            /\ Profile.next_id \in 1 .. MaxId
            /\ \A i \in 1 .. n : Profile.entries[i].id \in 1 .. MaxId
        BY <1>1, MapFacts
      <3>6. put.entries = Append(Profile.entries, entry)
        BY <1>1, <3>1, <3>2 DEF Put, RegionMaps
      <3>7. entry \in Entries /\ entry.id = Profile.next_id
        BY <2>1, <3>5 DEF Entries, NewEntry
      <3> HIDE DEF entry, put, n
      <3>8. /\ DOMAIN put.entries = 1 .. n + 1
            /\ \A i \in 1 .. n : put.entries[i] = Profile.entries[i]
            /\ put.entries[n + 1] = entry
        BY <3>5, <3>6, <3>7, AppendProperties, LenProperties DEF n
      <3>9. /\ \A i \in 1 .. n : Profile.entries[i].id < Profile.next_id
            /\ \A i, j \in 1 .. n : i # j => Profile.entries[i].id # Profile.entries[j].id
        BY <3>5, ProfileAssumption
      <3>10. \A i \in 1 .. n : put.entries[i].id # put.entries[n + 1].id
        BY <3>5, <3>7, <3>8, <3>9
      <3>11. \A i \in 1 .. n + 1 : i \in 1 .. n \/ i = n + 1
        BY <3>5
      <3>12. \A i, j \in 1 .. n + 1 : i # j => put.entries[i].id # put.entries[j].id
        BY <3>8, <3>9, <3>10, <3>11
      <3>13. QED
        BY <3>3, <3>4, <3>8, <3>12
    <2>2. CASE ~ (v \in Names /\ FoundByPrefix(Profile, v) = {})
      <3>1. put = Profile
        BY <2>2 DEF Putting
      <3>2. QED
        BY <1>1, <3>1, ProfileAssumption
    <2>3. QED
      BY <2>1, <2>2
  <1> HIDE DEF put
  <1>5. CASE v = NoName
    <2>1. other = [put EXCEPT !.default_id = NoId]
      BY <1>3, <1>5 DEF SetDefault
    <2>2. /\ other.entries = put.entries /\ other.default_id = NoId
          /\ other.wildcard_denied = put.wildcard_denied
      BY <1>4, <2>1 DEF RegionMaps
    <2>3. /\ \A any : Knows(other, any) <=> Knows(put, any)
          /\ \A any, flag : Has(put, any, flag) => Has(other, any, flag)
      BY <2>2 DEF Knows, Positions, Has
    <2>4. DefaultName(other) = NoName
      <3>1. \A i \in DOMAIN put.entries : put.entries[i].id # 0
        BY <1>4, MapFacts
      <3>2. {i \in DOMAIN other.entries : other.entries[i].id = other.default_id} = {}
        BY <2>2, <3>1 DEF NoId
      <3>3. QED
        BY <3>2 DEF DefaultName
    <2>5. DefaultThere(other)
      BY <2>2 DEF DefaultThere
    <2>6. QED
      BY <1>1, <1>4, <1>5, <2>2, <2>3, <2>4, <2>5
  <1>6. CASE v \in Names
    <2> DEFINE flood == SetFlag(put, v, FALSE)
               no == FALSE
               k == CHOOSE i \in FoundByPrefix(put, v) : TRUE
    <2>1. v \notin {NoName, Wildcard} /\ Knows(put, v)
      BY <1>1, <1>3, <1>6 DEF CanSetDefault
    <2>2. FoundByPrefix(put, v) = Positions(put, v)
      BY <2>1 DEF FoundByPrefix
    <2>3. k \in Positions(put, v)
      BY <2>1, <2>2 DEF Knows
    <2>4. other = [flood EXCEPT !.default_id = put.entries[k].id]
      BY <1>3, <2>1 DEF SetDefault, SetFlood
    <2>5. no \in BOOLEAN /\ flood = SetFlag(put, v, no)
      OBVIOUS
    <2> HIDE DEF flood, k, no
    <2>6. /\ \A any : Knows(flood, any) <=> Knows(put, any)
          /\ \A any, flag : any # v /\ Has(put, any, flag) => Has(flood, any, flag)
          /\ Has(flood, v, no)
          /\ flood.wildcard_denied = put.wildcard_denied
      BY <1>4, <2>1, <2>5, SetFlagReads
    <2>7. /\ flood \in RegionMaps
          /\ DOMAIN flood.entries = DOMAIN put.entries
          /\ \A i \in DOMAIN put.entries :
               /\ flood.entries[i].id = put.entries[i].id
               /\ flood.entries[i].name = put.entries[i].name
      BY <1>4, <2>5, SetFlagFacts
    <2>8. /\ other.entries = flood.entries /\ other.default_id = put.entries[k].id
          /\ other.wildcard_denied = flood.wildcard_denied
      BY <2>4, <2>7 DEF RegionMaps
    <2>9. /\ \A any : Knows(other, any) <=> Knows(flood, any)
          /\ \A any, flag : Has(flood, any, flag) => Has(other, any, flag)
      BY <2>8 DEF Knows, Positions, Has
    <2>10. k \in DOMAIN put.entries /\ put.entries[k].name = v
      BY <2>3 DEF Positions
    <2>11. DefaultThere(other)
      BY <2>7, <2>8, <2>10 DEF DefaultThere
    <2>12. DefaultName(other) = v
      <3>1. {i \in DOMAIN other.entries : other.entries[i].id = other.default_id} = {k}
        BY <1>4, <2>7, <2>8, <2>10
      <3>2. k \in Nat
        BY <1>4, <2>10, MapFacts
      <3>3. Min({k}) = k
        <4>1. Min({k}) \in {k}
          BY <3>2, MinThere
        <4>2. QED
          BY <4>1
      <3>4. QED
        BY <2>7, <2>8, <2>10, <3>1, <3>3 DEF DefaultName
    <2>13. QED
      BY <1>4, <2>6, <2>8, <2>9, <2>11, <2>12 DEF no
  <1>7. QED
    BY <1>5, <1>6

\* What the line of the wildcard does.
LEMMA WildcardLineReads ==
  ASSUME NEW now \in RegionMaps, NEW denied,
         NEW other, other = [now EXCEPT !.wildcard_denied = denied]
  PROVE  /\ \A any : Knows(other, any) <=> Knows(now, any)
         /\ \A any, flag : Has(now, any, flag) => Has(other, any, flag)
         /\ other.wildcard_denied = denied
         /\ DefaultName(other) = DefaultName(now)
         /\ DefaultThere(now) => DefaultThere(other)
         /\ \A map : Alike(map, now) => Alike(map, other)
  <1>1. /\ other.entries = now.entries /\ other.default_id = now.default_id
        /\ other.wildcard_denied = denied
    BY DEF RegionMaps
  <1>2. QED
    BY <1>1 DEF Knows, Positions, Has, DefaultName, DefaultThere, Alike, OfKind

------------------------------------------------------------------------------
(* What is saved reads back: regions that are private or not *)

\* A flag set makes no region private, and none not.
LEMMA SetFlagKinds ==
  ASSUME NEW map \in RegionMaps, NEW name, NEW denied \in BOOLEAN
  PROVE  Stays(SetFlag(map, name, denied), map)
  <1> DEFINE other == SetFlag(map, name, denied)
  <1> HIDE DEF other
  <1>1. other = SetFlag(map, name, denied)
    BY DEF other
  <1>2. /\ DOMAIN other.entries = DOMAIN map.entries
        /\ \A i \in DOMAIN map.entries : other.entries[i].name = map.entries[i].name
        /\ \A i \in DOMAIN map.entries : other.entries[i].private = map.entries[i].private
    BY <1>1, SetFlagFacts
  <1>3. QED
    BY <1>1, <1>2 DEF Stays, OfKind

\* Nor does region allowf or region denyf.
LEMMA SetFloodKinds ==
  ASSUME NEW map \in RegionMaps, NEW name, NEW allowed \in BOOLEAN
  PROVE  Stays(SetFlood(map, name, allowed), map)
  <1>1. CASE name = Wildcard
    <2>1. SetFlood(map, name, allowed) = [map EXCEPT !.wildcard_denied = ~allowed]
      BY <1>1 DEF SetFlood
    <2>2. SetFlood(map, name, allowed).entries = map.entries
      BY <2>1 DEF RegionMaps
    <2>3. QED
      BY <2>2 DEF Stays, OfKind
  <1>2. CASE name # Wildcard
    <2> DEFINE denied == ~allowed
    <2>1. SetFlood(map, name, allowed) = SetFlag(map, name, denied) /\ denied \in BOOLEAN
      BY <1>2 DEF SetFlood
    <2> HIDE DEF denied
    <2>2. QED
      BY <2>1, SetFlagKinds
  <1>3. QED
    BY <1>1, <1>2

\* put_region leaves a region that is there private or not, however it is typed.
LEMMA PutKinds ==
  ASSUME NEW map \in RegionMaps, NEW name, CanPut(map, name), NEW private \in BOOLEAN
  PROVE  StaysBut(Put(map, name, private), map, name, private)
  <1>1. CASE Knows(map, name)
    <2> DEFINE no == FALSE
    <2>1. Put(map, name, private) = SetFlag(map, name, no) /\ no \in BOOLEAN
      BY <1>1 DEF Put
    <2> HIDE DEF no
    <2>2. QED
      BY <2>1, SetFlagKinds DEF Stays, StaysBut
  <1>2. CASE ~Knows(map, name)
    <2> DEFINE n     == Len(map.entries)
               entry == NewEntry(map.next_id, name, private)
               put   == Put(map, name, private)
    <2>1. /\ map.entries \in Seq(Entries) /\ n \in Nat /\ DOMAIN map.entries = 1 .. n
          /\ map.next_id \in 1 .. MaxId
      BY MapFacts
    <2>2. put.entries = Append(map.entries, entry)
      BY <1>2 DEF Put, RegionMaps
    <2>3. entry \in Entries
      BY <2>1 DEF Entries, CanPut, NewEntry
    <2>4. entry.name = name /\ entry.private = private
      BY DEF NewEntry
    <2> HIDE DEF entry, put, n
    <2>5. /\ DOMAIN put.entries = 1 .. n + 1
          /\ \A i \in 1 .. n : put.entries[i] = map.entries[i]
          /\ put.entries[n + 1] = entry
      BY <2>1, <2>2, <2>3, AppendProperties, LenProperties DEF n
    <2>6. \A i \in 1 .. n + 1 : i \in 1 .. n \/ i = n + 1
      BY <2>1
    <2>7. \A i \in DOMAIN put.entries :
            \/ i \in DOMAIN map.entries /\ put.entries[i] = map.entries[i]
            \/ put.entries[i].name = name /\ put.entries[i].private = private
      BY <2>1, <2>4, <2>5, <2>6
    <2>8. StaysBut(put, map, name, private)
      BY <1>2, <2>7 DEF StaysBut, OfKind
    <2>9. QED
      BY <2>8 DEF put
  <1>3. QED
    BY <1>1, <1>2

\* The regions that a removal leaves are as they were.
LEMMA RemoveKinds ==
  ASSUME NEW map \in RegionMaps, NEW name, Knows(map, name)
  PROVE  Stays(RemoveFrom(map, name), map)
  <1> DEFINE k    == CHOOSE i \in Positions(map, name) : TRUE
             n    == Len(map.entries)
             left == RemoveAt(map.entries, k)
  <1>1. map.entries \in Seq(Entries) /\ n \in Nat /\ DOMAIN map.entries = 1 .. n
    BY MapFacts
  <1>2. k \in 1 .. n
    BY <1>1 DEF Knows, Positions
  <1>3. RemoveFrom(map, name).entries = left
    BY DEF RemoveFrom, RegionMaps
  <1> HIDE DEF k
  <1>4. /\ left \in Seq(Entries) /\ Len(left) = n - 1
        /\ \A i \in 1 .. n - 1 : left[i] = map.entries[IF i < k THEN i ELSE i + 1]
    BY <1>1, <1>2, RemoveAtRemoves
  <1>5. DOMAIN left = 1 .. n - 1
    BY <1>4, LenProperties
  <1> HIDE DEF n, left
  <1>6. \A i \in 1 .. n - 1 : (IF i < k THEN i ELSE i + 1) \in 1 .. n
    BY <1>1, <1>2
  <1>7. QED
    BY <1>1, <1>3, <1>4, <1>5, <1>6 DEF Stays, OfKind

\* The choice of a default region puts one only that no name in the table begins with.
LEMMA ChooseKinds ==
  ASSUME NEW map, NEW default, Sound(map, default), NEW name \in Names \cup {Wildcard, NoName},
         NEW private \in BOOLEAN, CanChooseDefault(map, name, private)
  PROVE  StaysBut(ChooseDefault(map, name, private), map, name, private)
  <1> DEFINE put == Putting(map, name, private)
             now == SetDefault(put, name)
  <1>1. put \in RegionMaps /\ StaysBut(put, map, name, private)
    <2>1. CASE name \in Names /\ FoundByPrefix(map, name) = {}
      <3>1. put = Put(map, name, private) /\ CanPut(map, name) /\ map \in RegionMaps
        BY <2>1 DEF Putting, CanChooseDefault, Sound
      <3>2. Put(map, name, private) \in RegionMaps
        BY <3>1, PutSound DEF Sound
      <3>3. QED
        BY <3>1, <3>2, PutKinds
    <2>2. CASE ~ (name \in Names /\ FoundByPrefix(map, name) = {})
      BY <2>2 DEF Putting, Sound, StaysBut
    <2>3. QED
      BY <2>1, <2>2
  <1>2. ChooseDefault(map, name, private) = now
    BY DEF ChooseDefault
  <1> HIDE DEF put
  <1>3. CASE name \in {NoName, Wildcard}
    <2>1. now = [put EXCEPT !.default_id = NoId]
      BY <1>3 DEF SetDefault
    <2>2. now.entries = put.entries
      BY <1>1, <2>1 DEF RegionMaps
    <2>3. QED
      BY <1>1, <1>2, <2>2 DEF StaysBut, OfKind
  <1>4. CASE name \notin {NoName, Wildcard}
    <2> DEFINE id    == put.entries[CHOOSE i \in FoundByPrefix(put, name) : TRUE].id
               no    == ~TRUE
               flood == SetFlag(put, name, no)
    <2>1. now = [flood EXCEPT !.default_id = id] /\ no \in BOOLEAN
      BY <1>4 DEF SetDefault, SetFlood
    <2> HIDE DEF no, id
    <2>2. Stays(flood, put)
      BY <1>1, <2>1, SetFlagKinds
    <2> HIDE DEF flood
    <2>3. flood \in RegionMaps
      BY <1>1, <2>1, SetFlagFacts DEF flood
    <2>4. now.entries = flood.entries
      BY <2>1, <2>3 DEF RegionMaps
    <2>5. QED
      BY <1>1, <1>2, <2>2, <2>4 DEF Stays, StaysBut, OfKind
  <1>5. QED
    BY <1>3, <1>4

\* Tables remain alike when what is new to the one is alike in the other.
LEMMA AlikeStill ==
  ASSUME NEW map, NEW now, NEW then, NEW name, NEW private,
         Alike(map, now), StaysBut(then, now, name, private),
         Knows(now, name) \/ \A q \in BOOLEAN : OfKind(map, name, q) => q = private
  PROVE  Alike(map, then)
  BY DEF Alike, StaysBut

------------------------------------------------------------------------------
(* What is saved reads back: what the file tells, and the reading of it *)

\* The lines, told apart by what they are about.
LEMMA LinesDiffer ==
  ASSUME NEW map \in RegionMaps, NEW capture
  PROVE  /\ DefaultTold(map).key = "default" /\ DefaultTold(map).value = DefaultName(map)
         /\ CaptureTold(capture).key = "capture" /\ CaptureTold(capture).value = capture
         /\ \A name, denied : /\ FloodLine(name, denied).key = "flood"
                              /\ FloodLine(name, denied).name = name
         /\ \A i \in DOMAIN map.entries :
              /\ EntryTold(map, i).key = "flood" /\ EntryTold(map, i).name = map.entries[i].name
              /\ EntryTold(map, i).name # Wildcard
  <1>1. \A i \in DOMAIN map.entries : map.entries[i].name # Wildcard
    BY MapFacts, RegionAssumption
  <1>2. QED
    BY <1>1 DEF DefaultTold, CaptureTold, EntryTold, FloodLine

\* What can be said of the regions of a table, and of its default.
LEMMA Sayable ==
  ASSUME NEW map \in RegionMaps, ~Unsayable(map)
  PROVE  /\ \A i \in DOMAIN map.entries :
              /\ map.entries[i].name # Default /\ map.entries[i].name # Capture
              /\ HasLine(Profile, map.entries[i]) =>
                   /\ map.entries[i].name \notin Unreadable
                   /\ ~Misread(map.entries[i], Read[map.entries[i].name])
         /\ DefaultName(map) # DefaultName(Profile) =>
              /\ DefaultName(map) \notin Escaped
              /\ DefaultName(map) \in Names /\ ~Knows(Profile, DefaultName(map)) =>
                   FoundByPrefix(Profile, DefaultName(map)) = {}
              /\ \A i \in DOMAIN map.entries :
                   map.entries[i].name = DefaultName(map) =>
                     /\ ~Misread(map.entries[i], ReadValue[DefaultName(map)])
                     /\ map.entries[i].denied => ~SameFlag(Profile, map.entries[i])
         /\ DefaultName(map) \in Names => Knows(map, DefaultName(map))
  <1>1. \A i \in DOMAIN map.entries : Knows(map, map.entries[i].name)
    BY DEF Knows, Positions
  <1>2. \A i \in DOMAIN map.entries :
          /\ map.entries[i].name # Default /\ map.entries[i].name # Capture
          /\ HasLine(Profile, map.entries[i]) =>
               /\ map.entries[i].name \notin Unreadable
               /\ ~Misread(map.entries[i], Read[map.entries[i].name])
    <2>1. ~Knows(map, Default) /\ ~Knows(map, Capture)
      BY DEF Unsayable
    <2>2. \A i \in DOMAIN map.entries :
            /\ map.entries[i].name # Default /\ map.entries[i].name # Capture
      BY <1>1, <2>1
    <2>3. \A i \in DOMAIN map.entries :
            HasLine(Profile, map.entries[i]) =>
              /\ map.entries[i].name \notin Unreadable
              /\ ~Misread(map.entries[i], Read[map.entries[i].name])
      BY DEF Unsayable
    <2>4. QED
      BY <2>2, <2>3
  <1>3. ASSUME DefaultName(map) # DefaultName(Profile)
        PROVE  /\ DefaultName(map) \notin Escaped
               /\ DefaultName(map) \in Names /\ ~Knows(Profile, DefaultName(map)) =>
                    FoundByPrefix(Profile, DefaultName(map)) = {}
               /\ \A i \in DOMAIN map.entries :
                    map.entries[i].name = DefaultName(map) =>
                      /\ ~Misread(map.entries[i], ReadValue[DefaultName(map)])
                      /\ map.entries[i].denied => ~SameFlag(Profile, map.entries[i])
    BY <1>3 DEF Unsayable, Positions
  <1>4. ASSUME DefaultName(map) \in Names
        PROVE  Knows(map, DefaultName(map))
    <2> DEFINE found == {i \in DOMAIN map.entries : map.entries[i].id = map.default_id}
    <2>1. found # {}
      BY <1>4, RegionAssumption DEF DefaultName
    <2>2. found \in SUBSET Nat
      BY MapFacts
    <2>3. Min(found) \in found
      BY <2>1, <2>2, MinThere
    <2>4. DefaultName(map) = map.entries[Min(found)].name
      BY <2>1 DEF DefaultName
    <2>5. QED
      BY <1>1, <2>3, <2>4
  <1>5. QED
    BY <1>2, <1>3, <1>4

\* What a sequence with one more element has.
LEMMA RangeOfAppend ==
  ASSUME NEW S, NEW s \in Seq(S), NEW e \in S
  PROVE  Range(Append(s, e)) = Range(s) \cup {e}
  <1> DEFINE more == Append(s, e)
             n == Len(s)
  <1>1. n \in Nat /\ DOMAIN s = 1 .. n
    BY LenProperties
  <1>2. /\ DOMAIN more = 1 .. n + 1 /\ more[n + 1] = e
        /\ \A i \in 1 .. n : more[i] = s[i]
    BY AppendProperties, LenProperties
  <1> HIDE DEF more, n
  <1>3. /\ \A i \in 1 .. n + 1 : i \in 1 .. n \/ i = n + 1
        /\ \A i \in 1 .. n : i \in 1 .. n + 1
        /\ n + 1 \in 1 .. n + 1
    BY <1>1
  <1>4. Range(more) = Range(s) \cup {e}
    BY <1>1, <1>2, <1>3 DEF Range
  <1>5. QED
    BY <1>4 DEF more

\* The regions that have a line are those that HasLine says.
LEMMA RegionLinesTell ==
  ASSUME NEW map \in RegionMaps, NEW defaults
  PROVE  Range(RegionLines(map, defaults)) =
           {EntryTold(map, i) :
              i \in {j \in DOMAIN map.entries : HasLine(defaults, map.entries[j])}}
  <1> DEFINE n == Len(map.entries)
             told(m) == {EntryTold(map, i) :
                           i \in {j \in 1 .. m : HasLine(defaults, map.entries[j])}}
  <1>1. n \in Nat /\ DOMAIN map.entries = 1 .. n /\ \A m \in 1 .. n :
          map.entries[m].name \in Names /\ map.entries[m].denied \in BOOLEAN
    BY MapFacts
  <1>2. PICK upto :
          /\ RegionLines(map, defaults) = upto[n]
          /\ upto[0] = <<>>
          /\ \A m \in 1 .. n : upto[m] = NextLines(map, defaults, upto, m)
    BY <1>1, LinesFollow
  <1> HIDE DEF n
  <1>3. \A m \in 1 .. n : EntryTold(map, m) \in Lines
    BY <1>1 DEF EntryTold, FloodLine, Lines
  <1> DEFINE right == {m \in 0 .. n : upto[m] \in Seq(Lines) /\ Range(upto[m]) = told(m)}
  <1>4. 0 \in right
    <2>1. 0 \in 0 .. n /\ <<>> \in Seq(Lines)
      BY <1>1
    <2>2. Range(<<>>) = {}
      BY DEF Range
    <2>3. told(0) = {}
      OBVIOUS
    <2>4. QED
      BY <1>2, <2>1, <2>2, <2>3
  <1>5. ASSUME NEW m \in 0 .. n, m # n, m \in right
        PROVE  m + 1 \in right
    <2>1. m + 1 \in 1 .. n /\ (m + 1) - 1 = m /\ m + 1 # 0 /\ m + 1 \in 0 .. n
      BY <1>1, <1>5
    <2>2. upto[m] \in Seq(Lines) /\ Range(upto[m]) = told(m)
      BY <1>5
    <2>3. \A j : j \in 1 .. m + 1 <=> j \in 1 .. m \/ j = m + 1
      BY <1>1, <2>1
    <2>4. CASE HasLine(defaults, map.entries[m + 1])
      <3>1. upto[m + 1] = Append(upto[m], EntryTold(map, m + 1))
        BY <1>2, <2>1, <2>4 DEF NextLines, EntryTold
      <3>2. EntryTold(map, m + 1) \in Lines
        BY <1>3, <2>1
      <3>3. upto[m + 1] \in Seq(Lines)
        BY <2>2, <3>1, <3>2, AppendProperties
      <3>4. Range(upto[m + 1]) = told(m) \cup {EntryTold(map, m + 1)}
        BY <2>2, <3>1, <3>2, RangeOfAppend
      <3>5. told(m + 1) = told(m) \cup {EntryTold(map, m + 1)}
        BY <2>3, <2>4
      <3>6. QED
        BY <2>1, <3>3, <3>4, <3>5
    <2>5. CASE ~HasLine(defaults, map.entries[m + 1])
      <3>1. upto[m + 1] = upto[m]
        BY <1>2, <2>1, <2>5 DEF NextLines
      <3>2. told(m + 1) = told(m)
        BY <2>3, <2>5
      <3>3. QED
        BY <2>1, <2>2, <3>1, <3>2
    <2>6. QED
      BY <2>4, <2>5
  <1>6. 0 .. n \subseteq right
    <2> HIDE DEF right
    <2>1. QED
      BY <1>1, <1>4, <1>5, CountUp
  <1>7. n \in 0 .. n
    BY <1>1
  <1>8. QED
    BY <1>1, <1>2, <1>6, <1>7

\* A file that was written of a table, read from its first line over the profile.
LEMMA TextReads ==
  ASSUME NEW map \in RegionMaps, NEW capture \in BOOLEAN, ~Unsayable(map),
         \A name \in Names : Knows(Profile, name) => Knows(map, name), Alike(map, Profile)
  PROVE  ReadsOn(map, capture, Profile, ProfileCapture, Text(map, capture))
  <1> DEFINE D == DefaultLine(map, Profile)
             W == WildcardLine(map, Profile)
             R == RegionLines(map, Profile)
             C == IF capture = ProfileCapture THEN <<>> ELSE <<CaptureTold(capture)>>
             all == Text(map, capture)
  <1>1. /\ D \in Seq(Lines) /\ Range(D) \subseteq {DefaultTold(map)}
        /\ DefaultName(map) # DefaultName(Profile) => DefaultTold(map) \in Range(D)
        /\ \A k \in DOMAIN D : k = 1 /\ DefaultName(map) # DefaultName(Profile)
    <2>1. DefaultTold(map) \in Lines
      BY DefaultNameTyped DEF Lines, DefaultTold
    <2>2. CASE DefaultName(map) = DefaultName(Profile)
      BY <2>2 DEF DefaultLine, Range
    <2>3. CASE DefaultName(map) # DefaultName(Profile)
      <3>1. D = <<DefaultTold(map)>>
        BY <2>3 DEF DefaultLine, DefaultTold
      <3>2. QED
        BY <2>1, <2>3, <3>1 DEF Range
    <2>4. QED
      BY <2>2, <2>3
  <1>2. /\ W \in Seq(Lines) /\ Range(W) \subseteq {FloodLine(Wildcard, map.wildcard_denied)}
        /\ map.wildcard_denied # Profile.wildcard_denied =>
             FloodLine(Wildcard, map.wildcard_denied) \in Range(W)
    <2>1. FloodLine(Wildcard, map.wildcard_denied) \in Lines
      BY MapFacts DEF Lines, FloodLine
    <2>2. CASE map.wildcard_denied = Profile.wildcard_denied
      BY <2>2 DEF WildcardLine, Range
    <2>3. CASE map.wildcard_denied # Profile.wildcard_denied
      <3>1. W = <<FloodLine(Wildcard, map.wildcard_denied)>>
        BY <2>3 DEF WildcardLine
      <3>2. QED
        BY <2>1, <3>1 DEF Range
    <2>4. QED
      BY <2>2, <2>3
  <1>3. /\ R \in Seq(Lines)
        /\ Range(R) = {EntryTold(map, i) :
                         i \in {j \in DOMAIN map.entries : HasLine(Profile, map.entries[j])}}
    BY RegionLinesTyped, RegionLinesTell
  <1>4. /\ C \in Seq(Lines) /\ Range(C) \subseteq {CaptureTold(capture)}
        /\ capture # ProfileCapture => CaptureTold(capture) \in Range(C)
    <2>1. CaptureTold(capture) \in Lines
      BY DEF Lines, CaptureTold
    <2>2. CASE capture = ProfileCapture
      BY <2>2 DEF Range
    <2>3. CASE capture # ProfileCapture
      <3>1. C = <<CaptureTold(capture)>>
        BY <2>3
      <3>2. QED
        BY <2>1, <2>3, <3>1 DEF Range
    <2>4. QED
      BY <2>2, <2>3
  <1>5. all = ((D \o W) \o R) \o C
    BY DEF Text, LinesOf, CaptureTold
  <1> HIDE DEF D, W, R, C, all
  <1>6. /\ D \o W \in Seq(Lines) /\ Range(D \o W) = Range(D) \cup Range(W)
        /\ \A k \in DOMAIN (D \o W) :
             \/ k \in DOMAIN D /\ (D \o W)[k] = D[k]
             \/ (D \o W)[k] \in Range(W)
    BY <1>1, <1>2, RangeOfConcat
  <1> DEFINE DW == D \o W
  <1> HIDE DEF DW
  <1>7. /\ DW \o R \in Seq(Lines) /\ Range(DW \o R) = Range(DW) \cup Range(R)
        /\ \A k \in DOMAIN (DW \o R) :
             \/ k \in DOMAIN DW /\ (DW \o R)[k] = DW[k]
             \/ (DW \o R)[k] \in Range(R)
    <2>1. DW \in Seq(Lines)
      BY <1>6 DEF DW
    <2>2. QED
      BY <1>3, <2>1, RangeOfConcat
  <1> DEFINE DWR == DW \o R
  <1> HIDE DEF DWR
  <1>8. /\ Range(all) = Range(DWR) \cup Range(C)
        /\ \A k \in DOMAIN all :
             \/ k \in DOMAIN DWR /\ all[k] = DWR[k]
             \/ all[k] \in Range(C)
    <2>1. all = DWR \o C
      BY <1>5 DEF DW, DWR
    <2>2. DWR \in Seq(Lines)
      BY <1>7 DEF DWR
    <2>3. QED
      BY <1>4, <2>1, <2>2, RangeOfConcat
  <1>9. Range(all) = Range(D) \cup Range(W) \cup Range(R) \cup Range(C)
    BY <1>6, <1>7, <1>8 DEF DW, DWR
  <1>10. \A k \in DOMAIN all :
           \/ k \in DOMAIN D /\ all[k] = D[k]
           \/ all[k] \in Range(W) \cup Range(R) \cup Range(C)
    BY <1>6, <1>7, <1>8 DEF DW, DWR
  <1>11. \A line \in Range(W) \cup Range(R) \cup Range(C) : line.key # "default"
    <2>1. FloodLine(Wildcard, map.wildcard_denied).key # "default"
      BY DEF FloodLine
    <2>2. CaptureTold(capture).key # "default"
      BY DEF CaptureTold
    <2>3. \A i : EntryTold(map, i).key # "default"
      BY DEF EntryTold, FloodLine
    <2>4. QED
      BY <1>2, <1>3, <1>4, <2>1, <2>2, <2>3
  <1>12. \A k \in DOMAIN all : all[k].key = "default" =>
           k = 1 /\ DefaultName(map) # DefaultName(Profile)
    BY <1>1, <1>10, <1>11
  <1>13. \A line \in Range(all) :
           \/ line = DefaultTold(map)
           \/ line = FloodLine(Wildcard, map.wildcard_denied)
           \/ \E i \in DOMAIN map.entries :
                HasLine(Profile, map.entries[i]) /\ line = EntryTold(map, i)
           \/ line = CaptureTold(capture)
    BY <1>1, <1>2, <1>3, <1>4, <1>9
  <1>14. /\ DefaultTold(map) \notin Range(all) => DefaultName(Profile) = DefaultName(map)
         /\ FloodLine(Wildcard, map.wildcard_denied) \notin Range(all) =>
              Profile.wildcard_denied = map.wildcard_denied
         /\ CaptureTold(capture) \notin Range(all) => ProfileCapture = capture
    BY <1>1, <1>2, <1>4, <1>9
  <1>15. \A i \in DOMAIN map.entries : EntryTold(map, i) \notin Range(all) =>
           Has(Profile, map.entries[i].name, map.entries[i].denied)
    <2>1. \A i \in DOMAIN map.entries : EntryTold(map, i) \notin Range(all) =>
            ~HasLine(Profile, map.entries[i])
      BY <1>3, <1>9
    <2>2. \A i \in DOMAIN map.entries : map.entries[i].name # Default
      BY Sayable
    <2>3. QED
      BY <2>1, <2>2 DEF HasLine, SameFlag, Has, Positions
  <1>16. DefaultThere(Profile)
    BY ProfileAssumption DEF DefaultThere
  <1>17. QED
    BY <1>12, <1>13, <1>14, <1>15, <1>16 DEF ReadsOn, all

\* The line that a boot has come to can be read, and what is left then reads on.
LEMMA ReadsOnStep ==
  ASSUME NEW map \in RegionMaps, NEW capture \in BOOLEAN, ~Unsayable(map),
         Len(map.entries) <= MaxRegions,
         \A i, j \in DOMAIN map.entries : i # j => map.entries[i].name # map.entries[j].name,
         \A name \in Names : Knows(Profile, name) => Knows(map, name) /\ Knows(regions, name),
         Sound(regions, chosen), rest \in Seq(Lines), rest # <<>>,
         ReadsOn(map, capture, regions, region_capture, rest)
  PROVE  /\ Readable(Head(rest))
         /\ ReadLine => ReadsOn(map, capture, regions', region_capture', rest')
  <1> DEFINE line == Head(rest)
             wild == FloodLine(Wildcard, map.wildcard_denied)
             left == Tail(rest)
  <1>1. /\ Range(left) \subseteq Range(rest)
        /\ \A any : any \in Range(rest) => any \in Range(left) \/ any = line
        /\ \A k \in DOMAIN left : k + 1 \in DOMAIN rest /\ left[k] = rest[k + 1] /\ k + 1 # 1
        /\ line = rest[1] /\ 1 \in DOMAIN rest
    BY RangeOfTail
  <1>2. line \in Range(rest)
    BY <1>1 DEF Range
  <1>3. /\ regions \in RegionMaps
        /\ \A i, j \in DOMAIN regions.entries :
             i # j => regions.entries[i].name # regions.entries[j].name
    BY DEF Sound
  <1>4. MaxRegions \in Nat /\ Len(map.entries) \in Nat
    BY RegionAssumption, MapFacts
  <1>5. ReadLine => rest' = left
    BY DEF ReadLine
  <1> HIDE DEF line, wild, left
  <1>6. /\ \A any \in Range(rest) :
             \/ any = DefaultTold(map)
             \/ any = wild
             \/ \E i \in DOMAIN map.entries :
                  HasLine(Profile, map.entries[i]) /\ any = EntryTold(map, i)
             \/ any = CaptureTold(capture)
        /\ \A k \in DOMAIN rest : rest[k].key = "default" =>
             k = 1 /\ regions = Profile /\ DefaultName(map) # DefaultName(Profile)
        /\ DefaultTold(map) \notin Range(rest) => DefaultName(regions) = DefaultName(map)
        /\ wild \notin Range(rest) => regions.wildcard_denied = map.wildcard_denied
        /\ CaptureTold(capture) \notin Range(rest) => region_capture = capture
        /\ \A i \in DOMAIN map.entries : EntryTold(map, i) \notin Range(rest) =>
             Has(regions, map.entries[i].name, map.entries[i].denied)
        /\ \A name \in Names : Knows(regions, name) => Knows(map, name)
        /\ DefaultThere(regions) /\ Alike(map, regions)
    BY DEF ReadsOn, wild
  <1>7. /\ DefaultTold(map).key = "default" /\ DefaultTold(map).value = DefaultName(map)
        /\ CaptureTold(capture).key = "capture" /\ CaptureTold(capture).value = capture
        /\ wild.key = "flood" /\ wild.name = Wildcard
        /\ \A i \in DOMAIN map.entries :
             /\ EntryTold(map, i).key = "flood" /\ EntryTold(map, i).name = map.entries[i].name
             /\ EntryTold(map, i).name # Wildcard
    BY LinesDiffer DEF wild
  <1>8. \A k \in DOMAIN left : left[k].key = "default" => FALSE
    BY <1>1, <1>6
  <1>9. DefaultTold(map) \notin Range(left)
    BY <1>7, <1>8 DEF Range
  \* What remains to be shown of a state after the line has been read.
  <1>10. ASSUME NEW now, NEW nowCapture,
                DefaultName(now) = DefaultName(map),
                wild \notin Range(left) => now.wildcard_denied = map.wildcard_denied,
                CaptureTold(capture) \notin Range(left) => nowCapture = capture,
                \A i \in DOMAIN map.entries : EntryTold(map, i) \notin Range(left) =>
                  Has(now, map.entries[i].name, map.entries[i].denied),
                \A name \in Names : Knows(now, name) => Knows(map, name),
                DefaultThere(now), Alike(map, now)
         PROVE  ReadsOn(map, capture, now, nowCapture, left)
    <2>1. \A any \in Range(left) :
            \/ any = DefaultTold(map)
            \/ any = wild
            \/ \E i \in DOMAIN map.entries :
                 HasLine(Profile, map.entries[i]) /\ any = EntryTold(map, i)
            \/ any = CaptureTold(capture)
      BY <1>1, <1>6
    <2>2. QED
      BY <1>8, <1>10, <2>1 DEF ReadsOn, wild
  <1>11. CASE line = DefaultTold(map)
    <2> DEFINE v == DefaultName(map)
               word == ReadDefault(v)
               private == word.private
    <2>1. regions = Profile /\ v # DefaultName(Profile)
      BY <1>1, <1>6, <1>7, <1>11
    <2>2. v \in Names \cup {NoName}
      BY DefaultNameTyped
    <2>3. /\ v \notin Escaped
          /\ v \in Names /\ ~Knows(Profile, v) => FoundByPrefix(Profile, v) = {}
          /\ \A i \in DOMAIN map.entries : map.entries[i].name = v =>
               /\ ~Misread(map.entries[i], ReadValue[v])
               /\ map.entries[i].denied => ~SameFlag(Profile, map.entries[i])
          /\ v \in Names => Knows(map, v)
      BY <2>1, Sayable
    <2>4. /\ word.name = v /\ private \in BOOLEAN
          /\ Knows(Profile, v) \/ \A q \in BOOLEAN : OfKind(map, v, q) => q = private
      <3>1. private \in BOOLEAN
        BY <2>2, WordsRead
      <3>2. CASE v = NoName
        <4>1. word.name = v
          BY <3>2 DEF ReadDefault, NoWord
        <4>2. \A q \in BOOLEAN : ~OfKind(map, v, q)
          BY <3>2, MapFacts, RegionAssumption DEF OfKind
        <4>3. QED
          BY <3>1, <4>1, <4>2
      <3>3. CASE v \in Names
        <4>1. word = ReadValue[v]
          BY <3>3, RegionAssumption DEF ReadDefault
        <4>2. PICK i \in DOMAIN map.entries : map.entries[i].name = v
          BY <2>3, <3>3 DEF Knows, Positions
        <4>3. /\ word.name = map.entries[i].name
              /\ Knows(Profile, v) \/ private = map.entries[i].private
          BY <2>3, <4>1, <4>2 DEF Misread
        <4>4. \A q \in BOOLEAN : OfKind(map, v, q) => q = map.entries[i].private
          BY <4>2 DEF OfKind
        <4>5. QED
          BY <3>1, <4>2, <4>3, <4>4
      <3>4. QED
        BY <2>2, <3>2, <3>3
    <2> HIDE DEF v, word, private
    <2>5. CanChooseDefault(Profile, v, private)
      <3>1. ASSUME v \in Names, FoundByPrefix(Profile, v) = {}
            PROVE  CanPut(Profile, v)
        <4>1. ~Knows(Profile, v)
          BY <3>1 DEF FoundByPrefix, Knows
        <4>2. Len(Profile.entries) < Len(map.entries)
          BY <1>3, <2>1, <2>3, <3>1, <4>1, Room
        <4>3. Len(Profile.entries) \in Nat
          BY ProfileAssumption, MapFacts
        <4>4. QED
          BY <1>4, <3>1, <4>2, <4>3 DEF CanPut
      <3>2. CanSetDefault(Putting(Profile, v, private), v)
        <4>1. CASE v = NoName
          BY <4>1 DEF CanSetDefault
        <4>2. CASE v \in Names /\ FoundByPrefix(Profile, v) = {}
          <5>1. Knows(Put(Profile, v, private), v)
            BY <2>4, <3>1, <4>2, ProfileSound, PutSound
          <5>2. QED
            BY <4>2, <5>1 DEF CanSetDefault, Putting
        <4>3. CASE v \in Names /\ FoundByPrefix(Profile, v) # {}
          <5>1. Knows(Profile, v)
            BY <2>3, <4>3
          <5>2. QED
            BY <4>3, <5>1 DEF CanSetDefault, Putting
        <4>4. QED
          BY <2>2, <4>1, <4>2, <4>3
      <3>3. QED
        BY <3>1, <3>2 DEF CanChooseDefault
    <2>6. line.key = "default" /\ line.value = v
      BY <1>7, <1>11 DEF v
    <2>7. Readable(line)
      BY <2>1, <2>3, <2>4, <2>5, <2>6 DEF Readable, word, private
    <2>8. ASSUME ReadLine
          PROVE  ReadsOn(map, capture, regions', region_capture', left)
      <3>1. regions' = ChooseDefault(Profile, v, private) /\ region_capture' = region_capture
        BY <2>1, <2>4, <2>6, <2>8 DEF ReadLine, line, word, private
      <3> DEFINE now == regions'
      <3>2. /\ \A any \in Names : Knows(now, any) => Knows(Profile, any) \/ any = v
            /\ \A any, flag : any # v /\ Has(Profile, any, flag) => Has(now, any, flag)
            /\ v \in Names => Has(now, v, FALSE)
            /\ now.wildcard_denied = Profile.wildcard_denied
            /\ DefaultName(now) = v
            /\ DefaultThere(now)
        <4>1. private \in BOOLEAN /\ now = ChooseDefault(Profile, v, private)
          BY <2>4, <3>1
        <4> HIDE DEF now
        <4>2. QED
          BY <2>2, <2>5, <4>1, DefaultLineReads
      <3>9. Alike(map, now)
        <4>1. StaysBut(now, Profile, v, private)
          BY <2>2, <2>4, <2>5, <3>1, ProfileSound, ChooseKinds
        <4>2. Alike(map, Profile)
          BY <1>6, <2>1
        <4> HIDE DEF now
        <4>3. QED
          BY <2>4, <4>1, <4>2, AlikeStill
      <3> HIDE DEF now
      <3>3. wild \notin Range(left) => now.wildcard_denied = map.wildcard_denied
        BY <1>1, <1>6, <1>7, <2>1, <2>6, <3>2
      <3>4. CaptureTold(capture) \notin Range(left) => region_capture' = capture
        BY <1>1, <1>6, <1>7, <2>6, <3>1
      <3>5. ASSUME NEW i \in DOMAIN map.entries, EntryTold(map, i) \notin Range(left)
            PROVE  Has(now, map.entries[i].name, map.entries[i].denied)
        <4>1. EntryTold(map, i) \notin Range(rest)
          BY <1>1, <1>7, <2>6, <3>5
        <4>2. Has(Profile, map.entries[i].name, map.entries[i].denied)
          BY <1>6, <2>1, <4>1
        <4>3. CASE map.entries[i].name # v
          BY <3>2, <4>2, <4>3
        <4>4. CASE map.entries[i].name = v
          <5>1. SameFlag(Profile, map.entries[i])
            BY <4>2 DEF SameFlag, Has, Positions
          <5>2. ~map.entries[i].denied
            BY <2>3, <4>4, <5>1
          <5>3. map.entries[i].denied \in BOOLEAN /\ map.entries[i].name \in Names
            BY MapFacts
          <5>4. map.entries[i].denied = FALSE
            BY <5>2, <5>3
          <5>5. QED
            BY <3>2, <4>4, <5>3, <5>4
        <4>5. QED
          BY <4>3, <4>4
      <3>6. \A name \in Names : Knows(now, name) => Knows(map, name)
        BY <2>3, <3>2
      <3>7. ReadsOn(map, capture, now, region_capture', left)
        BY <1>10, <3>2, <3>3, <3>4, <3>5, <3>6, <3>9 DEF v
      <3>8. QED
        BY <3>7 DEF now
    <2>9. QED
      BY <1>5, <2>7, <2>8 DEF line
  <1>12. ASSUME line # DefaultTold(map)
         PROVE  DefaultName(regions) = DefaultName(map)
    BY <1>1, <1>6, <1>9, <1>12
  <1>13. CASE line = wild
    <2>1. line.key = "flood" /\ line.name = Wildcard /\ Wildcard # Capture
      BY <1>7, <1>13, RegionAssumption
    <2>3. Readable(line)
      BY <2>1 DEF Readable
    <2>4. ASSUME ReadLine
          PROVE  ReadsOn(map, capture, regions', region_capture', left)
      <3>1. /\ regions' = [regions EXCEPT !.wildcard_denied = ~line.allowed]
            /\ region_capture' = region_capture
        BY <2>1, <2>4 DEF ReadLine, line, SetFlood
      <3>2. (~line.allowed) = map.wildcard_denied
        <4>1. map.wildcard_denied \in BOOLEAN
          BY MapFacts
        <4>2. line.allowed = ~map.wildcard_denied
          BY <1>13 DEF wild, FloodLine
        <4>3. QED
          BY <4>1, <4>2
      <3> DEFINE now == regions'
      <3>3. now = [regions EXCEPT !.wildcard_denied = map.wildcard_denied]
        BY <3>1, <3>2
      <3> HIDE DEF now
      <3>4. /\ \A any : Knows(now, any) <=> Knows(regions, any)
            /\ \A any, flag : Has(regions, any, flag) => Has(now, any, flag)
            /\ now.wildcard_denied = map.wildcard_denied
            /\ DefaultName(now) = DefaultName(regions)
            /\ DefaultThere(now) /\ Alike(map, now)
        <4> DEFINE denied == map.wildcard_denied
        <4>1. regions \in RegionMaps /\ DefaultThere(regions)
          BY <1>3, <1>6
        <4>2. now = [regions EXCEPT !.wildcard_denied = denied]
          BY <3>3
        <4> HIDE DEF denied
        <4>3. /\ \A any : Knows(now, any) <=> Knows(regions, any)
              /\ \A any, flag : Has(regions, any, flag) => Has(now, any, flag)
              /\ now.wildcard_denied = denied
              /\ DefaultName(now) = DefaultName(regions)
              /\ DefaultThere(now)
              /\ Alike(map, now)
          BY <1>6, <4>1, <4>2, WildcardLineReads
        <4>4. QED
          BY <4>3 DEF denied
      <3>5. DefaultName(now) = DefaultName(map)
        BY <1>7, <1>12, <2>1, <3>4
      <3>6. CaptureTold(capture) \notin Range(left) => region_capture' = capture
        BY <1>1, <1>6, <1>7, <2>1, <3>1
      <3>7. \A i \in DOMAIN map.entries : EntryTold(map, i) \notin Range(left) =>
              Has(now, map.entries[i].name, map.entries[i].denied)
        BY <1>1, <1>6, <1>7, <2>1, <3>4
      <3>8. ReadsOn(map, capture, now, region_capture', left)
        BY <1>6, <1>10, <3>4, <3>5, <3>6, <3>7
      <3>9. QED
        BY <3>8 DEF now
    <2>5. QED
      BY <1>5, <2>3, <2>4 DEF line
  <1>14. CASE \E i \in DOMAIN map.entries :
                HasLine(Profile, map.entries[i]) /\ line = EntryTold(map, i)
    <2>1. PICK e \in DOMAIN map.entries :
                 HasLine(Profile, map.entries[e]) /\ line = EntryTold(map, e)
      BY <1>14
    <2> DEFINE name == map.entries[e].name
               denied == map.entries[e].denied
               private == Read[name].private
    <2>2. /\ name \in Names /\ denied \in BOOLEAN /\ private \in BOOLEAN
          /\ name \notin Unreadable /\ name # Capture /\ name # Wildcard
          /\ Read[name].name = name
          /\ Knows(Profile, name) \/ private = map.entries[e].private
      <3>1. name \in Names /\ denied \in BOOLEAN
        BY MapFacts
      <3>2. name \notin Unreadable /\ name # Capture /\ ~Misread(map.entries[e], Read[name])
        BY <2>1, Sayable
      <3>3. QED
        BY <3>1, <3>2, WordsRead, RegionAssumption DEF Misread
    <2>3. line.key = "flood" /\ line.name = name
      BY <1>7, <2>1
    <2>4. CanPut(regions, name)
      <3>1. CASE Knows(regions, name)
        BY <2>2, <3>1 DEF CanPut
      <3>2. CASE ~Knows(regions, name)
        <4>1. Knows(map, name)
          BY DEF Knows, Positions
        <4>2. Len(regions.entries) < Len(map.entries)
          BY <1>3, <1>6, <3>2, <4>1, Room
        <4>3. Len(regions.entries) \in Nat
          BY <1>3, MapFacts
        <4>4. QED
          BY <1>4, <2>2, <4>2, <4>3 DEF CanPut
      <3>3. QED
        BY <3>1, <3>2
    <2>5. Readable(line)
      BY <2>2, <2>3, <2>4 DEF Readable
    <2>6. ASSUME ReadLine
          PROVE  ReadsOn(map, capture, regions', region_capture', left)
      <3>1. /\ regions' = SetFlag(Put(regions, name, private), name, ~line.allowed)
            /\ region_capture' = region_capture
        BY <2>2, <2>3, <2>6 DEF ReadLine, line, SetFlood
      <3>2. (~line.allowed) = denied
        <4>1. line.allowed = ~denied
          BY <2>1 DEF EntryTold, FloodLine
        <4>2. QED
          BY <2>2, <4>1
      <3> DEFINE now == regions'
      <3>3. now = SetFlag(Put(regions, name, private), name, denied)
        BY <3>1, <3>2
      <3>12. \A q \in BOOLEAN : OfKind(map, name, q) => q = map.entries[e].private
        BY DEF OfKind
      <3> HIDE DEF now, name, denied, private
      <3>13. Alike(map, now)
        <4> DEFINE put == Put(regions, name, private)
        <4>1. put \in RegionMaps /\ StaysBut(put, regions, name, private)
          <5>1. Sound(put, chosen)
            BY <2>2, <2>4, PutSound
          <5>2. put \in RegionMaps
            BY <5>1 DEF Sound
          <5>3. QED
            BY <1>3, <2>2, <2>4, <5>2, PutKinds
        <4> HIDE DEF put
        <4>2. Knows(regions, name) \/ \A q \in BOOLEAN : OfKind(map, name, q) => q = private
          BY <2>2, <3>12
        <4>3. Alike(map, put)
          BY <1>6, <4>1, <4>2, AlikeStill
        <4>4. Stays(now, put)
          BY <2>2, <3>3, <4>1, SetFlagKinds DEF put
        <4>5. QED
          BY <4>3, <4>4 DEF Alike, Stays
      <3>4. /\ \A any : Knows(now, any) <=> Knows(regions, any) \/ any = name
            /\ \A any, flag : any # name /\ Has(regions, any, flag) => Has(now, any, flag)
            /\ Has(now, name, denied)
            /\ now.wildcard_denied = regions.wildcard_denied
            /\ DefaultName(now) = DefaultName(regions)
            /\ DefaultThere(now)
        BY <1>6, <2>2, <2>4, <3>3, FloodLineReads
      <3>5. DefaultName(now) = DefaultName(map)
        BY <1>7, <1>12, <2>3, <3>4
      <3>6. CaptureTold(capture) \notin Range(left) => region_capture' = capture
        BY <1>1, <1>6, <1>7, <2>3, <3>1
      <3>7. wild \notin Range(left) => now.wildcard_denied = map.wildcard_denied
        BY <1>1, <1>6, <1>7, <2>2, <2>3, <3>4
      <3>8. ASSUME NEW i \in DOMAIN map.entries, EntryTold(map, i) \notin Range(left)
            PROVE  Has(now, map.entries[i].name, map.entries[i].denied)
        <4>1. CASE i = e
          BY <3>4, <4>1 DEF name, denied
        <4>2. CASE i # e
          <5>1. map.entries[i].name # name
            BY <4>2 DEF name
          <5>2. EntryTold(map, i) \notin Range(rest)
            BY <1>1, <1>7, <2>3, <3>8, <5>1
          <5>3. QED
            BY <1>6, <3>4, <5>1, <5>2
        <4>3. QED
          BY <4>1, <4>2
      <3>9. \A any \in Names : Knows(now, any) => Knows(map, any)
        <4>1. Knows(map, name)
          BY DEF Knows, Positions, name
        <4>2. QED
          BY <1>6, <3>4, <4>1
      <3>10. ReadsOn(map, capture, now, region_capture', left)
        BY <1>10, <3>4, <3>5, <3>6, <3>7, <3>8, <3>9, <3>13
      <3>11. QED
        BY <3>10 DEF now
    <2>7. QED
      BY <1>5, <2>5, <2>6 DEF line
  <1>15. CASE line = CaptureTold(capture)
    <2>1. line.key = "capture" /\ line.value = capture
      BY <1>7, <1>15
    <2>2. Readable(line)
      BY <2>1 DEF Readable
    <2>3. ASSUME ReadLine
          PROVE  ReadsOn(map, capture, regions', region_capture', left)
      <3>1. region_capture' = capture /\ regions' = regions
        BY <2>1, <2>3 DEF ReadLine, line
      <3>2. DefaultName(regions) = DefaultName(map)
        BY <1>7, <1>12, <2>1
      <3>3. wild \notin Range(left) => regions.wildcard_denied = map.wildcard_denied
        BY <1>1, <1>6, <1>7, <2>1
      <3>4. \A i \in DOMAIN map.entries : EntryTold(map, i) \notin Range(left) =>
              Has(regions, map.entries[i].name, map.entries[i].denied)
        BY <1>1, <1>6, <1>7, <2>1
      <3>5. ReadsOn(map, capture, regions, capture, left)
        BY <1>6, <1>10, <3>2, <3>3, <3>4
      <3>6. QED
        BY <3>1, <3>5
    <2>4. QED
      BY <1>5, <2>2, <2>3 DEF line
  <1>16. QED
    BY <1>2, <1>6, <1>11, <1>13, <1>14, <1>15

\* No step takes a region of the profile out of the table.
LEMMA ProfileKept ==
  ASSUME RegionsInv, [RegionsNext]_regionVars, Keeps(Profile, regions)
  PROVE  Keeps(Profile, regions')
  <1>1. Sound(regions, chosen) /\ rest \in Seq(Lines)
    BY DEF RegionsInv, RegionsTypeOK
  <1>2. SUFFICES \/ Keeps(regions, regions')
                 \/ regions' = Profile
                 \/ \A name \in Names : Knows(Profile, name) => Knows(regions', name)
    BY DEF Keeps
  <1>3. CASE PutRegion
    <2>1. PICK word \in Words :
                 /\ CanPut(regions, word.name)
                 /\ regions' = Put(regions, word.name, word.private)
      BY <1>3 DEF PutRegion, Accept
    <2> DEFINE name == word.name
               private == word.private
    <2>2. private \in BOOLEAN
      BY DEF Words
    <2> HIDE DEF name, private
    <2>3. Keeps(regions, Put(regions, name, private))
      BY <1>1, <2>1, <2>2, PutSound DEF name
    <2>4. QED
      BY <2>1, <2>3 DEF name, private
  <1>4. CASE RemoveRegion
    <2>1. PICK name \in Names :
                 /\ ~Knows(Profile, name) /\ Knows(regions, name)
                 /\ regions' = RemoveFrom(regions, name)
      BY <1>4 DEF RemoveRegion, Accept
    <2>2. \A any : any # name /\ Knows(regions, any) => Knows(regions', any)
      BY <1>1, <2>1, RemoveSound
    <2>3. QED
      BY <2>1, <2>2 DEF Keeps
  <1>5. CASE SetRegionFlood
    <2>1. PICK name \in Names \cup {Wildcard}, allowed \in BOOLEAN :
                 regions' = SetFlood(regions, name, allowed)
      BY <1>5 DEF SetRegionFlood, Accept
    <2>2. QED
      BY <1>1, <2>1, SetFloodSound
  <1>6. CASE SetDefaultRegion
    <2>1. PICK word \in Words \cup {NoWord, [name |-> Wildcard, private |-> FALSE]} :
                 /\ CanChooseDefault(regions, word.name, word.private)
                 /\ regions' = ChooseDefault(regions, word.name, word.private)
      BY <1>6 DEF SetDefaultRegion, Accept
    <2> DEFINE name == word.name
               private == word.private
    <2>2. name \in Names \cup {Wildcard, NoName} /\ private \in BOOLEAN
      BY <2>1, DefaultWords
    <2> HIDE DEF name, private
    <2>3. Keeps(regions, ChooseDefault(regions, name, private))
      BY <1>1, <2>1, <2>2, ChooseDefaultSound DEF name, private
    <2>4. QED
      BY <2>1, <2>3 DEF name, private
  <1>7. CASE SetCapture
    BY <1>7 DEF SetCapture, Accept, Keeps
  <1>8. CASE Reboot
    BY <1>8 DEF Reboot
  <1>9. CASE ReadLine
    <2> DEFINE line == Head(rest)
    <2>1. rest # <<>> /\ Readable(line)
      BY <1>9 DEF ReadLine
    <2>2. line \in Lines
      BY <1>1, <2>1, HeadTailProperties
    <2> HIDE DEF line
    <2>3. CASE line.key = "default"
      <3> DEFINE word == ReadDefault(line.value)
                 name == word.name
                 private == word.private
      <3>1. line.value \in Names \cup {NoName}
        BY <2>2, <2>3 DEF Lines
      <3>2. name \in Names \cup {NoName} /\ private \in BOOLEAN
        BY <3>1, WordsRead
      <3>3. CanChooseDefault(regions, name, private)
        BY <2>1, <2>3 DEF Readable
      <3>4. regions' = ChooseDefault(regions, name, private)
        BY <1>9, <2>3 DEF ReadLine, line
      <3> HIDE DEF word, name, private
      <3>5. QED
        BY <1>1, <3>2, <3>3, <3>4, ChooseDefaultSound
    <2>4. CASE line.key = "flood" /\ line.name \notin {Wildcard, Capture}
      <3> DEFINE word == Read[line.name]
                 name == word.name
                 private == word.private
                 put == Put(regions, name, private)
      <3>1. line.allowed \in BOOLEAN /\ private \in BOOLEAN
        BY <2>2, <2>4, WordsRead DEF Lines
      <3>2. CanPut(regions, name)
        BY <2>1, <2>4 DEF Readable
      <3>3. regions' = SetFlood(put, name, line.allowed)
        BY <1>9, <2>4 DEF ReadLine, line
      <3> HIDE DEF word, name, private
      <3>4. Sound(put, chosen) /\ Keeps(regions, put)
        BY <1>1, <3>1, <3>2, PutSound
      <3> HIDE DEF put
      <3>5. Keeps(put, regions')
        BY <3>1, <3>3, <3>4, SetFloodSound
      <3>6. QED
        BY <3>4, <3>5 DEF Keeps
    <2>5. CASE line.key = "flood" /\ line.name = Wildcard
      <3>1. line.allowed \in BOOLEAN /\ Wildcard # Capture
        BY <2>2, <2>5, RegionAssumption DEF Lines
      <3>2. regions' = SetFlood(regions, Wildcard, line.allowed)
        BY <1>9, <2>5, <3>1 DEF ReadLine, line
      <3>3. QED
        BY <1>1, <3>1, <3>2, SetFloodSound
    <2>6. CASE (line.key = "flood" /\ line.name = Capture) \/ line.key = "capture"
      <3>1. regions' = regions
        BY <1>9, <2>6, RegionAssumption DEF ReadLine, line
      <3>2. QED
        BY <3>1 DEF Keeps
    <2>7. line.key \in {"default", "flood", "capture"}
      BY <2>2 DEF Lines
    <2>8. QED
      BY <2>3, <2>4, <2>5, <2>6, <2>7
  <1>10. CASE ReadFails
    BY <1>10 DEF ReadFails
  <1>11. CASE BootDone
    BY <1>11 DEF BootDone, Keeps
  <1>12. CASE UNCHANGED regionVars
    BY <1>12 DEF regionVars, Keeps
  <1>13. QED
    BY <1>3, <1>4, <1>5, <1>6, <1>7, <1>8, <1>9, <1>10, <1>11, <1>12 DEF RegionsNext

\* ... nor makes one private, or not.
LEMMA KindsKept ==
  ASSUME RegionsInv, [RegionsNext]_regionVars, Keeps(Profile, regions), Alike(Profile, regions)
  PROVE  Alike(Profile, regions')
  <1>1. Sound(regions, chosen) /\ regions \in RegionMaps /\ rest \in Seq(Lines)
    BY DEF RegionsInv, RegionsTypeOK
  <1>2. ASSUME Stays(regions', regions)
        PROVE  Alike(Profile, regions')
    BY <1>2 DEF Alike, Stays
  <1>3. ASSUME NEW then, NEW name, NEW private, StaysBut(then, regions, name, private)
        PROVE  Alike(Profile, then)
    <2>1. \A any \in Names, p \in BOOLEAN : OfKind(Profile, any, p) => Knows(regions, any)
      BY DEF OfKind, Keeps, Knows, Positions
    <2>2. QED
      BY <1>3, <2>1 DEF Alike, StaysBut
  <1>4. CASE PutRegion
    <2>1. PICK word \in Words :
                 /\ CanPut(regions, word.name)
                 /\ regions' = Put(regions, word.name, word.private)
      BY <1>4 DEF PutRegion, Accept
    <2> DEFINE name == word.name
               private == word.private
    <2>2. private \in BOOLEAN
      BY DEF Words
    <2> HIDE DEF name, private
    <2>3. StaysBut(Put(regions, name, private), regions, name, private)
      BY <1>1, <2>1, <2>2, PutKinds DEF name
    <2>4. Alike(Profile, Put(regions, name, private))
      BY <1>3, <2>3
    <2>5. QED
      BY <2>1, <2>4 DEF name, private
  <1>5. CASE RemoveRegion
    <2>1. PICK name \in Names : Knows(regions, name) /\ regions' = RemoveFrom(regions, name)
      BY <1>5 DEF RemoveRegion, Accept
    <2>2. QED
      BY <1>1, <1>2, <2>1, RemoveKinds
  <1>6. CASE SetRegionFlood
    <2>1. PICK name \in Names \cup {Wildcard}, allowed \in BOOLEAN :
                 regions' = SetFlood(regions, name, allowed)
      BY <1>6 DEF SetRegionFlood, Accept
    <2>2. QED
      BY <1>1, <1>2, <2>1, SetFloodKinds
  <1>7. CASE SetDefaultRegion
    <2>1. PICK word \in Words \cup {NoWord, [name |-> Wildcard, private |-> FALSE]} :
                 /\ CanChooseDefault(regions, word.name, word.private)
                 /\ regions' = ChooseDefault(regions, word.name, word.private)
      BY <1>7 DEF SetDefaultRegion, Accept
    <2> DEFINE name == word.name
               private == word.private
    <2>2. name \in Names \cup {Wildcard, NoName} /\ private \in BOOLEAN
      BY <2>1, DefaultWords
    <2> HIDE DEF name, private
    <2>3. StaysBut(ChooseDefault(regions, name, private), regions, name, private)
      BY <1>1, <2>1, <2>2, ChooseKinds DEF name, private
    <2>4. Alike(Profile, ChooseDefault(regions, name, private))
      BY <1>3, <2>3
    <2>5. QED
      BY <2>1, <2>4 DEF name, private
  <1>8. CASE Reboot \/ ReadFails
    <2>1. regions' = Profile
      BY <1>8 DEF Reboot, ReadFails
    <2>2. Alike(Profile, Profile)
      BY ProfileAssumption DEF Alike, OfKind
    <2>3. QED
      BY <2>1, <2>2
  <1>9. CASE ReadLine
    <2> DEFINE line == Head(rest)
    <2>1. rest # <<>> /\ Readable(line)
      BY <1>9 DEF ReadLine
    <2>2. line \in Lines
      BY <1>1, <2>1, HeadTailProperties
    <2> HIDE DEF line
    <2>3. CASE line.key = "default"
      <3> DEFINE word == ReadDefault(line.value)
                 name == word.name
                 private == word.private
      <3>1. line.value \in Names \cup {NoName}
        BY <2>2, <2>3 DEF Lines
      <3>2. name \in Names \cup {NoName} /\ private \in BOOLEAN
        BY <3>1, WordsRead
      <3>3. CanChooseDefault(regions, name, private)
        BY <2>1, <2>3 DEF Readable
      <3>4. regions' = ChooseDefault(regions, name, private)
        BY <1>9, <2>3 DEF ReadLine, line
      <3> HIDE DEF word, name, private
      <3>5. StaysBut(ChooseDefault(regions, name, private), regions, name, private)
        BY <1>1, <3>2, <3>3, ChooseKinds
      <3>6. QED
        BY <1>3, <3>4, <3>5
    <2>4. CASE line.key = "flood" /\ line.name \notin {Wildcard, Capture}
      <3> DEFINE word == Read[line.name]
                 name == word.name
                 private == word.private
                 put == Put(regions, name, private)
      <3>1. line.allowed \in BOOLEAN /\ private \in BOOLEAN
        BY <2>2, <2>4, WordsRead DEF Lines
      <3>2. CanPut(regions, name)
        BY <2>1, <2>4 DEF Readable
      <3>3. regions' = SetFlood(put, name, line.allowed)
        BY <1>9, <2>4 DEF ReadLine, line
      <3> HIDE DEF word, name, private
      <3>4. StaysBut(put, regions, name, private)
        BY <1>1, <3>1, <3>2, PutKinds
      <3>5. Sound(put, chosen)
        BY <1>1, <3>1, <3>2, PutSound
      <3> HIDE DEF put
      <3>6. put \in RegionMaps
        BY <3>5 DEF Sound
      <3>7. Stays(regions', put)
        BY <3>1, <3>3, <3>6, SetFloodKinds
      <3>8. Alike(Profile, put)
        BY <1>3, <3>4
      <3>9. QED
        BY <3>7, <3>8 DEF Alike, Stays
    <2>5. CASE line.key = "flood" /\ line.name = Wildcard
      <3>1. line.allowed \in BOOLEAN /\ Wildcard # Capture
        BY <2>2, <2>5, RegionAssumption DEF Lines
      <3>2. regions' = SetFlood(regions, Wildcard, line.allowed)
        BY <1>9, <2>5, <3>1 DEF ReadLine, line
      <3>3. QED
        BY <1>1, <1>2, <3>1, <3>2, SetFloodKinds
    <2>6. CASE (line.key = "flood" /\ line.name = Capture) \/ line.key = "capture"
      BY <1>9, <2>6, RegionAssumption DEF ReadLine, line
    <2>7. line.key \in {"default", "flood", "capture"}
      BY <2>2 DEF Lines
    <2>8. QED
      BY <2>3, <2>4, <2>5, <2>6, <2>7
  <1>10. CASE SetCapture \/ BootDone \/ UNCHANGED regionVars
    BY <1>10 DEF SetCapture, Accept, BootDone, regionVars
  <1>11. QED
    BY <1>4, <1>5, <1>6, <1>7, <1>8, <1>9, <1>10 DEF RegionsNext

\* What was written is the text of a table that is sound and has the profile's regions.
LEMMA WrittenSaved ==
  ASSUME NEW map, NEW default, Sound(map, default), Keeps(Profile, map), Alike(Profile, map),
         NEW capture, WrittenOf(map, capture)
  PROVE  /\ file' = Text(saved'.regions, saved'.capture)
         /\ Len(saved'.regions.entries) <= MaxRegions
         /\ \A i, j \in DOMAIN saved'.regions.entries :
              i # j => saved'.regions.entries[i].name # saved'.regions.entries[j].name
         /\ Keeps(Profile, saved'.regions) /\ Alike(Profile, saved'.regions)
  <1>1. saved' = [regions |-> map, capture |-> capture] /\ file' = Text(map, capture)
    BY DEF WrittenOf
  <1>2. saved'.regions = map /\ saved'.capture = capture
    BY <1>1
  <1>3. QED
    BY <1>1, <1>2 DEF Sound

\* A step either writes the file of the table it leaves, with no boot under way then,
\* or leaves the file and what it was written of alone.
LEMMA WritesOrNot ==
  ASSUME [RegionsNext]_regionVars
  PROVE  \/ WrittenOf(regions', region_capture') /\ booting' = FALSE
         \/ file' = file /\ saved' = saved
  <1>1. ASSUME NEW map, NEW capture, Accept(map, capture)
        PROVE  WrittenOf(regions', region_capture') /\ booting' = FALSE
    BY <1>1 DEF Accept
  <1>2. QED
    BY <1>1 DEF RegionsNext, PutRegion, RemoveRegion, SetRegionFlood, SetDefaultRegion,
                SetCapture, Reboot, ReadLine, ReadFails, BootDone, regionVars

\* Every step keeps what saving and reading need.
LEMMA SavedStep ==
  ASSUME RegionsInv, SavedInv, [RegionsNext]_regionVars
  PROVE  SavedInv'
  <1> DEFINE map == saved.regions
             capture == saved.capture
  <1>1. /\ Sound(regions, chosen) /\ region_capture \in BOOLEAN /\ rest \in Seq(Lines)
        /\ map \in RegionMaps /\ capture \in BOOLEAN /\ booting \in BOOLEAN
    BY DEF RegionsInv, RegionsTypeOK
  <1>2. /\ file = Text(map, capture) /\ Len(map.entries) <= MaxRegions
        /\ \A i, j \in DOMAIN map.entries :
             i # j => map.entries[i].name # map.entries[j].name
        /\ Keeps(Profile, map) /\ Keeps(Profile, regions)
        /\ Alike(Profile, map) /\ Alike(Profile, regions)
        /\ booting /\ ~Unsayable(map) => ReadsOn(map, capture, regions, region_capture, rest)
    BY DEF SavedInv
  <1>3. Keeps(Profile, regions') /\ Alike(Profile, regions')
    BY <1>2, ProfileKept, KindsKept
  <1>4. CASE WrittenOf(regions', region_capture') /\ booting' = FALSE
    <2>1. Sound(regions', chosen')
      BY RegionsStep DEF RegionsInv
    <2>2. /\ file' = Text(saved'.regions, saved'.capture)
          /\ Len(saved'.regions.entries) <= MaxRegions
          /\ \A i, j \in DOMAIN saved'.regions.entries :
               i # j => saved'.regions.entries[i].name # saved'.regions.entries[j].name
          /\ Keeps(Profile, saved'.regions) /\ Alike(Profile, saved'.regions)
      BY <1>3, <1>4, <2>1, WrittenSaved
    <2>3. QED
      BY <1>3, <1>4, <2>2 DEF SavedInv
  <1>5. CASE file' = file /\ saved' = saved
    <2>1. map' = map /\ capture' = capture
      BY <1>5
    <2>2. ASSUME booting', ~Unsayable(map)
          PROVE  ReadsOn(map, capture, regions', region_capture', rest')
      <3>1. CASE Reboot
        <4>1. regions' = Profile /\ region_capture' = ProfileCapture /\ rest' = Text(map, capture)
          BY <1>2, <3>1 DEF Reboot
        <4>2. ReadsOn(map, capture, Profile, ProfileCapture, Text(map, capture))
          <5>1. Alike(map, Profile)
            BY <1>2 DEF Alike
          <5>2. QED
            BY <1>1, <1>2, <2>2, <5>1, TextReads DEF Keeps
        <4>3. QED
          BY <4>1, <4>2
      <3>2. CASE ReadLine
        <4>1. booting /\ rest # <<>>
          BY <3>2 DEF ReadLine
        <4>2. ReadsOn(map, capture, regions, region_capture, rest)
          BY <1>2, <2>2, <4>1
        <4> HIDE DEF map, capture
        <4>3. QED
          BY <1>1, <1>2, <2>2, <3>2, <4>1, <4>2, ReadsOnStep DEF Keeps
      <3>3. CASE UNCHANGED regionVars
        <4>1. booting /\ regions' = regions /\ region_capture' = region_capture /\ rest' = rest
          BY <2>2, <3>3 DEF regionVars
        <4>2. QED
          BY <1>2, <2>2, <4>1
      <3>4. CASE ReadFails \/ BootDone
        BY <2>2, <3>4 DEF ReadFails, BootDone
      <3>5. CASE PutRegion \/ RemoveRegion \/ SetRegionFlood \/ SetDefaultRegion \/ SetCapture
        <4>1. ~booting /\ booting' = booting
          BY <3>5 DEF PutRegion, RemoveRegion, SetRegionFlood, SetDefaultRegion, SetCapture, Accept
        <4>2. QED
          BY <2>2, <4>1
      <3>6. QED
        BY <3>1, <3>2, <3>3, <3>4, <3>5 DEF RegionsNext
    <2>3. QED
      BY <1>2, <1>3, <1>5, <2>1, <2>2 DEF SavedInv
  <1>6. QED
    BY <1>4, <1>5, WritesOrNot

\* A table read to the end of the file is the one that was saved.
LEMMA ReadToTheEnd ==
  ASSUME NEW map \in RegionMaps, NEW capture, NEW now, NEW nowCapture, NEW default,
         Sound(now, default),
         \A i, j \in DOMAIN map.entries : i # j => map.entries[i].name # map.entries[j].name,
         ReadsOn(map, capture, now, nowCapture, <<>>)
  PROVE  SameRegions(now, map) /\ nowCapture = capture
  <1>1. \A any : any \notin Range(<<>>)
    BY DEF Range
  <1>2. /\ DefaultName(now) = DefaultName(map) /\ now.wildcard_denied = map.wildcard_denied
        /\ nowCapture = capture
        /\ \A i \in DOMAIN map.entries : Has(now, map.entries[i].name, map.entries[i].denied)
        /\ \A name \in Names : Knows(now, name) => Knows(map, name)
        /\ Alike(map, now)
    BY <1>1 DEF ReadsOn
  <1>3. /\ now \in RegionMaps
        /\ \A i, j \in DOMAIN now.entries : i # j => now.entries[i].name # now.entries[j].name
    BY DEF Sound
  <1>4. \A i \in DOMAIN map.entries, j \in DOMAIN now.entries :
          now.entries[j].name = map.entries[i].name =>
            now.entries[j].private = map.entries[i].private
    <2>1. /\ \A i \in DOMAIN map.entries :
               map.entries[i].name \in Names /\ map.entries[i].private \in BOOLEAN
          /\ \A j \in DOMAIN now.entries : now.entries[j].private \in BOOLEAN
      BY <1>3, MapFacts
    <2>2. QED
      BY <1>2, <2>1 DEF Alike, OfKind
  <1>5. ASSUME NEW i \in DOMAIN map.entries
        PROVE  \E j \in DOMAIN now.entries : /\ now.entries[j].name = map.entries[i].name
                                             /\ now.entries[j].denied = map.entries[i].denied
                                             /\ now.entries[j].private = map.entries[i].private
    BY <1>2, <1>4 DEF Has
  <1>6. ASSUME NEW j \in DOMAIN now.entries
        PROVE  \E i \in DOMAIN map.entries : /\ now.entries[j].name = map.entries[i].name
                                             /\ now.entries[j].denied = map.entries[i].denied
                                             /\ now.entries[j].private = map.entries[i].private
    <2>1. now.entries[j].name \in Names /\ Knows(now, now.entries[j].name)
      BY <1>3, MapFacts DEF Knows, Positions
    <2>2. PICK i \in DOMAIN map.entries : map.entries[i].name = now.entries[j].name
      BY <1>2, <2>1 DEF Knows, Positions
    <2>3. PICK k \in DOMAIN now.entries : /\ now.entries[k].name = map.entries[i].name
                                          /\ now.entries[k].denied = map.entries[i].denied
      BY <1>5
    <2>4. k = j
      BY <1>3, <2>2, <2>3
    <2>5. QED
      BY <1>4, <2>2, <2>3, <2>4
  <1>7. Flags(now) \subseteq Flags(map)
    BY <1>6 DEF Flags
  <1>8. Flags(map) \subseteq Flags(now)
    BY <1>5 DEF Flags
  <1>9. QED
    BY <1>2, <1>7, <1>8 DEF SameRegions

\* RegionsReadBack: every line that a boot comes to can be read, and the last leaves
\* the regions, flags, default and capture that were saved, unless the file cannot say
\* them; whatever the profile has, and however close the table and the ids are to
\* their limits.
THEOREM SavedReadBack == RegionsSpec => []RegionsReadBack
<1>1. ASSUME RegionsInit, RegionsInv
      PROVE  SavedInv
  <2>1. /\ saved.regions = Profile /\ saved.capture = ProfileCapture
        /\ regions = Profile /\ booting = FALSE /\ file = Text(Profile, ProfileCapture)
    BY <1>1 DEF RegionsInit
  <2>2. Alike(Profile, Profile)
    BY ProfileAssumption DEF Alike, OfKind
  <2>3. QED
    BY <2>1, <2>2, ProfileAssumption DEF SavedInv, Keeps
<1>2. ASSUME RegionsInv, SavedInv
      PROVE  RegionsReadBack
  <2>1. SUFFICES ASSUME booting, ~Unsayable(saved.regions)
                 PROVE  IF rest = <<>>
                        THEN /\ SameRegions(regions, saved.regions)
                             /\ region_capture = saved.capture
                        ELSE Readable(Head(rest))
    BY DEF RegionsReadBack
  <2>2. /\ Sound(regions, chosen) /\ region_capture \in BOOLEAN /\ rest \in Seq(Lines)
        /\ saved.regions \in RegionMaps /\ saved.capture \in BOOLEAN
    BY <1>2 DEF RegionsInv, RegionsTypeOK
  <2>3. /\ Len(saved.regions.entries) <= MaxRegions
        /\ \A i, j \in DOMAIN saved.regions.entries :
             i # j => saved.regions.entries[i].name # saved.regions.entries[j].name
        /\ \A name \in Names :
             Knows(Profile, name) => Knows(saved.regions, name) /\ Knows(regions, name)
        /\ ReadsOn(saved.regions, saved.capture, regions, region_capture, rest)
    BY <1>2, <2>1 DEF SavedInv, Keeps
  <2>4. CASE rest = <<>>
    BY <2>2, <2>3, <2>4, ReadToTheEnd
  <2>5. CASE rest # <<>>
    BY <2>1, <2>2, <2>3, <2>5, ReadsOnStep
  <2>6. QED
    BY <2>4, <2>5
<1>3. RegionsSpec => []SavedInv
  <2>1. RegionsSpec => RegionsInv /\ SavedInv
    BY <1>1, RegionsInvariant, PTL DEF RegionsSpec
  <2>2. QED
    BY <2>1, RegionsInvariant, SavedStep, PTL DEF RegionsSpec
<1>4. QED
  BY <1>2, <1>3, RegionsInvariant, PTL
==============================================================================
