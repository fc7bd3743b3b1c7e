---------------------------------- MODULE Mesh ---------------------------------
(***************************************************************************)
(* Repeaters that hear one another: each handles what it has heard by the  *)
(* rules of Forwarding, keeps forwards in its outbound queue until they    *)
(* are sent or given up, and remembers what it has sent for a while.  Any  *)
(* transmission may be missed by any of those in range.                    *)
(***************************************************************************)
EXTENDS Forwarding

CONSTANTS
  Links,     \* pairs of nodes, the second in range of the first
  Snr,       \* Snr[link]: at which the second hears the first, in quarters of a dB
  Config,    \* Config[node]: its settings
  Sendings   \* the packets that nodes and clients first send, with their sender

\* Packet::encode accepts it.
Fits(packet) ==
  /\ Len(packet.path) * packet.size <= MaxPathBytes
  /\ Len(packet.path) <= MaxHops /\ Len(packet.samples) <= MaxHops
  /\ EncodedLen(packet) <= MaxUnit

ASSUME MeshAssumption ==
  /\ Links \subseteq Nodes \X Nodes
  /\ Snr \in [Links -> Int]
  /\ Config \in [Nodes -> Settings]
  /\ \A sending \in Sendings :
       /\ sending.by \in Nodes /\ sending.packet \in Packets
       /\ sending.packet.samples = <<>>
       /\ sending.packet.route \in Floods => sending.packet.path = <<>>
       /\ Fits(sending.packet)

\* A copy of a packet: with its first form and, as history, the nodes that have
\* sent it, in order.
Copy(packet, first, via) == [packet |-> packet, first |-> first, via |-> via]

\* Of a node's own packet no signature is kept.
NoSignature == [own |-> TRUE]

VARIABLES
  heard,   \* inbound: copies at nodes, with the SNR they were heard at
  queue,   \* outbound: copies at nodes with their signatures
  seen     \* seen[node]: signatures remembered

vars == <<heard, queue, seen>>

Init ==
  /\ heard = {}
  /\ \E sending \in Sendings :
       queue = {[at |-> sending.by, signature |-> NoSignature,
                 copy |-> Copy(sending.packet, sending.packet, <<>>)]}
  /\ seen = [node \in Nodes |-> {}]

\* is_seen_or_pending
SeenOrPending(node, signature) ==
  \/ signature \in seen[node]
  \/ \E item \in queue : item.at = node /\ item.signature = signature

\* handle_rx_event: queued, or dropped by the rules or as a duplicate.
Handle ==
  \E event \in heard :
    LET packet == event.copy.packet
        node == Config[event.at]
        signature == ForwardSignature(node, packet)
        forwards == Forwards(node, Hash[packet.size][event.at], event.snr, packet)
    IN /\ heard' = heard \ {event}
       /\ queue' = queue \cup
            (IF SeenOrPending(event.at, signature) THEN {}
             ELSE {[at |-> event.at, signature |-> signature,
                    copy |-> [event.copy EXCEPT !.packet = forward]] : forward \in forwards})
       /\ UNCHANGED seen

\* History, no longer than a packet can go.
Sent(copy, node) ==
  [copy EXCEPT !.via = IF Len(@) <= MaxHops THEN Append(@, node) ELSE @]

\* Any that is queued may be next: delays differ.
Transmit ==
  \E item \in queue :
    \E hearers \in SUBSET {node \in Nodes : <<item.at, node>> \in Links} :
      /\ queue' = queue \ {item}
      /\ seen' = [seen EXCEPT ![item.at] = @ \cup ({item.signature} \ {NoSignature})]
      /\ heard' = heard \cup
           {[at |-> node, snr |-> Snr[<<item.at, node>>],
             copy |-> Sent(item.copy, item.at)] : node \in hearers}

\* Failed too often: not remembered.
GiveUp ==
  \E item \in queue :
    /\ queue' = queue \ {item}
    /\ UNCHANGED <<heard, seen>>

\* A signature too old, or displaced by others.
Forget ==
  \E node \in Nodes : \E signature \in seen[node] :
    /\ seen' = [seen EXCEPT ![node] = @ \ {signature}]
    /\ UNCHANGED <<heard, queue>>

Next == Handle \/ Transmit \/ GiveUp \/ Forget

\* Each node's handler and radio task run on; caches need not forget.
Fairness == WF_vars(Handle) /\ WF_vars(Transmit)

Spec == Init /\ [][Next]_vars /\ Fairness

-------------------------------------------------------------------------------
(* Properties *)

\* Every copy there is.
Copies == {event.copy : event \in heard} \cup {item.copy : item \in queue}

\* The types of the variables: no path outgrows the length byte and the buffer it
\* is kept in, and no forward the frame.
TypeOK ==
  /\ \A event \in heard : event.at \in Nodes /\ event.snr \in Int
  /\ \A item \in queue : item.at \in Nodes
  /\ \A copy \in Copies :
       /\ copy.packet \in Packets /\ copy.first \in Packets
       /\ copy.via \in Seq(Nodes)
       /\ Fits(copy.packet)
  /\ DOMAIN seen = Nodes

\* The nodes that have sent a copy on, and the one that is about to.
Senders(item) == Append(item.copy.via, item.at)

HashesOf(nodes, size) == [i \in DOMAIN nodes |-> Hash[size][nodes[i]]]

\* A copy's path is the way it came: of a flood the hashes of those that sent it
\* on, in order; of a direct packet or a trace what was asked for, hop by hop,
\* none skipped or taken twice, whatever hashes collide.
PathIsWay ==
  \A item \in queue :
    LET packet == item.copy.packet
        hops == HashesOf(Tail(Senders(item)), packet.size)
    IN CASE IsTrace(packet) ->
              /\ Len(packet.samples) = Len(hops)
              /\ hops = SubSeq(packet.asked, 1, Len(hops))
         [] packet.route \in Floods /\ ~IsTrace(packet) -> packet.path = hops
         [] packet.route \in Directs /\ ~IsTrace(packet) ->
              hops \o packet.path = item.copy.first.path

\* A trace reports for each hop the SNR at which that hop heard the one before.
SamplesAreMeasured ==
  \A item \in queue :
    LET senders == Senders(item) samples == item.copy.packet.samples
    IN \A i \in DOMAIN samples :
         samples[i] = Clamp(Snr[<<senders[i], senders[i + 1]>>])

\* Everyone who sends a flood on allows the region it is then scoped to, or
\* unscoped floods if it is not: a captured packet's region included.
ScopeIsRespected ==
  \A item \in queue :
    LET senders == Senders(item) packet == item.copy.packet
    IN packet.route \in Floods =>
         \A i \in 2 .. Len(senders) :
           MatchFlood(Config[senders[i]].regions, packet) # NoName

\* Region capture "automatically scopes non-region traffic that is received
\* directly by the repeater (not forwarded from another repeater) into the default
\* scope" (CONFIG.md): a packet sent unscoped and now scoped was so from its first
\* hop on, by a repeater that captures, to that one's default region.
CapturedAtFirstHop ==
  \A item \in queue :
    LET packet == item.copy.packet senders == Senders(item)
    IN packet.scope # item.copy.first.scope \/ packet.route # item.copy.first.route =>
         /\ item.copy.first.route = "flood"
         /\ Len(senders) > 1
         /\ Config[senders[2]].capture
         /\ packet.scope = DefaultName(Config[senders[2]].regions)

\* With every signature forgotten at once, loop detection alone keeps a flood from
\* going round: no node sends it on more often than its threshold.
LoopsAreBounded ==
  \A item \in queue :
    LET sent == {i \in 2 .. Len(Senders(item)) : Senders(item)[i] = item.at}
    IN item.copy.packet.route \in Floods /\ Config[item.at].loop # "off" =>
         Cardinality(sent) <= Threshold(Config[item.at].loop, item.copy.packet.size)

\* Every packet's copies come to an end, also where loops are not detected and
\* caches forget: paths are of bounded length.
DiesOut == <>[](heard = {} /\ queue = {})

\* What a copy says of its way is true, and fits its frame.
CopiesAreTrue == TypeOK /\ PathIsWay /\ SamplesAreMeasured

\* Scopes are given once, and kept to by all that send on.
ScopesAreKept == ScopeIsRespected /\ CapturedAtFirstHop
==============================================================================
