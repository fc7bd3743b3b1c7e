----------------------------- MODULE Neighbourhood -----------------------------
(***************************************************************************)
(* How a node gets to know its neighbours: the adverts it hears directly,  *)
(* and the answers to its own `discover.neighbours`, which counts for a    *)
(* minute.  What is heard waits in the inbound queue for the handler; the  *)
(* command waits for the configuration before it queues the request.       *)
(***************************************************************************)
EXTENDS NeighbourTable, Uptime, FiniteSets

CONSTANTS
  Keys,               \* the nodes in reach, this one included
  Responders,         \* those that answer a discovery
  Far,                \* those that are also heard through others, or badly
  Snr,                \* Snr[key]: what it is heard with, in quarters of a dB
  inbound_queue_len,
  DISCOVER_NEIGHBOURS_TTL_MS,
  MaxAsking,          \* bound: consoles that run the command at a time
  MaxTime,            \* bound: the clock stops here
  KeyLengths, Counts    \* what requests for the table ask for

ASSUME NeighbourhoodAssumption ==
  /\ IsFiniteSet(Keys) /\ Responders \subseteq Keys
  /\ {max_neighbours, inbound_queue_len, DISCOVER_NEIGHBOURS_TTL_MS} \subseteq Nat
  /\ MaxTime \in Nat \ {0}
  /\ Snr \in [Keys -> Int]
  /\ Counts \subseteq Nat \ {0} /\ KeyLengths \subseteq Nat /\ MaxResults \in Nat
  /\ \A prefix \in KeyLengths : prefix + 5 <= MaxResults

VARIABLES
  neighbours,  \* NeighbourTable
  pending,     \* pending_discover
  asking,      \* now_ms of the commands that have not queued their request
  inbound,     \* RxEvents
  asked,       \* history: now_ms of the request that was last queued, or Never
  heard        \* history: when each node was last heard as a neighbour, or Never

neighbourVars == <<neighbours, pending, asking, inbound, asked, heard>>

Never == -1
NoDiscover == [tag |-> 0, expires_at_ms |-> 0]

\* discovery_tag: never 0.
Tag(at) == IF at = 0 THEN 1 ELSE at

\* near: zero hops so far.  sound: from a repeater, with its whole key; the
\* signature of an advert is right.
Adverts == [kind : {"advert"}, key : Keys, tag : {0}, near : BOOLEAN, sound : BOOLEAN]
Responses ==
  [kind : {"response"}, key : Responders, tag : 1 .. MaxTime, near : BOOLEAN, sound : BOOLEAN]

NeighbourhoodInit ==
  /\ neighbours = <<>> /\ pending = NoDiscover /\ asking = {} /\ inbound = <<>>
  /\ asked = Never /\ heard = [key \in Keys |-> Never]

-------------------------------------------------------------------------------
\* discover.neighbours: the time, and with it the tag, is taken first.
AskNeighbours ==
  /\ Cardinality(asking) < MaxAsking
  /\ asking' = asking \cup {now}
  /\ UNCHANGED <<now, neighbours, pending, inbound, asked, heard>>

\* A discovery in progress goes on.
StartDiscoverOnce(at) ==
  pending' = IF pending = NoDiscover \/ now > pending.expires_at_ms
             THEN [tag |-> Tag(at), expires_at_ms |-> at + DISCOVER_NEIGHBOURS_TTL_MS]
             ELSE pending

StartDiscover(at) ==
  pending' = [tag |-> Tag(at), expires_at_ms |-> at + DISCOVER_NEIGHBOURS_TTL_MS]

QueueDiscover ==
  \E at \in asking :
    /\ StartDiscover(at)
    /\ asking' = asking \ {at} /\ asked' = at
    /\ UNCHANGED <<now, neighbours, inbound, heard>>

\* The outbound queue is full.
RefuseDiscover ==
  \E at \in asking :
    /\ asking' = asking \ {at}
    /\ UNCHANGED <<now, neighbours, pending, inbound, asked, heard>>

\* Received, unless the inbound queue is full.  An answer bears a tag somebody
\* nearby has asked with, and may come late or again.
Hear ==
  /\ Len(inbound) < inbound_queue_len
  /\ \E event \in Adverts \cup Responses :
       /\ event.kind = "response" => event.tag <= Tag(now)
       /\ (event.near /\ event.sound) \/ (event.key \in Far /\ event.near # event.sound)
       /\ inbound' = Append(inbound, [event |-> event, received_at_ms |-> now])
  /\ UNCHANGED <<now, neighbours, pending, asking, asked, heard>>

\* accept_discover_response
AcceptsResponse(tag, at) ==
  /\ pending # NoDiscover
  /\ at <= pending.expires_at_ms
  /\ pending.tag = tag

\* An answer that comes too late ends the discovery.
AfterResponse(at) ==
  IF pending # NoDiscover /\ at > pending.expires_at_ms THEN NoDiscover ELSE pending

Observes(event, at) ==
  event.near /\ event.sound
    /\ (event.kind = "response" => AcceptsResponse(event.tag, at))

\* The node in the event is a neighbour, as the commands given tell.
CountsAsHeard(event, at) ==
  /\ event.near /\ event.sound
  /\ event.kind = "response" =>
       asked # Never /\ event.tag = Tag(asked) /\ at <= asked + DISCOVER_NEIGHBOURS_TTL_MS

\* handle_rx_event
HandleHeard ==
  /\ inbound # <<>>
  /\ LET event == Head(inbound).event at == Head(inbound).received_at_ms
     IN /\ neighbours' = IF Observes(event, at)
                         THEN Observe(neighbours, event.key, Snr[event.key], at)
                         ELSE neighbours
        /\ pending' = IF event.kind = "response" /\ event.near /\ event.sound
                      THEN AfterResponse(at) ELSE pending
        /\ heard' = IF CountsAsHeard(event, at) /\ event.key # Own
                    THEN [heard EXCEPT ![event.key] = at] ELSE heard
  /\ inbound' = Tail(inbound)
  /\ UNCHANGED <<now, asking, asked>>

NeighbourhoodNext ==
  \/ AskNeighbours \/ QueueDiscover \/ RefuseDiscover \/ Hear \/ HandleHeard
  \/ Passes(MaxTime) /\ UNCHANGED neighbourVars

NeighbourhoodSpec ==
  now = 0 /\ NeighbourhoodInit /\ [][NeighbourhoodNext]_<<now, neighbourVars>>

-------------------------------------------------------------------------------
(* Properties *)

Neighbours == [key : Keys \ {Own}, seen : 0 .. MaxTime, snr : {Snr[key] : key \in Keys}]

\* The types of the variables; a node is not its own neighbour.
NeighbourhoodTypeOK ==
  /\ neighbours \in Seq(Neighbours) /\ Len(neighbours) <= max_neighbours
  /\ pending \in [tag : 0 .. MaxTime, expires_at_ms : 0 .. MaxTime + DISCOVER_NEIGHBOURS_TTL_MS]
  /\ asking \subseteq 0 .. MaxTime
  /\ Len(inbound) <= inbound_queue_len
  /\ asked \in {Never} \cup (0 .. MaxTime)

\* The nodes that were ever heard as neighbours, and those in the table.
Known == {key \in Keys : heard[key] # Never}
Listed == {neighbours[i].key : i \in DOMAIN neighbours}

\* The table holds the nodes heard last, each once and with the time it was last
\* heard at: those heard directly and those that answered the request queued last
\* within its minute.  None that was heard later had to give place.
TableIsLatest ==
  /\ Listed \subseteq Known
  /\ Cardinality(Listed) = Len(neighbours)
  /\ Len(neighbours) = (IF Cardinality(Known) < max_neighbours THEN Cardinality(Known)
                        ELSE max_neighbours)
  /\ \A i \in DOMAIN neighbours :
       /\ neighbours[i].seen = heard[neighbours[i].key]
       /\ \A key \in Known \ Listed : heard[key] <= neighbours[i].seen

\* With two consoles asking, and requests refused or answered late, an answer is
\* taken exactly if it is to the request queued last and came in its minute: an
\* answer to one before, or one too late, changes nothing.
AnswersToTheLatest ==
  [][inbound # <<>> /\ inbound' = Tail(inbound) /\ Head(inbound).event.kind = "response"
       => Observes(Head(inbound).event, Head(inbound).received_at_ms)
            = CountsAsHeard(Head(inbound).event, Head(inbound).received_at_ms)]_neighbourVars

\* The pages, each asked for from where those before it ended: no more requests
\* than neighbours.
Pages(order, count, prefix) ==
  LET got[requests \in 0 .. Len(neighbours)] ==
        IF requests = 0 THEN <<>>
        ELSE LET before == got[requests - 1]
             IN before \o Page(neighbours, order, Len(before), count, prefix)
  IN got[Len(neighbours)]

\* Whatever a client asks for a page, its pages together are the table, in the
\* order asked for, and no page is longer than its packet has room for.
PagesMakeTable ==
  \A order \in Orders, count \in Counts, prefix \in KeyLengths :
    LET pages == Pages(order, count, prefix)
    IN /\ Len(Page(neighbours, order, 0, count, prefix)) * (prefix + 5) <= MaxResults
       /\ ToSet(pages) = ToSet(neighbours) /\ Len(pages) = Len(neighbours)
       /\ \A i \in 1 .. Len(pages) - 1 : ~Precedes(pages[i + 1], pages[i], order)

\* The neighbours listed are those heard last, by adverts and by answers that count.
NeighboursKept == [](NeighbourhoodTypeOK /\ TableIsLatest) /\ AnswersToTheLatest
==============================================================================
