--------------------------------- MODULE MCMesh --------------------------------
(* Four repeaters and what each may send first: `a` captures to a region it  *)
(* allows, `b` to a private one, `c` to a denied one, `d` does not capture; c*)
(* and d detect no loops; the first bytes of the keys of a and c are equal.  *)
EXTENDS Mesh

CONSTANTS a, b, c, d, home, far, secret

MCNodes == {a, b, c, d}
MCNames == {home, far, secret}
MCBegins == [name \in MCNames |-> {name}]
MCPrivate == {secret}
MCSizes == {1, 2}
MCHash ==
  [size \in MCSizes |->
     [node \in MCNodes |-> IF size = 1 /\ node = c THEN <<1, a>> ELSE <<size, node>>]]
MCLinks ==
  {<<a, b>>, <<b, a>>, <<b, d>>, <<d, a>>, <<c, d>>, <<d, c>>}
MCSnr ==
  [link \in MCLinks |->
     IF link[1] = b THEN 200 ELSE IF link[2] = b THEN -140 ELSE IF link[1] = a THEN -40 ELSE 8]

Region(id, name, denied) ==
  [id |-> id, name |-> name, private |-> name = secret, denied |-> denied]
Regions(default, wildcard_denied, entries) ==
  [next_id |-> 4, default_id |-> default, wildcard_denied |-> wildcard_denied,
   entries |-> entries]

MCConfig ==
  [node \in MCNodes |->
     CASE node = a ->
            [repeat |-> TRUE, capture |-> TRUE, loop |-> "strict",
             regions |-> Regions(1, TRUE, <<Region(1, home, FALSE)>>),
             max_unscoped |-> 3, max_advert |-> 2]
       [] node = b ->
            [repeat |-> TRUE, capture |-> TRUE, loop |-> "moderate",
             regions |-> Regions(3, FALSE, <<Region(1, home, FALSE), Region(2, far, FALSE),
                                             Region(3, secret, FALSE)>>),
             max_unscoped |-> 3, max_advert |-> 3]
       [] node = c ->
            [repeat |-> TRUE, capture |-> TRUE, loop |-> "off",
             regions |-> Regions(1, FALSE, <<Region(1, home, TRUE), Region(2, far, FALSE)>>),
             max_unscoped |-> 3, max_advert |-> 3]
       [] node = d ->
            [repeat |-> TRUE, capture |-> FALSE, loop |-> "off",
             regions |-> Regions(0, FALSE, <<Region(1, home, FALSE), Region(2, far, FALSE)>>),
             max_unscoped |-> 3, max_advert |-> 3]]

Kinds == {"advert", "trace", "unsupported", "other"}
MCPayloads == {[kind |-> kind, len |-> 10] : kind \in Kinds} \cup {[kind |-> "other", len |-> 14]}

Sending(by, route, scope, kind, len, size, path, asked) ==
  [by |-> by,
   packet |-> [route |-> route, scope |-> scope, payload |-> [kind |-> kind, len |-> len],
               size |-> size, path |-> path, asked |-> asked, samples |-> <<>>]]

Ways(size) ==
  {<<MCHash[size][b]>>, <<MCHash[size][b], MCHash[size][d], MCHash[size][c]>>,
   <<MCHash[size][b], MCHash[size][a], MCHash[size][b]>>}

MCSendings ==
  {Sending(by, "flood", NoName, kind, 10, size, <<>>, <<>>) :
     by \in {b, c, d}, kind \in {"advert", "other"}, size \in MCSizes}
  \cup {Sending(a, "transport_flood", scope, "other", len, 2, <<>>, <<>>) :
          scope \in {home, far}, len \in {10, 14}}
  \cup {Sending(a, "flood", NoName, "unsupported", 10, 1, <<>>, <<>>)}
  \cup {Sending(a, "direct", NoName, "other", 10, 1, way, <<>>) : way \in Ways(1)}
  \cup {Sending(a, "transport_direct", home, "other", 10, 2, way, <<>>) : way \in Ways(2)}
  \cup {Sending(a, "direct", NoName, "trace", 10, size, <<>>, way) :
          size \in MCSizes, way \in Ways(1) \cup Ways(2)}
==============================================================================
