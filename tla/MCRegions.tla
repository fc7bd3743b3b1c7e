------------------------------- MODULE MCRegions -------------------------------
(* An image with a default region and a denied one; the others begin it,     *)
(* collide with another setting, cannot be written, or read back as others.  *)
EXTENDS Regions

CONSTANTS eng, eng_ne, local, private, bare, hashed, escaped

MCNames == {eng, eng_ne, local, private, bare, hashed, escaped, Capture, Default}
MCBegins ==
  [p \in MCNames |-> CASE p = eng -> {eng, eng_ne} [] p = bare -> MCNames
                       [] OTHER -> {p}]
MCPrivate == {private}
\* `hashed` is `#local`, of which a line leaves `local`.
Plain(name) == [name |-> name, private |-> FALSE]
MCRead ==
  [name \in MCNames |->
     IF name = hashed THEN Plain(local) ELSE [name |-> name, private |-> name = private]]
MCReadValue == [MCRead EXCEPT ![bare] = NoWord]
MCUnreadable == {bare}
MCEscaped == {escaped}
MCProfile ==
  [next_id |-> 3, default_id |-> 1, wildcard_denied |-> TRUE,
   entries |-> <<[id |-> 1, name |-> eng_ne, private |-> FALSE, denied |-> FALSE],
                 [id |-> 2, name |-> local, private |-> FALSE, denied |-> TRUE]>>]
MCCodes == {1, 2}
==============================================================================
