----------------------------- MODULE StorePromise -----------------------------
(***************************************************************************)
(* What the Storage trait of platform/mod.rs promises of a file: to        *)
(* replace it, so that "a power cut leaves either the old or the new       *)
(* contents" and a replacement that was reported stays.                    *)
(***************************************************************************)
CONSTANT NoRequest  \* no replacement is asked for

VARIABLES
  possible,  \* the contents a power cut may leave
  request,   \* the contents asked for
  outcome    \* of the last request: "stored" when it was reported so

vars == <<possible, request, outcome>>

Init ==
  /\ \E contents \in possible : possible = {contents}
  /\ request = NoRequest
  /\ outcome = "none"

Ask ==
  /\ request = NoRequest
  /\ request' # NoRequest
  /\ outcome' # "stored"
  /\ UNCHANGED possible

\* The old contents, the new or both, until the request is answered.
Work ==
  /\ request # NoRequest
  /\ possible' # {}
  /\ possible' \subseteq possible \cup {request}
  /\ UNCHANGED <<request, outcome>>

Store ==
  /\ request # NoRequest
  /\ possible' = {request}
  /\ request' = NoRequest

\* A failure leaves it open which of the contents stay.
Fail ==
  /\ request' = NoRequest
  /\ outcome' # "stored"
  /\ UNCHANGED possible

PowerCut ==
  /\ \E contents \in possible : possible' = {contents}
  /\ request' = NoRequest
  /\ outcome' # "stored"

Next == Ask \/ Work \/ Store \/ Fail \/ PowerCut

Spec == Init /\ [][Next]_vars
==============================================================================
