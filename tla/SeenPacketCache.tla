--------------------------- MODULE SeenPacketCache ---------------------------
(***************************************************************************)
(* The seen-packet cache under any sequence of calls of its public         *)
(* methods, with a history of the touches to compare its answers with.     *)
(***************************************************************************)
EXTENDS SeenPacketCacheOps, Uptime, FiniteSets

CONSTANTS
  Signatures,  \* packet signatures
  MaxCacheTime      \* bound: the clock stops here

ASSUME TimeAssumption == MaxCacheTime \in Nat

VARIABLES
  entries,  \* the cache
  touched   \* history: when each signature was last touched, or Never, and the
            \* others touched since

cacheVars == <<entries, now, touched>>

Never == -1

CacheInit ==
  /\ entries = <<>>
  /\ now = 0
  /\ touched = [signature \in Signatures |-> [at |-> Never, since |-> {}]]

\* The history after a touch.
Touched(signature) ==
  [other \in Signatures |->
     IF other = signature
     THEN [at |-> now, since |-> {}]
     ELSE [touched[other] EXCEPT !.since = @ \cup {signature}]]

TouchIt(kept, signature) ==
  /\ entries' = Touch(kept, signature, now)
  /\ touched' = Touched(signature)
  /\ UNCHANGED now

\* contains(): the answer is ContainsSignature, the expired entries are gone.
QueryContains ==
  /\ entries' = Prune(entries, now)
  /\ UNCHANGED <<now, touched>>

CallTouch(signature) == TouchIt(entries, signature)

CheckAndInsert(signature) ==
  LET pruned == Prune(entries, now)
  IN IF Holds(pruned, signature)
     THEN /\ entries' = pruned
          /\ UNCHANGED <<now, touched>>
     ELSE TouchIt(pruned, signature)

CacheTick ==
  /\ Passes(MaxCacheTime)
  /\ UNCHANGED <<entries, touched>>

CacheNext ==
  \/ QueryContains
  \/ \E signature \in Signatures : CallTouch(signature) \/ CheckAndInsert(signature)
  \/ CacheTick

CacheSpec == CacheInit /\ [][CacheNext]_cacheVars

------------------------------------------------------------------------------
(* Properties *)

\* Type correctness: the queue holds signatures and the times of their touches,
\* none of which is to come.
CacheTypeOK ==
  /\ entries \in Seq([signature : Signatures, at : 0 .. now])
  /\ now \in Nat
  /\ touched \in [Signatures -> [at : Nat \cup {Never}, since : SUBSET Signatures]]

\* Touched, not longer ago than the time to live, and not followed by touches
\* of as many other signatures as the cache has places.
Remembered(signature) ==
  /\ touched[signature].at # Never
  /\ now - touched[signature].at <= ttl_ticks
  /\ Cardinality(touched[signature].since) < max_entries

\* contains() says yes for exactly the signatures to be remembered: pruning
\* from the front never stops before an expired entry, eviction never takes a
\* newer entry before an older one, and nothing else is forgotten.
ContainsIsExact ==
  \A signature \in Signatures :
    ContainsSignature(entries, signature, now) <=> Remembered(signature)

\* The cache stays within its capacity, a capacity of nothing included.
WithinCapacity == Len(entries) <= max_entries

\* The cache is the bounded memory it stands for: it tells exactly the signatures
\* touched last and not long ago, in no more places than it has.
RemembersExactly == CacheTypeOK /\ WithinCapacity /\ ContainsIsExact
==============================================================================
