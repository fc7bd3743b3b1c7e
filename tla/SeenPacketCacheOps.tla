-------------------------- MODULE SeenPacketCacheOps --------------------------
(***************************************************************************)
(* The methods of SeenPacketCache (protocol/src/seen_packet_cache.rs) as   *)
(* operators on its entries: a queue of packet signatures, each with the   *)
(* time it was last touched, bounded in length by max_entries and, through *)
(* prune, in age by ttl_ticks.  prune only looks at the front of the queue *)
(* and touch only evicts there: both rely on the order of the queue.       *)
(***************************************************************************)
EXTENDS Integers, Sequences, FiniteSetsExt

CONSTANTS
  ttl_ticks,    \* how long a signature is remembered
  max_entries   \* how many are remembered

ASSUME CacheAssumption == ttl_ticks \in Nat /\ max_entries \in Nat

Expired(entry, now) == now - entry.at > ttl_ticks

\* The first entry that has not expired, or the place after the last one.
FirstLive(entries, now) ==
  Min({i \in DOMAIN entries : ~Expired(entries[i], now)} \cup {Len(entries) + 1})

Prune(entries, now) == SubSeq(entries, FirstLive(entries, now), Len(entries))

Holds(entries, signature) == \E i \in DOMAIN entries : entries[i].signature = signature

\* contains() prunes; this is what it answers.
ContainsSignature(entries, signature, now) == Holds(Prune(entries, now), signature)

\* The entries without the first one for the signature.
Without(entries, signature) ==
  IF Holds(entries, signature)
  THEN LET i == Min({j \in DOMAIN entries : entries[j].signature = signature})
       IN SubSeq(entries, 1, i - 1) \o SubSeq(entries, i + 1, Len(entries))
  ELSE entries

\* The newest entries, so that one more fits.
Trim(entries) ==
  IF Len(entries) < max_entries
  THEN entries
  ELSE SubSeq(entries, Len(entries) - max_entries + 2, Len(entries))

\* A touch that leaves a signature it finds where it is.
TouchInPlace(entries, signature, now) ==
  IF max_entries = 0 THEN entries
  ELSE IF Holds(entries, signature)
  THEN [i \in DOMAIN entries |->
          IF entries[i].signature = signature THEN [entries[i] EXCEPT !.at = now] ELSE entries[i]]
  ELSE Append(Trim(entries), [signature |-> signature, at |-> now])

Touch(entries, signature, now) ==
  IF max_entries = 0
  THEN Without(entries, signature)
  ELSE Append(Trim(Without(entries, signature)), [signature |-> signature, at |-> now])
==============================================================================
