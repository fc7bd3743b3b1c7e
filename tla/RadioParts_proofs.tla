--------------------------- MODULE RadioParts_proofs ---------------------------
(***************************************************************************)
(* Theorems about two parts of the radio task on their own: the            *)
(* seen-packet cache, for every capacity, time to live, set of signatures  *)
(* and bound on the clock, and the airtime budget, for every window, set   *)
(* of duty cycles and airtimes and bound on the clock.                     *)
(***************************************************************************)
EXTENDS AirtimeBudget, SeenPacketCache, RadioLemmas

------------------------------------------------------------------------------
(* The seen-packet cache *)

Entry   == [signature : Signatures, at : 0 .. now]
History == [Signatures -> [at : Nat \cup {Never}, since : SUBSET Signatures]]

\* The queue e is in the order of the touches and tells the history h: an entry
\* has the time of the last touch of its signature, and behind it are exactly
\* the signatures touched since.
Tells(e, h) ==
  /\ Unique(e)
  /\ Len(e) <= max_entries
  /\ \A i, j \in 1 .. Len(e) : i < j => e[i].at <= e[j].at
  /\ \A i \in 1 .. Len(e) : /\ e[i].at = h[e[i].signature].at
                            /\ After(e, i) = h[e[i].signature].since

\* What is to be remembered has an entry.
Complete(e) ==
  \A s \in Signatures : Remembered(s) => \E i \in 1 .. Len(e) : e[i].signature = s

CacheInv ==
  /\ entries \in Seq(Entry) /\ now \in Nat
  /\ touched \in History
  /\ \A s \in Signatures : IsFiniteSet(touched[s].since)
  /\ Tells(entries, touched)
  /\ Complete(entries)

------------------------------------------------------------------------------
(* Pruning *)

\* After a prune the queue still tells the history, what is to be remembered is
\* still there, and nothing that is there has expired.
LEMMA PruneKeeps ==
  ASSUME CacheInv, NEW p, p = Prune(entries, now)
  PROVE  /\ p \in Seq(Entry)
         /\ Tells(p, touched) /\ Complete(p)
         /\ \A i \in 1 .. Len(p) : ~Expired(p[i], now)
  <1>1. /\ entries \in Seq(Entry) /\ now \in Nat /\ Len(entries) \in Nat
        /\ DOMAIN entries = 1 .. Len(entries)
        /\ \A i \in 1 .. Len(entries) : entries[i] \in Entry
        /\ touched \in History
    BY LenProperties, ElementOfSeq DEF CacheInv
  <1>2. /\ Unique(entries) /\ Len(entries) <= max_entries
        /\ \A i, j \in 1 .. Len(entries) : i < j => entries[i].at <= entries[j].at
        /\ \A i \in 1 .. Len(entries) : /\ entries[i].at = touched[entries[i].signature].at
                                        /\ After(entries, i) = touched[entries[i].signature].since
    BY DEF CacheInv, Tells
  <1>3. /\ p \in Seq(Entry)
        /\ \E d \in Nat :
             /\ Suffix(entries, d, p)
             /\ \A i \in DOMAIN entries : ~Expired(entries[i], now) => d < i
             /\ d < Len(entries) => ~Expired(entries[d + 1], now)
    BY <1>1, PruneSuffix
  <1>4. PICK d \in Nat :
          /\ Suffix(entries, d, p)
          /\ \A i \in DOMAIN entries : ~Expired(entries[i], now) => d < i
          /\ d < Len(entries) => ~Expired(entries[d + 1], now)
    BY <1>3
  <1>5. /\ Unique(p)
        /\ \A i \in 1 .. Len(p) :
             /\ i + d \in 1 .. Len(entries) /\ p[i] = entries[i + d]
             /\ After(p, i) = After(entries, i + d)
        /\ \A n \in 1 .. Len(entries) : d < n => n - d \in 1 .. Len(p)
    BY <1>1, <1>2, <1>3, <1>4, SuffixAfter
  <1>6. Len(p) \in Nat /\ Len(p) = Len(entries) - d
    BY <1>3, <1>4, LenProperties DEF Suffix
  <1>7. ASSUME NEW i \in 1 .. Len(p), NEW j \in 1 .. Len(p), i < j
        PROVE  p[i].at <= p[j].at
    <2>1. /\ i + d \in 1 .. Len(entries) /\ p[i] = entries[i + d]
          /\ j + d \in 1 .. Len(entries) /\ p[j] = entries[j + d]
      BY <1>5
    <2>2. d \in Nat /\ i + d < j + d
      BY <1>3, <1>7
    <2>3. QED
      BY <1>2, <2>1, <2>2
  <1>8. ASSUME NEW i \in 1 .. Len(p)
        PROVE  /\ p[i].at = touched[p[i].signature].at
               /\ After(p, i) = touched[p[i].signature].since
    BY <1>2, <1>5
  <1>9. Tells(p, touched)
    <2>1. Len(p) <= max_entries
      BY <1>1, <1>2, <1>6, CacheAssumption
    <2>2. QED
      BY <1>5, <1>7, <1>8, <2>1 DEF Tells
  <1>10. Complete(p)
    <2>1. SUFFICES ASSUME NEW s \in Signatures, Remembered(s)
                   PROVE  \E i \in 1 .. Len(p) : p[i].signature = s
      BY DEF Complete
    <2>2. PICK n \in 1 .. Len(entries) : entries[n].signature = s
      BY <2>1 DEF CacheInv, Complete
    <2>3. ~Expired(entries[n], now)
      <3>1. entries[n].at = touched[s].at /\ now - touched[s].at <= ttl_ticks
            /\ entries[n].at \in Nat
        BY <1>1, <1>2, <2>1, <2>2 DEF Remembered, Entry
      <3>2. QED
        BY <1>1, <3>1, CacheAssumption DEF Expired
    <2>4. n - d \in 1 .. Len(p) /\ n - d + d = n
      BY <1>1, <1>4, <1>5, <2>3
    <2>5. QED
      BY <1>5, <2>2, <2>4
  <1>11. ASSUME NEW i \in 1 .. Len(p) PROVE ~Expired(p[i], now)
    <2>1. /\ i + d \in 1 .. Len(entries) /\ p[i] = entries[i + d]
          /\ d + 1 \in 1 .. Len(entries) /\ d < Len(entries) /\ d + 1 <= i + d
      BY <1>1, <1>5
    <2>2. entries[d + 1].at <= entries[i + d].at
      <3>1. /\ entries[d + 1].at \in Nat /\ entries[i + d].at \in Nat
            /\ (d + 1 < i + d \/ d + 1 = i + d)
        BY <1>1, <2>1 DEF Entry
      <3>2. QED
        BY <1>2, <2>1, <3>1
    <2>3. entries[d + 1].at \in Nat /\ entries[i + d].at \in Nat
      BY <1>1, <2>1 DEF Entry
    <2>4. ~Expired(entries[d + 1], now)
      BY <1>4, <2>1
    <2>5. QED
      BY <1>1, <2>1, <2>2, <2>3, <2>4, CacheAssumption DEF Expired
  <1>12. QED
    BY <1>3, <1>9, <1>10, <1>11

------------------------------------------------------------------------------
(* Touching *)

\* The history after a touch is one, and makes no other signature remembered.
LEMMA TouchedHistory ==
  ASSUME CacheInv, NEW x \in Signatures, touched' = Touched(x), now' = now
  PROVE  /\ touched' \in History
         /\ \A s \in Signatures : IsFiniteSet(touched'[s].since)
         /\ touched'[x] = [at |-> now, since |-> {}]
         /\ \A s \in Signatures \ {x} :
              /\ touched'[s].at = touched[s].at
              /\ touched'[s].since = touched[s].since \cup {x}
              /\ Remembered(s)' => Remembered(s)
  <1> DEFINE R == [at : Nat \cup {Never}, since : SUBSET Signatures]
  <1>1. /\ now \in Nat /\ touched \in [Signatures -> R]
        /\ \A s \in Signatures : IsFiniteSet(touched[s].since)
    BY DEF CacheInv, History
  <1>2. /\ DOMAIN touched' = Signatures
        /\ touched' = [s \in Signatures |-> touched'[s]]
        /\ touched'[x] = [at |-> now, since |-> {}]
        /\ \A s \in Signatures \ {x} :
             touched'[s] = [touched[s] EXCEPT !.since = @ \cup {x}]
    BY DEF Touched
  <1>3. \A s \in Signatures \ {x} :
          /\ touched'[s].at = touched[s].at
          /\ touched'[s].since = touched[s].since \cup {x}
          /\ touched'[s] \in R
    BY <1>1, <1>2
  <1>4. touched'[x] \in R
    BY <1>1, <1>2
  <1>5. touched' \in History
    <2>1. \A s \in Signatures : touched'[s] \in R
      BY <1>3, <1>4
    <2>2. touched' \in [Signatures -> R]
      <3> HIDE DEF R
      <3>1. QED
        BY <1>2, <2>1
    <2>3. QED
      BY <2>2 DEF History
  <1>6. \A s \in Signatures : IsFiniteSet(touched'[s].since)
    <2>1. ASSUME NEW s \in Signatures \ {x} PROVE IsFiniteSet(touched'[s].since)
      <3>1. IsFiniteSet(touched[s].since \cup {x})
        BY <1>1, FS_AddElement
      <3>2. touched'[s].since = touched[s].since \cup {x}
        BY <1>3
      <3>3. QED
        BY <3>1, <3>2
    <2>2. IsFiniteSet(touched'[x].since)
      BY <1>2, FS_EmptySet
    <2>3. QED
      BY <2>1, <2>2
  <1>7. ASSUME NEW s \in Signatures \ {x}, Remembered(s)' PROVE Remembered(s)
    <2>1. /\ touched[s].at # Never /\ now - touched[s].at <= ttl_ticks
          /\ Cardinality(touched[s].since \cup {x}) < max_entries
      BY <1>3, <1>7 DEF Remembered
    <2>2. /\ IsFiniteSet(touched[s].since \cup {x})
          /\ touched[s].since \subseteq touched[s].since \cup {x}
      BY <1>1, FS_AddElement
    <2>3. /\ Cardinality(touched[s].since) <= Cardinality(touched[s].since \cup {x})
          /\ Cardinality(touched[s].since) \in Nat
          /\ Cardinality(touched[s].since \cup {x}) \in Nat
      BY <1>1, <2>2, FS_Subset, FS_CardinalityType
    <2>4. QED
      BY <2>1, <2>3, CacheAssumption DEF Remembered
  <1>8. QED
    BY <1>2, <1>3, <1>5, <1>6, <1>7

\* A touch of a queue that tells the history leaves one that tells the history
\* with the touch, and what is to be remembered is there.
LEMMA TouchKeeps ==
  ASSUME CacheInv, NEW e \in Seq(Entry), Tells(e, touched), Complete(e),
         NEW x \in Signatures, TouchIt(e, x)
  PROVE  CacheInv'
  <1>1. now \in Nat /\ now' = now /\ touched' = Touched(x) /\ entries' = Touch(e, x, now)
    BY DEF CacheInv, TouchIt
  <1>2. /\ touched' \in History
        /\ \A s \in Signatures : IsFiniteSet(touched'[s].since)
        /\ touched'[x] = [at |-> now, since |-> {}]
        /\ \A s \in Signatures \ {x} :
             /\ touched'[s].at = touched[s].at
             /\ touched'[s].since = touched[s].since \cup {x}
             /\ Remembered(s)' => Remembered(s)
    BY <1>1, TouchedHistory
  <1>3. Entry' = Entry /\ History' = History
    BY <1>1 DEF Entry, History
  <1>4. /\ Unique(e) /\ Len(e) <= max_entries
        /\ \A i, j \in 1 .. Len(e) : i < j => e[i].at <= e[j].at
        /\ \A i \in 1 .. Len(e) : /\ e[i].at = touched[e[i].signature].at
                                  /\ After(e, i) = touched[e[i].signature].since
        /\ Len(e) \in Nat /\ \A i \in 1 .. Len(e) : e[i] \in Entry
    BY LenProperties, ElementOfSeq DEF Tells
  <1>5. CASE max_entries = 0
    <2>1. Len(e) = 0 /\ DOMAIN e = {}
      BY <1>4, <1>5, LenProperties
    <2>2. entries' = e
      BY <1>1, <1>5, <2>1 DEF Touch, Without, Holds
    <2>3. Tells(e, touched')
      BY <1>4, <2>1 DEF Tells
    <2>4. ASSUME NEW s \in Signatures PROVE ~Remembered(s)'
      <3>1. Cardinality(touched'[s].since) \in Nat
        BY <1>2, FS_CardinalityType
      <3>2. QED
        BY <1>5, <3>1 DEF Remembered
    <2>5. QED
      BY <1>1, <1>2, <1>3, <2>2, <2>3, <2>4 DEF CacheInv, Complete
  <1>6. CASE max_entries # 0
    <2> DEFINE t == entries'
    <2>1. [signature |-> x, at |-> now] \in Entry
      BY <1>1 DEF Entry
    <2>2. /\ t \in Seq(Entry) /\ Unique(t) /\ Len(t) \in 1 .. max_entries
          /\ t[Len(t)] = [signature |-> x, at |-> now]
          /\ TouchedFrom(e, x, t)
      BY <1>1, <1>4, <1>6, <2>1, TouchLayout
    <2> HIDE DEF t
    <2>3. PICK from \in [1 .. Len(t) - 1 -> 1 .. Len(e)] :
            /\ \A i \in 1 .. Len(t) - 1 :
                 /\ t[i] = e[from[i]] /\ t[i].signature # x
                 /\ After(t, i) = After(e, from[i]) \cup {x}
            /\ \A i, j \in 1 .. Len(t) - 1 : i < j => from[i] < from[j]
            /\ \A n \in 1 .. Len(e) :
                 /\ e[n].signature # x
                 /\ Cardinality(After(e, n) \cup {x}) < max_entries
                 => \E i \in 1 .. Len(t) - 1 : from[i] = n
      BY <2>2 DEF TouchedFrom
    <2>4. Len(t) \in Nat \ {0} /\ Len(t) <= max_entries
      BY <2>2, CacheAssumption
    <2>5. ASSUME NEW i \in 1 .. Len(t), NEW j \in 1 .. Len(t), i < j
          PROVE  t[i].at <= t[j].at
      <3>1. i \in 1 .. Len(t) - 1 /\ from[i] \in 1 .. Len(e) /\ t[i] = e[from[i]]
        BY <2>3, <2>4, <2>5
      <3>2. CASE j = Len(t)
        <4>1. t[i].at \in 0 .. now /\ t[j].at = now
          BY <1>4, <2>2, <3>1, <3>2 DEF Entry
        <4>2. QED
          BY <1>1, <4>1
      <3>3. CASE j # Len(t)
        <4>1. j \in 1 .. Len(t) - 1
          BY <2>4, <3>3
        <4>2. from[i] < from[j] /\ from[j] \in 1 .. Len(e) /\ t[j] = e[from[j]]
          BY <2>3, <2>5, <3>1, <4>1
        <4>3. QED
          BY <1>4, <3>1, <4>2
      <3>4. QED
        BY <3>2, <3>3
    <2>6. ASSUME NEW i \in 1 .. Len(t)
          PROVE  /\ t[i].at = touched'[t[i].signature].at
                 /\ After(t, i) = touched'[t[i].signature].since
      <3>1. CASE i = Len(t)
        <4>1. After(t, i) = {}
          BY <2>4, <3>1 DEF After
        <4>2. QED
          BY <1>2, <2>2, <3>1, <4>1
      <3>2. CASE i # Len(t)
        <4>1. i \in 1 .. Len(t) - 1 /\ from[i] \in 1 .. Len(e)
          BY <2>3, <2>4, <3>2
        <4>2. t[i] = e[from[i]] /\ t[i].signature # x /\ After(t, i) = After(e, from[i]) \cup {x}
          BY <2>3, <4>1
        <4>3. t[i].signature \in Signatures \ {x}
          BY <1>4, <4>1, <4>2 DEF Entry
        <4>4. QED
          BY <1>2, <1>4, <4>1, <4>2, <4>3
      <3>3. QED
        BY <3>1, <3>2
    <2>7. Tells(t, touched')
      BY <2>2, <2>4, <2>5, <2>6 DEF Tells
    <2>8. ASSUME NEW s \in Signatures, Remembered(s)'
          PROVE  \E i \in 1 .. Len(t) : t[i].signature = s
      <3>1. CASE s = x
        BY <2>2, <2>4, <3>1
      <3>2. CASE s # x
        <4>1. Remembered(s) /\ touched'[s].since = touched[s].since \cup {x}
          BY <1>2, <2>8, <3>2
        <4>2. PICK n \in 1 .. Len(e) : e[n].signature = s
          BY <4>1 DEF Complete
        <4>3. After(e, n) \cup {x} = touched'[s].since
          BY <1>4, <4>1, <4>2
        <4>4. Cardinality(After(e, n) \cup {x}) < max_entries
          BY <2>8, <4>3 DEF Remembered
        <4>5. PICK i \in 1 .. Len(t) - 1 : from[i] = n
          BY <2>3, <3>2, <4>2, <4>4
        <4>6. i \in 1 .. Len(t) /\ t[i] = e[n]
          BY <2>3, <2>4, <4>5
        <4>7. QED
          BY <4>2, <4>6
      <3>3. QED
        BY <3>1, <3>2
    <2>9. t \in Seq(Entry') /\ now' \in Nat /\ touched' \in History'
      BY <1>1, <1>2, <1>3, <2>2
    <2>10. QED
      BY <1>2, <2>7, <2>8, <2>9 DEF CacheInv, Complete, t
  <1>7. QED
    BY <1>5, <1>6

------------------------------------------------------------------------------
(* The theorems *)

LEMMA CacheInvInit ==
  ASSUME CacheInit
  PROVE  CacheInv
  <1>1. /\ entries = <<>> /\ now = 0 /\ Len(<<>>) = 0 /\ entries \in Seq(Entry)
        /\ DOMAIN entries = 1 .. 0
    BY EmptySeq, LenProperties DEF CacheInit
  <1>2. \A s \in Signatures : touched[s] = [at |-> Never, since |-> {}]
    BY DEF CacheInit
  <1>3. touched \in History
    BY DEF CacheInit, History
  <1>4. \A s \in Signatures : IsFiniteSet(touched[s].since) /\ ~Remembered(s)
    BY <1>2, FS_EmptySet DEF Remembered
  <1>5. Tells(entries, touched)
    BY <1>1, CacheAssumption DEF Tells, Unique
  <1>6. QED
    BY <1>1, <1>3, <1>4, <1>5 DEF CacheInv, Complete

LEMMA CacheInvNext ==
  ASSUME CacheInv, [CacheNext]_cacheVars
  PROVE  CacheInv'
  <1> DEFINE p == Prune(entries, now)
  <1>1. /\ p \in Seq(Entry) /\ Tells(p, touched) /\ Complete(p)
        /\ \A i \in 1 .. Len(p) : ~Expired(p[i], now)
    BY PruneKeeps
  <1>2. /\ entries \in Seq(Entry) /\ now \in Nat /\ touched \in History
        /\ \A s \in Signatures : IsFiniteSet(touched[s].since)
        /\ Tells(entries, touched) /\ Complete(entries)
    BY DEF CacheInv
  <1>3. ASSUME entries' = p, UNCHANGED <<now, touched>> PROVE CacheInv'
    <2>1. Entry' = Entry /\ History' = History
      BY <1>3 DEF Entry, History
    <2>2. \A s \in Signatures : Remembered(s)' <=> Remembered(s)
      BY <1>3 DEF Remembered
    <2> HIDE DEF p
    <2>3. \A s \in Signatures : Remembered(s)' => \E i \in 1 .. Len(p) : p[i].signature = s
      BY <1>1, <2>2 DEF Complete
    <2>4. QED
      BY <1>1, <1>2, <1>3, <2>1, <2>3 DEF CacheInv, Complete
  <1> HIDE DEF p
  <1>4. CASE QueryContains
    BY <1>3, <1>4 DEF QueryContains, p
  <1>5. ASSUME NEW x \in Signatures, CallTouch(x) PROVE CacheInv'
    BY <1>2, <1>5, TouchKeeps DEF CallTouch
  <1>6. ASSUME NEW x \in Signatures, CheckAndInsert(x) PROVE CacheInv'
    <2>1. CASE Holds(p, x)
      BY <1>3, <1>6, <2>1 DEF CheckAndInsert, p
    <2>2. CASE ~Holds(p, x)
      <3>1. TouchIt(p, x)
        BY <1>6, <2>2 DEF CheckAndInsert, p
      <3>2. QED
        BY <1>1, <3>1, TouchKeeps
    <2>3. QED
      BY <2>1, <2>2
  <1>7. CASE CacheTick
    <2>1. now' = now + 1 /\ entries' = entries /\ touched' = touched
      BY <1>7 DEF CacheTick, Passes
    <2>2. now' \in Nat /\ Entry \subseteq Entry' /\ History' = History
      BY <1>2, <2>1 DEF Entry, History
    <2>3. entries' \in Seq(Entry')
      BY <1>2, <2>1, <2>2, SeqMonotonic
    <2>4. ASSUME NEW s \in Signatures, Remembered(s)' PROVE Remembered(s)
      <3>1. touched[s].at \in Nat
        BY <1>2, <2>1, <2>4 DEF Remembered, History
      <3>2. QED
        BY <1>2, <2>1, <2>4, <3>1, CacheAssumption DEF Remembered
    <2>5. QED
      BY <1>2, <2>1, <2>2, <2>3, <2>4 DEF CacheInv, Complete
  <1>8. CASE UNCHANGED cacheVars
    BY <1>2, <1>8 DEF CacheInv, Complete, Remembered, Entry, History, cacheVars
  <1>9. QED
    BY <1>4, <1>5, <1>6, <1>7, <1>8 DEF CacheNext

\* What the invariant implies: among other things, that an entry a prune leaves
\* is to be remembered, since fewer entries than places are behind it.
LEMMA CacheInvImplies ==
  ASSUME CacheInv
  PROVE  CacheTypeOK /\ WithinCapacity /\ ContainsIsExact
  <1>1. CacheTypeOK
    BY DEF CacheInv, CacheTypeOK, Entry, History
  <1>2. WithinCapacity
    BY DEF CacheInv, Tells, WithinCapacity
  <1>3. ContainsIsExact
    <2> DEFINE p == Prune(entries, now)
    <2>1. /\ p \in Seq(Entry) /\ Tells(p, touched) /\ Complete(p)
          /\ \A i \in 1 .. Len(p) : ~Expired(p[i], now)
      BY PruneKeeps
    <2>2. SUFFICES ASSUME NEW s \in Signatures PROVE Holds(p, s) <=> Remembered(s)
      BY DEF ContainsIsExact, ContainsSignature
    <2> HIDE DEF p
    <2>3. DOMAIN p = 1 .. Len(p) /\ Len(p) \in Nat /\ \A i \in 1 .. Len(p) : p[i] \in Entry
      BY <2>1, LenProperties, ElementOfSeq
    <2>4. Remembered(s) => Holds(p, s)
      BY <2>1, <2>3 DEF Complete, Holds
    <2>5. ASSUME Holds(p, s) PROVE Remembered(s)
      <3>1. PICK i \in 1 .. Len(p) : p[i].signature = s
        BY <2>3, <2>5 DEF Holds
      <3>2. /\ Unique(p) /\ Len(p) <= max_entries
            /\ p[i].at = touched[s].at /\ After(p, i) = touched[s].since
        BY <2>1, <3>1 DEF Tells
      <3>3. Cardinality(touched[s].since) < max_entries
        <4>1. Cardinality(After(p, i)) = Len(p) - i
          BY <2>1, <3>2, AfterCardinality
        <4>2. QED
          BY <2>3, <3>2, <4>1, CacheAssumption
      <3>4. p[i].at \in Nat /\ ~Expired(p[i], now) /\ now \in Nat
        BY <2>1, <2>3 DEF Entry, CacheInv
      <3>5. QED
        BY <3>2, <3>3, <3>4, CacheAssumption DEF Remembered, Expired, Never
    <2>6. QED
      BY <2>4, <2>5
  <1>4. QED
    BY <1>1, <1>2, <1>3

\* The invariant holds after any sequence of calls.
THEOREM CacheInvariant == CacheSpec => []CacheInv
  <1>1. CacheInit => CacheInv
    BY CacheInvInit
  <1>2. CacheInv /\ [CacheNext]_cacheVars => CacheInv'
    BY CacheInvNext
  <1>3. QED
    BY <1>1, <1>2, PTL DEF CacheSpec

\* The cache holds signatures and times of touches that have been.
THEOREM CacheTypes == CacheSpec => []CacheTypeOK
  <1>1. CacheInv => CacheTypeOK
    BY CacheInvImplies
  <1>2. QED
    BY <1>1, CacheInvariant, PTL

\* The cache never holds more entries than it has places.
THEOREM CapacityKept == CacheSpec => []WithinCapacity
  <1>1. CacheInv => WithinCapacity
    BY CacheInvImplies
  <1>2. QED
    BY <1>1, CacheInvariant, PTL

\* contains() says yes for exactly the signatures touched within the time to
\* live and not followed by touches of as many others as the cache has places.
THEOREM ContainsExactly == CacheSpec => []ContainsIsExact
  <1>1. CacheInv => ContainsIsExact
    BY CacheInvImplies
  <1>2. QED
    BY <1>1, CacheInvariant, PTL

\* For every capacity and time to live, the cache is the bounded memory it stands
\* for.
THEOREM CacheRemembers == CacheSpec => []RemembersExactly
  <1>1. CacheTypeOK /\ WithinCapacity /\ ContainsIsExact => RemembersExactly
    BY DEF RemembersExactly
  <1>2. QED
    BY <1>1, CacheTypes, CapacityKept, ContainsExactly, PTL

------------------------------------------------------------------------------
(* The airtime budget *)

USE DEF Budgets

\* The airtime charged stands for: granted but not yet recorded.
Outstanding ==
  IF transmitting # Idle /\ transmitting.counted THEN transmitting.airtime_ms ELSE 0

ClocksOrdered ==
  /\ budget.last_update_ms <= now
  /\ epoch <= now

\* A packet is counted only while the duty cycle it was granted under stands,
\* and an uncounted one means that nothing has been charged since the change.
CountedUnderCurrent ==
  /\ duty_cycle_percent >= 100 => charged = 0
  /\ transmitting # Idle =>
       /\ transmitting.counted => /\ transmitting.percent = duty_cycle_percent
                                  /\ duty_cycle_percent < 100
                                  /\ charged >= transmitting.airtime_ms
       /\ ~transmitting.counted => charged = 0

\* A packet in flight fits the bucket of the duty cycle it was granted under.
CoveredByBucket ==
  transmitting # Idle /\ transmitting.percent < 100
    => transmitting.airtime_ms <= MaxBudget(transmitting.percent)

\* Charged and still available airtime together are what a full bucket and
\* the refills since the change make.  Before the first charge the budget may
\* still hold what an earlier duty cycle left in it.
Conserved ==
  charged = 0 \/
    /\ budget.available_ms <= MaxBudget(duty_cycle_percent)
    /\ 100 * (charged - Outstanding + budget.available_ms)
         <= 100 * MaxBudget(duty_cycle_percent)
              + duty_cycle_percent * (budget.last_update_ms - epoch) + 99

BudgetInv ==
  /\ BudgetTypeOK
  /\ ClocksOrdered
  /\ NeverOverdrawn
  /\ CoveredByBucket
  /\ CountedUnderCurrent
  /\ Conserved

------------------------------------------------------------------------------
(* Lemmas about the methods *)

\* A packet in flight is a record of InFlight with a positive airtime.
LEMMA InFlightFacts ==
  ASSUME BudgetTypeOK, transmitting # Idle
  PROVE  /\ transmitting \in InFlight
         /\ transmitting.airtime_ms \in Airtimes
         /\ transmitting.airtime_ms \in Nat \ {0}
         /\ transmitting.percent \in Percents
         /\ transmitting.percent \in 1..100
         /\ transmitting.counted \in BOOLEAN
  BY BudgetAssumption DEF BudgetTypeOK, InFlight

\* A new packet in flight is not the idle radio.
LEMMA InFlightNotIdle ==
  ASSUME NEW f \in InFlight
  PROVE  f # Idle
  BY BudgetAssumption DEF InFlight, Idle

\* Time earned over two intervals is time earned over both.
LEMMA Distributes ==
  \A d, x, y, z \in Int : d * (x - z) = d * (x - y) + d * (y - z)
  OBVIOUS

\* An update by the current duty cycle leaves the conservation bound standing,
\* and establishes it when nothing has been charged yet.
LEMMA UpdateConserves ==
  ASSUME BudgetInv
  PROVE  LET u == Update(budget, now, duty_cycle_percent)
         IN 100 * (charged - Outstanding + u.available_ms)
              <= 100 * MaxBudget(duty_cycle_percent)
                   + duty_cycle_percent * (u.last_update_ms - epoch) + 99
  <1> DEFINE d == duty_cycle_percent
             u == Update(budget, now, d)
             lu == budget.last_update_ms
  <1>1. /\ budget \in Budgets
        /\ now \in Nat /\ epoch \in Nat /\ charged \in Nat
        /\ lu <= now /\ epoch <= now
    BY DEF BudgetInv, BudgetTypeOK, ClocksOrdered
  <1>2. d \in 1..100 /\ d \in Nat
    BY BudgetAssumption DEF BudgetInv, BudgetTypeOK
  <1>3. /\ u \in Budgets
        /\ u.available_ms <= MaxBudget(d)
        /\ \/ /\ u.last_update_ms = now
              /\ 100 * u.available_ms <= 100 * budget.available_ms + d * (now - lu)
           \/ /\ u.last_update_ms = lu
              /\ u.available_ms <= budget.available_ms
              /\ d * (now - lu) <= 99
    BY <1>1, <1>2, UpdateFacts
  <1>4. MaxBudget(d) \in Nat
    BY <1>2, MaxBudgetNat
  <1>5. Outstanding \in Nat
    BY InFlightFacts DEF BudgetInv, Outstanding
  <1>6. /\ d * (now - epoch) = d * (now - lu) + d * (lu - epoch)
        /\ d * (now - epoch) \in Nat
        /\ d * (lu - epoch) \in Int
        /\ d * (now - lu) \in Nat
    <2>1. lu \in Int
      BY <1>1
    <2>2. /\ now - epoch \in Nat
          /\ now - lu \in Nat
          /\ lu - epoch \in Int
      BY <1>1, <2>1
    <2>3. d * (now - epoch) = d * (now - lu) + d * (lu - epoch)
      BY <1>1, <1>2, <2>1, Distributes
    <2>4. \A m, n \in Int : m * n \in Int /\ (m \in Nat /\ n \in Nat => m * n \in Nat)
      OBVIOUS
    <2> HIDE DEF d, lu
    <2>5. QED
      BY <1>2, <2>2, <2>3, <2>4
  <1>7. CASE charged = 0
    <2>1. Outstanding = 0
      BY <1>7, InFlightFacts DEF BudgetInv, CountedUnderCurrent, Outstanding
    <2>2. CASE u.last_update_ms = now
      BY <1>3, <1>4, <1>6, <1>7, <2>1, <2>2
    <2>3. CASE u.last_update_ms = lu /\ d * (now - lu) <= 99
      BY <1>3, <1>4, <1>6, <1>7, <2>1, <2>3
    <2>4. QED
      BY <1>3, <2>2, <2>3
  <1>8. CASE charged # 0
    <2>1. 100 * (charged - Outstanding + budget.available_ms)
            <= 100 * MaxBudget(d) + d * (lu - epoch) + 99
      BY <1>8 DEF BudgetInv, Conserved
    <2>2. CASE /\ u.last_update_ms = now
               /\ 100 * u.available_ms <= 100 * budget.available_ms + d * (now - lu)
      BY <1>1, <1>3, <1>4, <1>5, <1>6, <2>1, <2>2
    <2>3. CASE u.last_update_ms = lu /\ u.available_ms <= budget.available_ms
      BY <1>1, <1>3, <1>4, <1>5, <1>6, <2>1, <2>3
    <2>4. QED
      BY <1>3, <2>2, <2>3
  <1>9. QED
    BY <1>7, <1>8

------------------------------------------------------------------------------
(* The inductive invariant *)

\* Every boot of the radio task starts with a full, unspent bucket.
LEMMA InitBudgetInv == BudgetInit => BudgetInv
  <1> SUFFICES ASSUME BudgetInit PROVE BudgetInv
    OBVIOUS
  <1>1. duty_cycle_percent \in 1..100
    BY BudgetAssumption DEF BudgetInit
  <1>2. MaxBudget(duty_cycle_percent) \in Nat
    BY <1>1, MaxBudgetNat
  <1>3. budget = [available_ms |-> MaxBudget(duty_cycle_percent), last_update_ms |-> 0]
    BY DEF BudgetInit, NewBudget
  <1>4. BudgetTypeOK
    BY <1>2, <1>3 DEF BudgetInit, BudgetTypeOK
  <1>5. ClocksOrdered /\ NeverOverdrawn /\ CoveredByBucket
    BY <1>2, <1>3 DEF BudgetInit, ClocksOrdered, NeverOverdrawn, CoveredByBucket
  <1>6. CountedUnderCurrent /\ Conserved
    BY DEF BudgetInit, CountedUnderCurrent, Conserved
  <1>7. QED
    BY <1>4, <1>5, <1>6 DEF BudgetInv

\* An update with any duty cycle leaves a budget of the right type, with its
\* clock not ahead of the platform's, and not overdrawn.
LEMMA UpdateSafe ==
  ASSUME BudgetInv, NEW p \in Percents
  PROVE  LET u == Update(budget, now, p)
         IN /\ u \in Budgets
            /\ u.last_update_ms <= now
            /\ u.available_ms >= 0
            /\ u.available_ms <= MaxBudget(p)
            /\ \A a \in Int : a <= budget.available_ms /\ a <= MaxBudget(p)
                                => a <= u.available_ms
  <1>1. p \in 1..100
    BY BudgetAssumption
  <1>2. /\ budget \in Budgets
        /\ now \in Nat /\ budget.last_update_ms <= now
        /\ 0 <= budget.available_ms
    BY DEF BudgetInv, BudgetTypeOK, ClocksOrdered, NeverOverdrawn
  <1>3. MaxBudget(p) \in Nat
    BY <1>1, MaxBudgetNat
  <1> DEFINE u == Update(budget, now, p)
  <1>4. /\ u \in Budgets
        /\ u.last_update_ms <= now
        /\ u.available_ms <= MaxBudget(p)
        /\ \A a \in Int : a <= budget.available_ms /\ a <= MaxBudget(p)
                            => a <= u.available_ms
    BY <1>1, <1>2, UpdateFacts
  <1>5. 0 <= u.available_ms
    BY <1>2, <1>3, <1>4
  <1>6. QED
    BY <1>4, <1>5

\* Each step of the radio task, the operator and the clock keeps BudgetInv.
LEMMA StepBudgetInv == BudgetInv /\ [BudgetNext]_budgetVars => BudgetInv'
  <1> SUFFICES ASSUME BudgetInv, [BudgetNext]_budgetVars PROVE BudgetInv'
    OBVIOUS
  <1> DEFINE d == duty_cycle_percent
             u == Update(budget, now, d)
  <1>a. /\ now \in Nat /\ epoch \in Nat /\ charged \in Nat
        /\ d \in Percents /\ d \in 1..100
        /\ budget \in Budgets
        /\ transmitting \in {Idle} \cup InFlight
        /\ budget.last_update_ms <= now /\ epoch <= now
    BY BudgetAssumption DEF BudgetInv, BudgetTypeOK, ClocksOrdered
  <1>b. MaxBudget(d) \in Nat
    BY <1>a, MaxBudgetNat
  <1>c. /\ u \in Budgets
        /\ u.last_update_ms <= now
        /\ u.available_ms >= 0
        /\ u.available_ms <= MaxBudget(d)
        /\ 100 * (charged - Outstanding + u.available_ms)
             <= 100 * MaxBudget(d) + d * (u.last_update_ms - epoch) + 99
    BY <1>a, UpdateSafe, UpdateConserves
  <1>1. CASE AskReady
    <2>1. CASE d >= 100
      <3>1. UNCHANGED budgetVars
        BY <1>1, <2>1 DEF AskReady, AfterReadyAt, budgetVars
      <3>2. QED
        BY <3>1 DEF BudgetInv, BudgetTypeOK, ClocksOrdered, NeverOverdrawn, CoveredByBucket,
                    CountedUnderCurrent, Conserved, Outstanding, budgetVars
    <2>2. CASE ~(d >= 100)
      <3>1. /\ transmitting = Idle /\ budget' = u
            /\ UNCHANGED <<now, duty_cycle_percent, transmitting, epoch, charged>>
        BY <1>1, <2>2 DEF AskReady, AfterReadyAt
      <3>2. BudgetTypeOK' /\ ClocksOrdered'
        BY <1>a, <1>c, <3>1 DEF BudgetTypeOK, ClocksOrdered
      <3>3. NeverOverdrawn' /\ CountedUnderCurrent'
        BY <1>c, <3>1 DEF BudgetInv, NeverOverdrawn, CountedUnderCurrent
      <3>4. Outstanding' = Outstanding
        BY <3>1 DEF Outstanding
      <3>5. MaxBudget(d)' = MaxBudget(d)
        BY <3>1
      <3>6. Conserved'
        BY <1>c, <3>1, <3>4, <3>5 DEF Conserved
      <3>7. QED
        BY <3>1, <3>2, <3>3, <3>6 DEF BudgetInv, CoveredByBucket
    <2>3. QED
      BY <2>1, <2>2
  <1>2. ASSUME NEW a \in Airtimes, Grant(a) PROVE BudgetInv'
    <2> DEFINE f == [airtime_ms |-> a, percent |-> d, since |-> now, counted |-> ~(d >= 100)]
    <2>1. /\ transmitting = Idle /\ transmitting' = f
          /\ UNCHANGED <<now, duty_cycle_percent, epoch>>
      BY <1>2 DEF Grant
    <2>2. f \in InFlight /\ f # Idle
      BY <1>a, InFlightNotIdle DEF InFlight
    <2>3. a \in Nat \ {0}
      BY BudgetAssumption
    <2>4. Outstanding = 0
      BY <2>1 DEF Outstanding
    <2>5. CASE d >= 100
      <3>1. budget' = budget /\ charged' = charged
        BY <1>2, <2>5 DEF Grant, AfterReadyAt
      <3>2. charged = 0
        BY <2>5 DEF BudgetInv, CountedUnderCurrent
      <3>3. BudgetTypeOK' /\ ClocksOrdered'
        BY <1>a, <2>1, <2>2, <3>1 DEF BudgetTypeOK, ClocksOrdered
      <3>4. NeverOverdrawn'
        BY <1>a, <2>1, <2>5, <3>1 DEF BudgetInv, NeverOverdrawn
      <3>5. CountedUnderCurrent'
        BY <2>1, <2>5, <3>1, <3>2 DEF CountedUnderCurrent
      <3>6. Conserved'
        BY <3>1, <3>2 DEF Conserved
      <3>7. CoveredByBucket'
        BY <1>a, <2>1, <2>5 DEF CoveredByBucket
      <3>8. QED
        BY <3>3, <3>4, <3>5, <3>6, <3>7 DEF BudgetInv
    <2>6. CASE ~(d >= 100)
      <3>1. budget' = u /\ charged' = charged + a
        BY <1>2, <2>6 DEF Grant, AfterReadyAt
      <3>2. a <= u.available_ms
        <4>1. ReadyAt(budget, now, a, d) <= now
          BY <1>2, <2>6 DEF Grant
        <4>2. d < 100 /\ a \in Nat
          BY <1>a, <2>3, <2>6
        <4> HIDE DEF d
        <4>3. QED
          BY <1>a, <4>1, <4>2, ReadyNowCovered
      <3>3. BudgetTypeOK' /\ ClocksOrdered'
        BY <1>a, <1>c, <2>1, <2>2, <2>3, <3>1 DEF BudgetTypeOK, ClocksOrdered
      <3>4. NeverOverdrawn'
        BY <1>c, <2>1, <3>1, <3>2 DEF NeverOverdrawn
      <3>5. CountedUnderCurrent'
        <4>1. /\ transmitting'.counted /\ transmitting'.percent = d
              /\ transmitting'.airtime_ms = a
          BY <2>1, <2>6
        <4>2. charged' >= a /\ d < 100
          BY <1>a, <2>3, <2>6, <3>1
        <4>3. QED
          BY <1>a, <2>1, <2>6, <4>1, <4>2 DEF CountedUnderCurrent
      <3>6. Outstanding' = a
        BY <2>1, <2>2, <2>6 DEF Outstanding
      <3>7. MaxBudget(d)' = MaxBudget(d)
        BY <2>1
      <3>8. charged' - Outstanding' = charged - Outstanding
        BY <1>a, <2>3, <2>4, <3>1, <3>6
      <3>9. Conserved'
        BY <1>c, <2>1, <3>1, <3>7, <3>8 DEF Conserved
      <3>10. CoveredByBucket'
        <4>1. a <= MaxBudget(d)
          BY <1>b, <1>c, <2>3, <3>2
        <4>2. QED
          BY <2>1, <4>1 DEF CoveredByBucket
      <3>11. QED
        BY <3>3, <3>4, <3>5, <3>9, <3>10 DEF BudgetInv
    <2>7. QED
      BY <2>5, <2>6
  <1>3. CASE Sent
    <2> DEFINE a == transmitting.airtime_ms
               p == transmitting.percent
               w == Update(budget, now, p)
    <2>1. /\ transmitting # Idle /\ transmitting' = Idle
          /\ budget' = RecordTransmit(budget, now, a, p)
          /\ UNCHANGED <<now, duty_cycle_percent, epoch, charged>>
      BY <1>3 DEF Sent
    <2>2. /\ a \in Nat \ {0} /\ p \in Percents /\ p \in 1..100
          /\ transmitting.counted \in BOOLEAN
      BY <2>1, InFlightFacts DEF BudgetInv
    <2>3. Outstanding' = 0
      BY <2>1 DEF Outstanding
    <2>4. CountedUnderCurrent'
      BY <2>1 DEF BudgetInv, CountedUnderCurrent
    <2>5. CASE p >= 100
      <3>1. budget' = budget
        BY <2>1, <2>5 DEF RecordTransmit
      <3>2. charged = 0
        <4>1. transmitting.counted => transmitting.percent = d /\ d < 100
          BY <2>1 DEF BudgetInv, CountedUnderCurrent
        <4>2. ~transmitting.counted
          BY <1>a, <2>2, <2>5, <4>1
        <4>3. QED
          BY <2>1, <4>2 DEF BudgetInv, CountedUnderCurrent
      <3>3. BudgetTypeOK' /\ ClocksOrdered' /\ NeverOverdrawn'
        BY <1>a, <2>1, <3>1 DEF BudgetInv, BudgetTypeOK, ClocksOrdered, NeverOverdrawn
      <3>4. Conserved'
        BY <2>1, <3>2 DEF Conserved
      <3>5. QED
        BY <2>1, <2>4, <3>3, <3>4 DEF BudgetInv, CoveredByBucket
    <2>6. CASE ~(p >= 100)
      <3>1. /\ w \in Budgets
            /\ w.last_update_ms <= now
            /\ \A x \in Int : x <= budget.available_ms /\ x <= MaxBudget(p)
                                => x <= w.available_ms
        BY <2>2, UpdateSafe
      <3>2. budget' = [w EXCEPT !.available_ms = @ - a]
        BY <2>1, <2>6 DEF RecordTransmit
      <3>3. /\ budget' \in Budgets
            /\ budget'.available_ms = w.available_ms - a
            /\ budget'.last_update_ms = w.last_update_ms
        BY <2>2, <3>1, <3>2
      <3>4. a <= MaxBudget(p)
        BY <2>1, <2>2, <2>6 DEF BudgetInv, CoveredByBucket
      <3>5. a <= budget.available_ms
        BY <2>1, <2>2, <2>6 DEF BudgetInv, NeverOverdrawn
      <3>6. a <= w.available_ms
        BY <2>2, <3>1, <3>4, <3>5
      <3>7. BudgetTypeOK' /\ ClocksOrdered'
        BY <1>a, <2>1, <3>1, <3>3 DEF BudgetTypeOK, ClocksOrdered
      <3>8. NeverOverdrawn'
        BY <2>1, <2>2, <3>1, <3>3, <3>6 DEF NeverOverdrawn
      <3>9. Conserved'
        <4>1. CASE charged = 0
          BY <2>1, <4>1 DEF Conserved
        <4>2. CASE charged # 0
          <5>1. transmitting.counted /\ p = d
            BY <2>1, <2>2, <4>2 DEF BudgetInv, CountedUnderCurrent
          <5>2. Outstanding = a
            BY <2>1, <5>1 DEF Outstanding
          <5>3. w = u
            BY <5>1
          <5>4. MaxBudget(d)' = MaxBudget(d)
            BY <2>1
          <5>5. budget'.available_ms <= MaxBudget(d)
            BY <1>b, <1>c, <2>2, <3>3, <5>3
          <5>6. charged' - Outstanding' + budget'.available_ms
                  = charged - Outstanding + u.available_ms
            BY <1>a, <1>c, <2>1, <2>2, <2>3, <3>3, <5>2, <5>3
          <5>7. QED
            BY <1>c, <2>1, <3>3, <5>3, <5>4, <5>5, <5>6 DEF Conserved
        <4>3. QED
          BY <4>1, <4>2
      <3>10. QED
        BY <2>1, <2>4, <3>7, <3>8, <3>9 DEF BudgetInv, CoveredByBucket
    <2>7. QED
      BY <2>5, <2>6
  <1>4. CASE Failed
    <2> DEFINE a == transmitting.airtime_ms
    <2>1. /\ transmitting # Idle /\ transmitting' = Idle
          /\ charged' = IF transmitting.counted THEN charged - a ELSE charged
          /\ UNCHANGED <<now, duty_cycle_percent, budget, epoch>>
      BY <1>4 DEF Failed
    <2>2. a \in Nat \ {0} /\ transmitting.counted \in BOOLEAN
      BY <2>1, InFlightFacts DEF BudgetInv
    <2>3. transmitting.counted => charged >= a
      BY <2>1 DEF BudgetInv, CountedUnderCurrent
    <2>4. charged' \in Nat /\ charged' = charged - Outstanding /\ Outstanding' = 0
      BY <1>a, <2>1, <2>2, <2>3 DEF Outstanding
    <2>5. BudgetTypeOK' /\ ClocksOrdered' /\ NeverOverdrawn'
      BY <1>a, <2>1, <2>4 DEF BudgetInv, BudgetTypeOK, ClocksOrdered, NeverOverdrawn
    <2>6. d >= 100 => charged' = 0
      BY <1>a, <2>1 DEF BudgetInv, CountedUnderCurrent
    <2>7. CountedUnderCurrent'
      BY <2>1, <2>6 DEF CountedUnderCurrent
    <2>8. Conserved'
      <3>1. charged = 0 => charged' = 0
        BY <2>1, <2>2, <2>3, <2>4
      <3>2. MaxBudget(d)' = MaxBudget(d)
        BY <2>1
      <3>3. charged' - Outstanding' = charged - Outstanding
        BY <2>4
      <3>4. QED
        BY <2>1, <3>1, <3>2, <3>3 DEF BudgetInv, Conserved
    <2>9. QED
      BY <2>1, <2>5, <2>7, <2>8 DEF BudgetInv, CoveredByBucket
  <1>5. ASSUME NEW p \in Percents, SetDutyCycle(p) PROVE BudgetInv'
    <2>1. /\ duty_cycle_percent' = p /\ epoch' = now /\ charged' = 0
          /\ transmitting' = IF transmitting = Idle THEN Idle
                             ELSE [transmitting EXCEPT !.counted = FALSE]
          /\ UNCHANGED <<now, budget>>
      BY <1>5 DEF SetDutyCycle
    <2>2. CASE transmitting = Idle
      <3>1. transmitting' = Idle
        BY <2>1, <2>2
      <3>2. QED
        BY <1>a, <2>1, <2>2, <3>1 DEF BudgetInv, BudgetTypeOK, ClocksOrdered, NeverOverdrawn,
             CoveredByBucket, CountedUnderCurrent, Conserved
    <2>3. CASE transmitting # Idle
      <3>1. /\ transmitting' \in InFlight
            /\ transmitting'.airtime_ms = transmitting.airtime_ms
            /\ transmitting'.percent = transmitting.percent
            /\ transmitting'.counted = FALSE
        BY <1>a, <2>1, <2>3 DEF InFlight
      <3>2. QED
        BY <1>a, <2>1, <2>3, <3>1 DEF BudgetInv, BudgetTypeOK, ClocksOrdered, NeverOverdrawn,
             CoveredByBucket, CountedUnderCurrent, Conserved
    <2>4. QED
      BY <2>2, <2>3
  <1>6. CASE BudgetTick
    <2>1. /\ now' = now + 1
          /\ UNCHANGED <<duty_cycle_percent, budget, transmitting, epoch, charged>>
      BY <1>6 DEF BudgetTick, Passes
    <2>2. BudgetTypeOK' /\ ClocksOrdered'
      BY <1>a, <2>1 DEF BudgetTypeOK, ClocksOrdered
    <2>3. QED
      BY <2>1, <2>2 DEF BudgetInv, NeverOverdrawn, CoveredByBucket, CountedUnderCurrent,
                        Conserved, Outstanding
  <1>7. CASE UNCHANGED budgetVars
    BY <1>7 DEF BudgetInv, BudgetTypeOK, ClocksOrdered, NeverOverdrawn, CoveredByBucket,
                CountedUnderCurrent, Conserved, Outstanding, budgetVars
  <1>9. QED
    BY <1>1, <1>2, <1>3, <1>4, <1>5, <1>6, <1>7 DEF BudgetNext

\* The budget's invariant holds of every behaviour.
LEMMA BudgetInvariant == BudgetSpec => []BudgetInv
  <1>1. QED
    BY InitBudgetInv, StepBudgetInv, PTL DEF BudgetSpec

\* Type correctness of the budget and its caller.
THEOREM BudgetTypeCorrect == BudgetSpec => []BudgetTypeOK
  <1>1. BudgetInv => BudgetTypeOK
    BY DEF BudgetInv
  <1>2. QED
    BY <1>1, BudgetInvariant, PTL

\* The budget is never overdrawn, whatever the window, the duty cycles the
\* operator switches between and the airtimes.
THEOREM BudgetNeverOverdrawn == BudgetSpec => []NeverOverdrawn
  <1>1. BudgetInv => NeverOverdrawn
    BY DEF BudgetInv
  <1>2. QED
    BY <1>1, BudgetInvariant, PTL

\* Within any time under one duty cycle, no more is sent than a full bucket and
\* the cycle's share of that time.
THEOREM BudgetDutyCycleBounded == BudgetSpec => []DutyCycleBounded
  <1>1. ASSUME BudgetInv PROVE DutyCycleBounded
    <2> DEFINE d == duty_cycle_percent
               lu == budget.last_update_ms
    <2>1. /\ now \in Nat /\ epoch \in Nat /\ charged \in Nat /\ lu \in Int
          /\ d \in 1..100 /\ lu <= now /\ epoch <= now
          /\ budget.available_ms \in Int
      BY <1>1, BudgetAssumption DEF BudgetInv, BudgetTypeOK, ClocksOrdered
    <2>2. MaxBudget(d) \in Nat
      BY <2>1, MaxBudgetNat
    <2>3. /\ d * (now - epoch) = d * (now - lu) + d * (lu - epoch)
          /\ d * (now - lu) \in Nat /\ d * (now - epoch) \in Nat
          /\ d * (lu - epoch) \in Int
      <3>1. now - lu \in Nat /\ now - epoch \in Nat /\ lu - epoch \in Int /\ d \in Nat
        BY <2>1
      <3>2. \A m, n \in Int : m * n \in Int /\ (m \in Nat /\ n \in Nat => m * n \in Nat)
        OBVIOUS
      <3>3. d * (now - epoch) = d * (now - lu) + d * (lu - epoch)
        BY <2>1, Distributes
      <3> HIDE DEF d, lu
      <3>4. QED
        BY <3>1, <3>2, <3>3
    <2>4. charged - Outstanding + budget.available_ms >= charged
      <3>1. CASE transmitting # Idle /\ transmitting.counted
        <4>1. transmitting.airtime_ms <= budget.available_ms /\ transmitting.airtime_ms \in Nat
          BY <1>1, <3>1, InFlightFacts DEF BudgetInv, CountedUnderCurrent, NeverOverdrawn
        <4>2. QED
          BY <2>1, <3>1, <4>1 DEF Outstanding
      <3>2. CASE ~(transmitting # Idle /\ transmitting.counted)
        BY <1>1, <2>1, <3>2 DEF Outstanding, BudgetInv, NeverOverdrawn
      <3>3. QED
        BY <3>1, <3>2
    <2>5. CASE charged = 0
      BY <2>2, <2>3, <2>5 DEF DutyCycleBounded
    <2>6. CASE charged # 0
      <3>1. Outstanding \in Nat
        BY <1>1, InFlightFacts DEF BudgetInv, Outstanding
      <3>2. 100 * (charged - Outstanding + budget.available_ms)
              <= 100 * MaxBudget(d) + d * (lu - epoch) + 99
        BY <1>1, <2>6 DEF BudgetInv, Conserved
      <3> HIDE DEF d, lu
      <3>3. 100 * charged <= 100 * MaxBudget(d) + d * (now - epoch) + 99
        BY <2>1, <2>2, <2>3, <2>4, <3>1, <3>2
      <3>4. QED
        BY <3>3 DEF DutyCycleBounded, d
    <2>7. QED
      BY <2>5, <2>6
  <1>2. QED
    BY <1>1, BudgetInvariant, PTL

\* The timer the radio arms for the budget is never too short: for every
\* packet that fits the bucket, the budget is ready at the time it named.
THEOREM BudgetReadyAtSuffices == BudgetSpec => []ReadyAtSuffices
  <1>1. ASSUME BudgetInv PROVE ReadyAtSuffices
    <2> DEFINE d == duty_cycle_percent
               u == Update(budget, now, d)
    <2>1. /\ now \in Nat /\ d \in Percents /\ d \in 1..100
          /\ budget \in Budgets
          /\ budget.last_update_ms <= now
      BY <1>1, BudgetAssumption DEF BudgetInv, BudgetTypeOK, ClocksOrdered
    <2>2. MaxBudget(d) \in Nat
      BY <2>1, MaxBudgetNat
    <2>3. /\ u \in Budgets
          /\ u.last_update_ms <= now /\ u.available_ms >= 0
          /\ u.available_ms <= MaxBudget(d)
      BY <1>1, <2>1, UpdateSafe
    <2>4. ASSUME NEW a \in Airtimes, a <= MaxBudget(d)
          PROVE  LET ready_at == ReadyAt(budget, now, a, d)
                     asked    == AfterReadyAt(budget, now, d)
                 IN ReadyAt(asked, ready_at, a, d) = ready_at
      <3>1. a \in Nat
        BY BudgetAssumption
      <3>2. CASE d >= 100
        BY <3>2 DEF ReadyAt
      <3>3. CASE ~(d >= 100) /\ u.available_ms >= a
        <4>1. ReadyAt(budget, now, a, d) = now /\ AfterReadyAt(budget, now, d) = u
          BY <3>3 DEF ReadyAt, AfterReadyAt
        <4>2. a <= Update(u, now, d).available_ms
          <5>1. \A x \in Int : x <= u.available_ms /\ x <= MaxBudget(d)
                               => x <= Update(u, now, d).available_ms
            <6> HIDE DEF u, d
            <6>1. QED
              BY <2>1, <2>3, UpdateFacts
          <5>2. a <= u.available_ms
            BY <2>3, <3>1, <3>3
          <5>3. QED
            BY <2>4, <3>1, <5>1, <5>2
        <4>3. Update(u, now, d).available_ms \in Int
          BY <2>1, <2>3, UpdateFacts
        <4>4. QED
          BY <3>1, <3>3, <4>1, <4>2, <4>3 DEF ReadyAt, AfterReadyAt
      <3>4. CASE ~(d >= 100) /\ ~(u.available_ms >= a)
        <4> DEFINE needed == (a - u.available_ms) * 100
                   wait == DivCeil(needed, d)
                   r == now + wait
                   w == Update(u, r, d)
        <4>1. needed \in Nat
          BY <2>3, <3>1, <3>4
        <4>2. wait \in Nat /\ d * wait >= needed
          BY <2>1, <4>1, DivCeilCovers
        <4>3. ReadyAt(budget, now, a, d) = r /\ AfterReadyAt(budget, now, d) = u
          BY <3>4 DEF ReadyAt, AfterReadyAt
        <4>4. r \in Nat /\ u.last_update_ms <= r /\ u.last_update_ms \in Int
          <5> HIDE DEF u, wait, d
          <5>1. QED
            BY <2>1, <2>3, <4>2
        <4>5. /\ Refill(u, r, d) \in Nat
              /\ d * (r - u.last_update_ms) <= 100 * Refill(u, r, d) + 99
          <5> HIDE DEF u, r, d
          <5>1. QED
            BY <2>1, <2>3, <4>4, RefillBounds
        <4>6. d * (r - u.last_update_ms) >= needed
          <5>1. r - u.last_update_ms >= wait /\ r - u.last_update_ms \in Nat
            BY <2>1, <2>3, <4>2, <4>4
          <5>2. \A x, y \in Nat : x >= y => d * x >= d * y
            BY <2>1
          <5>3. d * (r - u.last_update_ms) >= d * wait
            BY <4>2, <5>1, <5>2
          <5>4. d * (r - u.last_update_ms) \in Nat /\ d * wait \in Nat
            BY <2>1, <4>2, <5>1
          <5>5. QED
            BY <4>1, <4>2, <5>3, <5>4
        <4>7. Refill(u, r, d) >= a - u.available_ms
          <5>1. d * (r - u.last_update_ms) \in Nat
            BY <2>1, <4>4
          <5>2. QED
            BY <2>3, <3>1, <4>5, <4>6, <5>1
        <4>8. a <= w.available_ms /\ w.available_ms \in Int
          <5>1. Lesser(u.available_ms, MaxBudget(d)) = u.available_ms
            BY <2>3 DEF Lesser
          <5>2. Refill(u, r, d) > 0
            BY <2>3, <3>1, <3>4, <4>5, <4>7
          <5>3. w = [available_ms |-> Lesser(u.available_ms + Refill(u, r, d), MaxBudget(d)),
                     last_update_ms |-> r]
            BY <5>1, <5>2 DEF Update
          <5>4. QED
            BY <2>2, <2>3, <2>4, <3>1, <4>5, <4>7, <5>3 DEF Lesser
        <4>9. ReadyAt(u, r, a, d) = r
          BY <3>1, <3>4, <4>8 DEF ReadyAt, AfterReadyAt
        <4>10. QED
          BY <4>3, <4>9
      <3>5. QED
        BY <3>2, <3>3, <3>4
    <2>5. QED
      BY <2>4 DEF ReadyAtSuffices
  <1>2. QED
    BY <1>1, BudgetInvariant, PTL

\* For every window, duty cycle and airtime: what ready_at_ms promises is there
\* when the packet is charged.
THEOREM BudgetAlwaysSuffices == BudgetSpec => []BudgetSuffices
  <1>1. BudgetTypeOK /\ NeverOverdrawn /\ ReadyAtSuffices => BudgetSuffices
    BY DEF BudgetSuffices
  <1>2. QED
    BY <1>1, BudgetTypeCorrect, BudgetNeverOverdrawn, BudgetReadyAtSuffices, PTL
==============================================================================
