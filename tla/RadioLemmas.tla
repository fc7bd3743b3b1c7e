------------------------------ MODULE RadioLemmas ------------------------------
(***************************************************************************)
(* Facts about sequences of any length (insertion of an element, removal   *)
(* of one, a sequence without its first elements), about the operators of  *)
(* the seen-packet cache, for caches of any size (which entries a prune    *)
(* and a touch leave, and what stands behind them), and about the methods  *)
(* of the airtime budget, for every duty cycle.                            *)
(***************************************************************************)
EXTENDS SeenPacketCacheOps, AirtimeBudgetOps, SequencesExt, SequenceTheorems,
        WellFoundedInduction, FiniteSetTheorems, TLAPS

\* t is s with e inserted as its k-th element.
Inserted(s, e, k, t) ==
  /\ k \in 1 .. Len(s) + 1
  /\ Len(t) = Len(s) + 1
  /\ t[k] = e
  /\ \A i \in 1 .. Len(s) : t[IF i < k THEN i ELSE i + 1] = s[i]

\* The least of some natural numbers is there and is one of them.
LEMMA MinIsLeast ==
  ASSUME NEW S \in SUBSET Nat, S # {}
  PROVE  /\ Min(S) \in S
         /\ \A n \in S : Min(S) <= n
  <1>1. PICK least \in S : \A n \in S : ~ (<<n, least>> \in OpToRel(<, Nat))
    BY NatLessThanWellFounded, WFMin
  <1>2. \A n \in S : least <= n
    <2>1. OpToRel(<, Nat) = {pair \in Nat \X Nat : pair[1] < pair[2]}
      BY DEF OpToRel
    <2>2. \A n \in S : ~ (<<n, least>> \in {pair \in Nat \X Nat : pair[1] < pair[2]})
      BY <1>1, <2>1
    <2>3. \A n, m \in Nat : n < m => <<n, m>> \in {pair \in Nat \X Nat : pair[1] < pair[2]}
      OBVIOUS
    <2>4. \A n \in S : n \in Nat /\ least \in Nat /\ (n < least \/ least <= n)
      OBVIOUS
    <2>5. QED
      BY <2>2, <2>3, <2>4
  <1>3. QED
    BY <1>2 DEF Min

\* InsertAt inserts.
LEMMA InsertAtInserts ==
  ASSUME NEW S, NEW s \in Seq(S), NEW e \in S, NEW k \in 1 .. Len(s) + 1
  PROVE  /\ InsertAt(s, k, e) \in Seq(S)
         /\ Inserted(s, e, k, InsertAt(s, k, e))
  <1> DEFINE front  == SubSeq(s, 1, k - 1)
             back   == SubSeq(s, k, Len(s))
             middle == front \o <<e>>
  <1>1. Len(s) \in Nat /\ \A i \in 1 .. Len(s) : s[i] \in S
    BY LenProperties, ElementOfSeq
  <1>2. /\ front \in Seq(S)
        /\ Len(front) = k - 1
        /\ \A i \in 1 .. k - 1 : front[i] = s[i]
    <2>1. \A i \in 1 .. k - 1 : s[i] \in S
      BY <1>1
    <2>2. QED
      BY <1>1, <2>1, SubSeqProperties, Z3
  <1>3. /\ back \in Seq(S)
        /\ Len(back) = Len(s) - k + 1
        /\ \A i \in 1 .. Len(s) - k + 1 : back[i] = s[k + i - 1]
    <2>1. \A i \in k .. Len(s) : s[i] \in S
      BY <1>1
    <2>2. QED
      BY <1>1, <2>1, SubSeqProperties, Z3
  <1>4. <<e>> \in Seq(S) /\ Len(<<e>>) = 1 /\ <<e>>[1] = e
    OBVIOUS
  <1> HIDE DEF front, back
  <1>5. /\ middle \in Seq(S)
        /\ Len(middle) = k
        /\ \A i \in 1 .. k : middle[i] = IF i <= k - 1 THEN s[i] ELSE e
    <2>1. /\ middle \in Seq(S)
          /\ Len(middle) = k - 1 + 1
          /\ \A i \in 1 .. k - 1 + 1 :
               middle[i] = IF i <= k - 1 THEN front[i] ELSE <<e>>[i - (k - 1)]
      BY <1>2, <1>4, ConcatProperties
    <2>2. QED
      BY <1>1, <1>2, <1>4, <2>1
  <1> HIDE DEF middle
  <1>6. /\ middle \o back \in Seq(S)
        /\ Len(middle \o back) = Len(s) + 1
        /\ \A i \in 1 .. Len(s) + 1 :
             (middle \o back)[i] = IF i <= k THEN middle[i] ELSE back[i - k]
    <2>1. /\ middle \o back \in Seq(S)
          /\ Len(middle \o back) = Len(middle) + Len(back)
          /\ \A i \in 1 .. Len(middle) + Len(back) :
               (middle \o back)[i] = IF i <= Len(middle) THEN middle[i] ELSE back[i - Len(middle)]
      BY <1>3, <1>5, ConcatProperties
    <2>2. Len(middle) + Len(back) = Len(s) + 1
      BY <1>1, <1>3, <1>5
    <2>3. QED
      BY <1>5, <2>1, <2>2
  <1>7. InsertAt(s, k, e) = middle \o back
    BY DEF InsertAt, middle, front, back
  <1>8. Inserted(s, e, k, middle \o back)
    <2> DEFINE t == middle \o back
    <2>1. t[k] = e
      BY <1>1, <1>5, <1>6
    <2>2. ASSUME NEW i \in 1 .. Len(s) PROVE t[IF i < k THEN i ELSE i + 1] = s[i]
      <3>1. CASE i < k
        BY <1>1, <1>5, <1>6, <3>1
      <3>2. CASE ~(i < k)
        <4>1. t[i + 1] = back[i + 1 - k]
          BY <1>1, <1>6, <3>2
        <4>2. back[i + 1 - k] = s[i]
          BY <1>1, <1>3, <3>2
        <4>3. QED
          BY <3>2, <4>1, <4>2
      <3>3. QED
        BY <3>1, <3>2
    <2>3. QED
      BY <1>6, <2>1, <2>2 DEF Inserted
  <1>9. QED
    BY <1>6, <1>7, <1>8

\* t is s without its first d elements.
Suffix(s, d, t) ==
  /\ d \in 0 .. Len(s)
  /\ Len(t) = Len(s) - d
  /\ \A i \in 1 .. Len(t) : t[i] = s[i + d]

\* A SubSeq up to the end is a suffix.
LEMMA SubSeqSuffix ==
  ASSUME NEW S, NEW s \in Seq(S), NEW m \in 1 .. Len(s) + 1
  PROVE  /\ SubSeq(s, m, Len(s)) \in Seq(S)
         /\ Suffix(s, m - 1, SubSeq(s, m, Len(s)))
  <1>1. Len(s) \in Nat /\ \A i \in m .. Len(s) : s[i] \in S
    BY LenProperties, ElementOfSeq
  <1>2. /\ SubSeq(s, m, Len(s)) \in Seq(S)
        /\ Len(SubSeq(s, m, Len(s))) = IF m <= Len(s) THEN Len(s) - m + 1 ELSE 0
        /\ \A i \in 1 .. Len(s) - m + 1 : SubSeq(s, m, Len(s))[i] = s[m + i - 1]
    BY <1>1, SubSeqProperties, Z3
  <1> DEFINE t == SubSeq(s, m, Len(s))
  <1> HIDE DEF t
  <1>3. Len(t) = Len(s) - (m - 1) /\ m - 1 \in 0 .. Len(s)
    BY <1>1, <1>2 DEF t
  <1>4. \A i \in 1 .. Len(t) : t[i] = s[i + (m - 1)]
    <2> SUFFICES ASSUME NEW i \in 1 .. Len(t) PROVE t[i] = s[i + (m - 1)]
      OBVIOUS
    <2>1. i \in 1 .. Len(s) - m + 1 /\ m + i - 1 = i + (m - 1)
      BY <1>1, <1>3
    <2>2. QED
      BY <1>2, <2>1 DEF t
  <1>5. QED
    BY <1>2, <1>3, <1>4 DEF Suffix, t

\* What stands before and after an element, put together, is the sequence the
\* element was inserted into.
LEMMA RemovedWasInserted ==
  ASSUME NEW S, NEW s \in Seq(S), NEW k \in 1 .. Len(s)
  PROVE  /\ SubSeq(s, 1, k - 1) \o SubSeq(s, k + 1, Len(s)) \in Seq(S)
         /\ Inserted(SubSeq(s, 1, k - 1) \o SubSeq(s, k + 1, Len(s)), s[k], k, s)
  <1> DEFINE front == SubSeq(s, 1, k - 1)
             back  == SubSeq(s, k + 1, Len(s))
             t     == front \o back
  <1>1. Len(s) \in Nat /\ \A i \in 1 .. Len(s) : s[i] \in S
    BY LenProperties, ElementOfSeq
  <1>2. front \in Seq(S) /\ Len(front) = k - 1 /\ \A i \in 1 .. k - 1 : front[i] = s[i]
    <2>1. \A i \in 1 .. k - 1 : s[i] \in S
      BY <1>1
    <2>2. QED
      BY <1>1, <2>1, SubSeqProperties, Z3
  <1>3. back \in Seq(S) /\ Suffix(s, k, back)
    <2>1. k + 1 \in 1 .. Len(s) + 1 /\ k + 1 - 1 = k
      BY <1>1
    <2>2. QED
      BY <2>1, SubSeqSuffix
  <1> HIDE DEF front, back
  <1>4. /\ t \in Seq(S)
        /\ Len(t) = Len(s) - 1
        /\ \A i \in 1 .. Len(s) - 1 : t[i] = IF i <= k - 1 THEN front[i] ELSE back[i - (k - 1)]
    <2>1. /\ t \in Seq(S) /\ Len(t) = Len(front) + Len(back)
          /\ \A i \in 1 .. Len(front) + Len(back) :
               t[i] = IF i <= Len(front) THEN front[i] ELSE back[i - Len(front)]
      BY <1>2, <1>3, ConcatProperties
    <2>2. Len(front) + Len(back) = Len(s) - 1
      BY <1>1, <1>2, <1>3 DEF Suffix
    <2>3. QED
      BY <1>2, <2>1, <2>2
  <1> HIDE DEF t
  <1>5. \A i \in 1 .. Len(t) : s[IF i < k THEN i ELSE i + 1] = t[i]
    <2> SUFFICES ASSUME NEW i \in 1 .. Len(s) - 1
                 PROVE  s[IF i < k THEN i ELSE i + 1] = t[i]
      BY <1>4
    <2>1. CASE i < k
      BY <1>1, <1>2, <1>4, <2>1
    <2>2. CASE ~(i < k)
      <3>1. t[i] = back[i - (k - 1)] /\ i - (k - 1) \in 1 .. Len(back) /\ i - (k - 1) + k = i + 1
        BY <1>1, <1>3, <1>4, <2>2 DEF Suffix
      <3>2. back[i - (k - 1)] = s[i - (k - 1) + k]
        BY <1>3, <3>1 DEF Suffix
      <3>3. QED
        BY <2>2, <3>1, <3>2
    <2>3. QED
      BY <2>1, <2>2
  <1>6. Len(s) = Len(t) + 1 /\ k \in 1 .. Len(t) + 1
    BY <1>1, <1>4
  <1>7. QED
    BY <1>4, <1>5, <1>6 DEF Inserted, t, front, back

\* An insertion into the front part of a concatenation.
LEMMA InsertedConcat ==
  ASSUME NEW S, NEW s \in Seq(S), NEW t \in Seq(S), NEW r \in Seq(S), NEW e, NEW k,
         Inserted(s, e, k, t)
  PROVE  Inserted(s \o r, e, k, t \o r)
  <1>1. /\ Len(s) \in Nat /\ Len(r) \in Nat /\ Len(t) = Len(s) + 1 /\ k \in 1 .. Len(s) + 1
        /\ t[k] = e /\ \A i \in 1 .. Len(s) : t[IF i < k THEN i ELSE i + 1] = s[i]
    BY LenProperties DEF Inserted
  <1>2. /\ Len(s \o r) = Len(s) + Len(r)
        /\ \A i \in 1 .. Len(s) + Len(r) : (s \o r)[i] = IF i <= Len(s) THEN s[i] ELSE r[i - Len(s)]
    BY ConcatProperties
  <1>3. /\ Len(t \o r) = Len(t) + Len(r)
        /\ \A i \in 1 .. Len(t) + Len(r) : (t \o r)[i] = IF i <= Len(t) THEN t[i] ELSE r[i - Len(t)]
    BY ConcatProperties
  <1> DEFINE sr == s \o r
             tr == t \o r
  <1> HIDE DEF sr, tr
  <1>4. ASSUME NEW i \in 1 .. Len(s) + Len(r) PROVE tr[IF i < k THEN i ELSE i + 1] = sr[i]
    <2>1. CASE i < k
      <3>1. i \in 1 .. Len(s) /\ i <= Len(s) /\ i <= Len(t) /\ i \in 1 .. Len(t) + Len(r)
        BY <1>1, <2>1
      <3>2. tr[i] = t[i] /\ sr[i] = s[i]
        BY <1>2, <1>3, <3>1 DEF sr, tr
      <3>3. t[i] = s[i]
        BY <1>1, <2>1, <3>1
      <3>4. QED
        BY <2>1, <3>2, <3>3
    <2>2. CASE ~(i < k) /\ i <= Len(s)
      <3>1. i \in 1 .. Len(s) /\ i + 1 <= Len(t) /\ i + 1 \in 1 .. Len(t) + Len(r)
        BY <1>1, <2>2
      <3>2. tr[i + 1] = t[i + 1] /\ sr[i] = s[i]
        BY <1>2, <1>3, <2>2, <3>1 DEF sr, tr
      <3>3. t[i + 1] = s[i]
        BY <1>1, <2>2, <3>1
      <3>4. QED
        BY <2>2, <3>2, <3>3
    <2>3. CASE ~(i < k) /\ i > Len(s)
      <3>1. i + 1 \in 1 .. Len(t) + Len(r) /\ ~(i + 1 <= Len(t)) /\ i + 1 - Len(t) = i - Len(s)
        BY <1>1, <2>3
      <3>2. tr[i + 1] = r[i - Len(s)] /\ sr[i] = r[i - Len(s)]
        BY <1>1, <1>2, <1>3, <2>3, <3>1 DEF sr, tr
      <3>3. QED
        BY <2>3, <3>2
    <2>4. QED
      BY <1>1, <2>1, <2>2, <2>3
  <1>5. tr[k] = e
    BY <1>1, <1>3 DEF tr
  <1>6. Len(sr) = Len(s) + Len(r) /\ Len(tr) = Len(sr) + 1 /\ k \in 1 .. Len(sr) + 1
    BY <1>1, <1>2, <1>3 DEF sr, tr
  <1>7. QED
    BY <1>4, <1>5, <1>6 DEF Inserted, sr, tr
-------------------------------------------------------------------------------
(* The cache *)

\* No signature has two entries.
Unique(entries) ==
  \A i, j \in DOMAIN entries : entries[i].signature = entries[j].signature => i = j

\* The signatures of the entries behind the i-th.
After(entries, i) == {entries[j].signature : j \in i + 1 .. Len(entries)}

\* Pruning drops some first entries, and among them only expired ones; the first
\* entry left, if any, has not expired.
LEMMA PruneSuffix ==
  ASSUME NEW S, NEW entries \in Seq(S), NEW now
  PROVE  /\ Prune(entries, now) \in Seq(S)
         /\ \E d \in Nat :
              /\ Suffix(entries, d, Prune(entries, now))
              /\ \A i \in DOMAIN entries : ~Expired(entries[i], now) => d < i
              /\ d < Len(entries) => ~Expired(entries[d + 1], now)
  <1> DEFINE places == {i \in DOMAIN entries : ~Expired(entries[i], now)} \cup {Len(entries) + 1}
             m      == Min(places)
  <1>1. Len(entries) \in Nat /\ DOMAIN entries = 1 .. Len(entries)
    BY LenProperties
  <1>2. places \in SUBSET Nat /\ places # {} /\ places \subseteq 1 .. Len(entries) + 1
    BY <1>1
  <1>3. m \in places /\ \A n \in places : m <= n
    BY <1>2, MinIsLeast
  <1>4. Prune(entries, now) = SubSeq(entries, m, Len(entries))
    BY DEF Prune, FirstLive
  <1>5. m \in 1 .. Len(entries) + 1
    BY <1>2, <1>3
  <1> HIDE DEF m
  <1>6. /\ SubSeq(entries, m, Len(entries)) \in Seq(S)
        /\ Suffix(entries, m - 1, SubSeq(entries, m, Len(entries)))
    BY <1>5, SubSeqSuffix
  <1>7. m - 1 \in Nat /\ \A i \in DOMAIN entries : ~Expired(entries[i], now) => m - 1 < i
    <2>1. \A i \in DOMAIN entries : ~Expired(entries[i], now) => m <= i /\ i \in Nat
      BY <1>1, <1>3
    <2>2. QED
      BY <1>1, <1>5, <2>1
  <1>8. m - 1 < Len(entries) => ~Expired(entries[m - 1 + 1], now)
    <2>1. m - 1 < Len(entries) => m # Len(entries) + 1 /\ m - 1 + 1 = m
      BY <1>1, <1>5
    <2>2. QED
      BY <1>3, <2>1
  <1>9. QED
    BY <1>4, <1>6, <1>7, <1>8

\* Trimming makes room for one more by dropping the first entries.
LEMMA TrimSuffix ==
  ASSUME NEW S, NEW entries \in Seq(S), max_entries # 0
  PROVE  /\ Trim(entries) \in Seq(S)
         /\ Len(Trim(entries)) < max_entries
         /\ \E d \in Nat :
              /\ Suffix(entries, d, Trim(entries))
              /\ d = IF Len(entries) < max_entries THEN 0 ELSE Len(entries) - max_entries + 1
  <1>1. Len(entries) \in Nat /\ max_entries \in Nat \ {0} /\ DOMAIN entries = 1 .. Len(entries)
    BY LenProperties, CacheAssumption
  <1>2. CASE Len(entries) < max_entries
    <2>1. Trim(entries) = entries /\ Suffix(entries, 0, entries)
      BY <1>1, <1>2 DEF Trim, Suffix
    <2>2. QED
      BY <1>2, <2>1
  <1>3. CASE ~(Len(entries) < max_entries)
    <2> DEFINE m == Len(entries) - max_entries + 2
    <2>1. m \in 1 .. Len(entries) + 1 /\ m - 1 = Len(entries) - max_entries + 1 /\ m - 1 \in Nat
      BY <1>1, <1>3
    <2>2. Trim(entries) = SubSeq(entries, m, Len(entries))
      BY <1>3 DEF Trim
    <2> HIDE DEF m
    <2>3. Trim(entries) \in Seq(S) /\ Suffix(entries, m - 1, Trim(entries))
      BY <2>1, <2>2, SubSeqSuffix
    <2>4. Len(Trim(entries)) < max_entries
      BY <1>1, <2>1, <2>3 DEF Suffix
    <2>5. QED
      BY <1>3, <2>1, <2>3, <2>4
  <1>4. QED
    BY <1>2, <1>3

\* Without takes an entry for the signature away, if there is one.
LEMMA WithoutRemoves ==
  ASSUME NEW S, NEW entries \in Seq(S), NEW signature
  PROVE  /\ Without(entries, signature) \in Seq(S)
         /\ \/ /\ ~Holds(entries, signature)
               /\ Without(entries, signature) = entries
            \/ \E k \in 1 .. Len(entries) :
                 /\ entries[k].signature = signature
                 /\ Inserted(Without(entries, signature), entries[k], k, entries)
  <1>1. CASE ~Holds(entries, signature)
    BY <1>1 DEF Without
  <1>2. CASE Holds(entries, signature)
    <2> DEFINE found == {j \in DOMAIN entries : entries[j].signature = signature}
               k     == Min(found)
    <2>1. Len(entries) \in Nat /\ DOMAIN entries = 1 .. Len(entries)
      BY LenProperties
    <2>2. found \in SUBSET Nat /\ found # {}
      BY <1>2, <2>1 DEF Holds
    <2>3. k \in found
      BY <2>2, MinIsLeast
    <2>4. k \in 1 .. Len(entries) /\ entries[k].signature = signature
      BY <2>1, <2>3
    <2>5. Without(entries, signature) = SubSeq(entries, 1, k - 1) \o SubSeq(entries, k + 1, Len(entries))
      BY <1>2 DEF Without
    <2> HIDE DEF k
    <2>6. /\ Without(entries, signature) \in Seq(S)
          /\ Inserted(Without(entries, signature), entries[k], k, entries)
      BY <2>4, <2>5, RemovedWasInserted
    <2>7. QED
      BY <2>4, <2>6
  <1>3. QED
    BY <1>1, <1>2

\* What stands behind an entry of a suffix is what stood behind it before.
LEMMA SuffixAfter ==
  ASSUME NEW S, NEW s \in Seq(S), NEW t \in Seq(S), NEW d \in Nat, Suffix(s, d, t)
  PROVE  /\ Unique(s) => Unique(t)
         /\ \A i \in 1 .. Len(t) :
              i + d \in 1 .. Len(s) /\ t[i] = s[i + d] /\ After(t, i) = After(s, i + d)
         /\ \A n \in 1 .. Len(s) : d < n => n - d \in 1 .. Len(t)
  <1>1. /\ Len(s) \in Nat /\ Len(t) \in Nat /\ DOMAIN s = 1 .. Len(s) /\ DOMAIN t = 1 .. Len(t)
        /\ d <= Len(s) /\ Len(t) = Len(s) - d /\ \A i \in 1 .. Len(t) : t[i] = s[i + d]
    BY LenProperties DEF Suffix
  <1>2. /\ \A i \in 1 .. Len(t) : i + d \in 1 .. Len(s)
        /\ \A n \in 1 .. Len(s) : d < n => n - d \in 1 .. Len(t)
    BY <1>1
  <1>3. ASSUME Unique(s) PROVE Unique(t)
    <2> SUFFICES ASSUME NEW i \in 1 .. Len(t), NEW j \in 1 .. Len(t),
                        t[i].signature = t[j].signature
                 PROVE  i = j
      BY <1>1 DEF Unique
    <2>1. i + d = j + d
      BY <1>1, <1>2, <1>3 DEF Unique
    <2>2. QED
      BY <1>1, <2>1
  <1>4. ASSUME NEW i \in 1 .. Len(t) PROVE After(t, i) = After(s, i + d)
    <2>1. ASSUME NEW j \in i + 1 .. Len(t)
          PROVE  j + d \in i + d + 1 .. Len(s) /\ t[j] = s[j + d]
      BY <1>1
    <2>2. ASSUME NEW n \in i + d + 1 .. Len(s)
          PROVE  n - d \in i + 1 .. Len(t) /\ t[n - d] = s[n]
      <3>1. n - d \in i + 1 .. Len(t) /\ n - d \in 1 .. Len(t) /\ n - d + d = n
        BY <1>1
      <3>2. QED
        BY <1>1, <3>1
    <2>3. After(t, i) \subseteq After(s, i + d)
      BY <2>1, Zenon DEF After
    <2>4. After(s, i + d) \subseteq After(t, i)
      BY <2>2, Zenon DEF After
    <2>5. QED
      BY <2>3, <2>4
  <1>5. QED
    BY <1>1, <1>2, <1>3, <1>4

\* Taking one entry away leaves the others in their order.
LEMMA RemovedAfter ==
  ASSUME NEW S, NEW s \in Seq(S), NEW t \in Seq(S), NEW k \in 1 .. Len(s),
         Inserted(t, s[k], k, s), Unique(s)
  PROVE  LET at(i) == IF i < k THEN i ELSE i + 1
         IN /\ Unique(t)
            /\ \A i \in 1 .. Len(t) :
                 /\ at(i) \in 1 .. Len(s) /\ t[i] = s[at(i)]
                 /\ t[i].signature # s[k].signature
                 /\ After(t, i) = After(s, at(i)) \ {s[k].signature}
            /\ \A n \in 1 .. Len(s) : n # k => \E i \in 1 .. Len(t) : at(i) = n
  <1> DEFINE at(i) == IF i < k THEN i ELSE i + 1
  <1>1. /\ Len(s) \in Nat /\ Len(t) \in Nat /\ DOMAIN s = 1 .. Len(s) /\ DOMAIN t = 1 .. Len(t)
        /\ Len(s) = Len(t) + 1 /\ \A i \in 1 .. Len(t) : s[at(i)] = t[i]
    BY LenProperties DEF Inserted
  <1>2. /\ \A i \in 1 .. Len(t) : at(i) \in 1 .. Len(s) /\ at(i) # k
        /\ \A i, j \in 1 .. Len(t) : (at(i) = at(j) => i = j) /\ (i < j <=> at(i) < at(j))
    BY <1>1
  <1>3. \A n \in 1 .. Len(s) : n # k => \E i \in 1 .. Len(t) : at(i) = n
    <2> SUFFICES ASSUME NEW n \in 1 .. Len(s), n # k PROVE \E i \in 1 .. Len(t) : at(i) = n
      OBVIOUS
    <2>1. CASE n < k
      BY <1>1, <2>1
    <2>2. CASE n > k
      <3>1. n - 1 \in 1 .. Len(t) /\ at(n - 1) = n
        BY <1>1, <2>2
      <3>2. QED
        BY <3>1
    <2>3. QED
      BY <1>1, <2>1, <2>2
  <1> HIDE DEF at
  <1>4. Unique(t) /\ \A i \in 1 .. Len(t) : t[i].signature # s[k].signature
    BY <1>1, <1>2 DEF Unique
  <1>5. ASSUME NEW i \in 1 .. Len(t) PROVE After(t, i) = After(s, at(i)) \ {s[k].signature}
    <2>1. ASSUME NEW j \in i + 1 .. Len(t)
          PROVE  at(j) \in at(i) + 1 .. Len(s) /\ t[j] = s[at(j)] /\ t[j].signature # s[k].signature
      <3>1. j \in 1 .. Len(t) /\ i < j
        BY <1>1
      <3>2. at(i) \in Int /\ at(j) \in Int /\ at(i) < at(j) /\ at(j) <= Len(s)
        BY <1>1, <1>2, <3>1
      <3>3. at(j) \in at(i) + 1 .. Len(s)
        BY <1>1, <3>2
      <3>4. QED
        BY <1>1, <1>4, <3>1, <3>3
    <2>2. ASSUME NEW n \in at(i) + 1 .. Len(s), s[n].signature # s[k].signature
          PROVE  \E j \in i + 1 .. Len(t) : t[j] = s[n]
      <3>0. at(i) \in 1 .. Len(s)
        BY <1>2
      <3>1. n \in 1 .. Len(s) /\ n # k /\ at(i) < n
        BY <1>1, <2>2, <3>0
      <3>2. PICK j \in 1 .. Len(t) : at(j) = n
        BY <1>3, <3>1
      <3>3. i < j
        BY <1>2, <3>1, <3>2
      <3>4. j \in i + 1 .. Len(t)
        BY <1>1, <3>3
      <3>5. QED
        BY <1>1, <3>2, <3>4
    <2>3. After(t, i) \subseteq After(s, at(i)) \ {s[k].signature}
      BY <2>1, Zenon DEF After
    <2>4. After(s, at(i)) \ {s[k].signature} \subseteq After(t, i)
      <3>1. ASSUME NEW n \in at(i) + 1 .. Len(s), s[n].signature # s[k].signature
            PROVE  s[n].signature \in After(t, i)
        <4>1. PICK j \in i + 1 .. Len(t) : t[j] = s[n]
          BY <2>2, <3>1
        <4>2. t[j].signature \in After(t, i)
          BY Zenon DEF After
        <4>3. QED
          BY <4>1, <4>2
      <3>2. QED
        BY <3>1, Zenon DEF After
    <2>5. QED
      BY <2>3, <2>4
  <1>6. QED
    BY <1>1, <1>2, <1>3, <1>4, <1>5 DEF at

\* With one entry for a signature, as many signatures as entries come after.
LEMMA AfterCardinality ==
  ASSUME NEW S, NEW s \in Seq(S), Unique(s), NEW i \in 1 .. Len(s)
  PROVE  IsFiniteSet(After(s, i)) /\ Cardinality(After(s, i)) = Len(s) - i
  <1> DEFINE places == i + 1 .. Len(s)
             name   == [j \in places |-> s[j].signature]
  <1>1. Len(s) \in Nat /\ DOMAIN s = 1 .. Len(s)
    BY LenProperties
  <1>2. IsFiniteSet(places) /\ Cardinality(places) = Len(s) - i
    <2>1. \A a, b \in Int : IsFiniteSet(a .. b) /\ Cardinality(a .. b) = IF a > b THEN 0 ELSE b - a + 1
      BY FS_Interval
    <2>2. i + 1 \in Int /\ Len(s) \in Int /\ i \in Int /\ i <= Len(s)
      BY <1>1
    <2>3. IsFiniteSet(places) /\ Cardinality(places) = IF i + 1 > Len(s) THEN 0 ELSE Len(s) - (i + 1) + 1
      BY <2>1, <2>2
    <2> HIDE DEF places
    <2>4. QED
      BY <2>2, <2>3
  <1>3. name \in Surjection(places, After(s, i))
    <2>1. name \in [places -> After(s, i)]
      BY Zenon DEF After
    <2>2. \A x \in After(s, i) : \E j \in places : name[j] = x
      BY Zenon DEF After
    <2>3. QED
      BY <2>1, <2>2 DEF Surjection
  <1>4. name \in Injection(places, After(s, i))
    <2>1. \A j, n \in places : name[j] = name[n] => j = n
      BY <1>1 DEF Unique
    <2>2. name \in [places -> After(s, i)]
      BY Zenon DEF After
    <2>3. QED
      BY <2>1, <2>2, Zenon DEF Injection, IsInjective
  <1>5. QED
    BY <1>2, <1>3, <1>4, FS_Surjection

\* Without keeps the entries of other signatures, in their order.
LEMMA WithoutLayout ==
  ASSUME NEW S, NEW entries \in Seq(S), NEW x, Unique(entries)
  PROVE  LET w == Without(entries, x)
         IN /\ w \in Seq(S) /\ Unique(w)
            /\ \E from \in [1 .. Len(w) -> 1 .. Len(entries)] :
                 /\ \A i \in 1 .. Len(w) :
                      /\ w[i] = entries[from[i]] /\ w[i].signature # x
                      /\ After(w, i) = After(entries, from[i]) \ {x}
                 /\ \A i, j \in 1 .. Len(w) : i < j => from[i] < from[j]
                 /\ \A n \in 1 .. Len(entries) :
                      entries[n].signature # x => \E i \in 1 .. Len(w) : from[i] = n
  <1> DEFINE w == Without(entries, x)
  <1>1. w \in Seq(S)
    BY WithoutRemoves
  <1>2. Len(entries) \in Nat /\ Len(w) \in Nat /\ DOMAIN entries = 1 .. Len(entries)
    BY <1>1, LenProperties
  <1>3. CASE ~Holds(entries, x) /\ w = entries
    <2> DEFINE from == [i \in 1 .. Len(w) |-> i]
    <2>1. \A i \in 1 .. Len(entries) : entries[i].signature # x
      BY <1>2, <1>3 DEF Holds
    <2>2. \A i \in 1 .. Len(entries) : x \notin After(entries, i)
      BY <1>2, <2>1 DEF After
    <2>3. /\ from \in [1 .. Len(w) -> 1 .. Len(entries)]
          /\ \A i \in 1 .. Len(w) : from[i] = i
      BY <1>3
    <2> HIDE DEF from
    <2>4. \A i \in 1 .. Len(w) : After(w, i) = After(entries, from[i]) \ {x}
      BY <1>3, <2>2, <2>3
    <2>5. \A i \in 1 .. Len(w) : w[i] = entries[from[i]] /\ w[i].signature # x
      BY <1>3, <2>1, <2>3
    <2>6. \A i, j \in 1 .. Len(w) : i < j => from[i] < from[j]
      BY <2>3
    <2>7. \A n \in 1 .. Len(entries) : \E i \in 1 .. Len(w) : from[i] = n
      BY <1>3, <2>3
    <2>8. QED
      BY <1>1, <1>3, <2>3, <2>4, <2>5, <2>6, <2>7
  <1>4. CASE \E k \in 1 .. Len(entries) :
               entries[k].signature = x /\ Inserted(w, entries[k], k, entries)
    <2>1. PICK k \in 1 .. Len(entries) :
                 entries[k].signature = x /\ Inserted(w, entries[k], k, entries)
      BY <1>4
    <2> DEFINE at(i) == IF i < k THEN i ELSE i + 1
               from  == [i \in 1 .. Len(w) |-> at(i)]
    <2>2. /\ Unique(w)
          /\ \A i \in 1 .. Len(w) :
               /\ at(i) \in 1 .. Len(entries) /\ w[i] = entries[at(i)]
               /\ w[i].signature # entries[k].signature
               /\ After(w, i) = After(entries, at(i)) \ {entries[k].signature}
          /\ \A n \in 1 .. Len(entries) : n # k => \E i \in 1 .. Len(w) : at(i) = n
      BY <1>1, <2>1, RemovedAfter
    <2>3. \A i, j \in 1 .. Len(w) : i < j => at(i) < at(j)
      BY <1>2, <2>1
    <2> HIDE DEF at
    <2>4. from \in [1 .. Len(w) -> 1 .. Len(entries)] /\ \A i \in 1 .. Len(w) : from[i] = at(i)
      BY <2>2
    <2> HIDE DEF from
    <2>5. \A n \in 1 .. Len(entries) :
            entries[n].signature # x => \E i \in 1 .. Len(w) : from[i] = n
      <3> SUFFICES ASSUME NEW n \in 1 .. Len(entries), entries[n].signature # x
                   PROVE  \E i \in 1 .. Len(w) : from[i] = n
        OBVIOUS
      <3>1. n # k
        BY <2>1
      <3>2. QED
        BY <2>2, <2>4, <3>1
    <2>6. \A i \in 1 .. Len(w) :
            /\ w[i] = entries[from[i]] /\ w[i].signature # x
            /\ After(w, i) = After(entries, from[i]) \ {x}
      BY <2>1, <2>2, <2>4
    <2>7. \A i, j \in 1 .. Len(w) : i < j => from[i] < from[j]
      BY <2>3, <2>4
    <2>8. QED
      BY <1>1, <2>2, <2>4, <2>5, <2>6, <2>7
  <1>5. QED
    BY <1>3, <1>4, WithoutRemoves

\* The entries of t but the last are entries of other signatures than x, in
\* their order, with x behind them.  An entry is only lost when, with x, as many
\* as the cache has places came after it.
TouchedFrom(entries, x, t) ==
  \E from \in [1 .. Len(t) - 1 -> 1 .. Len(entries)] :
    /\ \A i \in 1 .. Len(t) - 1 :
         /\ t[i] = entries[from[i]] /\ t[i].signature # x
         /\ After(t, i) = After(entries, from[i]) \cup {x}
    /\ \A i, j \in 1 .. Len(t) - 1 : i < j => from[i] < from[j]
    /\ \A n \in 1 .. Len(entries) :
         /\ entries[n].signature # x
         /\ Cardinality(After(entries, n) \cup {x}) < max_entries
         => \E i \in 1 .. Len(t) - 1 : from[i] = n

\* A touch keeps the order, the bound and the signatures of a cache, and puts the
\* one touched last.
LEMMA TouchLayout ==
  ASSUME NEW S, NEW entries \in Seq(S), NEW x, NEW now, Unique(entries),
         [signature |-> x, at |-> now] \in S, max_entries # 0,
         NEW t, t = Touch(entries, x, now)
  PROVE  /\ t \in Seq(S) /\ Unique(t)
         /\ Len(t) \in 1 .. max_entries
         /\ t[Len(t)] = [signature |-> x, at |-> now]
         /\ TouchedFrom(entries, x, t)
  <1> DEFINE w == Without(entries, x)
             r == Trim(w)
             e == [signature |-> x, at |-> now]
  <1>0. max_entries \in Nat \ {0}
    BY CacheAssumption
  <1>1. w \in Seq(S) /\ Unique(w)
    BY WithoutLayout
  <1>2. PICK from \in [1 .. Len(w) -> 1 .. Len(entries)] :
          /\ \A i \in 1 .. Len(w) :
               /\ w[i] = entries[from[i]] /\ w[i].signature # x
               /\ After(w, i) = After(entries, from[i]) \ {x}
          /\ \A i, j \in 1 .. Len(w) : i < j => from[i] < from[j]
          /\ \A n \in 1 .. Len(entries) :
               entries[n].signature # x => \E i \in 1 .. Len(w) : from[i] = n
    BY WithoutLayout
  <1>3. t = Append(r, e)
    BY DEF Touch
  <1> HIDE DEF w, e
  <1>4. r \in Seq(S) /\ Len(r) < max_entries
    BY <1>1, TrimSuffix
  <1>5. PICK d \in Nat :
          /\ Suffix(w, d, r)
          /\ d = IF Len(w) < max_entries THEN 0 ELSE Len(w) - max_entries + 1
    BY <1>1, TrimSuffix
  <1> HIDE DEF r
  <1>6. /\ Unique(r)
        /\ \A i \in 1 .. Len(r) :
             i + d \in 1 .. Len(w) /\ r[i] = w[i + d] /\ After(r, i) = After(w, i + d)
        /\ \A n \in 1 .. Len(w) : d < n => n - d \in 1 .. Len(r)
    <2>1. /\ Unique(w) => Unique(r)
          /\ \A i \in 1 .. Len(r) :
               i + d \in 1 .. Len(w) /\ r[i] = w[i + d] /\ After(r, i) = After(w, i + d)
          /\ \A n \in 1 .. Len(w) : d < n => n - d \in 1 .. Len(r)
      <3>1. w \in Seq(S) /\ r \in Seq(S) /\ d \in Nat /\ Suffix(w, d, r)
        BY <1>1, <1>4, <1>5
      <3>2. QED
        BY <3>1, SuffixAfter
    <2>2. QED
      BY <1>1, <2>1
  <1>7. e \in S /\ e.signature = x
    BY DEF e
  <1>8. /\ t \in Seq(S) /\ Len(t) = Len(r) + 1 /\ Len(r) \in Nat /\ DOMAIN t = 1 .. Len(r) + 1
        /\ \A i \in 1 .. Len(r) : t[i] = r[i]
        /\ t[Len(r) + 1] = e /\ Len(w) \in Nat /\ DOMAIN r = 1 .. Len(r)
    BY <1>1, <1>3, <1>4, <1>7, AppendProperties, LenProperties
  <1>9. \A i \in 1 .. Len(r) : t[i] = w[i + d] /\ t[i].signature # x
    BY <1>2, <1>6, <1>8
  <1>10. Unique(t)
    <2> SUFFICES ASSUME NEW i \in 1 .. Len(r) + 1, NEW j \in 1 .. Len(r) + 1,
                        t[i].signature = t[j].signature
                 PROVE  i = j
      BY <1>8 DEF Unique
    <2>1. CASE i \in 1 .. Len(r) /\ j \in 1 .. Len(r)
      BY <1>6, <1>8, <2>1 DEF Unique
    <2>2. CASE i = Len(r) + 1 \/ j = Len(r) + 1
      BY <1>7, <1>8, <1>9, <2>2
    <2>3. QED
      BY <1>8, <2>1, <2>2
  <1>11. ASSUME NEW i \in 1 .. Len(r) PROVE After(t, i) = After(r, i) \cup {x}
    <2>1. \A j \in i + 1 .. Len(r) : j \in i + 1 .. Len(t) /\ t[j] = r[j]
      BY <1>8
    <2>2. Len(t) \in i + 1 .. Len(t) /\ t[Len(t)].signature = x
      BY <1>7, <1>8
    <2>3. ASSUME NEW j \in i + 1 .. Len(t), j # Len(t)
          PROVE  j \in i + 1 .. Len(r) /\ t[j] = r[j]
      <3>1. Len(t) = Len(r) + 1 /\ Len(r) \in Nat /\ i \in 1 .. Len(r)
        BY <1>8
      <3>2. j \in i + 1 .. Len(r) /\ j \in 1 .. Len(r)
        BY <2>3, <3>1
      <3>3. QED
        BY <1>8, <3>2
    <2>4. After(r, i) \cup {x} \subseteq After(t, i)
      BY <2>1, <2>2, Zenon DEF After
    <2>5. After(t, i) \subseteq After(r, i) \cup {x}
      BY <2>2, <2>3, Zenon DEF After
    <2>6. QED
      BY <2>4, <2>5
  <1> DEFINE g == [i \in 1 .. Len(t) - 1 |-> from[i + d]]
  <1>12. /\ Len(t) - 1 = Len(r)
         /\ g \in [1 .. Len(t) - 1 -> 1 .. Len(entries)]
         /\ \A i \in 1 .. Len(r) : g[i] = from[i + d]
    <2>1. Len(t) - 1 = Len(r)
      BY <1>8
    <2>2. \A i \in 1 .. Len(t) - 1 : from[i + d] \in 1 .. Len(entries)
      BY <1>6, <2>1
    <2>3. QED
      BY <2>1, <2>2
  <1> HIDE DEF g
  <1>13. \A i \in 1 .. Len(r) :
           /\ t[i] = entries[g[i]] /\ t[i].signature # x
           /\ After(t, i) = After(entries, g[i]) \cup {x}
    BY <1>2, <1>6, <1>9, <1>11, <1>12
  <1>14. \A i, j \in 1 .. Len(r) : i < j => g[i] < g[j]
    <2> SUFFICES ASSUME NEW i \in 1 .. Len(r), NEW j \in 1 .. Len(r), i < j PROVE g[i] < g[j]
      OBVIOUS
    <2>1. i + d \in 1 .. Len(w) /\ j + d \in 1 .. Len(w) /\ i + d < j + d
      BY <1>6, <1>8
    <2>2. QED
      BY <1>2, <1>12, <2>1
  <1>15. ASSUME NEW n \in 1 .. Len(entries), entries[n].signature # x,
                Cardinality(After(entries, n) \cup {x}) < max_entries
         PROVE  \E i \in 1 .. Len(r) : g[i] = n
    <2>1. PICK m \in 1 .. Len(w) : from[m] = n
      BY <1>2, <1>15
    <2>2. After(w, m) \cup {x} = After(entries, n) \cup {x} /\ x \notin After(w, m)
      BY <1>2, <2>1
    <2>3. IsFiniteSet(After(w, m)) /\ Cardinality(After(w, m)) = Len(w) - m
      BY <1>1, AfterCardinality
    <2>4. Cardinality(After(w, m) \cup {x}) = Len(w) - m + 1
      BY <2>2, <2>3, FS_AddElement
    <2>5. Len(w) - m + 1 < max_entries
      BY <1>15, <2>2, <2>4
    <2>6. d < m
      BY <1>0, <1>5, <1>8, <2>5
    <2>7. m - d \in 1 .. Len(r) /\ m - d + d = m
      BY <1>6, <1>8, <2>6
    <2>8. g[m - d] = n
      BY <1>12, <2>1, <2>7
    <2>9. QED
      BY <2>7, <2>8
  <1>16. Len(t) \in 1 .. max_entries /\ t[Len(t)] = e
    BY <1>0, <1>4, <1>8
  <1>17. \E h \in [1 .. Len(t) - 1 -> 1 .. Len(entries)] :
           /\ \A i \in 1 .. Len(t) - 1 :
                /\ t[i] = entries[h[i]] /\ t[i].signature # x
                /\ After(t, i) = After(entries, h[i]) \cup {x}
           /\ \A i, j \in 1 .. Len(t) - 1 : i < j => h[i] < h[j]
           /\ \A n \in 1 .. Len(entries) :
                /\ entries[n].signature # x
                /\ Cardinality(After(entries, n) \cup {x}) < max_entries
                => \E i \in 1 .. Len(t) - 1 : h[i] = n
    <2>1. /\ \A i \in 1 .. Len(t) - 1 :
               /\ t[i] = entries[g[i]] /\ t[i].signature # x
               /\ After(t, i) = After(entries, g[i]) \cup {x}
          /\ \A i, j \in 1 .. Len(t) - 1 : i < j => g[i] < g[j]
      BY <1>12, <1>13, <1>14
    <2>2. \A n \in 1 .. Len(entries) :
            /\ entries[n].signature # x
            /\ Cardinality(After(entries, n) \cup {x}) < max_entries
            => \E i \in 1 .. Len(t) - 1 : g[i] = n
      BY <1>12, <1>15
    <2>3. QED
      BY <1>12, <2>1, <2>2, Zenon
  <1>18. QED
    BY <1>8, <1>10, <1>16, <1>17 DEF e, TouchedFrom

------------------------------------------------------------------------------
(* The airtime budget *)

\* The bucket is a natural number for every duty cycle.
LEMMA MaxBudgetNat ==
  ASSUME NEW p \in 1..100
  PROVE  MaxBudget(p) \in Nat
  <1>1. DUTY_CYCLE_WINDOW_MS * p \in Nat
    BY WindowAssumption
  <1>2. QED
    BY <1>1, WindowAssumption DEF MaxBudget

\* What a refill earns: a natural number, its hundredfold at most the time
\* passed times the duty cycle, short of it by less than 100.
LEMMA RefillBounds ==
  ASSUME NEW b \in Budgets,
         NEW t \in Nat, b.last_update_ms <= t,
         NEW p \in 1..100
  PROVE  /\ Refill(b, t, p) \in Nat
         /\ 100 * Refill(b, t, p) <= p * (t - b.last_update_ms)
         /\ p * (t - b.last_update_ms) <= 100 * Refill(b, t, p) + 99
  <1> USE DEF Budgets
  <1> DEFINE earned == (t - b.last_update_ms) * p
  <1>1. t - b.last_update_ms \in Nat /\ p \in Nat
    OBVIOUS
  <1>2. earned \in Nat
    BY <1>1
  <1>3. earned = p * (t - b.last_update_ms)
    BY <1>1
  <1>4. \A n \in Nat : /\ n \div 100 \in Nat
                       /\ 100 * (n \div 100) <= n
                       /\ n <= 100 * (n \div 100) + 99
    OBVIOUS
  <1>5. QED
    BY <1>2, <1>3, <1>4 DEF Refill

\* An update keeps the budget within the bucket, never takes what is below the
\* bucket away, and adds no more than was earned.
LEMMA UpdateFacts ==
  ASSUME NEW b \in Budgets,
         NEW t \in Nat, b.last_update_ms <= t,
         NEW p \in 1..100
  PROVE  LET u == Update(b, t, p)
         IN /\ u \in Budgets
            /\ u.last_update_ms <= t
            /\ u.available_ms <= MaxBudget(p)
            /\ \A a \in Int : a <= b.available_ms /\ a <= MaxBudget(p) => a <= u.available_ms
            /\ \/ /\ u.last_update_ms = t
                  /\ 100 * u.available_ms
                       <= 100 * b.available_ms + p * (t - b.last_update_ms)
               \/ /\ u.last_update_ms = b.last_update_ms
                  /\ u.available_ms <= b.available_ms
                  /\ p * (t - b.last_update_ms) <= 99
  <1> USE DEF Budgets
  <1> DEFINE u == Update(b, t, p)
             r == Refill(b, t, p)
             kept == Lesser(b.available_ms, MaxBudget(p))
  <1>1. /\ r \in Nat
        /\ 100 * r <= p * (t - b.last_update_ms)
        /\ p * (t - b.last_update_ms) <= 100 * r + 99
    BY RefillBounds
  <1>2. MaxBudget(p) \in Nat
    BY MaxBudgetNat
  <1>3. kept \in Int /\ kept <= b.available_ms /\ kept <= MaxBudget(p)
        /\ (kept = b.available_ms \/ kept = MaxBudget(p))
    BY <1>2 DEF Lesser
  <1>4. p * (t - b.last_update_ms) \in Nat
    OBVIOUS
  <1>5. CASE r > 0
    <2>1. u = [available_ms |-> Lesser(kept + r, MaxBudget(p)), last_update_ms |-> t]
      BY <1>5 DEF Update
    <2>2. /\ u.available_ms \in Int
          /\ u.available_ms <= MaxBudget(p)
          /\ u.available_ms <= kept + r
          /\ (u.available_ms = kept + r \/ u.available_ms = MaxBudget(p))
      BY <2>1, <1>1, <1>2, <1>3 DEF Lesser
    <2>3. 100 * u.available_ms <= 100 * b.available_ms + p * (t - b.last_update_ms)
      BY <2>2, <1>1, <1>3, <1>4
    <2>4. u \in Budgets /\ u.last_update_ms = t
      BY <2>1, <2>2
    <2>5. \A a \in Int : a <= b.available_ms /\ a <= MaxBudget(p) => a <= u.available_ms
      BY <2>2, <1>1, <1>2, <1>3
    <2>6. QED
      BY <2>2, <2>3, <2>4, <2>5
  <1>6. CASE ~(r > 0)
    <2>1. u = [b EXCEPT !.available_ms = kept]
      BY <1>6 DEF Update
    <2>2. u.available_ms = kept /\ u.last_update_ms = b.last_update_ms
      BY <2>1
    <2>3. u \in Budgets
      BY <2>1, <1>3
    <2>4. p * (t - b.last_update_ms) <= 99
      BY <1>1, <1>6, <1>4
    <2>5. \A a \in Int : a <= b.available_ms /\ a <= MaxBudget(p) => a <= u.available_ms
      BY <2>2, <1>2, <1>3
    <2>6. QED
      BY <2>2, <2>3, <2>4, <2>5, <1>3
  <1>7. QED
    BY <1>5, <1>6

\* What ready_at_ms decides: a packet that may go now is covered by the budget
\* it leaves behind.
LEMMA ReadyNowCovered ==
  ASSUME NEW b \in Budgets,
         NEW t \in Nat, b.last_update_ms <= t,
         NEW p \in 1..100, p < 100,
         NEW a \in Nat,
         ReadyAt(b, t, a, p) <= t
  PROVE  a <= Update(b, t, p).available_ms
  <1> USE DEF Budgets
  <1> DEFINE u == Update(b, t, p)
  <1>1. u \in Budgets
    BY UpdateFacts
  <1>2. SUFFICES ASSUME ~(a <= u.available_ms) PROVE FALSE
    OBVIOUS
  <1> DEFINE needed == (a - u.available_ms) * 100
  <1>3. needed \in Nat /\ needed > 0
    BY <1>1, <1>2
  <1>4. DivCeil(needed, p) > 0
    <2>1. \A n \in Nat \ {0} : \A d \in 1..100 : n \div d \in Nat /\ (n % d = 0 => n \div d > 0)
      OBVIOUS
    <2>2. QED
      BY <1>3, <2>1 DEF DivCeil
  <1>5. DivCeil(needed, p) \in Nat
    <2>1. needed \div p \in Nat
      BY <1>3
    <2>2. QED
      BY <2>1 DEF DivCeil
  <1>6. ReadyAt(b, t, a, p) = t + DivCeil(needed, p)
    BY <1>1, <1>2 DEF ReadyAt, AfterReadyAt
  <1>7. QED
    BY <1>4, <1>5, <1>6

\* The ceiling division loses nothing.
LEMMA DivCeilCovers ==
  ASSUME NEW n \in Nat, NEW d \in 1..100
  PROVE  DivCeil(n, d) \in Nat /\ d * DivCeil(n, d) >= n
  <1> DEFINE q == n \div d
  <1>1. q \in Nat /\ n % d \in 0..(d - 1) /\ n = d * q + (n % d)
    OBVIOUS
  <1>2. d * (q + 1) = d * q + d
    BY <1>1
  <1>3. CASE n % d = 0
    BY <1>1, <1>3 DEF DivCeil
  <1>4. CASE n % d # 0
    <2>1. DivCeil(n, d) = q + 1
      BY <1>4 DEF DivCeil
    <2>2. QED
      BY <1>1, <1>2, <2>1
  <1>5. QED
    BY <1>3, <1>4

\* Nor is it more than what covers.
LEMMA DivCeilLeast ==
  ASSUME NEW n \in Nat, NEW d \in 1..100, NEW m \in Nat, n <= d * m
  PROVE  DivCeil(n, d) <= m
  <1> DEFINE q == n \div d
  <1>1. q \in Nat /\ n % d \in 0..(d - 1) /\ n = d * q + (n % d)
    OBVIOUS
  <1>2. \A x, y \in Nat : x >= y + 1 => d * x >= d * y + d
    <2> SUFFICES ASSUME NEW x \in Nat, NEW y \in Nat, x >= y + 1
                 PROVE  d * x >= d * y + d
      OBVIOUS
    <2>1. x - y - 1 \in Nat /\ d * (x - y - 1) \in Nat
      OBVIOUS
    <2>2. d * x = d * y + d + d * (x - y - 1)
      OBVIOUS
    <2>3. d * y \in Nat /\ d * x \in Nat
      OBVIOUS
    <2>4. QED
      BY <2>1, <2>2, <2>3
  <1>3. d * q \in Nat /\ d * m \in Nat
    BY <1>1
  <1> HIDE DEF q
  <1>4. q <= m
    <2>1. CASE q >= m + 1
      BY <1>1, <1>2, <1>3, <2>1
    <2>2. QED
      BY <1>1, <2>1
  <1>5. CASE n % d = 0
    BY <1>4, <1>5 DEF DivCeil, q
  <1>6. CASE n % d # 0
    <2>1. q # m
      BY <1>1, <1>3, <1>6
    <2>2. QED
      BY <1>1, <1>4, <1>6, <2>1 DEF DivCeil, q
  <1>7. QED
    BY <1>5, <1>6

\* What ready_at_ms answers is the present or later.
LEMMA ReadyAtNotPast ==
  ASSUME NEW b \in Budgets, NEW t \in Nat, b.last_update_ms <= t,
         NEW p \in 1..100, NEW a \in Nat
  PROVE  ReadyAt(b, t, a, p) \in Nat /\ ReadyAt(b, t, a, p) >= t
  <1> DEFINE left == AfterReadyAt(b, t, p).available_ms
  <1>1. left \in Int
    BY UpdateFacts DEF AfterReadyAt, Budgets
  <1>2. CASE p >= 100 \/ left >= a
    BY <1>2 DEF ReadyAt
  <1>3. CASE ~(p >= 100 \/ left >= a)
    <2>1. (a - left) * 100 \in Nat
      BY <1>1, <1>3
    <2>2. DivCeil((a - left) * 100, p) \in Nat
      BY <2>1, DivCeilCovers
    <2>3. ReadyAt(b, t, a, p) = t + DivCeil((a - left) * 100, p)
      BY <1>3 DEF ReadyAt
    <2>4. QED
      BY <2>2, <2>3
  <1>4. QED
    BY <1>2, <1>3

\* A charge the budget and the bucket cover leaves the budget not overdrawn.
LEMMA ChargeCovered ==
  ASSUME NEW b \in Budgets, NEW t \in Nat, b.last_update_ms <= t,
         NEW p \in 1..100, NEW a \in Nat,
         p < 100 => a <= b.available_ms /\ a <= MaxBudget(p),
         b.available_ms >= 0
  PROVE  /\ RecordTransmit(b, t, a, p) \in Budgets
         /\ RecordTransmit(b, t, a, p).available_ms >= 0
         /\ RecordTransmit(b, t, a, p).last_update_ms <= t
  <1>1. CASE p >= 100
    BY <1>1 DEF RecordTransmit
  <1>2. CASE ~(p >= 100)
    <2> DEFINE u == Update(b, t, p)
    <2>1. /\ u \in Budgets /\ u.last_update_ms <= t
          /\ \A n \in Int : n <= b.available_ms /\ n <= MaxBudget(p) => n <= u.available_ms
      BY UpdateFacts
    <2>2. a <= u.available_ms
      BY <1>2, <2>1
    <2>3. RecordTransmit(b, t, a, p) = [u EXCEPT !.available_ms = @ - a]
      BY <1>2 DEF RecordTransmit
    <2> HIDE DEF u
    <2>4. QED
      BY <2>1, <2>2, <2>3 DEF Budgets
  <1>3. QED
    BY <1>1, <1>2

\* A call of ready_at_ms does not overdraw the budget either.
LEMMA AskedNotOverdrawn ==
  ASSUME NEW b \in Budgets, NEW t \in Nat, b.last_update_ms <= t,
         NEW p \in 1..100, b.available_ms >= 0
  PROVE  /\ AfterReadyAt(b, t, p) \in Budgets
         /\ AfterReadyAt(b, t, p).available_ms >= 0
         /\ AfterReadyAt(b, t, p).last_update_ms <= t
         /\ p < 100 => AfterReadyAt(b, t, p).available_ms <= MaxBudget(p)
  <1>1. CASE p >= 100
    BY <1>1 DEF AfterReadyAt
  <1>2. CASE ~(p >= 100)
    <2> DEFINE u == Update(b, t, p)
    <2>1. /\ u \in Budgets /\ u.last_update_ms <= t /\ u.available_ms <= MaxBudget(p)
          /\ \A n \in Int : n <= b.available_ms /\ n <= MaxBudget(p) => n <= u.available_ms
      BY UpdateFacts
    <2>2. u.available_ms >= 0
      BY <2>1, MaxBudgetNat
    <2>3. QED
      BY <1>2, <2>1, <2>2 DEF AfterReadyAt
  <1>3. QED
    BY <1>1, <1>2
==============================================================================
