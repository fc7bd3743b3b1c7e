---------------------------- MODULE RadioLoop_proofs ----------------------------
(***************************************************************************)
(* Theorems about the radio loop, for every capacity of the outbound queue *)
(* and of the seen-packet cache, every time to live, every limit on        *)
(* attempts and every set of signatures, delays and settings.              *)
(***************************************************************************)
EXTENDS RadioLoop, RadioLemmas

-------------------------------------------------------------------------------
(* The outbound queue: where an insertion puts a packet, and what it does to the *)
(* signatures a queue holds.                                                      *)

\* The signatures reserved are those of the packets held, each held once.
Matches(s, reserved) ==
  /\ reserved = {s[i].dedup_signature : i \in DOMAIN s} \ {NoSignature}
  /\ \A i, j \in DOMAIN s :
       s[i].dedup_signature = s[j].dedup_signature /\ IsForward(s[i]) => i = j

\* Every packet before the next becomes eligible no later.
Sorted(s) ==
  \A i, j \in DOMAIN s : i < j => s[i].eligible_at_ms <= s[j].eligible_at_ms

\* Insert puts a packet behind those eligible no later than it, which are the
\* front of a sorted queue, and before the others.
LEMMA InsertInserts ==
  ASSUME NEW q \in Seq(QueuedTransmit), NEW item \in QueuedTransmit
  PROVE  /\ Insert(q, item) \in Seq(QueuedTransmit)
         /\ \E k \in 1 .. Len(q) + 1 :
              /\ Inserted(q, item, k, Insert(q, item))
              /\ \A i \in 1 .. k - 1 : q[i].eligible_at_ms <= item.eligible_at_ms
              /\ k <= Len(q) => item.eligible_at_ms < q[k].eligible_at_ms
  <1> DEFINE later  == {i \in DOMAIN q : item.eligible_at_ms < q[i].eligible_at_ms}
             places == later \cup {Len(q) + 1}
             place  == Min(places)
  <1>1. /\ Len(q) \in Nat /\ DOMAIN q = 1 .. Len(q)
        /\ \A i \in 1 .. Len(q) : q[i] \in QueuedTransmit
    BY LenProperties, ElementOfSeq
  <1>2. /\ item.eligible_at_ms \in Nat
        /\ \A i \in 1 .. Len(q) : q[i].eligible_at_ms \in Nat
    BY <1>1 DEF QueuedTransmit
  <1>3. places \in SUBSET Nat /\ places # {} /\ places \subseteq 1 .. Len(q) + 1
    BY <1>1
  <1>4. place \in places /\ \A n \in places : place <= n
    BY <1>3, MinIsLeast
  <1>5. place \in 1 .. Len(q) + 1
    BY <1>3, <1>4
  <1> HIDE DEF place
  <1>6. /\ InsertAt(q, place, item) \in Seq(QueuedTransmit)
        /\ Inserted(q, item, place, InsertAt(q, place, item))
    BY <1>5, InsertAtInserts
  <1>7. Insert(q, item) = InsertAt(q, place, item)
    BY DEF Insert, place
  <1>8. \A i \in 1 .. place - 1 : q[i].eligible_at_ms <= item.eligible_at_ms
    <2> SUFFICES ASSUME NEW i \in 1 .. place - 1
                 PROVE  q[i].eligible_at_ms <= item.eligible_at_ms
      OBVIOUS
    <2>1. i \in 1 .. Len(q) /\ ~(place <= i)
      BY <1>1, <1>5
    <2>2. i \notin later
      BY <1>4, <2>1
    <2>3. QED
      BY <1>1, <1>2, <2>1, <2>2
  <1>9. place <= Len(q) => item.eligible_at_ms < q[place].eligible_at_ms
    BY <1>1, <1>4
  <1>10. QED
    BY <1>5, <1>6, <1>7, <1>8, <1>9

\* An insertion keeps the q sorted.
LEMMA InsertSorted ==
  ASSUME NEW q \in Seq(QueuedTransmit), NEW item \in QueuedTransmit, Sorted(q)
  PROVE  Sorted(Insert(q, item))
  <1> DEFINE t == Insert(q, item)
             time(i) == q[i].eligible_at_ms
  <1>1. PICK k \in 1 .. Len(q) + 1 :
          /\ Inserted(q, item, k, t)
          /\ \A i \in 1 .. k - 1 : q[i].eligible_at_ms <= item.eligible_at_ms
          /\ k <= Len(q) => item.eligible_at_ms < q[k].eligible_at_ms
    BY InsertInserts
  <1>2. /\ Len(q) \in Nat /\ DOMAIN q = 1 .. Len(q)
        /\ item.eligible_at_ms \in Nat
        /\ \A i \in 1 .. Len(q) : q[i].eligible_at_ms \in Nat
    <2>1. /\ Len(q) \in Nat /\ DOMAIN q = 1 .. Len(q)
          /\ \A i \in 1 .. Len(q) : q[i] \in QueuedTransmit
      BY LenProperties, ElementOfSeq
    <2>2. QED
      BY <2>1 DEF QueuedTransmit
  <1>3. t \in Seq(QueuedTransmit) /\ DOMAIN t = 1 .. Len(q) + 1
    BY <1>1, InsertInserts, LenProperties DEF Inserted
  <1> HIDE DEF t
  <1>4. \A i \in k .. Len(q) : item.eligible_at_ms < q[i].eligible_at_ms
    BY <1>1, <1>2 DEF Sorted
  <1>5. /\ t[k] = item
        /\ \A i \in 1 .. k - 1 : t[i] = q[i]
        /\ \A i \in k + 1 .. Len(q) + 1 : t[i] = q[i - 1]
    <2>1. \A i \in 1 .. Len(q) : t[IF i < k THEN i ELSE i + 1] = q[i]
      BY <1>1 DEF Inserted
    <2>2. ASSUME NEW i \in k + 1 .. Len(q) + 1 PROVE t[i] = q[i - 1]
      <3>1. i - 1 \in 1 .. Len(q) /\ ~(i - 1 < k) /\ i - 1 + 1 = i
        BY <1>2
      <3>2. QED
        BY <2>1, <3>1
    <2>3. ASSUME NEW i \in 1 .. k - 1 PROVE t[i] = q[i]
      BY <1>2, <2>1
    <2>4. QED
      BY <1>1, <2>2, <2>3 DEF Inserted
  <1>6. SUFFICES ASSUME NEW i \in 1 .. Len(q) + 1, NEW j \in 1 .. Len(q) + 1, i < j
                 PROVE  t[i].eligible_at_ms <= t[j].eligible_at_ms
    BY <1>3 DEF Sorted, t
  <1>7. CASE j < k
    <2>1. t[i] = q[i] /\ t[j] = q[j] /\ i \in 1 .. Len(q) /\ j \in 1 .. Len(q)
      BY <1>2, <1>5, <1>6, <1>7
    <2>2. QED
      BY <1>2, <1>6, <2>1 DEF Sorted
  <1>8. CASE j = k
    BY <1>1, <1>2, <1>5, <1>6, <1>8
  <1>9. CASE j > k /\ i < k
    <2>1. t[i] = q[i] /\ t[j] = q[j - 1] /\ i \in 1 .. Len(q) /\ j - 1 \in k .. Len(q)
      BY <1>2, <1>5, <1>6, <1>9
    <2>2. q[i].eligible_at_ms <= item.eligible_at_ms /\ item.eligible_at_ms < q[j - 1].eligible_at_ms
      BY <1>1, <1>2, <1>4, <1>9, <2>1
    <2>3. QED
      BY <1>2, <2>1, <2>2
  <1>10. CASE j > k /\ i = k
    <2>1. t[i] = item /\ t[j] = q[j - 1] /\ j - 1 \in k .. Len(q)
      BY <1>2, <1>5, <1>6, <1>10
    <2>2. QED
      BY <1>2, <1>4, <2>1
  <1>11. CASE j > k /\ i > k
    <2>1. t[i] = q[i - 1] /\ t[j] = q[j - 1] /\ i - 1 \in 1 .. Len(q) /\ j - 1 \in 1 .. Len(q)
      BY <1>2, <1>5, <1>6, <1>11
    <2>2. QED
      BY <1>2, <1>6, <2>1 DEF Sorted
  <1>12. QED
    BY <1>2, <1>7, <1>8, <1>9, <1>10, <1>11

\* A packet whose signature is not reserved, or one of this node's own, may join
\* the packets held.
LEMMA InsertedMatches ==
  ASSUME NEW S, NEW s \in Seq(S), NEW t \in Seq(S), NEW e, NEW k, NEW reserved,
         Inserted(s, e, k, t), Matches(s, reserved),
         IsForward(e) => e.dedup_signature \notin reserved
  PROVE  Matches(t, reserved \cup ({e.dedup_signature} \ {NoSignature}))
  <1> DEFINE at(i) == IF i < k THEN i ELSE i + 1
  <1>1. /\ Len(s) \in Nat /\ DOMAIN s = 1 .. Len(s) /\ DOMAIN t = 1 .. Len(s) + 1
        /\ k \in 1 .. Len(s) + 1 /\ t[k] = e
        /\ \A i \in 1 .. Len(s) : t[at(i)] = s[i]
    BY LenProperties DEF Inserted
  <1>2. /\ \A i \in 1 .. Len(s) : at(i) \in 1 .. Len(s) + 1 /\ at(i) # k
        /\ \A j \in 1 .. Len(s) + 1 : j = k \/ \E i \in 1 .. Len(s) : at(i) = j
    <2>1. ASSUME NEW j \in 1 .. Len(s) + 1, j # k PROVE \E i \in 1 .. Len(s) : at(i) = j
      <3>1. CASE j < k
        BY <1>1, <3>1
      <3>2. CASE j > k
        <4>1. j - 1 \in 1 .. Len(s) /\ at(j - 1) = j
          BY <1>1, <3>2
        <4>2. QED
          BY <4>1
      <3>3. QED
        BY <1>1, <2>1, <3>1, <3>2
    <2>2. \A i \in 1 .. Len(s) : at(i) \in 1 .. Len(s) + 1 /\ at(i) # k
      BY <1>1
    <2>3. QED
      BY <2>1, <2>2
  <1> HIDE DEF at
  <1>3. {t[j].dedup_signature : j \in DOMAIN t}
          = {s[i].dedup_signature : i \in DOMAIN s} \cup {e.dedup_signature}
    <2>1. ASSUME NEW j \in 1 .. Len(s) + 1
          PROVE  \/ t[j].dedup_signature = e.dedup_signature
                 \/ \E i \in 1 .. Len(s) : t[j].dedup_signature = s[i].dedup_signature
      BY <1>1, <1>2
    <2>2. ASSUME NEW i \in 1 .. Len(s)
          PROVE  \E j \in 1 .. Len(s) + 1 : t[j].dedup_signature = s[i].dedup_signature
      BY <1>1, <1>2
    <2>3. k \in 1 .. Len(s) + 1 /\ t[k].dedup_signature = e.dedup_signature
      BY <1>1
    <2> DEFINE ofT == {t[j].dedup_signature : j \in 1 .. Len(s) + 1}
               ofS == {s[i].dedup_signature : i \in 1 .. Len(s)}
    <2>4. ofT \subseteq ofS \cup {e.dedup_signature}
      BY <2>1, Zenon
    <2>5. ofS \subseteq ofT
      <3>1. ASSUME NEW i \in 1 .. Len(s) PROVE s[i].dedup_signature \in ofT
        <4>1. PICK j \in 1 .. Len(s) + 1 : t[j].dedup_signature = s[i].dedup_signature
          BY <2>2
        <4>2. QED
          BY <4>1, Zenon
      <3>2. QED
        BY <3>1, Zenon
    <2>6. e.dedup_signature \in ofT
      BY <2>3, Zenon
    <2>7. ofT = ofS \cup {e.dedup_signature}
      BY <2>4, <2>5, <2>6, Zenon
    <2>8. QED
      BY <1>1, <2>7
  <1>4. ASSUME NEW i \in DOMAIN t, NEW j \in DOMAIN t,
               t[i].dedup_signature = t[j].dedup_signature, IsForward(t[i])
        PROVE  i = j
    <2>1. \A n \in 1 .. Len(s) : IsForward(s[n]) => s[n].dedup_signature \in reserved
      BY <1>1 DEF Matches, IsForward
    <2>2. CASE i = k /\ j = k
      BY <2>2
    <2>3. CASE i = k /\ j # k
      <3>1. PICK n \in 1 .. Len(s) : at(n) = j
        BY <1>1, <1>2, <2>3
      <3>2. s[n].dedup_signature = e.dedup_signature /\ IsForward(e) /\ IsForward(s[n])
        BY <1>1, <1>4, <2>3, <3>1 DEF IsForward
      <3>3. QED
        BY <2>1, <3>2
    <2>4. CASE i # k /\ j = k
      <3>1. PICK n \in 1 .. Len(s) : at(n) = i
        BY <1>1, <1>2, <2>4
      <3>2. s[n].dedup_signature = e.dedup_signature /\ IsForward(e) /\ IsForward(s[n])
        BY <1>1, <1>4, <2>4, <3>1 DEF IsForward
      <3>3. QED
        BY <2>1, <3>2
    <2>5. CASE i # k /\ j # k
      <3>1. PICK m \in 1 .. Len(s) : at(m) = i
        BY <1>1, <1>2, <2>5
      <3>2. PICK n \in 1 .. Len(s) : at(n) = j
        BY <1>1, <1>2, <2>5
      <3>3. m = n
        BY <1>1, <1>4, <3>1, <3>2 DEF Matches
      <3>4. QED
        BY <3>1, <3>2, <3>3
    <2>6. QED
      BY <2>2, <2>3, <2>4, <2>5
  <1>5. QED
    BY <1>3, <1>4 DEF Matches

\* A packet that leaves the packets held takes its reservation along.
LEMMA RemovedMatches ==
  ASSUME NEW S, NEW s \in Seq(S), NEW t \in Seq(S), NEW e, NEW k, NEW reserved,
         Inserted(s, e, k, t), Matches(t, reserved)
  PROVE  Matches(s, reserved \ {e.dedup_signature})
  <1> DEFINE at(i) == IF i < k THEN i ELSE i + 1
  <1>1. /\ Len(s) \in Nat /\ DOMAIN s = 1 .. Len(s) /\ DOMAIN t = 1 .. Len(s) + 1
        /\ k \in 1 .. Len(s) + 1 /\ t[k] = e
        /\ \A i \in 1 .. Len(s) : t[at(i)] = s[i]
    BY LenProperties DEF Inserted
  <1>2. /\ \A i \in 1 .. Len(s) : at(i) \in 1 .. Len(s) + 1 /\ at(i) # k
        /\ \A i, j \in 1 .. Len(s) : at(i) = at(j) => i = j
        /\ \A j \in 1 .. Len(s) + 1 : j = k \/ \E i \in 1 .. Len(s) : at(i) = j
    <2>1. ASSUME NEW j \in 1 .. Len(s) + 1, j # k PROVE \E i \in 1 .. Len(s) : at(i) = j
      <3>1. CASE j < k
        BY <1>1, <3>1
      <3>2. CASE j > k
        <4>1. j - 1 \in 1 .. Len(s) /\ at(j - 1) = j
          BY <1>1, <3>2
        <4>2. QED
          BY <4>1
      <3>3. QED
        BY <1>1, <2>1, <3>1, <3>2
    <2>2. \A i \in 1 .. Len(s) : at(i) \in 1 .. Len(s) + 1 /\ at(i) # k
      BY <1>1
    <2>3. \A i, j \in 1 .. Len(s) : at(i) = at(j) => i = j
      BY <1>1
    <2>4. QED
      BY <2>1, <2>2, <2>3
  <1> HIDE DEF at
  <1>3. \A i, j \in DOMAIN s :
          s[i].dedup_signature = s[j].dedup_signature /\ IsForward(s[i]) => i = j
    <2> SUFFICES ASSUME NEW i \in 1 .. Len(s), NEW j \in 1 .. Len(s),
                        s[i].dedup_signature = s[j].dedup_signature, IsForward(s[i])
                 PROVE  i = j
      BY <1>1
    <2>1. at(i) = at(j)
      BY <1>1, <1>2 DEF Matches
    <2>2. QED
      BY <1>2, <2>1
  <1>4. \A i \in 1 .. Len(s) : IsForward(s[i]) => s[i].dedup_signature # e.dedup_signature
    <2> SUFFICES ASSUME NEW i \in 1 .. Len(s), IsForward(s[i]),
                        s[i].dedup_signature = e.dedup_signature
                 PROVE  FALSE
      OBVIOUS
    <2>1. at(i) = k
      BY <1>1, <1>2 DEF Matches
    <2>2. QED
      BY <1>2, <2>1
  <1>5. {s[i].dedup_signature : i \in DOMAIN s} \ {NoSignature}
          = reserved \ {e.dedup_signature}
    <2>1. reserved = {t[j].dedup_signature : j \in 1 .. Len(s) + 1} \ {NoSignature}
      BY <1>1 DEF Matches
    <2>2. ASSUME NEW x, x \in reserved, x # e.dedup_signature
          PROVE  \E i \in 1 .. Len(s) : x = s[i].dedup_signature
      <3>1. PICK j \in 1 .. Len(s) + 1 : x = t[j].dedup_signature
        BY <2>1, <2>2
      <3>2. j # k
        BY <1>1, <2>2, <3>1
      <3>3. QED
        BY <1>1, <1>2, <3>1, <3>2
    <2>3. ASSUME NEW i \in 1 .. Len(s), s[i].dedup_signature # NoSignature
          PROVE  s[i].dedup_signature \in reserved \ {e.dedup_signature}
      BY <1>1, <1>2, <1>4, <2>1, <2>3 DEF IsForward
    <2>4. reserved \ {e.dedup_signature}
            \subseteq {s[i].dedup_signature : i \in 1 .. Len(s)} \ {NoSignature}
      BY <2>1, <2>2, Zenon
    <2>5. {s[i].dedup_signature : i \in 1 .. Len(s)} \ {NoSignature}
            \subseteq reserved \ {e.dedup_signature}
      BY <2>3, Zenon
    <2>6. QED
      BY <1>1, <2>4, <2>5
  <1>6. QED
    BY <1>3, <1>5 DEF Matches

-------------------------------------------------------------------------------
(* The loop *)

\* The outbound queue q, with the packet being transmitted in c, is as
\* transmit_eligible_outbound and enqueue_outbound leave it.
Holding(q, c, reserved) ==
  /\ q \in Seq(QueuedTransmit) /\ c \in Seq(QueuedTransmit)
  /\ Len(q) + Len(c) <= capacity
  /\ Sorted(q)
  /\ Matches(q \o c, reserved)

\* The history was recorded for it, and fewer others than the cache has places
\* have been on the air since.
Recent(history, signature) ==
  /\ history[signature].at # Forgotten
  /\ Cardinality(history[signature].since) < max_entries

\* The cache has an entry for every recent signature, as old as its
\* transmission, and behind it only signatures that were on the air since.
Remembers(entries, history) ==
  /\ entries \in Seq([signature : Signatures, at : Forgotten .. 0])
  /\ history \in [Signatures -> [at : Forgotten .. 0, since : SUBSET Signatures]]
  /\ Unique(entries)
  /\ \A s \in Signatures : IsFiniteSet(history[s].since)
  /\ \A s \in Signatures :
       Recent(history, s) =>
         \E i \in 1 .. Len(entries) :
           /\ entries[i].signature = s
           /\ entries[i].at = history[s].at
           /\ After(entries, i) \subseteq history[s].since

\* Nothing recent is reserved.
NoneRecent(reserved, history) == \A s \in reserved : ~Recent(history, s)

\* What the queue, the reservations and the cache are to each other.
Kept ==
  /\ active = Len(current)
  /\ Holding(queue, current, pending_forwards)
  /\ Remembers(seen_packets, sent)
  /\ NoneRecent(pending_forwards, sent)

\* The types of the other variables.
OthersOK ==
  /\ inbound \in 0 .. inbound_queue_len
  /\ active \in {0, 1} /\ changed \in BOOLEAN
  /\ repeat_enabled \in BOOLEAN
  /\ duty_cycle_percent \in Percents /\ radio \in Radios
  /\ read \in [duty_cycle_percent : Percents, radio : Radios]
  /\ pc \in {"top", "cad", "backoff", "transmit", "prepare", "wait", "error"}
  /\ Len(current) = IF pc \in {"cad", "backoff", "transmit"} THEN 1 ELSE 0
  /\ attempt \in 0 .. CAD_MAX_ATTEMPTS - 1
  /\ wake_at \in Nat \cup {Never}
  /\ budget \in Budgets

LoopInv == OthersOK /\ Kept

------------------------------------------------------------------------------
(* The operations on the outbound queue *)

\* A function on the places of a sequence is a sequence as long.
LEMMA MappedSeq ==
  ASSUME NEW S, NEW T, NEW s \in Seq(S), NEW t \in [DOMAIN s -> T]
  PROVE  t \in Seq(T) /\ Len(t) = Len(s) /\ DOMAIN t = 1 .. Len(s)
  <1>1. Len(s) \in Nat /\ DOMAIN s = 1 .. Len(s)
    BY LenProperties
  <1>2. t \in [1 .. Len(s) -> T]
    BY <1>1
  <1>3. t \in Seq(T)
    BY <1>1, <1>2, SeqDef
  <1>4. Len(t) \in Nat /\ DOMAIN t = 1 .. Len(t) /\ DOMAIN t = 1 .. Len(s)
    BY <1>2, <1>3, LenProperties
  <1>5. Len(t) = Len(s)
    <2>1. \A m, n \in Nat : 1 .. m = 1 .. n => m = n
      <3>1. SUFFICES ASSUME NEW m \in Nat, NEW n \in Nat, 1 .. m = 1 .. n
                     PROVE  m = n
        OBVIOUS
      <3>2. CASE m > n
        <4>1. m \in 1 .. m /\ m \notin 1 .. n
          BY <3>2
        <4>2. QED
          BY <3>1, <4>1
      <3>3. CASE n > m
        <4>1. n \in 1 .. n /\ n \notin 1 .. m
          BY <3>3
        <4>2. QED
          BY <3>1, <4>1
      <3>4. QED
        BY <3>2, <3>3
    <2>2. QED
      BY <1>1, <1>4, <2>1
  <1>6. QED
    BY <1>3, <1>4, <1>5

\* The front of a queue, taken off it, was inserted as the first.
LEMMA HeadInserted ==
  ASSUME NEW S, NEW q \in Seq(S), q # <<>>
  PROVE  /\ Head(q) \in S /\ Tail(q) \in Seq(S)
         /\ Len(q) \in Nat \ {0} /\ Len(Tail(q)) = Len(q) - 1
         /\ Head(q) = q[1]
         /\ \A i \in 1 .. Len(Tail(q)) : Tail(q)[i] = q[i + 1]
         /\ Inserted(Tail(q), Head(q), 1, q)
  <1>1. /\ Head(q) \in S /\ Tail(q) \in Seq(S) /\ Len(Tail(q)) = Len(q) - 1
        /\ \A i \in 1 .. Len(Tail(q)) : Tail(q)[i] = q[i + 1]
    BY HeadTailProperties
  <1>2. Len(q) \in Nat \ {0} /\ Head(q) = q[1]
    BY EmptySeq, LenProperties
  <1>3. Inserted(Tail(q), Head(q), 1, q)
    BY <1>1, <1>2 DEF Inserted
  <1>4. QED
    BY <1>1, <1>2, <1>3

\* A packet put behind the others was inserted as the last.
LEMMA LastInserted ==
  ASSUME NEW S, NEW q \in Seq(S), NEW e \in S
  PROVE  /\ q \o <<e>> \in Seq(S) /\ <<e>> \in Seq(S) /\ Len(<<e>>) = 1
         /\ q \o <<>> = q
         /\ Inserted(q, e, Len(q) + 1, q \o <<e>>)
  <1>1. <<e>> \in Seq(S) /\ Len(<<e>>) = 1 /\ <<e>>[1] = e
    OBVIOUS
  <1>2. /\ q \o <<e>> \in Seq(S) /\ Len(q \o <<e>>) = Len(q) + 1
        /\ \A i \in 1 .. Len(q) + 1 :
             (q \o <<e>>)[i] = IF i <= Len(q) THEN q[i] ELSE <<e>>[i - Len(q)]
    BY <1>1, ConcatProperties
  <1>3. Len(q) \in Nat
    BY LenProperties
  <1>4. Inserted(q, e, Len(q) + 1, q \o <<e>>)
    <2>1. (q \o <<e>>)[Len(q) + 1] = e
      <3>1. Len(q) + 1 \in 1 .. Len(q) + 1 /\ ~(Len(q) + 1 <= Len(q)) /\ Len(q) + 1 - Len(q) = 1
        BY <1>3
      <3>2. QED
        BY <1>1, <1>2, <3>1
    <2>2. \A i \in 1 .. Len(q) : (q \o <<e>>)[IF i < Len(q) + 1 THEN i ELSE i + 1] = q[i]
      BY <1>2, <1>3
    <2>3. QED
      BY <1>2, <1>3, <2>1, <2>2 DEF Inserted
  <1>5. QED
    BY <1>1, <1>2, <1>4, ConcatEmptySeq

\* The signatures of the packets held are reserved, and NoSignature is not.
LEMMA ReservedFacts ==
  ASSUME NEW s \in Seq(QueuedTransmit), NEW reserved, Matches(s, reserved)
  PROVE  /\ reserved \subseteq Signatures
         /\ NoSignature \notin reserved
         /\ \A i \in 1 .. Len(s) : IsForward(s[i]) => s[i].dedup_signature \in reserved
  <1>1. DOMAIN s = 1 .. Len(s) /\ \A i \in 1 .. Len(s) : s[i] \in QueuedTransmit
    BY LenProperties, ElementOfSeq
  <1>2. \A i \in DOMAIN s : s[i].dedup_signature \in Signatures \cup {NoSignature}
    BY <1>1 DEF QueuedTransmit
  <1>3. QED
    BY <1>1, <1>2 DEF Matches, IsForward

\* Nothing is held after a boot.
LEMMA HoldingNothing == Holding(<<>>, <<>>, {})
  <1>1. <<>> \in Seq(QueuedTransmit) /\ Len(<<>>) = 0 /\ <<>> \o <<>> = <<>>
    BY EmptySeq, ConcatEmptySeq
  <1>2. DOMAIN <<>> = {}
    BY <1>1, LenProperties
  <1>3. QED
    BY <1>1, <1>2, QueueAssumption DEF Holding, Sorted, Matches

\* try_send: a packet of this node's own, or a forward that has a place and
\* whose signature has just been reserved.
LEMMA HoldingSend ==
  ASSUME NEW q, NEW c, NEW reserved, NEW item \in QueuedTransmit,
         Holding(q, c, reserved),
         IsForward(item) => item.dedup_signature \notin reserved /\ ~IsFull(q, Len(c))
  PROVE  Holding(TrySend(q, Len(c), item), c,
                 reserved \cup ({item.dedup_signature} \ {NoSignature}))
  <1>1. /\ q \in Seq(QueuedTransmit) /\ c \in Seq(QueuedTransmit)
        /\ Len(q) + Len(c) <= capacity /\ Sorted(q) /\ Matches(q \o c, reserved)
    BY DEF Holding
  <1>2. q \o c \in Seq(QueuedTransmit) /\ Len(q) \in Nat /\ Len(c) \in Nat /\ capacity \in Nat
    BY <1>1, ConcatProperties, LenProperties, QueueAssumption
  <1>3. CASE IsFull(q, Len(c))
    <2>1. {item.dedup_signature} \ {NoSignature} = {}
      BY <1>3 DEF IsForward
    <2>2. QED
      BY <1>3, <2>1 DEF TrySend
  <1>4. CASE ~IsFull(q, Len(c))
    <2>1. TrySend(q, Len(c), item) = Insert(q, item)
      BY <1>4 DEF TrySend
    <2>2. PICK k \in 1 .. Len(q) + 1 : Inserted(q, item, k, Insert(q, item))
      BY <1>1, InsertInserts
    <2>3. Insert(q, item) \in Seq(QueuedTransmit) /\ Sorted(Insert(q, item))
      BY <1>1, InsertInserts, InsertSorted
    <2>4. Insert(q, item) \o c \in Seq(QueuedTransmit)
      BY <1>1, <2>3, ConcatProperties
    <2>5. Inserted(q \o c, item, k, Insert(q, item) \o c)
      BY <1>1, <2>2, <2>3, InsertedConcat
    <2>6. Matches(Insert(q, item) \o c, reserved \cup ({item.dedup_signature} \ {NoSignature}))
      BY <1>1, <1>2, <2>4, <2>5, InsertedMatches
    <2>7. Len(Insert(q, item)) + Len(c) <= capacity
      BY <1>2, <1>4, <2>2 DEF Inserted, IsFull
    <2>8. QED
      BY <1>1, <2>1, <2>3, <2>6, <2>7 DEF Holding
  <1>5. QED
    BY <1>3, <1>4

\* A reservation made again for the packet that had it is the one it had.
LEMMA SameReservation ==
  ASSUME NEW s \in Seq(QueuedTransmit), NEW reserved, Matches(s, reserved),
         NEW i \in 1 .. Len(s)
  PROVE  (reserved \ {s[i].dedup_signature}) \cup ({s[i].dedup_signature} \ {NoSignature})
           = reserved
  <1>1. CASE IsForward(s[i])
    BY <1>1, ReservedFacts
  <1>2. CASE ~IsForward(s[i])
    BY <1>2, ReservedFacts DEF IsForward
  <1>3. QED
    BY <1>1, <1>2

\* The packet at the front is dropped.
LEMMA HoldingDrop ==
  ASSUME NEW q, NEW reserved, Holding(q, <<>>, reserved), q # <<>>
  PROVE  /\ Head(q) \in QueuedTransmit
         /\ Holding(Tail(q), <<>>, reserved \ {Head(q).dedup_signature})
  <1>1. /\ q \in Seq(QueuedTransmit) /\ <<>> \in Seq(QueuedTransmit) /\ Len(<<>>) = 0
        /\ Len(q) <= capacity /\ Sorted(q) /\ q \o <<>> = q /\ Matches(q, reserved)
    BY EmptySeq, ConcatEmptySeq DEF Holding
  <1>2. /\ Head(q) \in QueuedTransmit /\ Tail(q) \in Seq(QueuedTransmit)
        /\ Len(q) \in Nat \ {0} /\ Len(Tail(q)) = Len(q) - 1
        /\ \A i \in 1 .. Len(Tail(q)) : Tail(q)[i] = q[i + 1]
        /\ Inserted(Tail(q), Head(q), 1, q)
    BY <1>1, HeadInserted
  <1>3. Matches(Tail(q), reserved \ {Head(q).dedup_signature})
    BY <1>1, <1>2, RemovedMatches
  <1>4. Sorted(Tail(q))
    <2>1. DOMAIN q = 1 .. Len(q) /\ DOMAIN Tail(q) = 1 .. Len(q) - 1
      BY <1>1, <1>2, LenProperties
    <2>2. QED
      BY <1>1, <1>2, <2>1 DEF Sorted
  <1>5. Tail(q) \o <<>> = Tail(q) /\ Len(Tail(q)) + Len(<<>>) <= capacity
    BY <1>1, <1>2, ConcatEmptySeq, QueueAssumption
  <1>6. QED
    BY <1>1, <1>2, <1>3, <1>4, <1>5 DEF Holding

\* take_first: the packet at the front becomes the one being transmitted.
LEMMA HoldingTake ==
  ASSUME NEW q, NEW reserved, Holding(q, <<>>, reserved), q # <<>>
  PROVE  Holding(Tail(q), <<Head(q)>>, reserved)
  <1> DEFINE first == Head(q)
  <1>1. /\ q \in Seq(QueuedTransmit) /\ Len(<<>>) = 0
        /\ Len(q) <= capacity /\ q \o <<>> = q /\ Matches(q, reserved)
    BY EmptySeq, ConcatEmptySeq DEF Holding
  <1>2. /\ first \in QueuedTransmit /\ Tail(q) \in Seq(QueuedTransmit)
        /\ Len(q) \in Nat \ {0} /\ Len(Tail(q)) = Len(q) - 1 /\ first = q[1]
        /\ Inserted(Tail(q), first, 1, q)
    BY <1>1, HeadInserted
  <1>3. Sorted(Tail(q)) /\ Matches(Tail(q), reserved \ {first.dedup_signature})
    <2>1. Holding(Tail(q), <<>>, reserved \ {first.dedup_signature})
      BY HoldingDrop
    <2>2. QED
      BY <1>2, <2>1, ConcatEmptySeq DEF Holding
  <1>4. /\ Tail(q) \o <<first>> \in Seq(QueuedTransmit) /\ <<first>> \in Seq(QueuedTransmit)
        /\ Len(<<first>>) = 1
        /\ Inserted(Tail(q), first, Len(Tail(q)) + 1, Tail(q) \o <<first>>)
    BY <1>2, LastInserted
  <1>5. (reserved \ {first.dedup_signature}) \cup ({first.dedup_signature} \ {NoSignature})
          = reserved
    BY <1>1, <1>2, SameReservation
  <1>6. Matches(Tail(q) \o <<first>>, reserved)
    <2>1. Matches(Tail(q) \o <<first>>,
                  (reserved \ {first.dedup_signature})
                    \cup ({first.dedup_signature} \ {NoSignature}))
      BY <1>2, <1>3, <1>4, InsertedMatches
    <2>2. QED
      BY <1>5, <2>1
  <1>7. Len(Tail(q)) + Len(<<first>>) <= capacity
    BY <1>1, <1>2, <1>4
  <1>8. QED
    BY <1>2, <1>3, <1>4, <1>6, <1>7 DEF Holding

\* complete_current and finish_forward: the packet has gone or is given up.
LEMMA HoldingFinish ==
  ASSUME NEW q, NEW e \in QueuedTransmit, NEW reserved, Holding(q, <<e>>, reserved)
  PROVE  Holding(q, <<>>, reserved \ {e.dedup_signature})
  <1>1. /\ q \in Seq(QueuedTransmit) /\ Sorted(q) /\ Matches(q \o <<e>>, reserved)
        /\ Len(q) + Len(<<e>>) <= capacity /\ Len(<<e>>) = 1
        /\ <<>> \in Seq(QueuedTransmit) /\ Len(<<>>) = 0
    BY EmptySeq DEF Holding
  <1>2. /\ q \o <<e>> \in Seq(QueuedTransmit) /\ q \o <<>> = q
        /\ Inserted(q, e, Len(q) + 1, q \o <<e>>)
    BY <1>1, LastInserted
  <1>3. Matches(q, reserved \ {e.dedup_signature})
    BY <1>1, <1>2, RemovedMatches
  <1>4. Len(q) + Len(<<>>) <= capacity
    BY <1>1, LenProperties, QueueAssumption
  <1>5. QED
    BY <1>1, <1>2, <1>3, <1>4 DEF Holding

\* retry_current: the packet goes back into the queue, later and with one more
\* attempt, but with its signature.
LEMMA HoldingRetry ==
  ASSUME NEW q, NEW e \in QueuedTransmit, NEW item \in QueuedTransmit, NEW reserved,
         Holding(q, <<e>>, reserved), item.dedup_signature = e.dedup_signature
  PROVE  Holding(Insert(q, item), <<>>, reserved)
  <1>1. Holding(q, <<>>, reserved \ {e.dedup_signature})
    BY HoldingFinish
  <1>2. /\ q \in Seq(QueuedTransmit) /\ Len(q) \in Nat /\ Len(<<e>>) = 1
        /\ Len(q) + 1 <= capacity /\ Len(<<>>) = 0 /\ capacity \in Nat
    BY LenProperties, EmptySeq, QueueAssumption DEF Holding
  <1>3. ~IsFull(q, Len(<<>>)) /\ TrySend(q, Len(<<>>), item) = Insert(q, item)
    BY <1>2 DEF IsFull, TrySend
  <1>4. Holding(Insert(q, item), <<>>,
                (reserved \ {e.dedup_signature}) \cup ({e.dedup_signature} \ {NoSignature}))
    BY <1>1, <1>3, HoldingSend
  <1>5. (reserved \ {e.dedup_signature}) \cup ({e.dedup_signature} \ {NoSignature}) = reserved
    <2>1. /\ q \o <<e>> \in Seq(QueuedTransmit) /\ Matches(q \o <<e>>, reserved)
          /\ Len(q) + 1 \in 1 .. Len(q \o <<e>>) /\ (q \o <<e>>)[Len(q) + 1] = e
      BY <1>2, LastInserted DEF Holding, Inserted
    <2>2. QED
      BY <2>1, SameReservation
  <1>6. QED
    BY <1>4, <1>5

\* Time passes: the order of the queue and the signatures in it stay.
LEMMA HoldingTick ==
  ASSUME NEW q, NEW c, NEW reserved, Holding(q, c, reserved)
  PROVE  Holding([i \in DOMAIN q |-> [q[i] EXCEPT !.eligible_at_ms = Aged(@, 0)]], c, reserved)
  <1> DEFINE t == [i \in DOMAIN q |-> [q[i] EXCEPT !.eligible_at_ms = Aged(@, 0)]]
  <1>1. /\ q \in Seq(QueuedTransmit) /\ c \in Seq(QueuedTransmit)
        /\ Len(q) + Len(c) <= capacity /\ Sorted(q) /\ Matches(q \o c, reserved)
    BY DEF Holding
  <1>2. /\ Len(q) \in Nat /\ Len(c) \in Nat /\ DOMAIN q = 1 .. Len(q)
        /\ \A i \in 1 .. Len(q) : q[i] \in QueuedTransmit
    BY <1>1, LenProperties, ElementOfSeq
  <1>3. \A i \in DOMAIN q :
          /\ [q[i] EXCEPT !.eligible_at_ms = Aged(@, 0)] \in QueuedTransmit
          /\ [q[i] EXCEPT !.eligible_at_ms = Aged(@, 0)].dedup_signature = q[i].dedup_signature
          /\ [q[i] EXCEPT !.eligible_at_ms = Aged(@, 0)].eligible_at_ms
               = Aged(q[i].eligible_at_ms, 0)
          /\ q[i].eligible_at_ms \in Nat
    BY <1>2 DEF QueuedTransmit, Aged, Later
  <1>4. /\ t \in [DOMAIN q -> QueuedTransmit]
        /\ \A i \in 1 .. Len(q) : /\ t[i].dedup_signature = q[i].dedup_signature
                                  /\ t[i].eligible_at_ms = Aged(q[i].eligible_at_ms, 0)
                                  /\ q[i].eligible_at_ms \in Nat
    BY <1>2, <1>3
  <1> HIDE DEF t
  <1>5. t \in Seq(QueuedTransmit) /\ Len(t) = Len(q) /\ DOMAIN t = 1 .. Len(q)
    BY <1>1, <1>4, MappedSeq
  <1>6. Sorted(t)
    <2>1. \A a, b \in Nat : a <= b => Aged(a, 0) <= Aged(b, 0)
      BY DEF Aged, Later
    <2>2. QED
      BY <1>1, <1>2, <1>4, <1>5, <2>1 DEF Sorted
  <1>7. /\ Len(t \o c) = Len(q) + Len(c) /\ Len(q \o c) = Len(q) + Len(c)
        /\ DOMAIN (t \o c) = 1 .. Len(q) + Len(c) /\ DOMAIN (q \o c) = 1 .. Len(q) + Len(c)
        /\ \A i \in 1 .. Len(q) + Len(c) :
             /\ (t \o c)[i] = IF i <= Len(q) THEN t[i] ELSE c[i - Len(q)]
             /\ (q \o c)[i] = IF i <= Len(q) THEN q[i] ELSE c[i - Len(q)]
    BY <1>1, <1>5, ConcatProperties, LenProperties
  <1>8. \A i \in 1 .. Len(q) + Len(c) :
          (t \o c)[i].dedup_signature = (q \o c)[i].dedup_signature
    BY <1>2, <1>4, <1>7
  <1>9. Matches(t \o c, reserved)
    <2>1. {(t \o c)[i].dedup_signature : i \in DOMAIN (t \o c)}
            = {(q \o c)[i].dedup_signature : i \in DOMAIN (q \o c)}
      BY <1>7, <1>8
    <2>2. \A i, j \in DOMAIN (t \o c) :
            (t \o c)[i].dedup_signature = (t \o c)[j].dedup_signature /\ IsForward((t \o c)[i])
              => i = j
      BY <1>1, <1>7, <1>8 DEF Matches, IsForward
    <2>3. QED
      BY <1>1, <2>1, <2>2 DEF Matches
  <1>10. QED
    BY <1>1, <1>5, <1>6, <1>9 DEF Holding, t

------------------------------------------------------------------------------
(* The operations on the seen-packet cache *)

USE DEF Forgotten

\* Nothing is remembered after a boot, and nothing was sent since.
LEMMA RemembersNothing ==
  Remembers(<<>>, [signature \in Signatures |-> Unsent])
  <1>1. Forgotten \in Forgotten .. 0
    BY CacheAssumption
  <1>2. IsFiniteSet({})
    BY FS_EmptySet
  <1>3. Unique(<<>>) /\ <<>> \in Seq([signature : Signatures, at : Forgotten .. 0])
    BY EmptySeq, LenProperties DEF Unique
  <1> DEFINE h == [signature \in Signatures |-> Unsent]
  <1>4. \A s \in Signatures : h[s].at = Forgotten /\ IsFiniteSet(h[s].since)
    BY <1>2 DEF Unsent
  <1>5. h \in [Signatures -> [at : Forgotten .. 0, since : SUBSET Signatures]]
    <2>1. Unsent \in [at : Forgotten .. 0, since : SUBSET Signatures]
      BY <1>1 DEF Unsent
    <2>2. QED
      BY <2>1
  <1> HIDE DEF h
  <1>6. QED
    BY <1>3, <1>4, <1>5 DEF Remembers, Recent, h

\* prune only forgets what is no longer recent.
LEMMA RemembersPrune ==
  ASSUME NEW entries, NEW history, Remembers(entries, history)
  PROVE  Remembers(Prune(entries, 0), history)
  <1> DEFINE S == [signature : Signatures, at : Forgotten .. 0]
             t == Prune(entries, 0)
  <1>1. /\ entries \in Seq(S) /\ Unique(entries)
        /\ history \in [Signatures -> [at : Forgotten .. 0, since : SUBSET Signatures]]
        /\ \A s \in Signatures : IsFiniteSet(history[s].since)
    BY DEF Remembers
  <1>2. /\ t \in Seq(S)
        /\ \E d \in Nat : /\ Suffix(entries, d, t)
                          /\ \A i \in DOMAIN entries : ~Expired(entries[i], 0) => d < i
    BY <1>1, PruneSuffix
  <1>3. PICK d \in Nat : /\ Suffix(entries, d, t)
                         /\ \A i \in DOMAIN entries : ~Expired(entries[i], 0) => d < i
    BY <1>2
  <1> HIDE DEF t
  <1>4. /\ Unique(t)
        /\ \A i \in 1 .. Len(t) :
             i + d \in 1 .. Len(entries) /\ t[i] = entries[i + d] /\ After(t, i) = After(entries, i + d)
        /\ \A n \in 1 .. Len(entries) : d < n => n - d \in 1 .. Len(t)
    BY <1>1, <1>2, <1>3, SuffixAfter
  <1>5. DOMAIN entries = 1 .. Len(entries) /\ Len(entries) \in Nat
    BY <1>1, LenProperties
  <1>6. ASSUME NEW s \in Signatures, Recent(history, s)
        PROVE  \E i \in 1 .. Len(t) : /\ t[i].signature = s
                                      /\ t[i].at = history[s].at
                                      /\ After(t, i) \subseteq history[s].since
    <2>1. PICK n \in 1 .. Len(entries) : /\ entries[n].signature = s
                                         /\ entries[n].at = history[s].at
                                         /\ After(entries, n) \subseteq history[s].since
      BY <1>6 DEF Remembers
    <2>2. history[s].at \in Forgotten .. 0 /\ history[s].at # Forgotten
      BY <1>1, <1>6 DEF Recent
    <2>3. ~Expired(entries[n], 0)
      BY <2>1, <2>2, CacheAssumption DEF Expired
    <2>4. d < n
      BY <1>3, <1>5, <2>3
    <2>5. n - d \in 1 .. Len(t) /\ n - d + d = n
      BY <1>4, <1>5, <2>4
    <2>6. t[n - d] = entries[n] /\ After(t, n - d) = After(entries, n)
      BY <1>4, <2>5
    <2>7. QED
      BY <2>1, <2>5, <2>6
  <1>7. QED
    BY <1>1, <1>2, <1>4, <1>6 DEF Remembers, t

\* A recent signature is found by contains.
LEMMA RecentHeld ==
  ASSUME NEW entries, NEW history, Remembers(entries, history),
         NEW s \in Signatures, Recent(history, s)
  PROVE  Holds(entries, s)
  <1>1. DOMAIN entries = 1 .. Len(entries)
    BY LenProperties DEF Remembers
  <1>2. QED
    BY <1>1 DEF Remembers, Holds

\* The history after a transmission.
Sent(history, x) ==
  [other \in Signatures |->
     IF other = x THEN [at |-> 0, since |-> {}]
     ELSE IF history[other].at = Forgotten THEN Unsent
     ELSE [history[other] EXCEPT !.since = @ \cup {x}]]

\* A transmission makes no other signature recent.
LEMMA SentRecent ==
  ASSUME NEW entries, NEW history, Remembers(entries, history), NEW x \in Signatures
  PROVE  /\ Sent(history, x) \in [Signatures -> [at : Forgotten .. 0, since : SUBSET Signatures]]
         /\ \A s \in Signatures : IsFiniteSet(Sent(history, x)[s].since)
         /\ \A s \in Signatures \ {x} :
              Recent(Sent(history, x), s) =>
                /\ Recent(history, s)
                /\ Sent(history, x)[s].at = history[s].at
                /\ Sent(history, x)[s].since = history[s].since \cup {x}
  <1> DEFINE h == Sent(history, x)
  <1>1. /\ history \in [Signatures -> [at : Forgotten .. 0, since : SUBSET Signatures]]
        /\ \A s \in Signatures : IsFiniteSet(history[s].since)
    BY DEF Remembers
  <1>2. 0 - (ttl_ticks + 1) \in Int /\ Forgotten \in Forgotten .. 0 /\ 0 \in Forgotten .. 0
    BY CacheAssumption
  <1>3. /\ \A s \in Signatures :
             h[s] = IF s = x THEN [at |-> 0, since |-> {}]
                    ELSE IF history[s].at = Forgotten THEN Unsent
                    ELSE [history[s] EXCEPT !.since = @ \cup {x}]
        /\ DOMAIN h = Signatures /\ h = [s \in Signatures |-> h[s]]
    BY DEF Sent
  <1> HIDE DEF h
  <1>4. \A s \in Signatures :
          /\ history[s] \in [at : Forgotten .. 0, since : SUBSET Signatures]
          /\ [history[s] EXCEPT !.since = @ \cup {x}]
               \in [at : Forgotten .. 0, since : SUBSET Signatures]
          /\ [history[s] EXCEPT !.since = @ \cup {x}].at = history[s].at
          /\ [history[s] EXCEPT !.since = @ \cup {x}].since = history[s].since \cup {x}
    BY <1>1
  <1>5. /\ [at |-> 0, since |-> {}] \in [at : Forgotten .. 0, since : SUBSET Signatures]
        /\ Unsent \in [at : Forgotten .. 0, since : SUBSET Signatures]
        /\ Unsent.at = Forgotten /\ Unsent.since = {}
    BY <1>2 DEF Unsent
  <1>6. h \in [Signatures -> [at : Forgotten .. 0, since : SUBSET Signatures]]
    <2>1. \A s \in Signatures : h[s] \in [at : Forgotten .. 0, since : SUBSET Signatures]
      BY <1>3, <1>4, <1>5
    <2>2. QED
      BY <1>3, <2>1
  <1>7. ASSUME NEW s \in Signatures PROVE IsFiniteSet(h[s].since)
    <2>1. IsFiniteSet({}) /\ IsFiniteSet(history[s].since \cup {x})
      BY <1>1, FS_EmptySet, FS_AddElement
    <2>2. h[s].since = {} \/ h[s].since = history[s].since \cup {x}
      BY <1>3, <1>4, <1>5
    <2>3. QED
      BY <2>1, <2>2
  <1>8. ASSUME NEW s \in Signatures \ {x}, Recent(h, s)
        PROVE  /\ Recent(history, s)
               /\ h[s].at = history[s].at
               /\ h[s].since = history[s].since \cup {x}
    <2>1. h[s].at = history[s].at /\ h[s].since = history[s].since \cup {x}
          /\ history[s].at # Forgotten
      BY <1>3, <1>4, <1>5, <1>8 DEF Recent
    <2>2. /\ IsFiniteSet(history[s].since \cup {x})
          /\ history[s].since \subseteq history[s].since \cup {x}
      BY <1>1, FS_AddElement
    <2>3. /\ Cardinality(history[s].since) <= Cardinality(history[s].since \cup {x})
          /\ Cardinality(history[s].since) \in Nat
          /\ Cardinality(history[s].since \cup {x}) \in Nat
      BY <1>1, <2>2, FS_Subset, FS_CardinalityType
    <2>4. Cardinality(history[s].since) < max_entries
      BY <1>8, <2>1, <2>3, CacheAssumption DEF Recent
    <2>5. QED
      BY <2>1, <2>4 DEF Recent
  <1>9. QED
    BY <1>6, <1>7, <1>8 DEF h

\* touch remembers the signature, and every other that is still recent.
LEMMA RemembersTouch ==
  ASSUME NEW entries, NEW history, Remembers(entries, history), NEW x \in Signatures
  PROVE  Remembers(Touch(entries, x, 0), Sent(history, x))
  <1> DEFINE S == [signature : Signatures, at : Forgotten .. 0]
             t == Touch(entries, x, 0)
             h == Sent(history, x)
  <1>1. entries \in Seq(S) /\ Unique(entries) /\ Len(entries) \in Nat
    BY LenProperties DEF Remembers
  <1>2. /\ h \in [Signatures -> [at : Forgotten .. 0, since : SUBSET Signatures]]
        /\ \A s \in Signatures : IsFiniteSet(h[s].since)
        /\ \A s \in Signatures \ {x} :
             Recent(h, s) => /\ Recent(history, s)
                             /\ h[s].at = history[s].at
                             /\ h[s].since = history[s].since \cup {x}
    BY SentRecent
  <1>3. h[x] = [at |-> 0, since |-> {}]
    BY DEF Sent
  <1> HIDE DEF h
  <1>4. CASE max_entries = 0
    <2>1. t = Without(entries, x)
      BY <1>4 DEF Touch
    <2>2. t \in Seq(S) /\ Unique(t)
      <3> HIDE DEF S, t
      <3>1. Without(entries, x) \in Seq(S) /\ Unique(Without(entries, x))
        BY <1>1, WithoutLayout
      <3>2. QED
        BY <2>1, <3>1
    <2>3. \A s \in Signatures : ~Recent(h, s)
      BY <1>2, <1>4, FS_CardinalityType DEF Recent
    <2>4. QED
      BY <1>2, <2>2, <2>3 DEF Remembers, h
  <1>5. CASE max_entries # 0
    <2>1. [signature |-> x, at |-> 0] \in S
      BY CacheAssumption
    <2>2. /\ t \in Seq(S) /\ Unique(t) /\ Len(t) \in 1 .. max_entries
          /\ t[Len(t)] = [signature |-> x, at |-> 0]
          /\ TouchedFrom(entries, x, t)
      <3>1. t = Touch(entries, x, 0)
        OBVIOUS
      <3> HIDE DEF S, t
      <3>2. QED
        BY <1>1, <1>5, <2>1, <3>1, TouchLayout
    <2> HIDE DEF t
    <2>3. PICK from \in [1 .. Len(t) - 1 -> 1 .. Len(entries)] :
            /\ \A i \in 1 .. Len(t) - 1 :
                 /\ t[i] = entries[from[i]] /\ t[i].signature # x
                 /\ After(t, i) = After(entries, from[i]) \cup {x}
            /\ \A n \in 1 .. Len(entries) :
                 /\ entries[n].signature # x
                 /\ Cardinality(After(entries, n) \cup {x}) < max_entries
                 => \E i \in 1 .. Len(t) - 1 : from[i] = n
      BY <2>2 DEF TouchedFrom
    <2>4. ASSUME NEW s \in Signatures, Recent(h, s)
          PROVE  \E i \in 1 .. Len(t) : /\ t[i].signature = s
                                        /\ t[i].at = h[s].at
                                        /\ After(t, i) \subseteq h[s].since
      <3>1. CASE s = x
        <4>1. After(t, Len(t)) = {}
          BY <2>2 DEF After
        <4>2. Len(t) \in 1 .. Len(t) /\ t[Len(t)].signature = x /\ t[Len(t)].at = 0
          BY <2>2, CacheAssumption
        <4>3. QED
          BY <1>3, <3>1, <4>1, <4>2
      <3>2. CASE s # x
        <4>1. PICK n \in 1 .. Len(entries) : /\ entries[n].signature = s
                                             /\ entries[n].at = history[s].at
                                             /\ After(entries, n) \subseteq history[s].since
          BY <1>2, <2>4, <3>2 DEF Remembers
        <4>2. h[s].since = history[s].since \cup {x} /\ h[s].at = history[s].at
          BY <1>2, <2>4, <3>2
        <4>3. /\ After(entries, n) \cup {x} \subseteq h[s].since
              /\ IsFiniteSet(h[s].since)
          BY <1>2, <4>1, <4>2
        <4>4. Cardinality(After(entries, n) \cup {x}) < max_entries
          <5>1. /\ Cardinality(After(entries, n) \cup {x}) <= Cardinality(h[s].since)
                /\ Cardinality(After(entries, n) \cup {x}) \in Nat
                /\ Cardinality(h[s].since) \in Nat
            BY <4>3, FS_Subset, FS_CardinalityType
          <5>2. Cardinality(h[s].since) < max_entries
            BY <2>4 DEF Recent
          <5>3. QED
            BY <5>1, <5>2, CacheAssumption
        <4>5. PICK i \in 1 .. Len(t) - 1 : from[i] = n
          BY <2>3, <3>2, <4>1, <4>4
        <4>6. i \in 1 .. Len(t) /\ t[i] = entries[n] /\ After(t, i) \subseteq h[s].since
          BY <2>2, <2>3, <4>3, <4>5
        <4>7. QED
          BY <4>1, <4>2, <4>6
      <3>3. QED
        BY <3>1, <3>2
    <2>5. QED
      BY <1>2, <2>2, <2>4 DEF Remembers, h, t
  <1>6. QED
    BY <1>4, <1>5

\* Time passes: entries and history age alike.
LEMMA RemembersTick ==
  ASSUME NEW entries, NEW history, Remembers(entries, history)
  PROVE  LET t == [i \in DOMAIN entries |-> [entries[i] EXCEPT !.at = Aged(@, Forgotten)]]
             h == [s \in Signatures |-> IF history[s].at > -ttl_ticks
                                        THEN [history[s] EXCEPT !.at = @ - 1]
                                        ELSE Unsent]
         IN /\ Remembers(t, h)
            /\ \A s \in Signatures : Recent(h, s) => Recent(history, s)
  <1> DEFINE S == [signature : Signatures, at : Forgotten .. 0]
             R == [at : Forgotten .. 0, since : SUBSET Signatures]
             t == [i \in DOMAIN entries |-> [entries[i] EXCEPT !.at = Aged(@, Forgotten)]]
             h == [s \in Signatures |-> IF history[s].at > -ttl_ticks
                                        THEN [history[s] EXCEPT !.at = @ - 1]
                                        ELSE Unsent]
  <1>1. /\ entries \in Seq(S) /\ Unique(entries) /\ history \in [Signatures -> R]
        /\ \A s \in Signatures : IsFiniteSet(history[s].since)
    BY DEF Remembers
  <1>2. /\ Len(entries) \in Nat /\ DOMAIN entries = 1 .. Len(entries)
        /\ \A i \in 1 .. Len(entries) : entries[i] \in S
    BY <1>1, LenProperties, ElementOfSeq
  <1>3. /\ \A a \in Forgotten .. 0 : Aged(a, Forgotten) \in Forgotten .. 0
        /\ \A a \in Forgotten .. 0 :
             a > -ttl_ticks => /\ a - 1 \in Forgotten .. 0 /\ a # Forgotten
                               /\ Aged(a, Forgotten) = a - 1
        /\ Forgotten \in Forgotten .. 0
    BY CacheAssumption DEF Aged, Later
  <1>4. /\ t \in [DOMAIN entries -> S]
        /\ \A i \in 1 .. Len(entries) : /\ t[i].signature = entries[i].signature
                                        /\ t[i].at = Aged(entries[i].at, Forgotten)
    <2>1. \A i \in DOMAIN entries :
            /\ [entries[i] EXCEPT !.at = Aged(@, Forgotten)] \in S
            /\ [entries[i] EXCEPT !.at = Aged(@, Forgotten)].signature = entries[i].signature
            /\ [entries[i] EXCEPT !.at = Aged(@, Forgotten)].at = Aged(entries[i].at, Forgotten)
      BY <1>2, <1>3
    <2>2. QED
      BY <1>2, <2>1
  <1>5. \A s \in Signatures :
          /\ history[s] \in R
          /\ h[s] = IF history[s].at > -ttl_ticks
                    THEN [history[s] EXCEPT !.at = @ - 1]
                    ELSE Unsent
          /\ h[s] \in R
    <2>1. Unsent \in R
      BY <1>3 DEF Unsent
    <2>2. \A s \in Signatures :
            history[s] \in R /\ history[s].at > -ttl_ticks
              => [history[s] EXCEPT !.at = @ - 1] \in R
      BY <1>3
    <2>3. QED
      BY <1>1, <2>1, <2>2
  <1>6. h \in [Signatures -> R]
    BY <1>5
  <1> HIDE DEF t, h
  <1>7. t \in Seq(S) /\ Len(t) = Len(entries) /\ DOMAIN t = 1 .. Len(entries)
    <2> HIDE DEF S
    <2>1. QED
      BY <1>1, <1>4, MappedSeq
  <1>8. Unique(t)
    BY <1>1, <1>2, <1>4, <1>7 DEF Unique
  <1>9. \A i \in 1 .. Len(entries) : After(t, i) = After(entries, i)
    <2>1. SUFFICES ASSUME NEW i \in 1 .. Len(entries) PROVE After(t, i) = After(entries, i)
      OBVIOUS
    <2>2. \A j \in i + 1 .. Len(entries) : t[j].signature = entries[j].signature
      BY <1>2, <1>4
    <2>3. QED
      BY <1>7, <2>2 DEF After
  <1>10. \A s \in Signatures :
           /\ IsFiniteSet(h[s].since)
           /\ Recent(h, s) => /\ Recent(history, s)
                              /\ h[s].since = history[s].since
                              /\ h[s].at = Aged(history[s].at, Forgotten)
    <2> SUFFICES ASSUME NEW s \in Signatures
                 PROVE  /\ IsFiniteSet(h[s].since)
                        /\ Recent(h, s) => /\ Recent(history, s)
                                           /\ h[s].since = history[s].since
                                           /\ h[s].at = Aged(history[s].at, Forgotten)
      OBVIOUS
    <2>1. CASE history[s].at > -ttl_ticks
      <3>1. /\ h[s].since = history[s].since /\ h[s].at = history[s].at - 1
            /\ history[s].at \in Forgotten .. 0
        BY <1>5, <2>1
      <3>2. h[s].at = Aged(history[s].at, Forgotten) /\ history[s].at # Forgotten
        BY <1>3, <2>1, <3>1
      <3>3. QED
        BY <1>1, <3>1, <3>2 DEF Recent
    <2>2. CASE ~(history[s].at > -ttl_ticks)
      <3>1. h[s].at = Forgotten /\ h[s].since = {}
        <4>1. h[s] = Unsent
          BY <1>5, <2>2
        <4>2. Unsent.at = Forgotten /\ Unsent.since = {}
          BY DEF Unsent
        <4>3. QED
          BY <4>1, <4>2
      <3>2. QED
        BY <3>1, FS_EmptySet DEF Recent
    <2>3. QED
      BY <2>1, <2>2
  <1>11. ASSUME NEW s \in Signatures, Recent(h, s)
         PROVE  \E i \in 1 .. Len(t) : /\ t[i].signature = s
                                       /\ t[i].at = h[s].at
                                       /\ After(t, i) \subseteq h[s].since
    <2>1. PICK i \in 1 .. Len(entries) : /\ entries[i].signature = s
                                         /\ entries[i].at = history[s].at
                                         /\ After(entries, i) \subseteq history[s].since
      BY <1>10, <1>11 DEF Remembers
    <2>2. QED
      BY <1>4, <1>7, <1>9, <1>10, <1>11, <2>1
  <1>12. Remembers(t, h)
    BY <1>6, <1>7, <1>8, <1>10, <1>11 DEF Remembers
  <1>13. QED
    BY <1>10, <1>12 DEF t, h

------------------------------------------------------------------------------
(* The budget's values *)

\* A new budget is defined for every duty cycle.
LEMMA NewBudgetTyped ==
  ASSUME NEW p \in 1 .. 100
  PROVE  MaxBudget(p) \in Int /\ NewBudget(0, p) \in Budgets
  <1>1. DUTY_CYCLE_WINDOW_MS * p \in Int
    BY WindowAssumption
  <1>2. MaxBudget(p) \in Int
    BY <1>1 DEF MaxBudget
  <1>3. QED
    BY <1>2 DEF NewBudget, Budgets

\* So are the methods.
LEMMA BudgetTyped ==
  ASSUME NEW b \in Budgets, NEW p \in 1 .. 100, NEW airtime_ms \in Nat
  PROVE  /\ AfterReadyAt(b, 0, p) \in Budgets
         /\ ReadyAt(b, 0, airtime_ms, p) \in Int
         /\ RecordTransmit(b, 0, airtime_ms, p) \in Budgets
  <1>1. \A n \in Int : n \div 100 \in Int
    OBVIOUS
  <1>2. MaxBudget(p) \in Int
    BY NewBudgetTyped
  <1>3. Refill(b, 0, p) \in Int
    <2>1. (0 - b.last_update_ms) * p \in Int
      BY DEF Budgets
    <2>2. QED
      BY <1>1, <2>1 DEF Refill
  <1>4. Update(b, 0, p) \in Budgets
    <2>1. \A m, n \in Int : Lesser(m, n) \in Int
      BY DEF Lesser
    <2>2. /\ Lesser(b.available_ms, MaxBudget(p)) \in Int
          /\ Lesser(Lesser(b.available_ms, MaxBudget(p)) + Refill(b, 0, p), MaxBudget(p)) \in Int
      BY <1>2, <1>3, <2>1 DEF Budgets
    <2>3. QED
      BY <2>2 DEF Update, Budgets
  <1>5. AfterReadyAt(b, 0, p) \in Budgets
    BY <1>4 DEF AfterReadyAt
  <1>6. ReadyAt(b, 0, airtime_ms, p) \in Int
    <2>1. (airtime_ms - AfterReadyAt(b, 0, p).available_ms) * 100 \in Int
      BY <1>5 DEF Budgets
    <2>2. \A n \in Int : n \div p \in Int /\ n % p \in Int
      OBVIOUS
    <2>3. DivCeil((airtime_ms - AfterReadyAt(b, 0, p).available_ms) * 100, p) \in Int
      BY <2>1, <2>2 DEF DivCeil
    <2>4. QED
      BY <2>3 DEF ReadyAt
  <1>7. RecordTransmit(b, 0, airtime_ms, p) \in Budgets
    BY <1>4 DEF RecordTransmit, Budgets
  <1>8. QED
    BY <1>5, <1>6, <1>7

------------------------------------------------------------------------------
(* Every step keeps the queue, the reservations and the cache in agreement *)

\* The steps that touch none of them.
LEMMA KeptQuietly ==
  ASSUME Kept,
         UNCHANGED <<queue, active, current, pending_forwards, seen_packets, sent>>
  PROVE  Kept'
  BY DEF Kept

\* A boot empties them all.
LEMMA KeptBoot ==
  ASSUME Boot
  PROVE  Kept'
  <1>1. /\ queue' = <<>> /\ current' = <<>> /\ active' = 0 /\ pending_forwards' = {}
        /\ seen_packets' = <<>> /\ sent' = [signature \in Signatures |-> Unsent]
    BY DEF Boot
  <1>2. Len(<<>>) = 0
    BY EmptySeq
  <1>3. Holding(<<>>, <<>>, {}) /\ Remembers(<<>>, [signature \in Signatures |-> Unsent])
    BY HoldingNothing, RemembersNothing
  <1>4. NoneRecent({}, sent')
    BY DEF NoneRecent
  <1>5. QED
    BY <1>1, <1>2, <1>3, <1>4 DEF Kept

\* finish_forward: the reservation goes, and a packet that went out is
\* remembered in its place.
LEMMA FinishKeeps ==
  ASSUME Remembers(seen_packets, sent), NoneRecent(pending_forwards, sent),
         pending_forwards \subseteq Signatures,
         NEW item \in QueuedTransmit, NEW transmitted \in BOOLEAN,
         FinishForward(item, transmitted)
  PROVE  /\ pending_forwards' = pending_forwards \ {item.dedup_signature}
         /\ Remembers(seen_packets', sent')
         /\ NoneRecent(pending_forwards', sent')
  <1>1. pending_forwards' = pending_forwards \ {item.dedup_signature}
    BY DEF FinishForward
  <1>2. CASE IsForward(item) /\ transmitted
    <2> DEFINE x == item.dedup_signature
    <2>1. x \in Signatures
      BY <1>2 DEF QueuedTransmit, IsForward
    <2>2. seen_packets' = Touch(seen_packets, x, 0) /\ sent' = Sent(sent, x)
      BY <1>2 DEF FinishForward, Remember, OnTheAir, Sent
    <2>3. Remembers(seen_packets', sent')
      BY <2>1, <2>2, RemembersTouch
    <2>4. NoneRecent(pending_forwards', sent')
      <3>1. SUFFICES ASSUME NEW s \in pending_forwards', Recent(sent', s) PROVE FALSE
        BY DEF NoneRecent
      <3>2. s \in Signatures \ {x} /\ s \in pending_forwards
        BY <1>1
      <3>3. Recent(sent, s)
        BY <2>1, <2>2, <3>1, <3>2, SentRecent
      <3>4. QED
        BY <3>2, <3>3 DEF NoneRecent
    <2>5. QED
      BY <1>1, <2>3, <2>4
  <1>3. CASE ~(IsForward(item) /\ transmitted)
    <2>1. seen_packets' = seen_packets /\ sent' = sent
      BY <1>3 DEF FinishForward
    <2>2. QED
      BY <1>1, <2>1 DEF NoneRecent
  <1>4. QED
    BY <1>2, <1>3

\* A packet of this node's own, sent by any task.
LEMMA SendOwnKeeps ==
  ASSUME Kept, NEW len \in PacketLens, NEW reboot \in BOOLEAN
  PROVE  Holding(TrySend(queue, active, OwnItem(len, reboot)), current, pending_forwards)
  <1> DEFINE item == OwnItem(len, reboot)
  <1>1. item \in QueuedTransmit
    BY QueueAssumption DEF OwnItem, QueuedTransmit
  <1>2. ~IsForward(item) /\ {item.dedup_signature} \ {NoSignature} = {}
    BY DEF OwnItem, IsForward
  <1>3. active = Len(current) /\ Holding(queue, current, pending_forwards)
    BY DEF Kept
  <1> HIDE DEF item
  <1>4. Holding(TrySend(queue, Len(current), item), current,
                pending_forwards \cup ({item.dedup_signature} \ {NoSignature}))
    BY <1>1, <1>2, <1>3, HoldingSend
  <1>5. QED
    BY <1>2, <1>3, <1>4 DEF item

\* enqueue_forward: a signature is only reserved when the cache does not have it,
\* and only with a place for its packet.
LEMMA ForwardKeeps ==
  ASSUME Kept, NEW queued, Holding(queued, current, pending_forwards),
         NEW signature \in Signatures, NEW delay \in ForwardDelays, NEW len \in PacketLens,
         EnqueueForward(queued, signature, delay, len),
         UNCHANGED <<active, current, sent>>
  PROVE  Kept'
  <1> DEFINE known == Prune(seen_packets, 0)
             item  == ForwardItem(signature, delay, len)
             fresh == signature \notin pending_forwards
             place == /\ fresh /\ ~Holds(known, signature)
                      /\ Cardinality(pending_forwards) < capacity
                      /\ ~IsFull(queued, active)
  <1>1. /\ active = Len(current) /\ Remembers(seen_packets, sent)
        /\ NoneRecent(pending_forwards, sent)
    BY DEF Kept
  <1>2. Remembers(known, sent)
    BY <1>1, RemembersPrune
  <1> HIDE DEF known
  <1>3. Remembers(seen_packets', sent')
    BY <1>1, <1>2 DEF EnqueueForward, known
  <1>4. CASE place
    <2>1. /\ pending_forwards' = pending_forwards \cup {signature}
          /\ queue' = TrySend(queued, Len(current), item)
      BY <1>1, <1>4 DEF EnqueueForward, Enqueue, known
    <2>2. /\ item \in QueuedTransmit /\ item.dedup_signature = signature
          /\ {signature} \ {NoSignature} = {signature}
      BY QueueAssumption, RadioAssumption DEF ForwardItem, QueuedTransmit
    <2> HIDE DEF item
    <2>3. Holding(queue', current, pending_forwards')
      BY <1>1, <1>4, <2>1, <2>2, HoldingSend
    <2>4. ~Recent(sent, signature)
      BY <1>2, <1>4, RecentHeld
    <2>5. NoneRecent(pending_forwards', sent')
      BY <1>1, <2>1, <2>4 DEF NoneRecent
    <2>6. QED
      BY <1>1, <1>3, <2>3, <2>5 DEF Kept
  <1>5. CASE ~place
    <2>1. pending_forwards' = pending_forwards /\ queue' = queued
      BY <1>5 DEF EnqueueForward, Enqueue, known
    <2>2. NoneRecent(pending_forwards', sent')
      BY <1>1, <2>1
    <2>3. QED
      BY <1>1, <1>3, <2>1, <2>2 DEF Kept
  <1>6. QED
    BY <1>4, <1>5

\* The step of the radio task, of the handler, of the environment or of time.
LEMMA KeptNext ==
  ASSUME LoopInv, [Next]_vars
  PROVE  Kept'
  <1>1. /\ Kept /\ active = Len(current)
        /\ Holding(queue, current, pending_forwards)
        /\ Remembers(seen_packets, sent) /\ NoneRecent(pending_forwards, sent)
        /\ queue \in Seq(QueuedTransmit) /\ current \in Seq(QueuedTransmit)
        /\ pending_forwards \subseteq Signatures
        /\ Len(current) = IF pc \in {"cad", "backoff", "transmit"} THEN 1 ELSE 0
    <2>1. Holding(queue, current, pending_forwards)
      BY DEF LoopInv, Kept
    <2>2. /\ queue \in Seq(QueuedTransmit) /\ current \in Seq(QueuedTransmit)
          /\ Matches(queue \o current, pending_forwards)
      BY <2>1 DEF Holding
    <2>3. queue \o current \in Seq(QueuedTransmit)
      BY <2>2, ConcatProperties
    <2>4. QED
      BY <2>1, <2>2, <2>3, ReservedFacts DEF LoopInv, Kept, OthersOK
  <1>2. ASSUME pc \notin {"cad", "backoff", "transmit"}
        PROVE  current = <<>> /\ Len(<<>>) = 0
    BY <1>1, <1>2, EmptySeq
  <1>3. ASSUME pc \in {"cad", "backoff", "transmit"}
        PROVE  current[1] \in QueuedTransmit /\ current = <<current[1]>>
    <2>1. Len(current) = 1 /\ current[1] \in QueuedTransmit
      <3>1. Len(current) = 1
        BY <1>1, <1>3
      <3>2. 1 \in 1 .. Len(current)
        BY <3>1
      <3>3. QED
        BY <1>1, <3>1, <3>2, ElementOfSeq
    <2>2. /\ <<current[1]>> \in Seq(QueuedTransmit) /\ Len(<<current[1]>>) = 1
          /\ \A i \in 1 .. Len(current) : current[i] = <<current[1]>>[i]
      BY <2>1
    <2>3. QED
      BY <1>1, <2>1, <2>2, SeqEqual
  <1>4. CASE DropForward
    <2>1. /\ pc = "top" /\ queue # <<>> /\ queue' = Tail(queue) /\ current' = current
          /\ active' = 0 /\ FinishForward(Head(queue), FALSE)
      BY <1>4 DEF DropForward, Unwanted
    <2>2. /\ Head(queue) \in QueuedTransmit /\ current = <<>>
          /\ Holding(Tail(queue), <<>>, pending_forwards \ {Head(queue).dedup_signature})
      BY <1>1, <1>2, <2>1, HoldingDrop
    <2>3. /\ pending_forwards' = pending_forwards \ {Head(queue).dedup_signature}
          /\ Remembers(seen_packets', sent') /\ NoneRecent(pending_forwards', sent')
      BY <1>1, <2>1, <2>2, FinishKeeps
    <2>4. QED
      BY <1>2, <2>1, <2>2, <2>3 DEF Kept
  <1>5. CASE TakeFirst
    <2>1. /\ pc = "top" /\ queue # <<>> /\ queue' = Tail(queue) /\ current' = <<Head(queue)>>
          /\ active' = 1 /\ UNCHANGED <<pending_forwards, seen_packets, sent>>
      BY <1>5 DEF TakeFirst, Sendable, dedup
    <2>2. Holding(Tail(queue), <<Head(queue)>>, pending_forwards)
      BY <1>1, <1>2, <2>1, HoldingTake
    <2>3. Len(<<Head(queue)>>) = 1
      OBVIOUS
    <2>4. QED
      BY <1>1, <2>1, <2>2, <2>3 DEF Kept
  <1>6. ASSUME NEW delay \in RetryDelays, Retry(delay)
        PROVE  Kept'
    <2> DEFINE item == Retried(current[1], delay)
    <2>1. /\ pc \in {"cad", "backoff", "transmit"} /\ ~GivesUp(current[1])
          /\ queue' = Insert(queue, item) /\ current' = <<>> /\ active' = 0
          /\ UNCHANGED <<pending_forwards, seen_packets, sent>>
      BY <1>6 DEF Retry, CanFail, dedup
    <2>2. item \in QueuedTransmit /\ item.dedup_signature = current[1].dedup_signature
      <3>1. delay \in Nat
        BY RadioAssumption
      <3>2. current[1] \in QueuedTransmit
        BY <1>3, <2>1
      <3>3. current[1].attempts + 1 \in 0 .. OUTBOUND_MAX_ATTEMPTS - 1
        BY <2>1, <3>2, QueueAssumption DEF GivesUp, QueuedTransmit
      <3>4. QED
        BY <3>1, <3>2, <3>3 DEF Retried, QueuedTransmit
    <2> HIDE DEF item
    <2>3. current[1] \in QueuedTransmit /\ Holding(queue, <<current[1]>>, pending_forwards)
      BY <1>1, <1>3, <2>1
    <2>4. Holding(Insert(queue, item), <<>>, pending_forwards)
      BY <2>2, <2>3, HoldingRetry
    <2>5. QED
      BY <1>1, <2>1, <2>4, EmptySeq DEF Kept
  <1>7. ASSUME NEW transmitted \in BOOLEAN, pc \in {"cad", "backoff", "transmit"},
               FinishForward(current[1], transmitted),
               queue' = queue, current' = <<>>, active' = 0
        PROVE  Kept'
    <2>1. current[1] \in QueuedTransmit /\ Holding(queue, <<current[1]>>, pending_forwards)
      BY <1>1, <1>3, <1>7
    <2>2. /\ pending_forwards' = pending_forwards \ {current[1].dedup_signature}
          /\ Remembers(seen_packets', sent') /\ NoneRecent(pending_forwards', sent')
      BY <1>1, <1>7, <2>1, FinishKeeps
    <2>3. Holding(queue, <<>>, pending_forwards \ {current[1].dedup_signature})
      BY <2>1, HoldingFinish
    <2>4. QED
      BY <1>7, <2>2, <2>3, EmptySeq DEF Kept
  <1>8. CASE GiveUp
    BY <1>7, <1>8 DEF GiveUp, CanFail
  <1>9. CASE Transmitted
    <2>1. CASE current[1].reboot_after_tx
      BY <1>9, <2>1, KeptBoot DEF Transmitted
    <2>2. CASE ~current[1].reboot_after_tx
      BY <1>7, <1>9, <2>2 DEF Transmitted
    <2>3. QED
      BY <2>1, <2>2
  <1>10. CASE HandleRxEvent
    <2>1. UNCHANGED <<active, current, sent>>
      BY <1>10 DEF HandleRxEvent, task
    <2>2. PICK queued \in Replied :
            \/ Enqueue(queued) /\ UNCHANGED <<pending_forwards, seen_packets>>
            \/ \E signature \in Signatures, delay \in ForwardDelays, len \in PacketLens :
                 EnqueueForward(queued, signature, delay, len)
      BY <1>10 DEF HandleRxEvent
    <2>3. Holding(queued, current, pending_forwards)
      BY <1>1, SendOwnKeeps DEF Replied
    <2>4. CASE Enqueue(queued) /\ UNCHANGED <<pending_forwards, seen_packets>>
      BY <1>1, <2>1, <2>3, <2>4 DEF Enqueue, Kept
    <2>5. CASE \E signature \in Signatures, delay \in ForwardDelays, len \in PacketLens :
                 EnqueueForward(queued, signature, delay, len)
      BY <1>1, <2>1, <2>3, <2>5, ForwardKeeps
    <2>6. QED
      BY <2>2, <2>4, <2>5
  <1>11. ASSUME NEW len \in PacketLens, EnqueueOwn(len)
         PROVE  Kept'
    <2>1. /\ queue' = TrySend(queue, active, OwnItem(len, FALSE))
          /\ UNCHANGED <<active, current, pending_forwards, seen_packets, sent>>
      BY <1>11 DEF EnqueueOwn, Enqueue, dedup, task
    <2>2. Holding(queue', current, pending_forwards)
      BY <1>1, <2>1, SendOwnKeeps
    <2>3. QED
      BY <1>1, <2>1, <2>2 DEF Kept
  <1>12. CASE Reboot
    BY <1>12, KeptBoot DEF Reboot
  <1>13. CASE Tick
    <2> DEFINE q == [i \in DOMAIN queue |-> [queue[i] EXCEPT !.eligible_at_ms = Aged(@, 0)]]
               e == [i \in DOMAIN seen_packets |->
                       [seen_packets[i] EXCEPT !.at = Aged(@, Forgotten)]]
               h == [s \in Signatures |-> IF sent[s].at > -ttl_ticks
                                          THEN [sent[s] EXCEPT !.at = @ - 1]
                                          ELSE Unsent]
    <2>1. /\ queue' = q /\ seen_packets' = e /\ sent' = h
          /\ UNCHANGED <<active, current, pending_forwards>>
      BY <1>13 DEF Tick
    <2>2. Holding(q, current, pending_forwards)
      BY <1>1, HoldingTick
    <2>3. Remembers(e, h) /\ \A s \in Signatures : Recent(h, s) => Recent(sent, s)
      BY <1>1, RemembersTick
    <2> HIDE DEF q, e, h
    <2>4. NoneRecent(pending_forwards, h)
      BY <1>1, <2>3 DEF NoneRecent
    <2>5. QED
      BY <1>1, <2>1, <2>2, <2>3, <2>4 DEF Kept
  <1>14. CASE \/ NothingToSend \/ BudgetExhausted \/ ChannelClear \/ CheckAgain
              \/ PrepareWait \/ WakeChanged \/ WakeDue \/ ErrorOver
              \/ ChannelBusy \/ RxError \/ SetRepeat
              \/ \E fits \in BOOLEAN : RxPacket(fits)
              \/ \E p \in Percents : SetDutyCycle(p)
              \/ \E r \in Radios : SetRadio(r)
              \/ UNCHANGED vars
    <2>1. UNCHANGED <<queue, active, current, pending_forwards, seen_packets, sent>>
      BY <1>14 DEF NothingToSend, BudgetExhausted, ChannelClear, CheckAgain, PrepareWait,
                   WakeChanged, WakeDue, ErrorOver, ChannelBusy, RxError, SetRepeat,
                   RxPacket, SetDutyCycle, SetRadio, vars, outbound, dedup, task
    <2>2. QED
      BY <1>1, <2>1, KeptQuietly
  <1>15. QED
    BY <1>4, <1>5, <1>6, <1>8, <1>9, <1>10, <1>11, <1>12, <1>13, <1>14
       DEF Next, RadioStep, Environment

\* The other variables keep their types.
LEMMA OthersNext ==
  ASSUME LoopInv, [Next]_vars
  PROVE  OthersOK'
  <1>1. OthersOK /\ Holding(queue, current, pending_forwards)
    BY DEF LoopInv, Kept
  <1>2. queue \in Seq(QueuedTransmit) /\ current \in Seq(QueuedTransmit)
    BY <1>1 DEF Holding
  <1>3. ReadSettings \in [duty_cycle_percent : Percents, radio : Radios]
    BY <1>1 DEF OthersOK, ReadSettings
  <1>4. /\ duty_cycle_percent \in 1 .. 100 /\ read.duty_cycle_percent \in 1 .. 100
        /\ Percents \subseteq 1 .. 100
    BY <1>1, RadioAssumption DEF OthersOK
  <1>5. ASSUME NEW item \in QueuedTransmit,
               NEW with \in [duty_cycle_percent : Percents, radio : Radios]
        PROVE  Airtime(item, with) \in Nat
    <2>1. with.radio \in Radios /\ item.packet_len \in PacketLens
      BY DEF QueuedTransmit
    <2>2. QED
      BY <2>1, RadioAssumption DEF Airtime
  <1>6. AfterReadyAt(budget, 0, duty_cycle_percent) \in Budgets
    <2>1. 0 \in Nat
      OBVIOUS
    <2>2. QED
      BY <1>1, <1>4, <2>1, BudgetTyped DEF OthersOK
  <1>7. /\ Len(<<>>) = 0 /\ 0 \in 0 .. inbound_queue_len /\ 0 \in 0 .. CAD_MAX_ATTEMPTS - 1
        /\ inbound_queue_len \in Nat /\ CAD_MAX_ATTEMPTS \in Nat
    BY EmptySeq, RadioAssumption
  <1>8. CASE DropForward \/ NothingToSend
    BY <1>1, <1>3, <1>8 DEF DropForward, NothingToSend, OthersOK, outbound, settings
  <1>9. CASE BudgetExhausted
    BY <1>1, <1>3, <1>6, <1>9 DEF BudgetExhausted, OthersOK, outbound, settings
  <1>10. CASE TakeFirst
    <2>1. Len(<<Head(queue)>>) = 1
      OBVIOUS
    <2>2. QED
      BY <1>1, <1>3, <1>6, <1>7, <1>10, <2>1 DEF TakeFirst, OthersOK, settings
  <1>11. CASE ChannelClear \/ ChannelBusy \/ CheckAgain
    BY <1>1, <1>7, <1>11 DEF ChannelClear, ChannelBusy, CheckAgain, OthersOK, outbound, settings
  <1>12. CASE GiveUp \/ \E delay \in RetryDelays : Retry(delay)
    BY <1>1, <1>7, <1>12 DEF GiveUp, Retry, OthersOK, settings
  <1>13. ASSUME Boot, UNCHANGED settings PROVE OthersOK'
    <2>1. NewBudget(0, duty_cycle_percent) \in Budgets
      BY <1>4, NewBudgetTyped
    <2>2. /\ inbound' = 0 /\ active' = 0 /\ changed' = FALSE /\ pc' = "top"
          /\ current' = <<>> /\ attempt' = 0 /\ read' = ReadSettings /\ wake_at' = Never
          /\ budget' = NewBudget(0, duty_cycle_percent)
          /\ repeat_enabled' = repeat_enabled /\ radio' = radio
          /\ duty_cycle_percent' = duty_cycle_percent
      BY <1>13 DEF Boot, settings
    <2>3. /\ read' \in [duty_cycle_percent : Percents, radio : Radios]
          /\ budget' \in Budgets
          /\ radio' \in Radios
          /\ duty_cycle_percent' \in Percents /\ repeat_enabled' \in BOOLEAN
      BY <1>1, <1>3, <2>1, <2>2 DEF OthersOK
    <2>4. /\ inbound' \in 0 .. inbound_queue_len /\ attempt' \in 0 .. CAD_MAX_ATTEMPTS - 1
          /\ Len(current') = 0 /\ wake_at' \in Nat \cup {Never}
          /\ active' \in {0, 1} /\ changed' \in BOOLEAN
      BY <1>7, <2>2
    <2>5. QED
      BY <2>2, <2>3, <2>4 DEF OthersOK
  <1>14. CASE Transmitted
    <2>1. CASE current[1].reboot_after_tx
      BY <1>13, <1>14, <2>1 DEF Transmitted
    <2>2. CASE ~current[1].reboot_after_tx
      <3>1. current[1] \in QueuedTransmit
        <4>1. Len(current) = 1
          BY <1>1, <1>14 DEF Transmitted, OthersOK
        <4>2. 1 \in 1 .. Len(current)
          BY <4>1
        <4>3. QED
          BY <1>2, <4>2, ElementOfSeq
      <3>2. Airtime(current[1], read) \in Nat
        BY <1>1, <1>5, <3>1 DEF OthersOK
      <3>3. RecordTransmit(budget, 0, Airtime(current[1], read), read.duty_cycle_percent)
              \in Budgets
        BY <1>1, <1>4, <3>2, BudgetTyped DEF OthersOK
      <3>4. QED
        BY <1>1, <1>7, <1>14, <2>2, <3>3 DEF Transmitted, OthersOK, settings
    <2>3. QED
      BY <2>1, <2>2
  <1>15. CASE PrepareWait
    <2>1. CASE queue = <<>>
      BY <1>1, <1>3, <1>15, <2>1 DEF PrepareWait, OthersOK, settings
    <2>2. CASE queue # <<>>
      <3> DEFINE ready == ReadyAt(budget, 0, Airtime(Head(queue), ReadSettings), duty_cycle_percent)
                 until == Later(Head(queue).eligible_at_ms, ready)
      <3>1. Head(queue) \in QueuedTransmit
        BY <1>2, <2>2, HeadTailProperties
      <3>2. Airtime(Head(queue), ReadSettings) \in Nat
        BY <1>3, <1>5, <3>1
      <3>3. ready \in Int
        BY <1>1, <1>4, <3>2, BudgetTyped DEF OthersOK
      <3> HIDE DEF ready
      <3>4. until \in Nat
        BY <3>1, <3>3 DEF Later, QueuedTransmit
      <3> HIDE DEF until
      <3>5. /\ budget' = AfterReadyAt(budget, 0, duty_cycle_percent)
            /\ wake_at' \in {Never, until} /\ pc' \in {"top", "wait"}
            /\ changed' = FALSE /\ read' = ReadSettings /\ pc = "prepare"
            /\ UNCHANGED <<inbound, active, repeat_enabled, duty_cycle_percent, radio,
                           current, attempt>>
        <4> DEFINE due == Head(queue).eligible_at_ms <= 0 /\ ready <= 0
        <4>1. /\ budget' = AfterReadyAt(budget, 0, duty_cycle_percent)
              /\ IF due THEN wake_at' = Never /\ pc' = "top" ELSE wake_at' = until /\ pc' = "wait"
          BY <1>15, <2>2 DEF PrepareWait, ready, until
        <4> HIDE DEF due
        <4>2. /\ changed' = FALSE /\ read' = ReadSettings /\ pc = "prepare"
              /\ UNCHANGED <<inbound, active, repeat_enabled, duty_cycle_percent, radio,
                             current, attempt>>
          BY <1>15 DEF PrepareWait, settings
        <4>3. QED
          BY <4>1, <4>2
      <3>6. QED
        BY <1>1, <1>3, <1>6, <3>4, <3>5 DEF OthersOK
    <2>3. QED
      BY <2>1, <2>2
  <1>16. CASE WakeChanged \/ WakeDue \/ ErrorOver \/ RxError
    BY <1>1, <1>16 DEF WakeChanged, WakeDue, ErrorOver, RxError, OthersOK, outbound, settings
  <1>17. ASSUME NEW fits \in BOOLEAN, RxPacket(fits) PROVE OthersOK'
    BY <1>1, <1>7, <1>17 DEF RxPacket, OthersOK, outbound, settings
  <1>18. CASE HandleRxEvent
    <2>1. /\ inbound' \in 0 .. inbound_queue_len /\ changed' \in BOOLEAN
          /\ UNCHANGED <<active, repeat_enabled, duty_cycle_percent, radio, pc, current,
                         attempt, read, wake_at, budget>>
      <3>1. /\ inbound > 0 /\ inbound' = inbound - 1
            /\ UNCHANGED <<active, repeat_enabled, duty_cycle_percent, radio, pc, current,
                           attempt, read, wake_at, budget>>
        BY <1>18 DEF HandleRxEvent, settings, task
      <3>2. \E queued : changed' = Signalled(queued)
        BY <1>18, Zenon DEF HandleRxEvent, EnqueueForward, Enqueue
      <3>3. changed' \in BOOLEAN
        BY <3>2, Zenon DEF Signalled
      <3>4. inbound' \in 0 .. inbound_queue_len
        BY <1>1, <1>7, <3>1 DEF OthersOK
      <3>5. QED
        BY <3>1, <3>3, <3>4
    <2>2. QED
      BY <1>1, <2>1 DEF OthersOK
  <1>19. CASE \E len \in PacketLens : EnqueueOwn(len)
    BY <1>1, <1>19 DEF EnqueueOwn, Enqueue, Signalled, OthersOK, settings, task
  <1>20. CASE \/ SetRepeat \/ \E p \in Percents : SetDutyCycle(p)
              \/ \E r \in Radios : SetRadio(r)
    BY <1>1, <1>20 DEF SetRepeat, SetDutyCycle, SetRadio, OthersOK, outbound, task
  <1>21. CASE Tick
    <2>1. wake_at' \in Nat \cup {Never}
      BY <1>1, <1>21 DEF Tick, Aged, Later, Never, OthersOK
    <2>2. budget' \in Budgets
      BY <1>1, <1>21, WindowAssumption DEF Tick, Aged, Later, OthersOK, Budgets
    <2>3. QED
      BY <1>1, <1>21, <2>1, <2>2 DEF Tick, OthersOK, settings
  <1>22. CASE UNCHANGED vars
    BY <1>1, <1>22 DEF OthersOK, vars, outbound, settings, task
  <1>23. QED
    BY <1>8, <1>9, <1>10, <1>11, <1>12, <1>13, <1>14, <1>15, <1>16, <1>17, <1>18, <1>19,
       <1>20, <1>21, <1>22
       DEF Next, RadioStep, Environment, Reboot

\* The boot establishes the invariant.
LEMMA LoopInvInit ==
  ASSUME Init
  PROVE  LoopInv
  <1>1. Len(<<>>) = 0 /\ 0 \in 0 .. CAD_MAX_ATTEMPTS - 1 /\ 0 \in 0 .. inbound_queue_len
    BY EmptySeq, RadioAssumption
  <1>2. NewBudget(0, duty_cycle_percent) \in Budgets
    <2>1. duty_cycle_percent \in 1 .. 100
      BY RadioAssumption DEF Init
    <2>2. QED
      BY <2>1, NewBudgetTyped
  <1>3. OthersOK
    <2>1. /\ read \in [duty_cycle_percent : Percents, radio : Radios]
          /\ budget \in Budgets
          /\ radio \in Radios
          /\ duty_cycle_percent \in Percents /\ repeat_enabled \in BOOLEAN
      BY <1>2 DEF Init, ReadSettings
    <2>2. /\ inbound \in 0 .. inbound_queue_len /\ attempt \in 0 .. CAD_MAX_ATTEMPTS - 1
          /\ Len(current) = 0 /\ wake_at \in Nat \cup {Never} /\ pc = "top"
          /\ active \in {0, 1} /\ changed \in BOOLEAN
      BY <1>1 DEF Init
    <2>3. QED
      BY <2>1, <2>2 DEF OthersOK
  <1>4. Kept
    <2>1. Holding(<<>>, <<>>, {}) /\ Remembers(<<>>, [signature \in Signatures |-> Unsent])
      BY HoldingNothing, RemembersNothing
    <2>2. NoneRecent({}, sent)
      BY DEF NoneRecent
    <2>3. QED
      BY <1>1, <2>1, <2>2 DEF Init, Kept
  <1>5. QED
    BY <1>3, <1>4 DEF LoopInv

\* What the invariant implies.
LEMMA LoopInvImplies ==
  ASSUME LoopInv
  PROVE  /\ TypeOK /\ PlaceKeptForCurrent /\ ReservationsMatchHeld /\ QueueSorted
         /\ NoRepeatWhileRemembered
  <1>1. /\ OthersOK /\ active = Len(current) /\ Remembers(seen_packets, sent)
        /\ queue \in Seq(QueuedTransmit) /\ current \in Seq(QueuedTransmit)
        /\ Len(queue) + Len(current) <= capacity
        /\ Sorted(queue) /\ Matches(Held, pending_forwards)
        /\ NoneRecent(pending_forwards, sent)
    BY DEF LoopInv, Kept, Holding, Held
  <1>2. Held \in Seq(QueuedTransmit) /\ Len(Held) = Len(queue) + Len(current)
    BY <1>1, ConcatProperties DEF Held
  <1>3. pending_forwards \subseteq Signatures
    BY <1>1, <1>2, ReservedFacts
  <1>4. TypeOK
    BY <1>1, <1>3 DEF TypeOK, OthersOK, Remembers
  <1>5. PlaceKeptForCurrent
    BY <1>1, <1>2 DEF PlaceKeptForCurrent
  <1>6. ReservationsMatchHeld
    BY <1>1 DEF ReservationsMatchHeld, Matches
  <1>7. QueueSorted
    BY <1>1 DEF QueueSorted, Sorted
  <1>8. NoRepeatWhileRemembered
    BY <1>1 DEF NoRepeatWhileRemembered, NoneRecent, RecentlySent, Recent
  <1>9. QED
    BY <1>4, <1>5, <1>6, <1>7, <1>8

------------------------------------------------------------------------------
(* The budget of the packet being transmitted, and the timer of the one waiting *)

\* The budget, at the duty cycle read before the packet was taken, covers it: it
\* will until the packet is charged, since only a charge and an update at another
\* duty cycle take from the budget, and the task makes neither in between.
BudgetCovers ==
  /\ budget.available_ms >= 0 /\ budget.last_update_ms <= 0
  /\ current # <<>> /\ read.duty_cycle_percent < 100 =>
       /\ Airtime(current[1], read) <= budget.available_ms
       /\ Airtime(current[1], read) <= MaxBudget(read.duty_cycle_percent)

\* When the budget b will have earned some airtime at the duty cycle p, counted
\* from its last update, plus the time that may have passed since the update
\* without earning a millisecond.
EarnedBy(b, required_ms, p) ==
  IF p >= 100 \/ b.available_ms >= required_ms
  THEN 0
  ELSE DivCeil((required_ms - b.available_ms) * 100, p)
         + b.last_update_ms + DivCeil(100, p) - 1

\* The timer of a wait that nobody has been told to leave.
TimerCovers ==
  pc = "wait" /\ ~changed =>
    /\ wake_at = Never <=> queue = <<>>
    /\ queue # <<>> =>
         wake_at <= Later(Head(queue).eligible_at_ms,
                          EarnedBy(budget, Airtime(Head(queue), read), read.duty_cycle_percent))

RadioInv == LoopInv /\ BudgetCovers /\ TimerCovers

\* What the invariant of the loop says of the values the budget is asked about.
LEMMA LoopFacts ==
  ASSUME LoopInv
  PROVE  /\ budget \in Budgets
         /\ duty_cycle_percent \in 1 .. 100 /\ read.duty_cycle_percent \in 1 .. 100
         /\ ReadSettings.duty_cycle_percent = duty_cycle_percent
         /\ queue \in Seq(QueuedTransmit)
         /\ queue # <<>> => Head(queue) \in QueuedTransmit
         /\ \A item \in QueuedTransmit :
              Airtime(item, read) \in Nat /\ Airtime(item, ReadSettings) \in Nat
         /\ current # <<>> <=> pc \in {"cad", "backoff", "transmit"}
         /\ current # <<>> => current[1] \in QueuedTransmit
         /\ wake_at \in Nat \cup {Never}
  <1>1. OthersOK /\ queue \in Seq(QueuedTransmit) /\ current \in Seq(QueuedTransmit)
    BY DEF LoopInv, Kept, Holding
  <1>2. /\ duty_cycle_percent \in 1 .. 100 /\ read.duty_cycle_percent \in 1 .. 100
        /\ ReadSettings \in [duty_cycle_percent : Percents, radio : Radios]
        /\ ReadSettings.duty_cycle_percent = duty_cycle_percent
    BY <1>1, RadioAssumption DEF OthersOK, ReadSettings
  <1>3. ASSUME NEW item \in QueuedTransmit,
               NEW with \in [duty_cycle_percent : Percents, radio : Radios]
        PROVE  Airtime(item, with) \in Nat
    <2>1. with.radio \in Radios /\ item.packet_len \in PacketLens
      BY DEF QueuedTransmit
    <2>2. QED
      BY <2>1, RadioAssumption DEF Airtime
  <1>4. current # <<>> <=> pc \in {"cad", "backoff", "transmit"}
    <2>1. Len(current) = IF pc \in {"cad", "backoff", "transmit"} THEN 1 ELSE 0
      BY <1>1 DEF OthersOK
    <2>2. current = <<>> <=> Len(current) = 0
      BY <1>1, EmptySeq
    <2>3. QED
      BY <2>1, <2>2
  <1>5. current # <<>> => current[1] \in QueuedTransmit
    <2>1. ASSUME current # <<>> PROVE 1 \in 1 .. Len(current)
      BY <1>1, <1>4, <2>1 DEF OthersOK
    <2>2. QED
      BY <1>1, <2>1, ElementOfSeq
  <1>6. queue # <<>> => Head(queue) \in QueuedTransmit
    BY <1>1, HeadTailProperties
  <1>7. QED
    BY <1>1, <1>2, <1>3, <1>4, <1>5, <1>6 DEF OthersOK

\* A packet is only taken when the budget covers it, and it is charged at the
\* duty cycle it was taken under, to a budget nothing has been taken from since.
LEMMA BudgetCoversNext ==
  ASSUME LoopInv, BudgetCovers, [Next]_vars
  PROVE  BudgetCovers'
  <1> DEFINE asked == AfterReadyAt(budget, 0, duty_cycle_percent)
  <1>1. /\ budget \in Budgets /\ 0 \in Nat
        /\ budget.available_ms >= 0 /\ budget.last_update_ms <= 0
        /\ duty_cycle_percent \in 1 .. 100 /\ read.duty_cycle_percent \in 1 .. 100
    BY LoopFacts DEF BudgetCovers
  <1>2. /\ asked \in Budgets /\ asked.available_ms >= 0 /\ asked.last_update_ms <= 0
        /\ duty_cycle_percent < 100 => asked.available_ms <= MaxBudget(duty_cycle_percent)
    BY <1>1, AskedNotOverdrawn
  <1> HIDE DEF asked
  <1>3. ASSUME budget'.available_ms >= 0, budget'.last_update_ms <= 0, current' = <<>>
        PROVE  BudgetCovers'
    BY <1>3 DEF BudgetCovers
  <1>4. ASSUME UNCHANGED <<budget, current, read>> PROVE BudgetCovers'
    BY <1>4 DEF BudgetCovers, Airtime
  <1>5. pc = "top" => current = <<>>
    BY LoopFacts
  <1>6. ASSUME Boot PROVE BudgetCovers'
    <2>1. budget' = [available_ms |-> MaxBudget(duty_cycle_percent), last_update_ms |-> 0]
      BY <1>6 DEF Boot, NewBudget
    <2>2. MaxBudget(duty_cycle_percent) \in Nat
      BY <1>1, MaxBudgetNat
    <2>3. QED
      BY <1>3, <1>6, <2>1, <2>2 DEF Boot
  <1>7. CASE DropForward \/ NothingToSend
    BY <1>1, <1>3, <1>5, <1>7 DEF DropForward, NothingToSend
  <1>8. CASE BudgetExhausted
    BY <1>2, <1>3, <1>5, <1>8 DEF BudgetExhausted, asked
  <1>9. CASE TakeFirst
    <2> DEFINE first == Head(queue)
               airtime_ms == Airtime(first, ReadSettings)
    <2>1. /\ budget' = asked /\ current' = <<first>> /\ read' = ReadSettings
          /\ queue # <<>> /\ HeadReadyAt <= 0
      BY <1>9 DEF TakeFirst, Sendable, asked
    <2>2. /\ airtime_ms \in Nat /\ read'.duty_cycle_percent = duty_cycle_percent
          /\ <<first>> # <<>> /\ <<first>>[1] = first
      BY <2>1, LoopFacts
    <2> HIDE DEF first
    <2>3. ASSUME duty_cycle_percent < 100
          PROVE  airtime_ms <= asked.available_ms
      <3>1. ReadyAt(budget, 0, airtime_ms, duty_cycle_percent) <= 0
        BY <1>1, <2>1, <2>3 DEF HeadReadyAt, RequiredAirtime, first
      <3> HIDE DEF airtime_ms
      <3>2. airtime_ms <= Update(budget, 0, duty_cycle_percent).available_ms
        BY <1>1, <2>2, <2>3, <3>1, ReadyNowCovered
      <3>3. QED
        BY <1>1, <2>3, <3>2 DEF asked, AfterReadyAt
    <2>4. Airtime(current'[1], read') = airtime_ms
      BY <2>1, <2>2
    <2>5. (Airtime(current[1], read))' = airtime_ms
      BY <2>4 DEF Airtime
    <2> HIDE DEF airtime_ms
    <2>6. ASSUME duty_cycle_percent < 100
          PROVE  airtime_ms <= MaxBudget(duty_cycle_percent) /\ airtime_ms <= asked.available_ms
      <3>1. MaxBudget(duty_cycle_percent) \in Nat
        BY <1>1, MaxBudgetNat
      <3>2. QED
        BY <1>2, <2>2, <2>3, <2>6, <3>1 DEF Budgets
    <2>7. QED
      BY <1>2, <2>1, <2>2, <2>5, <2>6 DEF BudgetCovers
  <1>10. CASE GiveUp \/ \E delay \in RetryDelays : Retry(delay)
    BY <1>1, <1>3, <1>10 DEF GiveUp, Retry
  <1>11. CASE Transmitted
    <2>1. CASE current[1].reboot_after_tx
      BY <1>6, <1>11, <2>1 DEF Transmitted
    <2>2. CASE ~current[1].reboot_after_tx
      <3> DEFINE airtime_ms == Airtime(current[1], read)
                 charged == RecordTransmit(budget, 0, airtime_ms, read.duty_cycle_percent)
      <3>1. current # <<>>
        BY <1>11, LoopFacts DEF Transmitted
      <3>2. /\ airtime_ms \in Nat
            /\ read.duty_cycle_percent < 100 =>
                 /\ airtime_ms <= budget.available_ms
                 /\ airtime_ms <= MaxBudget(read.duty_cycle_percent)
        BY <3>1, LoopFacts DEF BudgetCovers
      <3>3. budget' = charged /\ current' = <<>>
        BY <1>11, <2>2 DEF Transmitted
      <3> HIDE DEF airtime_ms
      <3>4. charged.available_ms >= 0 /\ charged.last_update_ms <= 0
        BY <1>1, <3>2, ChargeCovered
      <3>5. QED
        BY <1>3, <3>3, <3>4
    <2>3. QED
      BY <2>1, <2>2
  <1>12. CASE PrepareWait
    <2>1. (budget' = budget \/ budget' = asked) /\ current' = current /\ pc = "prepare"
      BY <1>12 DEF PrepareWait, asked
    <2>2. current' = <<>>
      BY <2>1, LoopFacts
    <2>3. QED
      BY <1>1, <1>2, <1>3, <2>1, <2>2
  <1>13. CASE Reboot
    BY <1>6, <1>13 DEF Reboot
  <1>14. CASE Tick
    <2>1. /\ budget' = [budget EXCEPT !.last_update_ms = Aged(@, -DUTY_CYCLE_WINDOW_MS)]
          /\ current' = current /\ read' = read
      BY <1>14 DEF Tick
    <2>2. budget'.available_ms = budget.available_ms /\ budget'.last_update_ms <= 0
      BY <1>1, <2>1, WindowAssumption DEF Aged, Later, Budgets
    <2>3. QED
      BY <2>1, <2>2 DEF BudgetCovers, Airtime
  <1>15. CASE \/ ChannelClear \/ CheckAgain \/ WakeChanged \/ WakeDue \/ ErrorOver
              \/ ChannelBusy \/ RxError \/ SetRepeat \/ HandleRxEvent
              \/ \E fits \in BOOLEAN : RxPacket(fits)
              \/ \E len \in PacketLens : EnqueueOwn(len)
              \/ \E p \in Percents : SetDutyCycle(p)
              \/ \E r \in Radios : SetRadio(r)
              \/ UNCHANGED vars
    BY <1>4, <1>15 DEF ChannelClear, CheckAgain, WakeChanged, WakeDue, ErrorOver, ChannelBusy,
                       RxError, SetRepeat, HandleRxEvent, RxPacket, EnqueueOwn, SetDutyCycle,
                       SetRadio, vars, task
  <1>16. QED
    BY <1>7, <1>8, <1>9, <1>10, <1>11, <1>12, <1>13, <1>14, <1>15
       DEF Next, RadioStep, Environment

\* Some time earns a millisecond, and whatever earns less than that is shorter.
LEMMA MillisecondEarned ==
  ASSUME NEW p \in 1 .. 100
  PROVE  /\ DivCeil(100, p) \in Nat \ {0}
         /\ \A n \in Nat : p * n <= 99 => n <= DivCeil(100, p) - 1
  <1> DEFINE k == DivCeil(100, p)
  <1>1. k \in Nat /\ p * k >= 100
    BY DivCeilCovers
  <1> HIDE DEF k
  <1>2. \A n \in Nat : n >= k => p * n >= p * k
    BY <1>1
  <1>3. \A n \in Nat : p * n <= 99 => n <= k - 1
    BY <1>1, <1>2
  <1>4. k # 0
    BY <1>1
  <1>5. QED
    BY <1>1, <1>3, <1>4 DEF k

\* The time ready_at_ms answers, in the budget it leaves behind.
LEMMA AnswerEarned ==
  ASSUME NEW b \in Budgets, b.last_update_ms <= 0, NEW p \in 1 .. 100,
         NEW required_ms \in Nat
  PROVE  ReadyAt(b, 0, required_ms, p) <= EarnedBy(AfterReadyAt(b, 0, p), required_ms, p)
  <1> DEFINE u == AfterReadyAt(b, 0, p)
             lacking == (required_ms - u.available_ms) * 100
  <1>1. CASE p >= 100 \/ u.available_ms >= required_ms
    BY <1>1 DEF ReadyAt, EarnedBy
  <1>2. CASE ~(p >= 100 \/ u.available_ms >= required_ms)
    <2>1. /\ u \in Budgets /\ u.last_update_ms <= 0
          /\ u.last_update_ms = 0 \/ p * (0 - u.last_update_ms) <= 99
      <3>1. u = Update(b, 0, p) /\ 0 \in Nat
        BY <1>2 DEF AfterReadyAt
      <3> HIDE DEF u
      <3>2. /\ u \in Budgets /\ u.last_update_ms <= 0
            /\ \/ u.last_update_ms = 0
               \/ p * (0 - u.last_update_ms) <= 99
        <4>1. /\ Update(b, 0, p) \in Budgets /\ Update(b, 0, p).last_update_ms <= 0
              /\ \/ Update(b, 0, p).last_update_ms = 0
                 \/ /\ Update(b, 0, p).last_update_ms = b.last_update_ms
                    /\ p * (0 - b.last_update_ms) <= 99
          BY <3>1, UpdateFacts
        <4>2. CASE Update(b, 0, p).last_update_ms = 0
          BY <3>1, <4>1, <4>2
        <4>3. CASE ~(Update(b, 0, p).last_update_ms = 0)
          <5>1. p * (0 - b.last_update_ms) <= 99 /\ u.last_update_ms = b.last_update_ms
            BY <3>1, <4>1, <4>3
          <5>2. p * (0 - u.last_update_ms) <= 99
            BY <5>1
          <5>3. QED
            BY <3>1, <4>1, <5>2
        <4>4. QED
          BY <4>2, <4>3
      <3>3. QED
        BY <3>2
    <2>2. /\ ReadyAt(b, 0, required_ms, p) = 0 + DivCeil(lacking, p)
          /\ EarnedBy(u, required_ms, p)
               = DivCeil(lacking, p) + u.last_update_ms + DivCeil(100, p) - 1
      BY <1>2 DEF ReadyAt, EarnedBy
    <2> HIDE DEF u
    <2>3. DivCeil(lacking, p) \in Nat
      <3>1. lacking \in Nat
        BY <1>2, <2>1 DEF Budgets
      <3> HIDE DEF lacking
      <3>2. QED
        BY <3>1, DivCeilCovers
    <2>4. 0 - u.last_update_ms \in Nat /\ u.last_update_ms \in Int
      BY <2>1 DEF Budgets
    <2>5. 0 - u.last_update_ms <= DivCeil(100, p) - 1 /\ DivCeil(100, p) \in Nat
      BY <2>1, <2>4, MillisecondEarned
    <2> HIDE DEF lacking
    <2>6. QED
      BY <2>2, <2>3, <2>4, <2>5 DEF u
  <1>3. QED
    BY <1>1, <1>2

\* Asked again, at any later time, ready_at_ms answers a time that is at most the
\* time to earn a millisecond before the one it answered first.
LEMMA EarnedAnswer ==
  ASSUME NEW b \in Budgets, b.last_update_ms <= 0, NEW p \in 1 .. 100,
         NEW required_ms \in Nat
  PROVE  EarnedBy(b, required_ms, p) < ReadyAt(b, 0, required_ms, p) + DivCeil(100, p)
  <1> DEFINE u == AfterReadyAt(b, 0, p)
             ready == ReadyAt(b, 0, required_ms, p)
             passed == 0 - b.last_update_ms
             lacking == (required_ms - b.available_ms) * 100
             still == (required_ms - u.available_ms) * 100
  <1>1. ready \in Nat /\ DivCeil(100, p) \in Nat \ {0}
    BY ReadyAtNotPast, MillisecondEarned
  <1>2. passed \in Nat /\ b.available_ms \in Int /\ b.last_update_ms \in Int
    BY DEF Budgets
  <1>3. CASE p >= 100 \/ b.available_ms >= required_ms
    BY <1>1, <1>3 DEF EarnedBy
  <1>4. CASE ~(p >= 100 \/ b.available_ms >= required_ms)
    <2>1. /\ u.available_ms \in Int
          /\ 100 * u.available_ms <= 100 * b.available_ms + p * passed
      <3>1. u = Update(b, 0, p) /\ 0 \in Nat
        BY <1>4 DEF AfterReadyAt
      <3>2. p * passed \in Nat
        BY <1>2
      <3> HIDE DEF u
      <3>3. /\ u \in Budgets
            /\ \/ 100 * u.available_ms <= 100 * b.available_ms + p * passed
               \/ u.available_ms <= b.available_ms
        BY <3>1, UpdateFacts
      <3> HIDE DEF passed
      <3>4. u.available_ms \in Int
        BY <3>3 DEF Budgets
      <3>5. QED
        BY <1>2, <3>2, <3>3, <3>4
    <2>2. lacking \in Nat
      BY <1>2, <1>4
    <2>3. ASSUME NEW m \in Nat, lacking <= p * m PROVE DivCeil(lacking, p) <= m
      <3> HIDE DEF lacking
      <3>1. QED
        BY <2>2, <2>3, DivCeilLeast
    <2>4. DivCeil(lacking, p) \in Nat
      <3> HIDE DEF lacking
      <3>1. QED
        BY <2>2, DivCeilCovers
    <2>5. DivCeil(lacking, p) <= ready + passed
      <3>1. CASE u.available_ms >= required_ms
        <4>1. lacking <= p * passed /\ ready = 0
          BY <1>2, <1>4, <2>1, <3>1 DEF ReadyAt
        <4>2. DivCeil(lacking, p) <= passed
          BY <1>2, <2>3, <4>1
        <4>3. QED
          BY <1>2, <2>4, <4>1, <4>2
      <3>2. CASE ~(u.available_ms >= required_ms)
        <4>1. ready = 0 + DivCeil(still, p)
          BY <1>4, <3>2 DEF ReadyAt
        <4>2. still \in Nat /\ lacking <= still + p * passed
          <5>1. p * passed \in Nat
            BY <1>2
          <5>2. QED
            BY <1>2, <2>1, <3>2, <5>1
        <4> HIDE DEF still, lacking, passed, ready
        <4>3. DivCeil(still, p) \in Nat /\ p * DivCeil(still, p) >= still
          BY <4>2, DivCeilCovers
        <4>4. /\ p * (ready + passed) = p * ready + p * passed
              /\ p * passed \in Nat /\ p * ready \in Nat
          BY <1>1, <1>2
        <4>5. lacking <= p * (ready + passed)
          BY <2>2, <4>1, <4>2, <4>3, <4>4
        <4>6. QED
          BY <1>1, <1>2, <2>3, <4>5
      <3>3. QED
        BY <3>1, <3>2
    <2>6. EarnedBy(b, required_ms, p)
            = DivCeil(lacking, p) + b.last_update_ms + DivCeil(100, p) - 1
      BY <1>4 DEF EarnedBy
    <2> HIDE DEF lacking, ready
    <2>7. QED
      BY <1>1, <1>2, <2>4, <2>5, <2>6 DEF ready
  <1>5. QED
    BY <1>3, <1>4

\* It is an integer.
LEMMA EarnedTyped ==
  ASSUME NEW b \in Budgets, NEW p \in 1 .. 100, NEW required_ms \in Nat
  PROVE  EarnedBy(b, required_ms, p) \in Int
  <1> DEFINE lacking == (required_ms - b.available_ms) * 100
  <1>1. /\ b.available_ms \in Int /\ b.last_update_ms \in Int /\ DivCeil(100, p) \in Nat
    BY MillisecondEarned DEF Budgets
  <1>2. ASSUME ~(b.available_ms >= required_ms) PROVE DivCeil(lacking, p) \in Nat
    <2>1. lacking \in Nat
      BY <1>1, <1>2
    <2> HIDE DEF lacking
    <2>2. QED
      BY <2>1, DivCeilCovers
  <1>3. QED
    BY <1>1, <1>2 DEF EarnedBy

\* A tick brings what is earned nearer by a millisecond at most.
LEMMA TickedBudget ==
  ASSUME NEW b \in Budgets, NEW p \in 1 .. 100, NEW required_ms \in Nat,
         NEW c, c = [b EXCEPT !.last_update_ms = Aged(@, -DUTY_CYCLE_WINDOW_MS)]
  PROVE  /\ EarnedBy(b, required_ms, p) \in Int /\ EarnedBy(c, required_ms, p) \in Int
         /\ EarnedBy(c, required_ms, p) >= EarnedBy(b, required_ms, p) - 1
  <1> DEFINE lacking == (required_ms - b.available_ms) * 100
  <1>1. /\ c \in Budgets /\ c.available_ms = b.available_ms
        /\ c.last_update_ms >= b.last_update_ms - 1
        /\ b.last_update_ms \in Int /\ c.last_update_ms \in Int
    BY WindowAssumption DEF Budgets, Aged, Later
  <1>2. EarnedBy(b, required_ms, p) \in Int /\ EarnedBy(c, required_ms, p) \in Int
    BY <1>1, EarnedTyped
  <1>3. CASE p >= 100 \/ b.available_ms >= required_ms
    BY <1>1, <1>2, <1>3 DEF EarnedBy
  <1>4. CASE ~(p >= 100 \/ b.available_ms >= required_ms)
    <2>1. /\ EarnedBy(b, required_ms, p)
               = DivCeil(lacking, p) + b.last_update_ms + DivCeil(100, p) - 1
          /\ EarnedBy(c, required_ms, p)
               = DivCeil(lacking, p) + c.last_update_ms + DivCeil(100, p) - 1
      BY <1>1, <1>4 DEF EarnedBy
    <2>2. DivCeil(lacking, p) \in Nat /\ DivCeil(100, p) \in Nat
      <3>1. lacking \in Nat
        BY <1>4 DEF Budgets
      <3> HIDE DEF lacking
      <3>2. QED
        BY <3>1, DivCeilCovers, MillisecondEarned
    <2> HIDE DEF lacking
    <2>3. QED
      BY <1>1, <2>1, <2>2
  <1>5. QED
    BY <1>2, <1>3, <1>4

\* A tick brings the head of the queue nearer, and keeps it the head.
LEMMA TickedQueue ==
  ASSUME NEW q \in Seq(QueuedTransmit),
         NEW t, t = [i \in DOMAIN q |-> [q[i] EXCEPT !.eligible_at_ms = Aged(@, 0)]]
  PROVE  /\ q = <<>> => t = <<>>
         /\ q # <<>> => /\ t # <<>>
                        /\ Head(t).eligible_at_ms = Aged(Head(q).eligible_at_ms, 0)
                        /\ Head(t).packet_len = Head(q).packet_len
  <1>1. /\ Len(q) \in Nat /\ DOMAIN q = 1 .. Len(q)
        /\ \A i \in DOMAIN q : q[i] \in QueuedTransmit
    BY LenProperties, ElementOfSeq
  <1>2. ASSUME NEW i \in DOMAIN q
        PROVE  LET item == [q[i] EXCEPT !.eligible_at_ms = Aged(@, 0)]
               IN /\ item \in QueuedTransmit
                  /\ item.packet_len = q[i].packet_len
                  /\ item.eligible_at_ms = Aged(q[i].eligible_at_ms, 0)
    <2>1. q[i] \in QueuedTransmit
      BY <1>1
    <2>2. Aged(q[i].eligible_at_ms, 0) \in Nat
      BY <2>1 DEF QueuedTransmit, Aged, Later
    <2>3. QED
      BY <2>1, <2>2 DEF QueuedTransmit
  <1>3. /\ t \in [DOMAIN q -> QueuedTransmit]
        /\ \A i \in DOMAIN q : /\ t[i].packet_len = q[i].packet_len
                                /\ t[i].eligible_at_ms = Aged(q[i].eligible_at_ms, 0)
    BY <1>2
  <1>4. t \in Seq(QueuedTransmit) /\ Len(t) = Len(q)
    BY <1>3, MappedSeq
  <1>5. CASE q = <<>>
    BY <1>4, <1>5, EmptySeq
  <1>6. CASE q # <<>>
    <2>1. t # <<>> /\ 1 \in DOMAIN q
      BY <1>1, <1>4, <1>6, EmptySeq
    <2>2. Head(t) = t[1] /\ Head(q) = q[1]
      BY <1>4, <1>6, <2>1, HeadInserted
    <2>3. QED
      BY <1>3, <2>1, <2>2
  <1>7. QED
    BY <1>5, <1>6

\* The timer is armed for the head of the queue, and until it fires the head is
\* the same, or the signal has been raised.
LEMMA TimerCoversNext ==
  ASSUME LoopInv, BudgetCovers, TimerCovers, [Next]_vars
  PROVE  TimerCovers'
  <1>1. ASSUME pc' # "wait" \/ changed' PROVE TimerCovers'
    BY <1>1 DEF TimerCovers
  <1>2. ASSUME UNCHANGED <<pc, read, wake_at, budget>>, changed \/ queue' # queue => changed'
        PROVE  TimerCovers'
    <2>1. CASE pc' # "wait" \/ changed'
      BY <1>1, <2>1
    <2>2. CASE UNCHANGED <<pc, read, wake_at, budget, queue, packet_airtime_ms>> /\ ~changed
      BY <2>2 DEF TimerCovers, Airtime
    <2>3. QED
      BY <1>2, <2>1, <2>2
  <1>3. CASE \/ DropForward \/ NothingToSend \/ BudgetExhausted \/ TakeFirst
              \/ ChannelClear \/ ChannelBusy \/ CheckAgain \/ GiveUp
              \/ WakeChanged \/ WakeDue \/ RxError \/ ErrorOver
              \/ \E delay \in RetryDelays : Retry(delay)
    BY <1>1, <1>3 DEF DropForward, NothingToSend, BudgetExhausted, TakeFirst, ChannelClear,
                      ChannelBusy, CheckAgain, GiveUp, WakeChanged, WakeDue, RxError, ErrorOver,
                      Retry
  <1>4. ASSUME NEW fits \in BOOLEAN, RxPacket(fits) PROVE TimerCovers'
    BY <1>1, <1>4 DEF RxPacket
  <1>5. CASE Transmitted \/ Reboot
    BY <1>1, <1>5 DEF Transmitted, Reboot, Boot
  <1>6. CASE \/ SetRepeat \/ UNCHANGED vars
    BY <1>2, <1>6 DEF SetRepeat, vars, outbound, task
  <1>7. ASSUME NEW p \in Percents, SetDutyCycle(p) PROVE TimerCovers'
    BY <1>2, <1>7 DEF SetDutyCycle, outbound, task
  <1>8. ASSUME NEW r \in Radios, SetRadio(r) PROVE TimerCovers'
    BY <1>2, <1>8 DEF SetRadio, outbound, task
  <1>9. CASE HandleRxEvent \/ \E len \in PacketLens : EnqueueOwn(len)
    <2>1. UNCHANGED <<pc, read, wake_at, budget>>
      BY <1>9 DEF HandleRxEvent, EnqueueOwn, task
    <2>2. \E queued : Enqueue(queued)
      BY <1>9, Zenon DEF HandleRxEvent, EnqueueOwn, EnqueueForward
    <2>3. changed \/ queue' # queue => changed'
      BY <2>2 DEF Enqueue, Signalled
    <2>4. QED
      BY <1>2, <2>1, <2>3
  <1>10. CASE PrepareWait
    <2>1. CASE queue = <<>>
      BY <1>10, <2>1 DEF PrepareWait, TimerCovers
    <2>2. CASE queue # <<>>
      <3> DEFINE next == Head(queue)
                 p == duty_cycle_percent
                 airtime_ms == Airtime(next, ReadSettings)
                 ready == ReadyAt(budget, 0, airtime_ms, p)
                 asked == AfterReadyAt(budget, 0, p)
                 due == next.eligible_at_ms <= 0 /\ ready <= 0
      <3>1. /\ budget' = asked /\ queue' = queue /\ read' = ReadSettings
            /\ IF due THEN pc' = "top"
               ELSE pc' = "wait" /\ wake_at' = Later(next.eligible_at_ms, ready)
        BY <1>10, <2>2 DEF PrepareWait
      <3>2. /\ airtime_ms \in Nat /\ next \in QueuedTransmit
            /\ budget \in Budgets /\ p \in 1 .. 100 /\ budget.last_update_ms <= 0
            /\ ReadSettings.duty_cycle_percent = p
        BY <2>2, LoopFacts DEF BudgetCovers
      <3>3. Airtime(Head(queue'), read') = airtime_ms /\ read'.duty_cycle_percent = p
        BY <3>1, <3>2
      <3>4. (Airtime(Head(queue), read))' = airtime_ms
        BY <3>3 DEF Airtime
      <3> HIDE DEF airtime_ms
      <3>5. ready \in Nat /\ ready <= EarnedBy(asked, airtime_ms, p)
        <4>1. 0 \in Nat
          OBVIOUS
        <4>2. QED
          BY <3>2, <4>1, AnswerEarned, ReadyAtNotPast
      <3>6. EarnedBy(asked, airtime_ms, p) \in Int
        <4>1. asked \in Budgets
          BY <3>2, BudgetTyped DEF asked
        <4> HIDE DEF asked
        <4>2. QED
          BY <3>2, <4>1, EarnedTyped
      <3>7. next.eligible_at_ms \in Nat
        BY <3>2 DEF QueuedTransmit
      <3> DEFINE wake == Later(next.eligible_at_ms, ready)
      <3>8. /\ wake \in Nat
            /\ wake <= Later(next.eligible_at_ms, EarnedBy(asked, airtime_ms, p))
        <4> HIDE DEF ready, next, asked
        <4>1. QED
          BY <3>5, <3>6, <3>7 DEF Later
      <3>9. CASE due
        BY <1>1, <3>1, <3>9
      <3>10. CASE ~due
        <4>1. /\ wake_at' = wake /\ queue' = queue /\ budget' = asked
              /\ Head(queue') = next
          BY <3>1, <3>10
        <4> HIDE DEF wake, asked, next, ready, due
        <4>2. wake # Never
          BY <3>8 DEF Never
        <4>3. QED
          BY <2>2, <3>3, <3>4, <3>8, <4>1, <4>2 DEF TimerCovers, next
      <3>11. QED
        BY <3>9, <3>10
    <2>3. QED
      BY <2>1, <2>2
  <1>11. CASE Tick
    <2> DEFINE aged == [i \in DOMAIN queue |-> [queue[i] EXCEPT !.eligible_at_ms = Aged(@, 0)]]
               p == read.duty_cycle_percent
    <2>1. /\ pc' = pc /\ changed' = changed /\ read' = read /\ queue' = aged
          /\ wake_at' = IF wake_at = Never THEN Never ELSE Aged(wake_at, 0)
          /\ budget' = [budget EXCEPT !.last_update_ms = Aged(@, -DUTY_CYCLE_WINDOW_MS)]
      BY <1>11 DEF Tick
    <2>2. /\ queue \in Seq(QueuedTransmit) /\ budget \in Budgets
          /\ read.duty_cycle_percent \in 1 .. 100 /\ wake_at \in Nat \cup {Never}
      BY LoopFacts
    <2> HIDE DEF aged
    <2>3. CASE pc # "wait" \/ changed
      BY <1>1, <2>1, <2>3
    <2>4. CASE pc = "wait" /\ ~changed /\ queue = <<>>
      <3>1. queue' = <<>> /\ wake_at' = Never
        <4>1. wake_at = Never
          BY <2>4 DEF TimerCovers
        <4>2. aged = <<>>
          BY <2>4, TickedQueue DEF aged
        <4>3. QED
          BY <2>1, <4>1, <4>2
      <3>2. QED
        BY <3>1 DEF TimerCovers
    <2>5. CASE pc = "wait" /\ ~changed /\ queue # <<>>
      <3> DEFINE next == Head(queue)
                 airtime_ms == Airtime(next, read)
                 earned == EarnedBy(budget, airtime_ms, p)
                 later == EarnedBy(budget', airtime_ms, p)
      <3>1. /\ wake_at \in Nat /\ wake_at # Never
            /\ wake_at <= Later(next.eligible_at_ms, earned)
        BY <2>2, <2>5 DEF TimerCovers
      <3>2. /\ next \in QueuedTransmit /\ airtime_ms \in Nat
            /\ next.eligible_at_ms \in Nat
        BY <2>5, LoopFacts DEF QueuedTransmit
      <3>3. /\ queue' # <<>>
            /\ Head(queue').eligible_at_ms = Aged(next.eligible_at_ms, 0)
            /\ Head(queue').packet_len = next.packet_len
        BY <2>1, <2>2, <2>5, TickedQueue DEF aged
      <3>4. Airtime(Head(queue'), read') = airtime_ms /\ (Airtime(Head(queue), read))' = airtime_ms
        BY <2>1, <3>3 DEF Airtime
      <3> HIDE DEF airtime_ms, next
      <3>5. earned \in Int /\ later \in Int /\ later >= earned - 1
        BY <2>1, <2>2, <3>2, TickedBudget
      <3> HIDE DEF earned, later
      <3>6. /\ wake_at' = Aged(wake_at, 0) /\ wake_at' # Never
            /\ wake_at' <= Later(Aged(next.eligible_at_ms, 0), later)
        BY <2>1, <3>1, <3>2, <3>5 DEF Aged, Later, Never
      <3>7. QED
        BY <2>1, <3>3, <3>4, <3>6 DEF TimerCovers, later
    <2>6. QED
      BY <2>3, <2>4, <2>5
  <1>12. QED
    <2>1. CASE RadioStep
      BY <1>3, <1>5, <1>10, <2>1 DEF RadioStep
    <2>2. CASE Environment
      BY <1>3, <1>5, <1>6, <1>9, <1>4, <1>7, <1>8, <2>2 DEF Environment
    <2>3. QED
      BY <1>6, <1>9, <1>11, <2>1, <2>2 DEF Next

\* What the invariant implies, with the budget and the timer.
LEMMA RadioInvImplies ==
  ASSUME RadioInv
  PROVE  NeverOverdrawn /\ WaitCoversQueue
  <1>1. NeverOverdrawn
    BY DEF RadioInv, BudgetCovers, NeverOverdrawn
  <1>2. ASSUME pc = "wait", ~changed, queue # <<>>
        PROVE  wake_at < Later(Head(queue).eligible_at_ms,
                               ReadyAt(budget, 0, Airtime(Head(queue), read),
                                       read.duty_cycle_percent))
                         + DivCeil(100, read.duty_cycle_percent)
    <2> DEFINE p == read.duty_cycle_percent
               next == Head(queue)
               airtime_ms == Airtime(next, read)
               earned == EarnedBy(budget, airtime_ms, p)
               ready == ReadyAt(budget, 0, airtime_ms, p)
    <2>1. /\ budget \in Budgets /\ budget.last_update_ms <= 0 /\ p \in 1 .. 100
          /\ airtime_ms \in Nat /\ next.eligible_at_ms \in Nat /\ 0 \in Nat
      BY <1>2, LoopFacts DEF RadioInv, BudgetCovers, QueuedTransmit
    <2>2. wake_at \in Nat /\ wake_at <= Later(next.eligible_at_ms, earned)
      BY <1>2, LoopFacts DEF RadioInv, TimerCovers
    <2> HIDE DEF airtime_ms, next
    <2>3. earned < ready + DivCeil(100, p) /\ ready \in Nat
      BY <2>1, EarnedAnswer, ReadyAtNotPast
    <2>4. DivCeil(100, p) \in Nat \ {0} /\ earned \in Int
      BY <2>1, MillisecondEarned, EarnedTyped
    <2> HIDE DEF earned, ready
    <2>5. wake_at < Later(next.eligible_at_ms, ready) + DivCeil(100, p)
      BY <2>1, <2>2, <2>3, <2>4 DEF Later
    <2>6. QED
      BY <2>5 DEF ready, next, airtime_ms
  <1>3. WaitCoversQueue
    BY <1>2 DEF WaitCoversQueue, RadioInv, TimerCovers
  <1>4. QED
    BY <1>1, <1>3

------------------------------------------------------------------------------
(* The theorems *)

\* The invariant holds in every state the radio task, the handler, the settings
\* and the reboots can reach.
THEOREM LoopInvariant == Spec => []LoopInv
  <1>1. Init => LoopInv
    BY LoopInvInit
  <1>2. LoopInv /\ [Next]_vars => LoopInv'
    BY KeptNext, OthersNext DEF LoopInv
  <1>3. QED
    BY <1>1, <1>2, PTL DEF Spec

\* The state of the radio task and of the handler stays within its types.
THEOREM RadioTypes == Spec => []TypeOK
  <1>1. LoopInv => TypeOK
    BY LoopInvImplies
  <1>2. QED
    BY <1>1, LoopInvariant, PTL

\* A packet the radio task took always has a place to be put back to.
THEOREM PlaceIsKept == Spec => []PlaceKeptForCurrent
  <1>1. LoopInv => PlaceKeptForCurrent
    BY LoopInvImplies
  <1>2. QED
    BY <1>1, LoopInvariant, PTL

\* A signature is reserved exactly while one packet with it is held: no
\* reservation leaks and none is released early.
THEOREM ReservationsAreExact == Spec => []ReservationsMatchHeld
  <1>1. LoopInv => ReservationsMatchHeld
    BY LoopInvImplies
  <1>2. QED
    BY <1>1, LoopInvariant, PTL

\* The head of the queue is the packet eligible first.
THEOREM QueueStaysSorted == Spec => []QueueSorted
  <1>1. LoopInv => QueueSorted
    BY LoopInvImplies
  <1>2. QED
    BY <1>1, LoopInvariant, PTL

\* A packet that was on the air within the time to live, and not followed by as
\* many others as the cache has places, is not about to be forwarded again.
THEOREM NoRepeat == Spec => []NoRepeatWhileRemembered
  <1>1. LoopInv => NoRepeatWhileRemembered
    BY LoopInvImplies
  <1>2. QED
    BY <1>1, LoopInvariant, PTL

\* For every number of places and attempts: a packet taken from the queue can be
\* put back, in its order.
THEOREM QueueIsKept == Spec => []QueueKept
  <1>1. LoopInv => QueueKept
    BY LoopInvImplies DEF QueueKept
  <1>2. QED
    BY <1>1, LoopInvariant, PTL

\* The budget and the timer are what the invariant says in every state, too.
THEOREM RadioInvariant == Spec => []RadioInv
  <1>1. Init => BudgetCovers /\ TimerCovers
    <2> SUFFICES ASSUME Init PROVE BudgetCovers /\ TimerCovers
      OBVIOUS
    <2>1. budget = [available_ms |-> MaxBudget(duty_cycle_percent), last_update_ms |-> 0]
      BY DEF Init, NewBudget
    <2>2. MaxBudget(duty_cycle_percent) \in Nat
      BY RadioAssumption, MaxBudgetNat DEF Init
    <2>3. QED
      BY <2>1, <2>2 DEF Init, BudgetCovers, TimerCovers
  <1>2. LoopInv /\ BudgetCovers /\ TimerCovers /\ [Next]_vars => BudgetCovers' /\ TimerCovers'
    BY BudgetCoversNext, TimerCoversNext
  <1>3. QED
    BY <1>1, <1>2, LoopInvariant, PTL DEF Spec, RadioInv

\* Whatever happens to the duty cycle between the check that lets a packet on
\* the air and the charge for it, the budget is not overdrawn.
THEOREM LoopNeverOverdrawn == Spec => []NeverOverdrawn
  <1>1. RadioInv => NeverOverdrawn
    BY RadioInvImplies
  <1>2. QED
    BY <1>1, RadioInvariant, PTL

\* No wakeup is lost: a radio task that waits has been signalled, or has a timer
\* that covers the head of the queue, at the settings it read, within the time
\* to earn a millisecond; and it waits without a timer only for want of a packet.
THEOREM NoWakeupLost == Spec => []WaitCoversQueue
  <1>1. RadioInv => WaitCoversQueue
    BY RadioInvImplies
  <1>2. QED
    BY <1>1, RadioInvariant, PTL
==============================================================================
