------------------------- MODULE RemoteSessions_proofs -------------------------
(***************************************************************************)
(* Theorems about the remote sessions, for every number of places and      *)
(* keys, every time to live, every access list and every clock.            *)
(***************************************************************************)
EXTENDS RemoteSessions, FiniteSetTheorems, WellFoundedInduction, TLAPS

\* The least of some natural numbers is there and is one of them.
LEMMA MinIsLeast ==
  ASSUME NEW S \in SUBSET Nat, S # {}
  PROVE  /\ Min(S) \in S
         /\ \A n \in S : Min(S) <= n
  <1>1. PICK least \in S : \A n \in S : ~ (<<n, least>> \in OpToRel(<, Nat))
    BY NatLessThanWellFounded, WFMin
  <1>2. \A n \in S : least <= n
    <2>1. OpToRel(<, Nat) = {pair \in Nat \X Nat : pair[1] < pair[2]}
      BY DEF OpToRel
    <2>2. \A n \in S : ~ (<<n, least>> \in {pair \in Nat \X Nat : pair[1] < pair[2]})
      BY <1>1, <2>1
    <2>3. \A n, m \in Nat : n < m => <<n, m>> \in {pair \in Nat \X Nat : pair[1] < pair[2]}
      OBVIOUS
    <2>4. \A n \in S : n \in Nat /\ least \in Nat /\ (n < least \/ least <= n)
      OBVIOUS
    <2>5. QED
      BY <2>2, <2>3, <2>4
  <1>3. QED
    BY <1>2 DEF Min

\* No place holds two sessions, no key has two.
Placed(held) ==
  /\ held \in Tables
  /\ \A p \in Privileges : \A l, m \in held[p] : l.slot = m.slot => l = m
  /\ \A p, q \in Privileges : \A l \in held[p], m \in held[q] :
       l.public_key = m.public_key => p = q /\ l = m

\* The sessions have their keys' roles.
Follows(held, roles) ==
  \A p \in Privileges : \A l \in held[p] :
    /\ l.role = roles[l.public_key]
    /\ l.role # "deny"
    /\ l.role = "admin" => p = "admin"

Seen(held, time) ==
  \A p \in Privileges : \A l \in held[p] : l.last_seen_ms <= time

SessionsInv ==
  /\ now \in 0 .. MaxTime
  /\ acl \in [Keys -> Roles]
  /\ reply \in Replies
  /\ Placed(tables)
  /\ Follows(tables, acl)
  /\ Seen(tables, now)

Alive(l, time) == time <= l.last_seen_ms + REMOTE_LOGIN_TTL_MS

------------------------------------------------------------------------------
(* The tables *)

LEMMA InTables ==
  ASSUME NEW held
  PROVE  held \in Tables <=>
           /\ held = [p \in Privileges |-> held[p]]
           /\ \A p \in Privileges : \A l \in held[p] : l \in RemoteLogin
  BY DEF Tables

\* The first place with a key is the only one.
LEMMA FoundAlone ==
  ASSUME NEW held, Placed(held), NEW p \in Privileges, NEW key
  PROVE  FindLogin(held[p], key) = {l \in held[p] : l.public_key = key}
  <1>1. \A l \in held[p] : l \in RemoteLogin
    BY InTables DEF Placed
  <1>2. \A l, m \in held[p] : l.public_key = m.public_key => l = m
    BY DEF Placed
  <1>3. \A l \in held[p] : l.slot <= l.slot
    BY <1>1 DEF RemoteLogin, Slots
  <1>4. QED
    BY <1>2, <1>3 DEF FindLogin

LEMMA FindsOne ==
  ASSUME NEW held, Placed(held), NEW key, NEW p, p = PrivilegeFor(held, key)
  PROVE  \/ p = NoPrivilege /\ \A q \in Privileges : \A l \in held[q] : l.public_key # key
         \/ p \in Privileges /\ \E l \in held[p] : l.public_key = key
  <1>1. \A q \in Privileges : FindLogin(held[q], key) = {l \in held[q] : l.public_key = key}
    BY FoundAlone
  <1>2. Privileges = {"admin", "guest"}
    BY DEF Privileges
  <1>3. CASE FindLogin(held["admin"], key) # {}
    BY <1>1, <1>2, <1>3 DEF PrivilegeFor
  <1>4. CASE FindLogin(held["admin"], key) = {} /\ FindLogin(held["guest"], key) # {}
    BY <1>1, <1>2, <1>4 DEF PrivilegeFor
  <1>5. CASE FindLogin(held["admin"], key) = {} /\ FindLogin(held["guest"], key) = {}
    <2>1. p = NoPrivilege
      BY <1>5 DEF PrivilegeFor
    <2>2. \A q \in Privileges : {l \in held[q] : l.public_key = key} = {}
      BY <1>1, <1>2, <1>5
    <2>3. QED
      BY <2>1, <2>2
  <1>6. QED
    BY <1>3, <1>4, <1>5

\* Fewer sessions are as well placed.
LEMMA FewerPlaced ==
  ASSUME NEW held, Placed(held), NEW fewer,
         fewer = [p \in Privileges |-> fewer[p]],
         \A p \in Privileges : fewer[p] \subseteq held[p]
  PROVE  /\ Placed(fewer)
         /\ \A roles : Follows(held, roles) => Follows(fewer, roles)
         /\ \A time : Seen(held, time) => Seen(fewer, time)
  <1>1. \A p \in Privileges : \A l \in fewer[p] : l \in held[p]
    OBVIOUS
  <1>2. fewer \in Tables
    BY <1>1, InTables DEF Placed
  <1>3. Placed(fewer)
    BY <1>1, <1>2 DEF Placed
  <1>4. QED
    BY <1>1, <1>3 DEF Follows, Seen

LEMMA PruneFewer ==
  ASSUME NEW held, Placed(held), NEW time \in Nat
  PROVE  /\ Prune(held, time) = [p \in Privileges |-> Prune(held, time)[p]]
         /\ \A p \in Privileges : /\ Prune(held, time)[p] = {l \in held[p] : Alive(l, time)}
                                  /\ Prune(held, time)[p] \subseteq held[p]
         /\ Placed(Prune(held, time))
  <1>1. \A p \in Privileges : Prune(held, time)[p] = PruneEntries(held[p], time)
    BY DEF Prune
  <1>2. \A p \in Privileges : \A l \in held[p] : l.last_seen_ms \in Nat
    BY InTables DEF Placed, RemoteLogin
  <1>3. REMOTE_LOGIN_TTL_MS \in Nat
    BY LoginAssumption
  <1>4. \A p \in Privileges : \A l \in held[p] :
          time - l.last_seen_ms <= REMOTE_LOGIN_TTL_MS <=> Alive(l, time)
    BY <1>2, <1>3 DEF Alive
  <1>5. \A p \in Privileges : PruneEntries(held[p], time) = {l \in held[p] : Alive(l, time)}
    BY <1>4 DEF PruneEntries
  <1>6. Prune(held, time) = [p \in Privileges |-> Prune(held, time)[p]]
    BY DEF Prune
  <1>7. \A p \in Privileges : Prune(held, time)[p] \subseteq held[p]
    BY <1>1, <1>5
  <1>8. Placed(Prune(held, time))
    BY <1>6, <1>7, FewerPlaced
  <1>9. QED
    BY <1>1, <1>5, <1>6, <1>7, <1>8

\* Removal of keys leaves the sessions of the others.
LEMMA RemovedKeys ==
  ASSUME NEW held, Placed(held), NEW keys
  PROVE  /\ RemoveLogins(held, keys) = [p \in Privileges |-> RemoveLogins(held, keys)[p]]
         /\ \A p \in Privileges :
              /\ RemoveLogins(held, keys)[p] = {l \in held[p] : l.public_key \notin keys}
              /\ RemoveLogins(held, keys)[p] \subseteq held[p]
         /\ Placed(RemoveLogins(held, keys))
  <1>1. \A p \in Privileges :
          RemoveLogins(held, keys)[p] =
            {l \in held[p] : \A key \in keys : l \notin FindLogin(held[p], key)}
    BY DEF RemoveLogins
  <1>2. \A p \in Privileges : \A key : \A l \in held[p] :
          l \in FindLogin(held[p], key) <=> l.public_key = key
    BY FoundAlone
  <1>3. \A p \in Privileges :
          {l \in held[p] : \A key \in keys : l \notin FindLogin(held[p], key)} =
            {l \in held[p] : l.public_key \notin keys}
    BY <1>2
  <1>4. RemoveLogins(held, keys) = [p \in Privileges |-> RemoveLogins(held, keys)[p]]
    BY DEF RemoveLogins
  <1>5. \A p \in Privileges : RemoveLogins(held, keys)[p] \subseteq held[p]
    BY <1>1
  <1>6. Placed(RemoveLogins(held, keys))
    BY <1>4, <1>5, FewerPlaced
  <1>7. QED
    BY <1>1, <1>3, <1>4, <1>5, <1>6

\* After a change of the access list the sessions left follow the new one.
LEMMA ConfigFollows ==
  ASSUME NEW held, Placed(held), NEW roles, Follows(held, roles), NEW new, NEW time,
         Seen(held, time)
  PROVE  LET left == RemoveLogins(held, ChangedKeys(roles, new))
         IN /\ Placed(left) /\ Follows(left, new) /\ Seen(left, time)
            /\ \A p \in Privileges :
                 left[p] = {l \in held[p] : roles[l.public_key] = new[l.public_key]}
  <1> DEFINE changed == ChangedKeys(roles, new)
             left == RemoveLogins(held, changed)
  <1>1. /\ left = [p \in Privileges |-> left[p]]
        /\ \A p \in Privileges : /\ left[p] = {l \in held[p] : l.public_key \notin changed}
                                 /\ left[p] \subseteq held[p]
        /\ Placed(left)
    BY RemovedKeys
  <1>2. \A p \in Privileges : \A l \in held[p] :
          l.public_key \notin changed <=> roles[l.public_key] = new[l.public_key]
    <2>1. \A p \in Privileges : \A l \in held[p] : l.public_key \in Keys
      BY InTables DEF Placed, RemoteLogin
    <2>2. QED
      BY <2>1 DEF ChangedKeys
  <1>3. \A p \in Privileges :
          left[p] = {l \in held[p] : roles[l.public_key] = new[l.public_key]}
    BY <1>1, <1>2
  <1>4. Seen(left, time)
    BY <1>1 DEF Seen
  <1>5. Follows(left, new)
    BY <1>3 DEF Follows
  <1>6. QED
    BY <1>1, <1>3, <1>4, <1>5

\* A table always has a place for a login: the place's session, if there is one,
\* is the one unused for longest, and then no place is empty.
LEMMA PlaceFound ==
  ASSUME NEW logins, \A l \in logins : l \in RemoteLogin
  PROVE  /\ SlotFor(logins) \in Slots
         /\ \/ \A l \in logins : l.slot # SlotFor(logins)
            \/ /\ EmptySlots(logins) = {}
               /\ \E l \in LeastRecent(logins) : l.slot = SlotFor(logins)
  <1>1. Slots \in SUBSET Nat /\ 1 \in Slots
    BY LoginAssumption DEF Slots
  <1>2. CASE EmptySlots(logins) # {}
    <2>1. EmptySlots(logins) \in SUBSET Nat
      BY <1>1 DEF EmptySlots
    <2>2. SlotFor(logins) \in EmptySlots(logins)
      BY <1>2, <2>1, MinIsLeast DEF SlotFor, FirstEmptySlot
    <2>3. QED
      BY <2>2 DEF EmptySlots
  <1>3. CASE EmptySlots(logins) = {}
    <2> DEFINE times == {l.last_seen_ms : l \in logins}
               oldest == {l.slot : l \in LeastRecent(logins)}
    <2>1. times \in SUBSET Nat
      BY DEF RemoteLogin
    <2>2. times # {}
      <3>1. \E l \in logins : l.slot = 1
        BY <1>1, <1>3 DEF EmptySlots
      <3>2. QED
        BY <3>1
    <2>3. Min(times) \in times /\ \A t \in times : Min(times) <= t
      BY <2>1, <2>2, MinIsLeast
    <2>4. PICK l \in logins : l.last_seen_ms = Min(times)
      BY <2>3
    <2>5. l \in LeastRecent(logins)
      <3>1. \A m \in logins : Min(times) <= m.last_seen_ms
        BY <2>3
      <3>2. QED
        BY <2>4, <3>1 DEF LeastRecent
    <2>6. oldest \in SUBSET Slots /\ oldest # {}
      BY <2>5 DEF LeastRecent, RemoteLogin
    <2>7. Min(oldest) \in oldest
      <3>1. oldest \in SUBSET Nat
        BY <1>1, <2>6
      <3>2. QED
        BY <2>6, <3>1, MinIsLeast
    <2>8. SlotFor(logins) = Min(oldest)
      BY <1>3 DEF SlotFor, OldestSlot
    <2>9. QED
      BY <1>3, <2>6, <2>7, <2>8
  <1>4. QED
    BY <1>2, <1>3

\* authenticate() keeps the tables in order and gives the key a session.
LEMMA AuthenticateKeeps ==
  ASSUME NEW held, Placed(held), NEW roles \in [Keys -> Roles], Follows(held, roles),
         NEW time \in Nat, Seen(held, time),
         NEW key \in Keys, NEW p \in Privileges, NEW timestamp \in Timestamps,
         roles[key] # "deny", roles[key] = "admin" => p = "admin",
         NEW kept, kept = RemoveLogins(Prune(held, time), {key}),
         NEW login, login = NewLogin(SlotFor(kept[p]), key, timestamp, time, roles[key]),
         NEW after, after = Authenticate(held, key, p, timestamp, time, roles[key])
  PROVE  /\ Placed(after) /\ Follows(after, roles) /\ Seen(after, time)
         /\ login \in RemoteLogin
         /\ \A q \in Privileges :
              after[q] = IF q = p THEN Put(kept[p], login) ELSE kept[q]
  <1>1. /\ Placed(Prune(held, time))
        /\ Prune(held, time) = [q \in Privileges |-> Prune(held, time)[q]]
        /\ \A q \in Privileges : Prune(held, time)[q] \subseteq held[q]
    BY PruneFewer
  <1>2. /\ Placed(kept)
        /\ kept = [q \in Privileges |-> kept[q]]
        /\ \A q \in Privileges : /\ kept[q] = {l \in Prune(held, time)[q] : l.public_key \notin {key}}
                                 /\ kept[q] \subseteq Prune(held, time)[q]
    <2> DEFINE pruned == Prune(held, time)
               left   == RemoveLogins(pruned, {key})
    <2> HIDE DEF pruned
    <2>1. Placed(pruned)
      BY <1>1 DEF pruned
    <2>2. /\ left = [q \in Privileges |-> left[q]]
          /\ \A q \in Privileges : /\ left[q] = {l \in pruned[q] : l.public_key \notin {key}}
                                   /\ left[q] \subseteq pruned[q]
          /\ Placed(left)
      BY <2>1, RemovedKeys
    <2>3. kept = left
      BY DEF pruned
    <2>4. QED
      BY <2>2, <2>3 DEF pruned
  <1>3. Follows(kept, roles) /\ Seen(kept, time)
    <2>1. \A q \in Privileges : kept[q] \subseteq held[q]
      BY <1>1, <1>2
    <2>2. QED
      BY <1>2, <2>1, FewerPlaced
  <1>4. \A q \in Privileges : \A l \in kept[q] : l \in RemoteLogin
    BY <1>2, InTables DEF Placed
  <1>5. SlotFor(kept[p]) \in Slots
    BY <1>4, PlaceFound
  <1>6. login \in RemoteLogin
    BY <1>5 DEF NewLogin, RemoteLogin
  <1>7. /\ login.public_key = key /\ login.role = roles[key]
        /\ login.last_seen_ms = time
    BY DEF NewLogin
  <1>8. after = [kept EXCEPT ![p] = Put(kept[p], login)]
    BY DEF Authenticate
  <1>9. /\ after = [q \in Privileges |-> after[q]]
        /\ \A q \in Privileges :
             after[q] = IF q = p THEN Put(kept[p], login) ELSE kept[q]
    BY <1>2, <1>8
  <1>10. \A q \in Privileges : \A l \in after[q] :
           \/ q = p /\ l = login
           \/ l \in kept[q] /\ (q = p => l.slot # login.slot)
    BY <1>9 DEF Put
  <1>11. \A q \in Privileges : \A l \in kept[q] : l.public_key # key
    BY <1>2
  <1>12. after \in Tables
    BY <1>4, <1>6, <1>9, <1>10, InTables
  <1>13. \A q \in Privileges : \A l, m \in after[q] : l.slot = m.slot => l = m
    <2>1. \A q \in Privileges : \A l, m \in kept[q] : l.slot = m.slot => l = m
      BY <1>2 DEF Placed
    <2>2. QED
      BY <1>10, <2>1
  <1>14. \A q, r \in Privileges : \A l \in after[q], m \in after[r] :
           l.public_key = m.public_key => q = r /\ l = m
    <2>1. \A q, r \in Privileges : \A l \in kept[q], m \in kept[r] :
            l.public_key = m.public_key => q = r /\ l = m
      BY <1>2 DEF Placed
    <2>2. SUFFICES ASSUME NEW q \in Privileges, NEW r \in Privileges,
                          NEW l \in after[q], NEW m \in after[r], l.public_key = m.public_key
                   PROVE  q = r /\ l = m
      OBVIOUS
    <2>3. /\ \/ q = p /\ l = login
             \/ l \in kept[q]
          /\ \/ r = p /\ m = login
             \/ m \in kept[r]
      BY <1>10
    <2>4. CASE l \in kept[q] /\ m \in kept[r]
      BY <2>1, <2>2, <2>4
    <2>5. l \in kept[q] => l.public_key # key
      BY <1>11
    <2>6. m \in kept[r] => m.public_key # key
      BY <1>11
    <2>7. QED
      BY <1>7, <2>2, <2>3, <2>4, <2>5, <2>6
  <1>15. Placed(after)
    BY <1>12, <1>13, <1>14 DEF Placed
  <1>16. Follows(after, roles)
    BY <1>3, <1>7, <1>10 DEF Follows
  <1>17. Seen(after, time)
    <2>1. login.last_seen_ms <= time
      BY <1>7
    <2>2. \A q \in Privileges : \A l \in kept[q] : l.last_seen_ms <= time
      BY <1>3 DEF Seen
    <2>3. \A q \in Privileges : \A l \in after[q] : l.last_seen_ms <= time
      BY <1>10, <2>1, <2>2
    <2>4. QED
      BY <2>3 DEF Seen
  <1>18. QED
    BY <1>6, <1>9, <1>15, <1>16, <1>17

\* The tables with one session of theirs used.
Used(held, p, l, used, after) ==
  /\ l \in held[p] /\ used \in RemoteLogin
  /\ used.slot = l.slot /\ used.public_key = l.public_key /\ used.role = l.role
  /\ after = [held EXCEPT ![p] = (held[p] \ {l}) \cup {used}]

\* Use of a session keeps the tables in order.
LEMMA UseKeeps ==
  ASSUME NEW held, Placed(held), NEW roles, Follows(held, roles),
         NEW time \in Nat, Seen(held, time),
         NEW p \in Privileges, NEW l, NEW used, NEW after,
         Used(held, p, l, used, after), used.last_seen_ms = time
  PROVE  Placed(after) /\ Follows(after, roles) /\ Seen(after, time)
  <1>1. \A q \in Privileges : \A m \in held[q] : m \in RemoteLogin
    BY InTables DEF Placed
  <1>2. held = [q \in Privileges |-> held[q]]
    BY InTables DEF Placed
  <1>3. /\ after = [q \in Privileges |-> after[q]]
        /\ \A q \in Privileges :
             after[q] = IF q = p THEN (held[p] \ {l}) \cup {used} ELSE held[q]
    BY <1>2 DEF Used
  <1>4. \A q \in Privileges : \A m \in after[q] :
          \/ q = p /\ m = used
          \/ m \in held[q] /\ (q = p => m # l)
    BY <1>3
  <1>5. after \in Tables
    BY <1>1, <1>3, <1>4, InTables DEF Used
  <1>6. \A q \in Privileges : \A m, n \in after[q] : m.slot = n.slot => m = n
    <2>1. \A q \in Privileges : \A m, n \in held[q] : m.slot = n.slot => m = n
      BY DEF Placed
    <2>2. QED
      BY <1>4, <2>1 DEF Used
  <1>7. \A q, r \in Privileges : \A m \in after[q], n \in after[r] :
          m.public_key = n.public_key => q = r /\ m = n
    <2>1. \A q, r \in Privileges : \A m \in held[q], n \in held[r] :
            m.public_key = n.public_key => q = r /\ m = n
      BY DEF Placed
    <2>2. QED
      BY <1>4, <2>1 DEF Used
  <1>8. Placed(after)
    BY <1>5, <1>6, <1>7 DEF Placed
  <1>9. Follows(after, roles)
    BY <1>4 DEF Follows, Used
  <1>10. Seen(after, time)
    BY <1>4 DEF Seen
  <1>11. QED
    BY <1>8, <1>9, <1>10

\* privilege_for() uses the session it finds.
LEMMA SeeUses ==
  ASSUME NEW held, Placed(held), NEW time \in Nat, NEW key, NEW p, p = PrivilegeFor(held, key),
         p # NoPrivilege
  PROVE  \E l \in held[p] :
           /\ p \in Privileges /\ l \in RemoteLogin
           /\ l.public_key = key
           /\ Used(held, p, l, [l EXCEPT !.last_seen_ms = time], See(held, key, time))
  <1>1. p \in Privileges /\ \E l \in held[p] : l.public_key = key
    BY FindsOne
  <1>2. PICK l \in held[p] : l.public_key = key
    BY <1>1
  <1> DEFINE used == [l EXCEPT !.last_seen_ms = time]
  <1>3. \A m \in held[p] : m \in FindLogin(held[p], key) <=> m = l
    BY <1>1, <1>2, FoundAlone DEF Placed
  <1>4. held = [q \in Privileges |-> held[q]] /\ l \in RemoteLogin
    BY <1>1, <1>2, InTables DEF Placed
  <1>5. used \in RemoteLogin /\ used.slot = l.slot /\ used.public_key = l.public_key /\ used.role = l.role
    BY <1>4 DEF RemoteLogin
  <1>6. {IF m \in FindLogin(held[p], key) THEN [m EXCEPT !.last_seen_ms = time] ELSE m : m \in held[p]}
          = (held[p] \ {l}) \cup {used}
    BY <1>2, <1>3
  <1>7. See(held, key, time) = [q \in Privileges |-> IF q = p THEN (held[p] \ {l}) \cup {used} ELSE held[q]]
    <2>1. See(held, key, time) =
            [q \in Privileges |->
               IF q = p
               THEN {IF m \in FindLogin(held[q], key) THEN [m EXCEPT !.last_seen_ms = time] ELSE m : m \in held[q]}
               ELSE held[q]]
      BY DEF See
    <2>2. \A q \in Privileges : q = p =>
            {IF m \in FindLogin(held[q], key) THEN [m EXCEPT !.last_seen_ms = time] ELSE m : m \in held[q]}
              = (held[p] \ {l}) \cup {used}
      BY <1>6
    <2>3. QED
      BY <2>1, <2>2
  <1>8. See(held, key, time) = [held EXCEPT ![p] = (held[p] \ {l}) \cup {used}]
    BY <1>4, <1>7
  <1>9. QED
    BY <1>1, <1>2, <1>4, <1>5, <1>8 DEF Used

\* Without a session it changes nothing.
LEMMA SeeNothing ==
  ASSUME NEW held, Placed(held), NEW time, NEW key, PrivilegeFor(held, key) = NoPrivilege
  PROVE  See(held, key, time) = held
  <1>1. held = [q \in Privileges |-> held[q]]
    BY InTables DEF Placed
  <1>2. NoPrivilege \notin Privileges
    BY DEF NoPrivilege, Privileges
  <1>3. See(held, key, time) = [q \in Privileges |-> held[q]]
    BY <1>2 DEF See
  <1>4. QED
    BY <1>1, <1>3

\* accept_newer_timestamp() uses the session whose timestamp it moves forward.
LEMMA AcceptUses ==
  ASSUME NEW held, Placed(held), NEW time \in Nat, NEW key, NEW p, p = PrivilegeFor(held, key),
         p # NoPrivilege, NEW timestamp \in Timestamps, IsNewer(held, key, p, timestamp)
  PROVE  \E l \in held[p] :
           /\ p \in Privileges /\ l \in RemoteLogin
           /\ l.public_key = key
           /\ timestamp > l.last_timestamp
           /\ Used(held, p, l, [l EXCEPT !.last_timestamp = timestamp, !.last_seen_ms = time],
                   AcceptNewer(held, key, p, timestamp, time))
  <1>1. p \in Privileges
    BY FindsOne
  <1>2. PICK l \in FindLogin(held[p], key) : timestamp > l.last_timestamp
    BY DEF IsNewer
  <1> DEFINE used == [l EXCEPT !.last_timestamp = timestamp, !.last_seen_ms = time]
  <1>3. l \in held[p] /\ l.public_key = key
    BY <1>1, FoundAlone
  <1>4. \A m \in held[p] : m \in FindLogin(held[p], key) <=> m = l
    BY <1>1, <1>3, FoundAlone DEF Placed
  <1>5. l \in RemoteLogin
    BY <1>1, <1>3, InTables DEF Placed
  <1>6. used \in RemoteLogin /\ used.slot = l.slot /\ used.public_key = l.public_key /\ used.role = l.role
    BY <1>5 DEF RemoteLogin
  <1>7. {IF m \in FindLogin(held[p], key)
         THEN [m EXCEPT !.last_timestamp = timestamp, !.last_seen_ms = time] ELSE m : m \in held[p]}
          = (held[p] \ {l}) \cup {used}
    BY <1>3, <1>4
  <1>8. AcceptNewer(held, key, p, timestamp, time) = [held EXCEPT ![p] = (held[p] \ {l}) \cup {used}]
    BY <1>7 DEF AcceptNewer
  <1>9. QED
    BY <1>1, <1>2, <1>3, <1>5, <1>6, <1>8 DEF Used

------------------------------------------------------------------------------
(* The invariant *)

LEMMA NewAclTypes ==
  ASSUME acl \in [Keys -> Roles]
  PROVE  \A new \in NewAcls : new \in [Keys -> Roles]
  BY SessionsAssumption DEF NewAcls

\* What holds of the tables and the access list between steps.
InOrder(held, roles, time) == Placed(held) /\ Follows(held, roles) /\ Seen(held, time)

LEMMA UpdateKeeps ==
  ASSUME NEW held, InOrder(held, acl, now), acl \in [Keys -> Roles],
         NEW new \in NewAcls, UpdateConfig(held, new)
  PROVE  InOrder(tables', acl', now) /\ acl' \in [Keys -> Roles]
  <1>1. acl' \in [Keys -> Roles]
    BY NewAclTypes DEF UpdateConfig
  <1>2. InOrder(tables', acl', now)
    BY ConfigFollows DEF UpdateConfig, InOrder
  <1>3. QED
    BY <1>1, <1>2

LEMMA RunKeeps ==
  ASSUME NEW held, InOrder(held, acl, now), acl \in [Keys -> Roles],
         NEW key \in Keys, NEW p, RunCommand(key, p, held)
  PROVE  InOrder(tables', acl', now) /\ acl' \in [Keys -> Roles] /\ reply' \in Replies
  <1>1. reply' \in Replies
    BY DEF RunCommand, Replies, Reply
  <1>2. \/ tables' = held /\ acl' = acl
        \/ \E new \in NewAcls : UpdateConfig(held, new)
    BY DEF RunCommand
  <1>3. QED
    BY <1>1, <1>2, UpdateKeeps

LEMMA PruneInOrder ==
  ASSUME SessionsInv
  PROVE  InOrder(Prune(tables, now), acl, now)
  <1>1. now \in Nat
    BY SessionsAssumption DEF SessionsInv
  <1>2. /\ Prune(tables, now) = [p \in Privileges |-> Prune(tables, now)[p]]
        /\ \A p \in Privileges : Prune(tables, now)[p] \subseteq tables[p]
    BY <1>1, PruneFewer DEF SessionsInv
  <1>3. QED
    BY <1>2, FewerPlaced DEF SessionsInv, InOrder

\* The tables as an accepted packet leaves them.
LEMMA AcceptInOrder ==
  ASSUME SessionsInv, NEW key \in Keys, NEW timestamp \in Timestamps,
         NEW found, found = Prune(tables, now), Accepted(found, key, timestamp),
         NEW p, p = PrivilegeFor(found, key)
  PROVE  InOrder(AcceptNewer(found, key, p, timestamp, now), acl, now)
  <1>1. InOrder(found, acl, now) /\ now \in Nat
    BY PruneInOrder, SessionsAssumption DEF SessionsInv
  <1>2. p # NoPrivilege /\ IsNewer(found, key, p, timestamp)
    BY DEF Accepted
  <1> DEFINE after == AcceptNewer(found, key, p, timestamp, now)
  <1> HIDE DEF after
  <1>3. PICK l \in found[p] :
          /\ p \in Privileges /\ l \in RemoteLogin
          /\ Used(found, p, l, [l EXCEPT !.last_timestamp = timestamp, !.last_seen_ms = now], after)
    BY <1>1, <1>2, AcceptUses DEF InOrder, after
  <1>4. [l EXCEPT !.last_timestamp = timestamp, !.last_seen_ms = now].last_seen_ms = now
    BY <1>3 DEF RemoteLogin
  <1>5. InOrder(after, acl, now)
    BY <1>1, <1>3, <1>4, UseKeeps DEF InOrder
  <1>6. QED
    BY <1>5 DEF after

LEMMA SeeInOrder ==
  ASSUME SessionsInv, NEW key \in Keys, NEW found, found = Prune(tables, now)
  PROVE  InOrder(See(found, key, now), acl, now)
  <1>1. InOrder(found, acl, now) /\ now \in Nat
    BY PruneInOrder, SessionsAssumption DEF SessionsInv
  <1> DEFINE p == PrivilegeFor(found, key)
             after == See(found, key, now)
  <1> HIDE DEF p, after
  <1>2. CASE p = NoPrivilege
    BY <1>1, <1>2, SeeNothing DEF InOrder, p
  <1>3. CASE p # NoPrivilege
    <2>1. PICK l \in found[p] :
            /\ p \in Privileges /\ l \in RemoteLogin
            /\ Used(found, p, l, [l EXCEPT !.last_seen_ms = now], after)
      BY <1>1, <1>3, SeeUses DEF InOrder, p, after
    <2>2. [l EXCEPT !.last_seen_ms = now].last_seen_ms = now
      BY <2>1 DEF RemoteLogin
    <2>3. InOrder(after, acl, now)
      BY <1>1, <2>1, <2>2, UseKeeps DEF InOrder
    <2>4. QED
      BY <2>3 DEF after
  <1>4. QED
    BY <1>2, <1>3

\* login_privilege never lets a denied key in, and makes one listed as "admin" an
\* administrator whatever it says.
LEMMA LoginRights ==
  ASSUME NEW body \in Bodies, NEW role \in Roles, NEW p, p = LoginPrivilege(body, role),
         p # NoPrivilege
  PROVE  p \in Privileges /\ role # "deny" /\ (role = "admin" => p = "admin")
  BY DEF LoginPrivilege, Bodies, Roles, Privileges, NoPrivilege

LEMMA LoginInOrder ==
  ASSUME SessionsInv, NEW key \in Keys, NEW timestamp \in Timestamps, NEW body \in Bodies,
         Login(key, timestamp, body)
  PROVE  InOrder(tables', acl, now)
  <1> DEFINE p == LoginPrivilege(body, acl[key])
  <1>1. /\ Placed(tables) /\ Follows(tables, acl) /\ Seen(tables, now)
        /\ acl \in [Keys -> Roles] /\ now \in Nat
    BY SessionsAssumption DEF SessionsInv
  <1>2. p # NoPrivilege /\ tables' = Authenticate(tables, key, p, timestamp, now, acl[key])
    BY DEF Login
  <1>3. p \in Privileges /\ acl[key] # "deny" /\ (acl[key] = "admin" => p = "admin")
    BY <1>1, <1>2, LoginRights
  <1> HIDE DEF p
  <1>4. QED
    BY <1>1, <1>2, <1>3, AuthenticateKeeps DEF InOrder

LEMMA InitInvariant ==
  ASSUME Init
  PROVE  SessionsInv
  <1>1. tables = [p \in Privileges |-> {}] /\ now = 0
    BY DEF Init, EmptyTables
  <1>2. Placed(tables) /\ Follows(tables, acl) /\ Seen(tables, now)
    BY <1>1 DEF Placed, Tables, Follows, Seen
  <1>3. reply \in Replies
    BY DEF Init, Replies
  <1>4. QED
    BY <1>1, <1>2, <1>3, SessionsAssumption DEF Init, SessionsInv

LEMMA InvariantSteps ==
  ASSUME SessionsInv, [Next]_vars
  PROVE  SessionsInv'
  <1> USE DEF InOrder
  <1>1. /\ now \in 0 .. MaxTime /\ now \in Nat /\ acl \in [Keys -> Roles]
        /\ InOrder(tables, acl, now) /\ reply \in Replies
    BY SessionsAssumption DEF SessionsInv
  <1> SUFFICES /\ now' \in 0 .. MaxTime /\ acl' \in [Keys -> Roles]
               /\ InOrder(tables', acl', now') /\ reply' \in Replies
    BY DEF SessionsInv
  <1>silent. Silence \in Replies
    BY DEF Replies
  <1>2. ASSUME NEW key \in Keys, NEW timestamp \in Timestamps, NEW body \in Bodies,
               Login(key, timestamp, body)
        PROVE  /\ now' \in 0 .. MaxTime /\ acl' \in [Keys -> Roles]
               /\ InOrder(tables', acl', now') /\ reply' \in Replies
    <2>1. InOrder(tables', acl, now)
      BY <1>2, LoginInOrder
    <2>2. LoginPrivilege(body, acl[key]) \in {"admin", "guest"}
      BY <1>2 DEF Login, LoginPrivilege
    <2>3. reply' \in Replies
      BY <1>2, <2>2 DEF Login, Reply, Replies
    <2>4. QED
      BY <1>1, <1>2, <2>1, <2>3 DEF Login
  <1>3. ASSUME NEW key \in Keys, Subrequest(key)
        PROVE  /\ now' \in 0 .. MaxTime /\ acl' \in [Keys -> Roles]
               /\ InOrder(tables', acl', now') /\ reply' \in Replies
    BY <1>1, <1>3 DEF Subrequest, Reply, Replies
  <1>4. ASSUME NEW key \in Keys, AnonymousCommand(key)
        PROVE  /\ now' \in 0 .. MaxTime /\ acl' \in [Keys -> Roles]
               /\ InOrder(tables', acl', now') /\ reply' \in Replies
    <2> DEFINE held == Prune(tables, now)
               after == See(held, key, now)
               p == PrivilegeFor(held, key)
    <2>1. InOrder(after, acl, now)
      BY SeeInOrder
    <2>2. RunCommand(key, p, after) /\ now' = now
      BY <1>4 DEF AnonymousCommand
    <2> HIDE DEF after, p
    <2>3. InOrder(tables', acl', now) /\ acl' \in [Keys -> Roles] /\ reply' \in Replies
      BY <1>1, <2>1, <2>2, RunKeeps
    <2>4. QED
      BY <1>1, <2>2, <2>3
  <1>5. CASE IgnoreAnonymous
    BY <1>1, <1>5, <1>silent DEF IgnoreAnonymous
  <1>6. ASSUME NEW key \in Keys, NEW timestamp \in Timestamps, TextMessage(key, timestamp)
        PROVE  /\ now' \in 0 .. MaxTime /\ acl' \in [Keys -> Roles]
               /\ InOrder(tables', acl', now') /\ reply' \in Replies
    <2> DEFINE found == Prune(tables, now)
               p == PrivilegeFor(found, key)
               held == AcceptNewer(found, key, p, timestamp, now)
    <2>1. /\ Accepted(found, key, timestamp) /\ now' = now
          /\ \/ RunCommand(key, p, held)
             \/ reply' = Silence /\ tables' = held /\ acl' = acl
      BY <1>6 DEF TextMessage
    <2>2. InOrder(held, acl, now)
      BY <2>1, AcceptInOrder
    <2> HIDE DEF held, p
    <2>3. InOrder(tables', acl', now) /\ acl' \in [Keys -> Roles] /\ reply' \in Replies
      BY <1>1, <1>silent, <2>1, <2>2, RunKeeps
    <2>4. QED
      BY <1>1, <2>1, <2>3
  <1>7. ASSUME NEW key \in Keys, NEW timestamp \in Timestamps, Request(key, timestamp)
        PROVE  /\ now' \in 0 .. MaxTime /\ acl' \in [Keys -> Roles]
               /\ InOrder(tables', acl', now') /\ reply' \in Replies
    <2>1. InOrder(tables', acl, now)
      BY <1>7, AcceptInOrder DEF Request
    <2>2. reply' \in Replies
      BY <1>7, <1>silent DEF Request, Reply, Replies
    <2>3. QED
      BY <1>1, <1>7, <2>1, <2>2 DEF Request
  <1>8. CASE IgnoreDirect
    BY <1>1, <1>8, <1>silent, PruneInOrder DEF IgnoreDirect
  <1>9. CASE LocalCommand
    BY <1>1, <1>9, <1>silent, UpdateKeeps DEF LocalCommand
  <1>10. CASE Tick
    <2>1. /\ now' = now + 1 /\ now' \in 0 .. MaxTime /\ tables' = tables /\ acl' = acl
          /\ reply' = Silence
      BY <1>1, <1>10, SessionsAssumption DEF Tick
    <2>2. \A p \in Privileges : \A l \in tables[p] : l.last_seen_ms \in Nat
      BY <1>1, InTables DEF Placed, RemoteLogin
    <2>3. Seen(tables, now + 1)
      BY <1>1, <2>2 DEF Seen
    <2>4. QED
      BY <1>1, <1>silent, <2>1, <2>3
  <1>11. CASE UNCHANGED vars
    BY <1>1, <1>11 DEF vars
  <1>12. QED
    BY <1>2, <1>3, <1>4, <1>5, <1>6, <1>7, <1>8, <1>9, <1>10, <1>11 DEF Next

\* SessionsInv is an invariant of the remote sessions.
THEOREM SessionsInvariant == Spec => []SessionsInv
  BY InitInvariant, InvariantSteps, PTL DEF Spec

\* Every variable keeps its type: no session is put into a place its table does
\* not have, however full it is.
THEOREM SessionTypes == Spec => []TypeOK
  <1>1. SessionsInv => TypeOK
    BY DEF SessionsInv, TypeOK, Placed
  <1>2. QED
    BY <1>1, SessionsInvariant, PTL

\* A key never has two sessions, whatever it logs in as.
THEOREM OneSession == Spec => []OneSessionPerKey
  <1>1. SessionsInv => OneSessionPerKey
    BY DEF SessionsInv, OneSessionPerKey, Placed
  <1>2. QED
    BY <1>1, SessionsInvariant, PTL

\* No session outlives a change of its key's role.
THEOREM AclIsFollowed == Spec => []SessionsFollowAcl
  <1>1. SessionsInv => SessionsFollowAcl
    BY DEF SessionsInv, SessionsFollowAcl, Follows
  <1>2. QED
    BY <1>1, SessionsInvariant, PTL

------------------------------------------------------------------------------
(* The promise *)

LEMMA LiveMember ==
  ASSUME NEW held, NEW time, NEW s
  PROVE  s \in Live(held, time) <=>
           \E p \in Privileges : \E l \in held[p] : Alive(l, time) /\ s = SessionOf(p, l)
  BY DEF Live, Alive

LEMMA SessionFields ==
  ASSUME NEW p, NEW l
  PROVE  /\ SessionOf(p, l).public_key = l.public_key
         /\ SessionOf(p, l).privilege = p
         /\ SessionOf(p, l).last_seen_ms = l.last_seen_ms
         /\ SessionOf(p, l).last_timestamp = l.last_timestamp
         /\ SessionOf(p, l).role = l.role
  BY DEF SessionOf

\* Pruning ends no live session.
LEMMA LivePruned ==
  ASSUME NEW held, Placed(held), NEW time \in Nat
  PROVE  /\ Live(Prune(held, time), time) = Live(held, time)
         /\ \A p \in Privileges : \A l \in Prune(held, time)[p] : Alive(l, time)
  <1>1. \A p \in Privileges : Prune(held, time)[p] = {l \in held[p] : Alive(l, time)}
    BY PruneFewer
  <1>2. \A s : s \in Live(Prune(held, time), time) <=> s \in Live(held, time)
    BY <1>1, LiveMember
  <1>3. QED
    BY <1>1, <1>2

\* A change of the access list ends the sessions of the keys it changes.
LEMMA LiveConfigured ==
  ASSUME NEW held, Placed(held), NEW roles, Follows(held, roles), NEW new, NEW time,
         Seen(held, time), NEW left, left = RemoveLogins(held, ChangedKeys(roles, new))
  PROVE  Live(left, time) =
           {s \in Live(held, time) : new[s.public_key] = roles[s.public_key]}
  <1>1. \A p \in Privileges :
          left[p] = {l \in held[p] : roles[l.public_key] = new[l.public_key]}
    BY ConfigFollows
  <1>2. \A s : s \in Live(left, time) <=>
                 s \in Live(held, time) /\ new[s.public_key] = roles[s.public_key]
    <2> TAKE s
    <2>1. s \in Live(left, time) <=>
            \E p \in Privileges : \E l \in held[p] :
              roles[l.public_key] = new[l.public_key] /\ Alive(l, time) /\ s = SessionOf(p, l)
      BY <1>1, LiveMember
    <2>2. \A p, l : s = SessionOf(p, l) => s.public_key = l.public_key
      BY SessionFields
    <2>3. s \in Live(held, time) <=>
            \E p \in Privileges : \E l \in held[p] : Alive(l, time) /\ s = SessionOf(p, l)
      BY LiveMember
    <2>4. QED
      BY <2>1, <2>2, <2>3
  <1>3. QED
    BY <1>2

\* Use of a session replaces it by itself as used.
LEMMA LiveUsed ==
  ASSUME NEW held, Placed(held), NEW time \in Nat, NEW p \in Privileges, NEW l, NEW used,
         NEW after, Used(held, p, l, used, after), Alive(l, time), used.last_seen_ms = time
  PROVE  /\ SessionOf(p, l) \in Live(held, time)
         /\ Live(after, time) = (Live(held, time) \ {SessionOf(p, l)}) \cup {SessionOf(p, used)}
  <1>1. held = [q \in Privileges |-> held[q]]
    BY InTables DEF Placed
  <1>2. \A q \in Privileges :
          after[q] = IF q = p THEN (held[p] \ {l}) \cup {used} ELSE held[q]
    BY <1>1 DEF Used
  <1>3. Alive(used, time) /\ l \in held[p]
    <2>1. REMOTE_LOGIN_TTL_MS \in Nat
      BY LoginAssumption
    <2>2. QED
      BY <2>1 DEF Alive, Used
  <1>4. SessionOf(p, l) \in Live(held, time)
    BY <1>3, LiveMember
  <1>5. \A q \in Privileges : \A m \in held[q] :
          SessionOf(q, m) = SessionOf(p, l) => q = p /\ m = l
    BY <1>3, SessionFields DEF Placed
  <1>6. ASSUME NEW s, s \in Live(after, time)
        PROVE  s \in (Live(held, time) \ {SessionOf(p, l)}) \cup {SessionOf(p, used)}
    <2>1. PICK q \in Privileges : \E m \in after[q] : Alive(m, time) /\ s = SessionOf(q, m)
      BY <1>6, LiveMember
    <2>2. PICK m \in after[q] : Alive(m, time) /\ s = SessionOf(q, m)
      BY <2>1
    <2>3. \/ q = p /\ m = used
          \/ m \in held[q] /\ ~ (q = p /\ m = l)
      BY <1>2, <2>2
    <2>4. m \in held[q] => s \in Live(held, time)
      BY <2>2, LiveMember
    <2>5. QED
      BY <1>5, <2>2, <2>3, <2>4
  <1>7. ASSUME NEW s, s \in Live(held, time), s # SessionOf(p, l)
        PROVE  s \in Live(after, time)
    <2>1. PICK q \in Privileges : \E m \in held[q] : Alive(m, time) /\ s = SessionOf(q, m)
      BY <1>7, LiveMember
    <2>2. PICK m \in held[q] : Alive(m, time) /\ s = SessionOf(q, m)
      BY <2>1
    <2>3. m \in after[q]
      BY <1>2, <1>7, <2>2
    <2>4. QED
      BY <2>2, <2>3, LiveMember
  <1>8. SessionOf(p, used) \in Live(after, time)
    <2>1. used \in after[p]
      BY <1>2
    <2>2. QED
      BY <1>3, <2>1, LiveMember
  <1>9. QED
    BY <1>4, <1>6, <1>7, <1>8

\* A table has an empty place exactly when it holds fewer sessions than places.
LEMMA PlacesTaken ==
  ASSUME NEW held, Placed(held), NEW p \in Privileges,
         NEW sessions, sessions = {SessionOf(p, l) : l \in held[p]}
  PROVE  EmptySlots(held[p]) # {} <=> Cardinality(sessions) < MAX_REMOTE_LOGINS
  <1> DEFINE logins == held[p]
             taken  == {l.slot : l \in logins}
             by     == [slot \in taken |-> CHOOSE l \in logins : l.slot = slot]
             f      == [slot \in taken |-> SessionOf(p, by[slot])]
  <1>1. \A l \in logins : l \in RemoteLogin
    BY InTables DEF Placed
  <1>2. \A l, m \in logins : /\ l.slot = m.slot => l = m
                             /\ l.public_key = m.public_key => l = m
    BY DEF Placed
  <1>3. \A slot \in taken : by[slot] \in logins /\ by[slot].slot = slot
    OBVIOUS
  <1>4. \A l \in logins : by[l.slot] = l
    BY <1>2, <1>3
  <1> HIDE DEF by, taken
  <1>5. \A slot \in taken : f[slot] = SessionOf(p, by[slot]) /\ f[slot] \in sessions
    BY <1>3
  <1>6. f \in [taken -> sessions]
    BY <1>5
  <1>7. \A a, b \in taken : f[a] = f[b] => a = b
    <2>1. SUFFICES ASSUME NEW a \in taken, NEW b \in taken, f[a] = f[b]
                   PROVE  a = b
      OBVIOUS
    <2>2. SessionOf(p, by[a]) = SessionOf(p, by[b])
      BY <1>5, <2>1
    <2>3. by[a].public_key = by[b].public_key
      BY <2>2, SessionFields
    <2>4. by[a] = by[b]
      BY <1>2, <1>3, <2>3
    <2>5. QED
      BY <1>3, <2>4
  <1>8. \A s \in sessions : \E slot \in taken : f[slot] = s
    <2>1. SUFFICES ASSUME NEW s \in sessions
                   PROVE  \E slot \in taken : f[slot] = s
      OBVIOUS
    <2>2. PICK l \in logins : s = SessionOf(p, l)
      OBVIOUS
    <2>3. l.slot \in taken
      BY DEF taken
    <2>4. f[l.slot] = s
      BY <1>4, <1>5, <2>2, <2>3
    <2>5. QED
      BY <2>3, <2>4
  <1>9. ExistsBijection(taken, sessions)
    <2> HIDE DEF f
    <2>1. f \in Bijection(taken, sessions)
      BY <1>6, <1>7, <1>8 DEF Bijection, Injection, Surjection, IsInjective
    <2>2. QED
      BY <2>1 DEF ExistsBijection
  <1>10. MAX_REMOTE_LOGINS \in Nat /\ MAX_REMOTE_LOGINS >= 1
    BY LoginAssumption
  <1>11. IsFiniteSet(Slots) /\ Cardinality(Slots) = MAX_REMOTE_LOGINS
    <2>1. /\ IsFiniteSet(1 .. MAX_REMOTE_LOGINS)
          /\ Cardinality(1 .. MAX_REMOTE_LOGINS) =
               IF 1 > MAX_REMOTE_LOGINS THEN 0 ELSE MAX_REMOTE_LOGINS - 1 + 1
      BY <1>10, FS_Interval
    <2>2. QED
      BY <1>10, <2>1 DEF Slots
  <1>12. taken \in SUBSET Slots
    BY <1>1 DEF taken, RemoteLogin
  <1>13. /\ IsFiniteSet(taken)
         /\ Cardinality(taken) <= Cardinality(Slots)
         /\ Cardinality(Slots) = Cardinality(taken) => Slots = taken
    BY <1>11, <1>12, FS_Subset
  <1>14. Cardinality(sessions) = Cardinality(taken)
    BY <1>9, <1>13, FS_Bijection
  <1>15. Cardinality(taken) \in Nat
    BY <1>13, FS_CardinalityType
  <1>16. EmptySlots(logins) # {} <=> taken # Slots
    BY <1>12 DEF EmptySlots, taken
  <1>17. taken # Slots <=> Cardinality(taken) < MAX_REMOTE_LOGINS
    BY <1>10, <1>11, <1>13, <1>15
  <1>18. QED
    BY <1>14, <1>16, <1>17

\* The instance's cardinality is the cardinality.
LEMMA SameCardinality ==
  ASSUME NEW S
  PROVE  Promise!Cardinality(S) = Cardinality(S)
  BY DEF Promise!Cardinality, Cardinality

LEMMA DisplacesNone ==
  ASSUME NEW others, Cardinality(others) < MAX_REMOTE_LOGINS
  PROVE  {} \in Promise!Displaced(others)
  BY SameCardinality DEF Promise!Displaced

LEMMA DisplacesOldest ==
  ASSUME NEW others, ~ (Cardinality(others) < MAX_REMOTE_LOGINS), NEW s \in others,
         \A m \in others : s.last_seen_ms <= m.last_seen_ms
  PROVE  {s} \in Promise!Displaced(others)
  BY SameCardinality DEF Promise!Displaced

\* A login turns the live sessions "before" into "after".
LivesOn(before, after, new) ==
  \E displaced \in Promise!Displaced({s \in before : /\ s.privilege = new.privilege
                                                   /\ s.public_key # new.public_key}) :
    after = {s \in before \ displaced : s.public_key # new.public_key} \cup {new}

\* A login ends the key's own session and, when its table is full of live ones,
\* one that was unused for longest.
LEMMA LiveAuthenticated ==
  ASSUME NEW held, Placed(held), NEW roles \in [Keys -> Roles], Follows(held, roles),
         NEW time \in Nat, Seen(held, time),
         NEW key \in Keys, NEW p \in Privileges, NEW timestamp \in Timestamps,
         roles[key] # "deny", roles[key] = "admin" => p = "admin",
         NEW after, after = Authenticate(held, key, p, timestamp, time, roles[key])
  PROVE  LivesOn(Live(held, time), Live(after, time),
                 [public_key |-> key, privilege |-> p, last_seen_ms |-> time,
                  last_timestamp |-> timestamp, role |-> roles[key]])
  <1> DEFINE sessions == Live(held, time)
             others == {s \in sessions : s.privilege = p /\ s.public_key # key}
             kept  == RemoveLogins(Prune(held, time), {key})
             login == NewLogin(SlotFor(kept[p]), key, timestamp, time, roles[key])
             new   == SessionOf(p, login)
             displaced == {SessionOf(p, l) : l \in {m \in kept[p] : m.slot = login.slot}}
  <1>1. \A q \in Privileges : after[q] = IF q = p THEN Put(kept[p], login) ELSE kept[q]
    BY AuthenticateKeeps
  <1>2. /\ Placed(kept)
        /\ \A q \in Privileges : kept[q] = {l \in held[q] : Alive(l, time) /\ l.public_key # key}
    <2> DEFINE pruned == Prune(held, time)
    <2>1. /\ Placed(pruned)
          /\ \A q \in Privileges : pruned[q] = {l \in held[q] : Alive(l, time)}
      BY PruneFewer
    <2> HIDE DEF pruned
    <2>2. /\ Placed(RemoveLogins(pruned, {key}))
          /\ \A q \in Privileges :
               RemoveLogins(pruned, {key})[q] = {l \in pruned[q] : l.public_key \notin {key}}
      BY <2>1, RemovedKeys
    <2>3. QED
      BY <2>1, <2>2 DEF pruned
  <1>3. /\ login.slot = SlotFor(kept[p]) /\ login.public_key = key
        /\ login.last_seen_ms = time
        /\ new = [public_key |-> key, privilege |-> p, last_seen_ms |-> time,
                  last_timestamp |-> timestamp, role |-> roles[key]]
    BY DEF NewLogin, SessionOf
  <1> HIDE DEF kept, login, new
  <1>4. \A q \in Privileges : \A l \in kept[q] : l \in RemoteLogin
    BY <1>2, InTables DEF Placed
  <1>5. others = {SessionOf(p, l) : l \in kept[p]}
    <2>1. \A s : s \in others <=> \E l \in kept[p] : s = SessionOf(p, l)
      <3> TAKE s
      <3>1. s \in others <=>
              /\ \E q \in Privileges : \E l \in held[q] : Alive(l, time) /\ s = SessionOf(q, l)
              /\ s.privilege = p /\ s.public_key # key
        BY LiveMember
      <3>2. \A q, l : s = SessionOf(q, l) => s.privilege = q /\ s.public_key = l.public_key
        BY SessionFields
      <3>3. QED
        BY <1>2, <3>1, <3>2
    <2>2. QED
      BY <2>1
  <1>6. displaced \in Promise!Displaced(others)
    <2>1. EmptySlots(kept[p]) # {} <=> Cardinality(others) < MAX_REMOTE_LOGINS
      BY <1>2, <1>5, PlacesTaken
    <2>2. \/ \A l \in kept[p] : l.slot # login.slot
          \/ /\ EmptySlots(kept[p]) = {}
             /\ \E l \in LeastRecent(kept[p]) : l.slot = login.slot
      BY <1>3, <1>4, PlaceFound
    <2>3. CASE EmptySlots(kept[p]) # {}
      <3>1. displaced = {}
        BY <2>2, <2>3
      <3>2. QED
        BY <2>1, <2>3, <3>1, DisplacesNone
    <2>4. CASE EmptySlots(kept[p]) = {}
      <3>1. login.slot \in Slots
        BY <1>3, <1>4, PlaceFound
      <3>2. PICK l \in LeastRecent(kept[p]) : l.slot = login.slot
        BY <2>2, <2>4, <3>1 DEF EmptySlots
      <3>3. l \in kept[p] /\ \A m \in kept[p] : l.last_seen_ms <= m.last_seen_ms
        BY <3>2 DEF LeastRecent
      <3>4. \A m \in kept[p] : m.slot = login.slot <=> m = l
        BY <1>2, <3>2, <3>3 DEF Placed
      <3>5. displaced = {SessionOf(p, l)}
        BY <3>3, <3>4
      <3>6. SessionOf(p, l) \in others
        BY <1>5, <3>3
      <3>7. \A m \in others : SessionOf(p, l).last_seen_ms <= m.last_seen_ms
        BY <1>5, <3>3, SessionFields
      <3>8. ~ (Cardinality(others) < MAX_REMOTE_LOGINS)
        BY <2>1, <2>4
      <3>9. {SessionOf(p, l)} \in Promise!Displaced(others)
        BY <3>6, <3>7, <3>8, DisplacesOldest
      <3>10. QED
        BY <3>5, <3>9
    <2>5. QED
      BY <2>3, <2>4
  <1>7. Alive(login, time)
    BY <1>3, LoginAssumption DEF Alive
  <1>8. ASSUME NEW s, s \in Live(after, time), s # new
        PROVE  s \in {r \in sessions \ displaced : r.public_key # key}
    <2>1. PICK q \in Privileges : \E m \in after[q] : Alive(m, time) /\ s = SessionOf(q, m)
      BY <1>8, LiveMember
    <2>2. PICK m \in after[q] : Alive(m, time) /\ s = SessionOf(q, m)
      BY <2>1
    <2>3. m \in kept[q] /\ (q = p => m.slot # login.slot)
      <3>1. q = p => m # login
        BY <1>8, <2>2 DEF new
      <3>2. QED
        BY <1>1, <2>2, <3>1 DEF Put
    <2>4. m \in held[q] /\ m.public_key # key
      BY <1>2, <2>3
    <2>5. s \in sessions /\ s.public_key # key
      BY <2>2, <2>4, LiveMember, SessionFields
    <2>6. s \notin displaced
      <3>1. ASSUME NEW l \in kept[p], l.slot = login.slot, s = SessionOf(p, l)
            PROVE  FALSE
        <4>1. q = p /\ l.public_key = m.public_key
          <5>1. s.privilege = q /\ s.public_key = m.public_key
            BY <2>2, SessionFields
          <5>2. s.privilege = p /\ s.public_key = l.public_key
            BY <3>1, SessionFields
          <5>3. QED
            BY <5>1, <5>2
        <4>2. l = m
          <5>1. m \in kept[p]
            BY <2>3, <4>1
          <5>2. \A a, b \in kept[p] : a.public_key = b.public_key => a = b
            BY <1>2 DEF Placed
          <5>3. QED
            BY <3>1, <4>1, <5>1, <5>2
        <4>3. QED
          BY <2>3, <3>1, <4>1, <4>2
      <3>2. QED
        BY <3>1
    <2>7. QED
      BY <2>5, <2>6
  <1>9. ASSUME NEW s \in sessions, s \notin displaced, s.public_key # key
        PROVE  s \in Live(after, time)
    <2>1. PICK q \in Privileges : \E m \in held[q] : Alive(m, time) /\ s = SessionOf(q, m)
      BY LiveMember
    <2>2. PICK m \in held[q] : Alive(m, time) /\ s = SessionOf(q, m)
      BY <2>1
    <2>3. m \in kept[q]
      BY <1>2, <1>9, <2>2, SessionFields
    <2>4. q = p => m.slot # login.slot
      <3>1. ASSUME q = p, m.slot = login.slot
            PROVE  s \in displaced
        BY <2>2, <2>3, <3>1
      <3>2. QED
        BY <1>9, <3>1
    <2>5. m \in after[q]
      BY <1>1, <2>3, <2>4 DEF Put
    <2>6. QED
      BY <2>2, <2>5, LiveMember
  <1>10. new \in Live(after, time)
    <2>1. login \in after[p]
      BY <1>1 DEF Put
    <2>2. QED
      BY <1>7, <2>1, LiveMember DEF new
  <1>11. Live(after, time) = {s \in sessions \ displaced : s.public_key # key} \cup {new}
    BY <1>8, <1>9, <1>10
  <1>12. new.privilege = p /\ new.public_key = key
    BY <1>3
  <1> HIDE DEF displaced
  <1>13. LivesOn(sessions, Live(after, time), new)
    BY <1>6, <1>11, <1>12 DEF LivesOn
  <1>14. QED
    BY <1>3, <1>13
\* A command run in a session does no more than the session's privilege allows.
LEMMA RunCarries ==
  ASSUME NEW held, InOrder(held, acl, now), acl \in [Keys -> Roles], now' = now,
         NEW session, RunCommand(session.public_key, session.privilege, held)
  PROVE  Promise!Carry(session, Live(held, now))
  <1>1. LiveSessions' = Live(tables', now)
    BY DEF LiveSessions
  <1>2. CASE /\ tables' = held /\ acl' = acl
             /\ \/ reply' = Reply(session.public_key, "answered")
                \/ /\ session.privilege # "admin"
                   /\ reply' = Reply(session.public_key, "denied")
    BY <1>1, <1>2 DEF Promise!Carry, Promise!Reply, Reply
  <1>3. ASSUME session.privilege = "admin", reply' = Reply(session.public_key, "done"),
               NEW new \in NewAcls, UpdateConfig(held, new)
        PROVE  Promise!Carry(session, Live(held, now))
    <2>1. acl' = new /\ tables' = RemoveLogins(held, ChangedKeys(acl, new))
      BY <1>3 DEF UpdateConfig
    <2>2. acl' \in [Keys -> Roles]
      BY <2>1, NewAclTypes
    <2>3. Live(tables', now) = {s \in Live(held, now) : new[s.public_key] = acl[s.public_key]}
      BY <2>1, LiveConfigured DEF InOrder
    <2>4. LiveSessions' = Promise!StillGranted(Live(held, now))
      BY <1>1, <2>1, <2>3 DEF Promise!StillGranted
    <2>5. QED
      BY <1>3, <2>2, <2>4 DEF Promise!Carry, Promise!Reply, Reply
  <1>4. QED
    BY <1>2, <1>3 DEF RunCommand

\* A command run in none tells its sender what anyone may know.
LEMMA RunStrange ==
  ASSUME NEW held, Live(held, now) = LiveSessions, now' = now,
         NEW key \in Keys, acl[key] # "deny", RunCommand(key, NoPrivilege, held)
  PROVE  Promise!Stranger
  <1>1. /\ tables' = held /\ acl' = acl
        /\ reply' = Reply(key, "answered") \/ reply' = Reply(key, "denied")
    BY DEF RunCommand, NoPrivilege
  <1>2. LiveSessions' = LiveSessions
    <2>1. LiveSessions' = Live(tables', now)
      BY DEF LiveSessions
    <2>2. QED
      BY <1>1, <2>1
  <1>3. QED
    BY <1>1, <1>2 DEF Promise!Stranger, Promise!Reply, Reply

\* A login is a login of the promise.
LEMMA LoginPromised ==
  ASSUME SessionsInv, NEW key \in Keys, NEW timestamp \in Timestamps, NEW body \in Bodies,
         Login(key, timestamp, body)
  PROVE  Promise!Login
  <1> DEFINE p == LoginPrivilege(body, acl[key])
             new == [public_key |-> key, privilege |-> p, last_seen_ms |-> now,
                     last_timestamp |-> timestamp, role |-> acl[key]]
  <1>1. /\ Placed(tables) /\ Follows(tables, acl) /\ Seen(tables, now)
        /\ acl \in [Keys -> Roles] /\ now \in Nat
    BY SessionsAssumption DEF SessionsInv
  <1>2. /\ p # NoPrivilege
        /\ tables' = Authenticate(tables, key, p, timestamp, now, acl[key])
        /\ reply' = Reply(key, p) /\ now' = now /\ acl' = acl
    BY DEF Login
  <1>3. p \in Privileges /\ acl[key] # "deny" /\ (acl[key] = "admin" => p = "admin")
    BY <1>1, <1>2, LoginRights
  <1> HIDE DEF p
  <1>4. LivesOn(Live(tables, now), Live(tables', now), new)
    BY <1>1, <1>2, <1>3, LiveAuthenticated
  <1>5. LiveSessions' = Live(tables', now) /\ LiveSessions = Live(tables, now)
    BY <1>2 DEF LiveSessions
  <1>6. new.privilege = p /\ new.public_key = key
    OBVIOUS
  <1> DEFINE others == {s \in LiveSessions : s.privilege = p /\ s.public_key # key}
  <1>7. PICK displaced \in Promise!Displaced(others) :
          LiveSessions' = {s \in LiveSessions \ displaced : s.public_key # key} \cup {new}
    <2> HIDE DEF new
    <2>1. QED
      BY <1>4, <1>5, <1>6 DEF LivesOn
  <1> HIDE DEF others
  <1>8. QED
    BY <1>2, <1>3, <1>7 DEF Promise!Login, Promise!Reply, Reply, others

\* An anonymous command is one of the sender's session, or a stranger's.
LEMMA CommandPromised ==
  ASSUME SessionsInv, NEW key \in Keys, AnonymousCommand(key)
  PROVE  Promise!Command \/ Promise!Stranger
  <1> DEFINE found == Prune(tables, now)
             p     == PrivilegeFor(found, key)
             held  == See(found, key, now)
  <1>1. /\ acl[key] # "deny" /\ now' = now
        /\ RunCommand(key, p, held)
    BY DEF AnonymousCommand
  <1>2. /\ Placed(tables) /\ acl \in [Keys -> Roles] /\ now \in Nat
    BY SessionsAssumption DEF SessionsInv
  <1>3. /\ Placed(found) /\ InOrder(held, acl, now)
        /\ Live(found, now) = LiveSessions
        /\ \A q \in Privileges : \A l \in found[q] : Alive(l, now)
    BY <1>2, PruneFewer, SeeInOrder, LivePruned DEF LiveSessions
  <1> HIDE DEF found
  <1>4. CASE p = NoPrivilege
    <2>1. held = found
      BY <1>3, <1>4, SeeNothing
    <2> HIDE DEF p, held
    <2>2. QED
      BY <1>1, <1>3, <1>4, <2>1, RunStrange
  <1>5. CASE p # NoPrivilege
    <2>1. PICK l \in found[p] :
            /\ p \in Privileges /\ l \in RemoteLogin
            /\ l.public_key = key
            /\ Used(found, p, l, [l EXCEPT !.last_seen_ms = now], held)
      BY <1>2, <1>3, <1>5, SeeUses
    <2> DEFINE used == [l EXCEPT !.last_seen_ms = now]
               s == SessionOf(p, l)
    <2> HIDE DEF p, held
    <2>2. used.last_seen_ms = now /\ used.public_key = key
      BY <2>1 DEF RemoteLogin
    <2>3. SessionOf(p, used) = [s EXCEPT !.last_seen_ms = now]
      BY <2>1 DEF SessionOf, RemoteLogin
    <2>4. Alive(l, now)
      BY <1>3, <2>1
    <2> HIDE DEF used
    <2>5. /\ s \in LiveSessions
          /\ Live(held, now) = (LiveSessions \ {s}) \cup {SessionOf(p, used)}
      <3> HIDE DEF s
      <3>1. Used(found, p, l, used, held)
        BY <2>1 DEF used
      <3>2. /\ SessionOf(p, l) \in Live(found, now)
            /\ Live(held, now) = (Live(found, now) \ {SessionOf(p, l)}) \cup {SessionOf(p, used)}
        BY <1>2, <1>3, <2>1, <2>2, <2>4, <3>1, LiveUsed
      <3>3. QED
        BY <1>3, <3>2 DEF s
    <2>6. SessionOf(p, used).public_key = key /\ SessionOf(p, used).privilege = p
      BY <2>2, SessionFields
    <2> HIDE DEF s
    <2>7. Promise!Carry(SessionOf(p, used), Live(held, now))
      BY <1>1, <1>2, <1>3, <2>6, RunCarries
    <2>8. QED
      BY <1>1, <2>3, <2>5, <2>7 DEF Promise!Command, Promise!Used
  <1>6. QED
    BY <1>4, <1>5
\* A session's packet with a newer timestamp is a message of the promise, if what
\* it is answered and changes is what the session's privilege allows.
LEMMA MessagePromised ==
  ASSUME SessionsInv, NEW key \in Keys, NEW timestamp \in Timestamps, now' = now,
         NEW found, found = Prune(tables, now), Accepted(found, key, timestamp),
         NEW p, p = PrivilegeFor(found, key),
         NEW held, held = AcceptNewer(found, key, p, timestamp, now),
         \/ RunCommand(key, p, held)
         \/ /\ reply' = Silence \/ reply' = Reply(key, "answered")
            /\ tables' = held /\ acl' = acl
  PROVE  Promise!Message
  <1>1. /\ Placed(tables) /\ acl \in [Keys -> Roles] /\ now \in Nat
    BY SessionsAssumption DEF SessionsInv
  <1>2. /\ Placed(found)
        /\ Live(found, now) = LiveSessions
        /\ \A q \in Privileges : \A l \in found[q] : Alive(l, now)
    BY <1>1, PruneFewer, LivePruned DEF LiveSessions
  <1>3. InOrder(held, acl, now)
    BY AcceptInOrder
  <1>4. PICK l \in found[p] :
          /\ p \in Privileges /\ l \in RemoteLogin
          /\ l.public_key = key
          /\ timestamp > l.last_timestamp
          /\ Used(found, p, l, [l EXCEPT !.last_timestamp = timestamp, !.last_seen_ms = now], held)
    BY <1>1, <1>2, AcceptUses DEF Accepted
  <1> DEFINE used == [l EXCEPT !.last_timestamp = timestamp, !.last_seen_ms = now]
             s == SessionOf(p, l)
  <1>5. used.last_seen_ms = now /\ used.public_key = key
    BY <1>4 DEF RemoteLogin
  <1>6. SessionOf(p, used) = [Promise!Used(s) EXCEPT !.last_timestamp = timestamp]
    <2>1. /\ used.public_key = l.public_key /\ used.role = l.role
          /\ used.last_seen_ms = now /\ used.last_timestamp = timestamp
      BY <1>4 DEF RemoteLogin
    <2> HIDE DEF used
    <2>2. SessionOf(p, used) =
            [public_key |-> l.public_key, privilege |-> p, last_seen_ms |-> now,
             last_timestamp |-> timestamp, role |-> l.role]
      BY <2>1 DEF SessionOf
    <2>3. Promise!Used(s) =
            [public_key |-> l.public_key, privilege |-> p, last_seen_ms |-> now,
             last_timestamp |-> l.last_timestamp, role |-> l.role]
      BY DEF SessionOf, Promise!Used
    <2> HIDE DEF s
    <2>4. QED
      BY <2>2, <2>3
  <1>7. timestamp > s.last_timestamp
    BY <1>4, SessionFields
  <1>8. Alive(l, now)
    BY <1>2, <1>4
  <1> HIDE DEF used, s
  <1>9. /\ s \in LiveSessions
        /\ Live(held, now) = (LiveSessions \ {s}) \cup {SessionOf(p, used)}
    <2>1. Used(found, p, l, used, held)
      BY <1>4 DEF used
    <2>2. /\ SessionOf(p, l) \in Live(found, now)
          /\ Live(held, now) = (Live(found, now) \ {SessionOf(p, l)}) \cup {SessionOf(p, used)}
      BY <1>1, <1>2, <1>4, <1>5, <1>8, <2>1, LiveUsed
    <2>3. QED
      BY <1>2, <2>2 DEF s
  <1>10. SessionOf(p, used).public_key = key /\ SessionOf(p, used).privilege = p
    BY <1>5, SessionFields
  <1> DEFINE session == SessionOf(p, used)
  <1> HIDE DEF session
  <1>11. Promise!Carry(session, Live(held, now))
    <2>1. session.public_key = key /\ session.privilege = p
      BY <1>10 DEF session
    <2>2. CASE RunCommand(key, p, held)
      BY <1>1, <1>3, <2>1, <2>2, RunCarries
    <2>3. CASE /\ reply' = Silence \/ reply' = Reply(key, "answered")
               /\ tables' = held /\ acl' = acl
      <3>1. LiveSessions' = Live(tables', now')
        BY DEF LiveSessions
      <3>2. reply'.text = "none" \/ reply' = Promise!Reply(session.public_key, "answered")
        BY <2>1, <2>3 DEF Silence, Reply, Promise!Reply
      <3>3. LiveSessions' = Live(held, now)
        BY <2>3, <3>1
      <3>4. QED
        BY <2>3, <3>2, <3>3 DEF Promise!Carry
    <2>4. QED
      BY <2>2, <2>3
  <1>12. QED
    BY <1>6, <1>7, <1>9, <1>11 DEF Promise!Message, session

\* Time ends the sessions that expire.
LEMMA TickPromised ==
  ASSUME SessionsInv, Tick
  PROVE  Promise!Tick
  <1>1. /\ now \in Nat /\ now' = now + 1 /\ tables' = tables /\ acl' = acl
        /\ reply' = Silence
    BY SessionsAssumption DEF SessionsInv, Tick
  <1>2. LiveSessions' = Live(tables, now') /\ LiveSessions = Live(tables, now)
    BY <1>1 DEF LiveSessions
  <1>3. \A p \in Privileges : \A l \in tables[p] :
          /\ l.last_seen_ms \in Nat /\ REMOTE_LOGIN_TTL_MS \in Nat
          /\ Alive(l, now') => Alive(l, now)
          /\ Alive(l, now') <=> now' - l.last_seen_ms <= REMOTE_LOGIN_TTL_MS
    <2>1. \A p \in Privileges : \A l \in tables[p] : l.last_seen_ms \in Nat
      BY InTables DEF SessionsInv, Placed, RemoteLogin
    <2>2. REMOTE_LOGIN_TTL_MS \in Nat
      BY LoginAssumption
    <2>3. QED
      BY <1>1, <2>1, <2>2 DEF Alive
  <1>4. \A s : s \in LiveSessions' <=>
                 s \in LiveSessions /\ now' - s.last_seen_ms <= REMOTE_LOGIN_TTL_MS
    <2> TAKE s
    <2>1. \A p, l : s = SessionOf(p, l) => s.last_seen_ms = l.last_seen_ms
      BY SessionFields
    <2>2. s \in LiveSessions' <=>
            \E p \in Privileges : \E l \in tables[p] : Alive(l, now') /\ s = SessionOf(p, l)
      BY <1>2, LiveMember
    <2>3. s \in LiveSessions <=>
            \E p \in Privileges : \E l \in tables[p] : Alive(l, now) /\ s = SessionOf(p, l)
      BY <1>2, LiveMember
    <2>4. QED
      BY <1>3, <2>1, <2>2, <2>3
  <1>5. LiveSessions' = {s \in LiveSessions : now' - s.last_seen_ms <= REMOTE_LOGIN_TTL_MS}
    BY <1>4
  <1>6. QED
    BY <1>1, <1>5 DEF Promise!Tick, Silence

LEMMA PromisedInit ==
  ASSUME Init
  PROVE  Promise!Init
  <1>1. LiveSessions = {}
    <2>1. \A p \in Privileges : tables[p] = {}
      BY DEF Init, EmptyTables
    <2>2. \A s : s \notin Live(tables, now)
      BY <2>1, LiveMember
    <2>3. QED
      BY <2>2 DEF LiveSessions
  <1>2. QED
    BY <1>1 DEF Init, Silence, Promise!Init

\* Every step is one of the promise, or changes nothing it speaks of.
LEMMA PromisedSteps ==
  ASSUME SessionsInv, [Next]_vars
  PROVE  [Promise!Next]_(Promise!vars)
  <1>1. ASSUME NEW key \in Keys, NEW timestamp \in Timestamps, NEW body \in Bodies,
               Login(key, timestamp, body)
        PROVE  Promise!Next
    BY <1>1, LoginPromised DEF Promise!Next
  <1>2. ASSUME NEW key \in Keys, Subrequest(key)
        PROVE  Promise!Next
    <2>1. LiveSessions' = LiveSessions
      BY <1>2 DEF Subrequest, LiveSessions
    <2>2. Promise!Stranger
      BY <1>2, <2>1 DEF Subrequest, Promise!Stranger, Promise!Reply, Reply
    <2>3. QED
      BY <2>2 DEF Promise!Next
  <1>3. ASSUME NEW key \in Keys, AnonymousCommand(key)
        PROVE  Promise!Next
    BY <1>3, CommandPromised DEF Promise!Next
  <1>4. CASE IgnoreAnonymous
    <2>1. LiveSessions' = LiveSessions
      BY <1>4 DEF IgnoreAnonymous, LiveSessions
    <2>2. Promise!Ignore
      BY <1>4, <2>1 DEF IgnoreAnonymous, Silence, Promise!Ignore
    <2>3. QED
      BY <2>2 DEF Promise!Next
  <1>5. ASSUME NEW key \in Keys, NEW timestamp \in Timestamps, TextMessage(key, timestamp)
        PROVE  Promise!Next
    <2> DEFINE found == Prune(tables, now)
               p == PrivilegeFor(found, key)
               held == AcceptNewer(found, key, p, timestamp, now)
    <2>1. /\ Accepted(found, key, timestamp) /\ now' = now
          /\ \/ RunCommand(key, p, held)
             \/ reply' = Silence /\ tables' = held /\ acl' = acl
      BY <1>5 DEF TextMessage
    <2>2. Promise!Message
      BY <2>1, MessagePromised
    <2>3. QED
      BY <2>2 DEF Promise!Next
  <1>6. ASSUME NEW key \in Keys, NEW timestamp \in Timestamps, Request(key, timestamp)
        PROVE  Promise!Next
    <2> DEFINE found == Prune(tables, now)
               p == PrivilegeFor(found, key)
               held == AcceptNewer(found, key, p, timestamp, now)
    <2>1. /\ Accepted(found, key, timestamp) /\ now' = now
          /\ reply' = Silence \/ reply' = Reply(key, "answered")
          /\ tables' = held /\ acl' = acl
      BY <1>6 DEF Request
    <2>2. Promise!Message
      BY <2>1, MessagePromised
    <2>3. QED
      BY <2>2 DEF Promise!Next
  <1>7. CASE IgnoreDirect
    <2>1. /\ Placed(tables) /\ now \in Nat /\ now' = now
          /\ tables' = Prune(tables, now)
      BY <1>7, SessionsAssumption DEF SessionsInv, IgnoreDirect
    <2>2. Live(tables', now) = Live(tables, now)
      BY <2>1, LivePruned
    <2>3. LiveSessions' = LiveSessions
      BY <2>1, <2>2 DEF LiveSessions
    <2>4. Promise!Ignore
      BY <1>7, <2>3 DEF IgnoreDirect, Silence, Promise!Ignore
    <2>5. QED
      BY <2>4 DEF Promise!Next
  <1>8. CASE LocalCommand
    <2>1. PICK new \in NewAcls : UpdateConfig(tables, new)
      BY <1>8 DEF LocalCommand
    <2>2. /\ acl' = new /\ tables' = RemoveLogins(tables, ChangedKeys(acl, new))
          /\ reply' = Silence /\ now' = now
      BY <1>8, <2>1 DEF LocalCommand, UpdateConfig
    <2>3. acl' \in [Keys -> Roles]
      BY <2>2, NewAclTypes DEF SessionsInv
    <2>4. Live(tables', now) = {s \in Live(tables, now) : new[s.public_key] = acl[s.public_key]}
      BY <2>2, LiveConfigured DEF SessionsInv
    <2>5. LiveSessions' = Promise!StillGranted(LiveSessions)
      BY <2>2, <2>4 DEF LiveSessions, Promise!StillGranted
    <2>6. Promise!Console
      BY <2>2, <2>3, <2>5 DEF Promise!Console, Silence
    <2>7. QED
      BY <2>6 DEF Promise!Next
  <1>9. CASE Tick
    BY <1>9, TickPromised DEF Promise!Next
  <1>10. CASE UNCHANGED vars
    BY <1>10 DEF vars, Promise!vars, LiveSessions
  <1>11. QED
    BY <1>1, <1>2, <1>3, <1>4, <1>5, <1>6, <1>7, <1>8, <1>9, <1>10 DEF Next

\* The session tables, which expire sessions lazily, replace them by place and are
\* two, implement the one set of live sessions of SessionPromise.
THEOREM KeepsSessionPromise == Spec => KeepsPromise
  BY SessionsInvariant, PromisedInit, PromisedSteps, PTL DEF Spec, KeepsPromise, Promise!Spec
==============================================================================
