---------------------------- MODULE RemoteLoginOps ----------------------------
(***************************************************************************)
(* RemoteLoginTable of remote.rs: two tables of sessions, one for          *)
(* administrators and one for guests.  A table is the set of its occupied  *)
(* places; a session's shared secret and reply path follow from its key    *)
(* and its login and decide nothing here, so they are left out.            *)
(***************************************************************************)
EXTENDS Integers, FiniteSetsExt

CONSTANTS
  Keys,               \* public keys of the nodes that send requests
  Timestamps,         \* times they put into their packets
  MAX_REMOTE_LOGINS,  \* places of a table
  REMOTE_LOGIN_TTL_MS

ASSUME LoginAssumption ==
  /\ MAX_REMOTE_LOGINS \in Nat \ {0}
  /\ REMOTE_LOGIN_TTL_MS \in Nat
  /\ Timestamps \subseteq Nat

Slots == 1 .. MAX_REMOTE_LOGINS
Roles == {"admin", "deny", "unset"}
Privileges == {"admin", "guest"}
NoPrivilege == "none"

\* "role" is history: the key's role in the access list at its login.
RemoteLogin ==
  [slot : Slots, public_key : Keys, last_seen_ms : Nat, last_timestamp : Timestamps,
   role : Roles]

Tables == [Privileges -> SUBSET RemoteLogin]

EmptyTables == [privilege \in Privileges |-> {}]

\* find_login_mut: the first place that holds the key, as a set of at most one.
FindLogin(logins, key) ==
  {l \in logins : /\ l.public_key = key
                  /\ \A m \in logins : m.public_key = key => l.slot <= m.slot}

PruneEntries(logins, now) ==
  {l \in logins : now - l.last_seen_ms <= REMOTE_LOGIN_TTL_MS}

Prune(tables, now) ==
  [privilege \in Privileges |-> PruneEntries(tables[privilege], now)]

\* remove(), for each of the keys.
RemoveLogins(tables, keys) ==
  [privilege \in Privileges |->
     {l \in tables[privilege] :
        \A key \in keys : l \notin FindLogin(tables[privilege], key)}]

EmptySlots(logins) == {slot \in Slots : \A l \in logins : l.slot # slot}
FirstEmptySlot(logins) == Min(EmptySlots(logins))

\* The oldest request, not the oldest use.
LeastRequested(logins) ==
  {l \in logins : \A m \in logins : l.last_timestamp <= m.last_timestamp}
LeastRecent(logins) ==
  {l \in logins : \A m \in logins : l.last_seen_ms <= m.last_seen_ms}
OldestSlot(logins) == Min({l.slot : l \in LeastRecent(logins)})

\* The place authenticate() gives a new session.
SlotFor(logins) ==
  IF EmptySlots(logins) # {} THEN FirstEmptySlot(logins) ELSE OldestSlot(logins)

\* The table with what was in the login's place replaced.
Put(logins, login) == {l \in logins : l.slot # login.slot} \cup {login}

NewLogin(slot, key, timestamp, now, role) ==
  [slot |-> slot, public_key |-> key, last_seen_ms |-> now,
   last_timestamp |-> timestamp, role |-> role]

\* A login that looks for the key's old session in the new one's table alone.
AuthenticateInTable(tables, key, privilege, timestamp, now, role) ==
  LET pruned == Prune(tables, now)
      kept == RemoveLogins(pruned, {key})[privilege]
  IN [pruned EXCEPT ![privilege] =
        Put(kept, NewLogin(SlotFor(kept), key, timestamp, now, role))]

\* authenticate(): the key's session is removed wherever it is.
Authenticate(tables, key, privilege, timestamp, now, role) ==
  LET kept == RemoveLogins(Prune(tables, now), {key})
  IN [kept EXCEPT ![privilege] =
        Put(@, NewLogin(SlotFor(@), key, timestamp, now, role))]

\* The table in which a key is found, the administrators' first.
PrivilegeFor(tables, key) ==
  IF FindLogin(tables["admin"], key) # {} THEN "admin"
  ELSE IF FindLogin(tables["guest"], key) # {} THEN "guest"
  ELSE NoPrivilege

\* privilege_for() also notes that the session was used.
See(tables, key, now) ==
  LET privilege == PrivilegeFor(tables, key)
  IN [p \in Privileges |->
        IF p = privilege
        THEN {IF l \in FindLogin(tables[p], key)
              THEN [l EXCEPT !.last_seen_ms = now] ELSE l : l \in tables[p]}
        ELSE tables[p]]

\* accept_newer_timestamp(): its answer, and the tables when it is yes.
IsNewer(tables, key, privilege, timestamp) ==
  \E l \in FindLogin(tables[privilege], key) : timestamp > l.last_timestamp

AcceptNewer(tables, key, privilege, timestamp, now) ==
  [tables EXCEPT ![privilege] =
     {IF l \in FindLogin(tables[privilege], key)
      THEN [l EXCEPT !.last_timestamp = timestamp, !.last_seen_ms = now]
      ELSE l : l \in @}]
==============================================================================
