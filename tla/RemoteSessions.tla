---------------------------- MODULE RemoteSessions ----------------------------
(***************************************************************************)
(* Remote requests: handle_remote_packet of cli.rs with the session tables *)
(* of remote.rs and the access list of acl.rs, which commands change.      *)
(*                                                                         *)
(* The handler and the console run on one executor and no lock they take   *)
(* is held across an await that waits, storage being synchronous, so each  *)
(* packet and each command is one step.                                    *)
(***************************************************************************)
EXTENDS RemoteLoginOps

CONSTANTS
  NoKey,       \* the addressee of no reply
  DefaultAcl,  \* the access list of the configuration's defaults
  MaxTime      \* bound: the clock stops here

ASSUME SessionsAssumption ==
  /\ NoKey \notin Keys
  /\ DefaultAcl \in [Keys -> Roles]
  /\ MaxTime \in Nat

VARIABLES
  now,     \* the clock, in units of REMOTE_LOGIN_TTL_MS
  acl,     \* the role of each key
  tables,  \* RemoteLoginTable
  reply    \* what the last step sent back

vars == <<now, acl, tables, reply>>

Silence == [to |-> NoKey, text |-> "none"]
Reply(key, text) == [to |-> key, text |-> text]

Init ==
  /\ now = 0
  /\ acl \in [Keys -> Roles]
  /\ tables = EmptyTables
  /\ reply = Silence

\* What an anonymous request's body may be to login_privilege.
Bodies == {"login", "password", "login password", "login wrong", "wrong"}

LoginPrivilege(body, role) ==
  IF role = "deny" THEN NoPrivilege
  ELSE IF role = "admin" /\ body # "wrong" THEN "admin"
  ELSE IF body = "login" THEN "guest"
  ELSE IF body \in {"password", "login password"} THEN "admin"
  ELSE NoPrivilege

\* The changes of the keys listed before, without those newly listed.
ChangedKeysBefore(old, new) ==
  {key \in Keys : old[key] # "unset" /\ old[key] # new[key]}

\* changed_keys()
ChangedKeys(old, new) == {key \in Keys : old[key] # new[key]}

\* What set acl, unset acl of one key or of all make of an access list.
NewAcls ==
  {[acl EXCEPT ![key] = role] : key \in Keys, role \in Roles} \cup {DefaultAcl}

\* update_config, whether or not the save that follows succeeds.
UpdateConfig(held, new) ==
  /\ acl' = new
  /\ tables' = RemoveLogins(held, ChangedKeys(acl, new))

\* handle_command, for a sender with a privilege or with none: the tables are
\* "held" so far.
RunCommand(key, privilege, held) ==
  \/ /\ reply' = Reply(key, "answered")
     /\ tables' = held
     /\ UNCHANGED acl
  \/ /\ privilege # "admin"
     /\ reply' = Reply(key, "denied")
     /\ tables' = held
     /\ UNCHANGED acl
  \/ /\ privilege = "admin"
     /\ reply' = Reply(key, "done")
     /\ \E new \in NewAcls : UpdateConfig(held, new)

\* The body of an anonymous request opens a session.
Login(key, timestamp, body) ==
  LET privilege == LoginPrivilege(body, acl[key])
  IN /\ privilege # NoPrivilege
     /\ tables' = Authenticate(tables, key, privilege, timestamp, now, acl[key])
     /\ reply' = Reply(key, privilege)
     /\ UNCHANGED <<now, acl>>

\* It asks for what anyone may know (handle_anonymous_subrequest).
Subrequest(key) ==
  /\ acl[key] # "deny"
  /\ reply' = Reply(key, "answered")
  /\ UNCHANGED <<now, acl, tables>>

\* It carries a command, with the rights of the sender's session if it has one.
AnonymousCommand(key) ==
  LET held == Prune(tables, now)
  IN /\ acl[key] # "deny"
     /\ RunCommand(key, PrivilegeFor(held, key), See(held, key, now))
     /\ UNCHANGED now

\* It is none of these, or its sender is denied.
IgnoreAnonymous ==
  /\ reply' = Silence
  /\ UNCHANGED <<now, acl, tables>>

\* A packet of a session, which its key decrypts, is accepted.
Accepted(held, key, timestamp) ==
  LET privilege == PrivilegeFor(held, key)
  IN /\ privilege # NoPrivilege
     /\ acl[key] # "deny"
     /\ IsNewer(held, key, privilege, timestamp)

\* A text message: a command, or an empty one.
TextMessage(key, timestamp) ==
  LET found == Prune(tables, now)
      privilege == PrivilegeFor(found, key)
      held == AcceptNewer(found, key, privilege, timestamp, now)
  IN /\ Accepted(found, key, timestamp)
     /\ \/ RunCommand(key, privilege, held)
        \/ /\ reply' = Silence
           /\ tables' = held
           /\ UNCHANGED acl
     /\ UNCHANGED now

\* A binary request: for the status, telemetry, neighbours or the owner, or one
\* this repeater does not know.
Request(key, timestamp) ==
  LET found == Prune(tables, now)
      privilege == PrivilegeFor(found, key)
  IN /\ Accepted(found, key, timestamp)
     /\ tables' = AcceptNewer(found, key, privilege, timestamp, now)
     /\ reply' \in {Reply(key, "answered"), Silence}
     /\ UNCHANGED <<now, acl>>

\* A packet of no session, not newer than the last, of a denied key, or of
\* another type: the tables were pruned all the same.
IgnoreDirect ==
  /\ tables' = Prune(tables, now)
  /\ reply' = Silence
  /\ UNCHANGED <<now, acl>>

\* A command of the console or of telnet that changes the access list.
LocalCommand ==
  /\ \E new \in NewAcls : UpdateConfig(tables, new)
  /\ reply' = Silence
  /\ UNCHANGED now

Tick ==
  /\ now < MaxTime
  /\ now' = now + 1
  /\ reply' = Silence
  /\ UNCHANGED <<acl, tables>>

Next ==
  \/ \E key \in Keys, timestamp \in Timestamps, body \in Bodies :
       Login(key, timestamp, body)
  \/ \E key \in Keys : Subrequest(key)
  \/ \E key \in Keys : AnonymousCommand(key)
  \/ IgnoreAnonymous
  \/ \E key \in Keys, timestamp \in Timestamps : TextMessage(key, timestamp)
  \/ \E key \in Keys, timestamp \in Timestamps : Request(key, timestamp)
  \/ IgnoreDirect
  \/ LocalCommand
  \/ Tick

Spec == Init /\ [][Next]_vars
-----------------------------------------------------------------------------
(* Properties *)

Replies ==
  [to : Keys, text : {"admin", "guest", "answered", "denied", "done"}]
    \cup {Silence}

\* Both tables hold sessions in the places they have, and the rest is of its
\* type.
TypeOK ==
  /\ now \in 0 .. MaxTime
  /\ acl \in [Keys -> Roles]
  /\ tables \in Tables
  /\ reply \in Replies

\* A key has one session at most, in one of the tables: logging in again, with
\* the same privilege or the other, replaces it wherever it is.
OneSessionPerKey ==
  \A p, q \in Privileges : \A l \in tables[p], m \in tables[q] :
    l.public_key = m.public_key => p = q /\ l = m

\* A session was opened under the role its key has now, which is never "deny",
\* and is an administrator's when the role is: every change of the access list,
\* remote or local, ends the sessions it affects, expired ones included.
SessionsFollowAcl ==
  \A p \in Privileges : \A l \in tables[p] :
    /\ l.role = acl[l.public_key]
    /\ l.role # "deny"
    /\ l.role = "admin" => p = "admin"

SessionOf(privilege, l) ==
  [public_key |-> l.public_key, privilege |-> privilege,
   last_seen_ms |-> l.last_seen_ms, last_timestamp |-> l.last_timestamp,
   role |-> l.role]

\* The sessions of tables that have not expired.
Live(held, time) ==
  UNION {{SessionOf(p, l) : l \in {m \in held[p] :
                                   time <= m.last_seen_ms + REMOTE_LOGIN_TTL_MS}} :
         p \in Privileges}

LiveSessions == Live(tables, now)

Promise ==
  INSTANCE SessionPromise WITH
    MaxSessions <- MAX_REMOTE_LOGINS,
    TimeToLive <- REMOTE_LOGIN_TTL_MS,
    sessions <- LiveSessions

\* The tables keep the promise of SessionPromise: expired sessions that are still
\* in them are never used and never cost a live one its place, a login ends only
\* the session unused for longest and only when all places of its privilege are
\* taken, a command is done only for the administrator whose session it came in,
\* and no session accepts a timestamp twice.
KeepsPromise == Promise!Spec
==============================================================================
