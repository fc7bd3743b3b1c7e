---------------------------- MODULE SessionPromise ----------------------------
(***************************************************************************)
(* What the repeater promises of remote sessions, without tables, places   *)
(* or lazy expiry: a set of sessions, at most one for a key, each ended by *)
(* its expiry, a change of its key's role, a login of the same key, or a   *)
(* login of another when the sessions of that privilege are at their limit *)
(* and it is the one unused for longest.                                   *)
(***************************************************************************)
EXTENDS Integers, FiniteSets

CONSTANTS
  Keys,         \* the nodes
  MaxSessions,  \* sessions of one privilege
  TimeToLive,   \* of an unused session
  Privileges,
  Roles,
  Timestamps    \* times the senders put into their packets

VARIABLES
  now,       \* the time
  acl,       \* the role of each key
  sessions,  \* the live sessions
  reply      \* what the last packet was answered

vars == <<now, acl, sessions, reply>>

Session ==
  [public_key : Keys, privilege : Privileges, last_seen_ms : Nat,
   last_timestamp : Timestamps, role : Roles]

Reply(key, text) == [to |-> key, text |-> text]

Init ==
  /\ now \in Nat
  /\ acl \in [Keys -> Roles]
  /\ sessions = {}
  /\ reply.text = "none"

\* The sessions a login of the privilege ends, besides one of the same key.
Displaced(others) ==
  IF Cardinality(others) < MaxSessions
  THEN {{}}
  ELSE {{s} : s \in {o \in others :
                       \A m \in others : o.last_seen_ms <= m.last_seen_ms}}

\* A login: never of a key whose role is "deny", and always as an administrator
\* for one whose role is "admin".
Login ==
  \E key \in Keys, privilege \in Privileges, timestamp \in Timestamps :
    LET others == {s \in sessions : /\ s.privilege = privilege
                                    /\ s.public_key # key}
    IN /\ acl[key] # "deny"
       /\ acl[key] = "admin" => privilege = "admin"
       /\ \E displaced \in Displaced(others) :
            sessions' =
              {s \in sessions \ displaced : s.public_key # key}
                \cup {[public_key |-> key, privilege |-> privilege,
                       last_seen_ms |-> now, last_timestamp |-> timestamp,
                       role |-> acl[key]]}
       /\ reply' = Reply(key, privilege)
       /\ UNCHANGED <<now, acl>>

\* Sessions end when their key's role changes.
StillGranted(held) == {s \in held : acl'[s.public_key] = acl[s.public_key]}

\* A session used for a command: an administrator's may change anything, a
\* guest's nothing.
Carry(session, held) ==
  \/ /\ \/ reply'.text = "none"
        \/ reply' = Reply(session.public_key, "answered")
     /\ sessions' = held
     /\ UNCHANGED acl
  \/ /\ session.privilege # "admin"
     /\ reply' = Reply(session.public_key, "denied")
     /\ sessions' = held
     /\ UNCHANGED acl
  \/ /\ session.privilege = "admin"
     /\ reply' = Reply(session.public_key, "done")
     /\ acl' \in [Keys -> Roles]
     /\ sessions' = StillGranted(held)

Used(session) == [session EXCEPT !.last_seen_ms = now]

\* A message of a session, with a timestamp after every one it accepted.
Message ==
  \E s \in sessions, timestamp \in Timestamps :
    LET used == [Used(s) EXCEPT !.last_timestamp = timestamp]
    IN /\ timestamp > s.last_timestamp
       /\ Carry(used, (sessions \ {s}) \cup {used})
       /\ UNCHANGED now

\* A request that names its sender in full keeps the session's timestamp.
Command ==
  \E s \in sessions :
    /\ Carry(Used(s), (sessions \ {s}) \cup {Used(s)})
    /\ UNCHANGED now

\* Without a session a node is told what anyone may know.
Stranger ==
  /\ \E key \in Keys, text \in {"answered", "denied"} :
       /\ acl[key] # "deny"
       /\ reply' = Reply(key, text)
  /\ UNCHANGED <<now, acl, sessions>>

\* A packet without effect and without answer.
Ignore ==
  /\ reply'.text = "none"
  /\ UNCHANGED <<now, acl, sessions>>

\* A command given at the console may change the access list.
Console ==
  /\ reply'.text = "none"
  /\ acl' \in [Keys -> Roles]
  /\ sessions' = StillGranted(sessions)
  /\ UNCHANGED now

Tick ==
  /\ now' \in Nat
  /\ now' > now
  /\ reply'.text = "none"
  /\ sessions' = {s \in sessions : now' - s.last_seen_ms <= TimeToLive}
  /\ UNCHANGED acl

Next ==
  \/ Login
  \/ Message
  \/ Command
  \/ Stranger
  \/ Ignore
  \/ Console
  \/ Tick

Spec == Init /\ [][Next]_vars
==============================================================================
