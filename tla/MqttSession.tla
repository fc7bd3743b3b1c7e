------------------------------ MODULE MqttSession ------------------------------
(***************************************************************************)
(* The task that keeps one MQTT broker connected (mqtt/client.rs): it      *)
(* connects, reports packets and its status, pings, and starts over after  *)
(* an error or when a restart is requested.  The broker may answer at any  *)
(* time and anything; Wi-Fi, and with it every future of the task, may go  *)
(* at any moment.  Times are in ticks.  The generation of the context is   *)
(* reduced to whether it still is the one that the task has read.          *)
(***************************************************************************)
EXTENDS Integers, Sequences

CONSTANTS
  Hosts, NoHost,        \* what `mqtt.host` may be; NoHost is the empty one
  Unparsed,             \* hosts that Endpoint::parse refuses
  Secure, Websocket,    \* hosts reached over TLS, and by WebSocket
  Io,                   \* mqtt_io's time limit
  Keepalive,            \* a ping is due so long after the last MQTT packet
  StatusInterval,       \* the status is due so long after the last one
  RetryWait, IdleWait,  \* before a retry, and before a look at an empty host
  ChannelSize           \* packets waiting to be reported

ASSUME MqttAssumption ==
  /\ NoHost \in Hosts
  /\ Io \in Nat /\ Keepalive \in Nat /\ StatusInterval \in Nat
  /\ RetryWait \in Nat /\ IdleWait \in Nat /\ ChannelSize \in Nat

VARIABLES
  config,    \* the host configured
  host,      \* the host that the task has read
  pc,        \* where the task is
  op,        \* which operation runs in mqtt_io
  left,      \* ticks until the timer of a wait fires
  stale,     \* the generation is no longer the one read
  waker,     \* the waker kept for a restart: "none", "registered", or "woken"
  missed,    \* history: a restart was requested since the host was read
  shown,     \* the state that `mqtt status` shows
  error,     \* and the last error
  greeted,   \* the connection's CONNACK has been read
  ack,       \* an acknowledgement is signalled
  answered,  \* history: a PINGRESP was read since the ping was begun
  pong,      \* a WebSocket ping is to be answered
  framing,   \* the connection holds part of a frame
  keep,      \* ticks since the last operation but a pong
  age,       \* ticks since the status was published
  silence,   \* history: ticks since an MQTT packet was written whole
  channel,   \* packets waiting, with one of them marked
  marked     \* history: what became of the marked packet

task == <<host, pc, op, left>>
restart == <<stale, waker, missed>>
view == <<shown, error>>
connection == <<greeted, ack, answered, pong, framing>>
clocks == <<keep, age, silence>>
packets == <<channel, marked>>
vars == <<config, task, restart, view, connection, clocks, packets>>

Errors == {"Unreachable", "Memory", "Tls", "WebSocket", "Clock", "Config",
           "Auth", "Server", "Protocol", "Connection"}
NoError == "none"

Reaching == {"reaching", "securing", "upgrading"}
\* Within mqtt_connected; the latter two within mqtt_wait_ack.
Connected == {"select", "writing", "waiting", "answering"}
InIo == Reaching \cup (Connected \ {"select"})
InSession == Reaching \cup {"credentials"} \cup Connected

Init ==
  /\ config \in Hosts /\ host = NoHost
  /\ pc = "off" /\ op = "none" /\ left = 0
  /\ stale = FALSE /\ waker = "none" /\ missed = FALSE
  /\ shown = "Disconnected" /\ error = NoError
  /\ greeted = FALSE /\ ack = FALSE /\ answered = FALSE /\ pong = FALSE /\ framing = FALSE
  /\ keep = 0 /\ age = 0 /\ silence = 0
  /\ channel = <<>> /\ marked = "new"

-------------------------------------------------------------------------------
(* The context: what other tasks call *)

\* `set mqtt.host`: the session goes on with the old one until a restart.
SetHost ==
  /\ \E new \in Hosts \ {config} : config' = new
  /\ UNCHANGED <<task, restart, view, connection, clocks, packets>>

\* request_restart, of `mqtt restart` and `unset mqtt.*`.
RequestRestart ==
  /\ stale' = (pc \in InSession \cup {"configuring", "retrying"})
  /\ waker' = IF waker = "registered" THEN "woken" ELSE waker
  /\ missed' = TRUE /\ error' = NoError
  /\ UNCHANGED <<config, task, shown, connection, clocks, packets>>

\* report_packet: a full channel drops it.
ReportPacket ==
  /\ Len(channel) < ChannelSize
  /\ \/ /\ marked = "new"
        /\ channel' = Append(channel, "marked") /\ marked' = "waiting"
     \/ channel' = Append(channel, "plain") /\ UNCHANGED marked
  /\ UNCHANGED <<config, task, restart, view, connection, clocks>>

-------------------------------------------------------------------------------
(* The loop of run *)

\* A waker for the restart is left behind where the task begins to wait; one that
\* was requested meanwhile is seen at once.
Register == waker' = IF stale THEN "woken" ELSE "registered"

\* Once back at the loop's start a wake is spent.
Spend == waker' = IF waker = "woken" THEN "none" ELSE waker

NoConnection ==
  /\ op' = "none" /\ greeted' = FALSE /\ ack' = FALSE /\ answered' = FALSE
  /\ pong' = FALSE /\ framing' = FALSE
  /\ keep' = 0 /\ age' = 0 /\ silence' = 0

\* A packet taken from the channel goes with the connection.
Lose == marked' = IF marked = "taken" THEN "lost" ELSE marked

\* The generation is read before the configuration.
ReadGeneration ==
  /\ pc = "starting" /\ pc' = "configuring"
  /\ stale' = FALSE /\ Spend
  /\ UNCHANGED <<config, host, op, left, missed, view, connection, clocks, packets>>

\* No waker is left behind.
WaitQuietly(ticks) == pc' = "retrying" /\ left' = ticks /\ UNCHANGED waker

\* wait_mqtt_retry_or_restart
Wait(ticks) == pc' = "retrying" /\ left' = ticks /\ Register

\* An error whatever the generation.
EndSessionAnyhow(failure) ==
  /\ shown' = "Disconnected" /\ error' = failure
  /\ Wait(RetryWait)
  /\ NoConnection /\ Lose
  /\ UNCHANGED <<config, host, stale, missed, channel>>

\* The session comes to an end: not an error's fault if a restart was requested.
EndSession(failure) ==
  /\ shown' = "Disconnected"
  /\ error' = IF stale THEN error ELSE failure
  /\ Wait(RetryWait)
  /\ NoConnection /\ Lose
  /\ UNCHANGED <<config, host, stale, missed, channel>>

\* The configuration's lock is had: an empty host disables the connection.
Configure ==
  /\ pc = "configuring"
  /\ host' = config /\ missed' = FALSE
  /\ CASE config = NoHost ->
            /\ shown' = "Disabled" /\ error' = NoError
            /\ Wait(IdleWait)
       [] config \in Unparsed ->
            /\ shown' = "Disconnected"
            /\ error' = IF stale THEN error ELSE "Config"
            /\ Wait(RetryWait)
       [] OTHER ->
            /\ shown' = "Connecting" /\ UNCHANGED error
            /\ pc' = "reaching" /\ left' = Io /\ Register
  /\ UNCHANGED <<config, op, stale, connection, clocks, packets>>

\* A restart has woken the task.
Roused == stale /\ waker = "woken"

Retry ==
  /\ pc = "retrying" /\ (left = 0 \/ Roused)
  /\ pc' = "starting"
  /\ UNCHANGED <<config, host, op, left, restart, view, connection, clocks, packets>>

-------------------------------------------------------------------------------
(* mqtt_session *)

\* Reached, and secured, and upgraded as the endpoint asks for.
Opened ==
  /\ pc \in Reaching /\ ~stale
  /\ \/ /\ pc = "reaching" /\ host \in Secure
        /\ pc' = "securing" /\ left' = Io
     \/ /\ pc = "securing" \/ (pc = "reaching" /\ host \notin Secure)
        /\ host \in Websocket
        /\ pc' = "upgrading" /\ left' = Io
     \/ /\ \/ pc = "upgrading"
           \/ (pc = "securing" /\ host \notin Websocket)
           \/ (pc = "reaching" /\ host \notin Secure \cup Websocket)
        /\ pc' = "credentials" /\ UNCHANGED left
  /\ UNCHANGED <<config, host, op, restart, view, connection, clocks, packets>>

\* mqtt_io begins, with the waker registered.
Begin(operation) == op' = operation /\ pc' = "writing" /\ left' = Io /\ framing' = TRUE

\* The identity's lock is had: credentials for this CONNECT, which is written.
Connect ==
  /\ pc = "credentials"
  /\ Begin("connect") /\ Register
  /\ UNCHANGED <<config, host, stale, missed, view, greeted, ack, answered, pong, clocks, packets>>

NoCredentials ==
  /\ pc = "credentials"
  /\ EndSession("Clock") \/ EndSession("Config")

\* How an operation of mqtt_io fails, whether by itself or when its time is up.
Failure ==
  CASE pc = "reaching" -> {"Unreachable"}
    [] pc = "securing" -> {"Tls", "Memory"}
    [] pc = "upgrading" -> {"WebSocket"}
    [] OTHER -> {"Connection"}

Fail ==
  /\ pc \in InIo
  /\ \E failure \in Failure : EndSession(failure)

\* The connection is kept.
TimeOutGoingOn ==
  \/ (pc \in InIo /\ left = 0 /\ Fail)
  \/ /\ pc = "writing" /\ left = 0 /\ pc' = "select" /\ op' = "none"
     /\ UNCHANGED <<config, host, left, restart, view, connection, clocks, packets>>

TimeOut == pc \in InIo /\ left = 0 /\ Fail

\* A restart is seen before anything else that the task is woken for.
SeeRestart ==
  /\ pc \in InIo \cup {"select"} /\ Roused
  /\ EndSession("Connection")

-------------------------------------------------------------------------------
(* mqtt_connected: receive, which is polled first *)

Receives == pc \in Connected /\ ~stale

\* CONNACK once, then nothing but PINGRESP.
Acknowledged ==
  /\ Receives
  /\ greeted' = TRUE /\ ack' = TRUE /\ answered' = greeted
  /\ UNCHANGED <<config, task, restart, view, pong, framing, clocks, packets>>

\* The connection ends, a CONNACK refuses, or something else is read.
Refused ==
  /\ Receives
  /\ \E failure \in IF greeted THEN {"Connection"}
                    ELSE {"Auth", "Server", "Protocol", "Connection"} : EndSession(failure)

\* A WebSocket ping, between the frames of a message too: the latest is answered.
PingFrame ==
  /\ Receives /\ host \in Websocket
  /\ pong' = TRUE
  /\ UNCHANGED <<config, task, restart, view, greeted, ack, answered, framing, clocks, packets>>

-------------------------------------------------------------------------------
(* mqtt_connected: send *)

\* The timer is that of the earlier deadline.
StatusDue == age >= StatusInterval
Due == keep >= Keepalive \/ StatusDue

Selecting == pc = "select" /\ ~stale

\* receive_packet is ready.
Taken ==
  /\ channel # <<>> /\ channel' = Tail(channel)
  /\ marked' = IF Head(channel) = "marked" THEN "taken" ELSE marked

\* Without ack.reset().
DeadlineKeepingAck ==
  /\ Selecting /\ Due
  /\ IF StatusDue THEN Begin("status") /\ UNCHANGED answered
     ELSE Begin("ping") /\ answered' = FALSE
  /\ UNCHANGED <<config, host, restart, view, greeted, ack, pong, clocks, packets>>

\* The earlier of two deadlines has come: the status, or else a ping.
Deadline ==
  /\ Selecting /\ Due
  /\ IF StatusDue THEN Begin("status") /\ UNCHANGED <<ack, answered>>
     ELSE Begin("ping") /\ ack' = FALSE /\ answered' = FALSE
  /\ UNCHANGED <<config, host, restart, view, greeted, pong, clocks, packets>>

Control ==
  /\ Selecting /\ ~Due /\ pong
  /\ Begin("pong") /\ pong' = FALSE
  /\ UNCHANGED <<config, host, restart, view, greeted, ack, answered, clocks, packets>>

\* Deadlines have no priority.
EventBeforeDeadline ==
  /\ Selecting /\ ~pong
  /\ Taken /\ Begin("packet")
  /\ UNCHANGED <<config, host, restart, view, greeted, ack, answered, pong, clocks>>

\* Nor has a ping to be answered.
EventBeforeControl ==
  /\ Selecting /\ ~Due
  /\ Taken /\ Begin("packet")
  /\ UNCHANGED <<config, host, restart, view, greeted, ack, answered, pong, clocks>>

Event ==
  /\ Selecting /\ ~Due /\ ~pong
  /\ Taken /\ Begin("packet")
  /\ UNCHANGED <<config, host, restart, view, greeted, ack, answered, pong, clocks>>

\* The frame is written whole: a pong is no MQTT packet.
Written ==
  /\ pc = "writing" /\ ~stale
  /\ framing' = FALSE
  /\ silence' = IF op = "pong" THEN silence ELSE 0
  /\ IF op \in {"connect", "ping"} THEN pc' = "waiting" /\ UNCHANGED <<op, left, keep>>
     ELSE /\ pc' = "select" /\ op' = "none" /\ left' = 0
          /\ keep' = IF op = "pong" THEN keep ELSE 0
  /\ age' = IF op = "status" THEN 0 ELSE age
  /\ marked' = IF op = "packet" /\ marked = "taken" THEN "published" ELSE marked
  /\ UNCHANGED <<config, host, restart, view, greeted, ack, answered, pong, channel>>

\* mqtt_wait_ack: a ping of the WebSocket is answered meanwhile.
Answer ==
  /\ pc = "waiting" /\ ~stale /\ ~ack /\ pong
  /\ pc' = "answering" /\ pong' = FALSE /\ framing' = TRUE
  /\ UNCHANGED <<config, host, op, left, restart, view, greeted, ack, answered, clocks, packets>>

AnswerWritten ==
  /\ pc = "answering" /\ ~stale
  /\ pc' = "waiting" /\ framing' = FALSE
  /\ UNCHANGED <<config, host, op, left, restart, view, greeted, ack, answered, pong, clocks,
                 packets>>

\* The first acknowledgement connects: the status is due at once.
TakeAck ==
  /\ pc = "waiting" /\ ~stale /\ ack
  /\ ack' = FALSE /\ pc' = "select" /\ op' = "none" /\ left' = 0 /\ keep' = 0
  /\ IF op = "connect" THEN /\ shown' = "Connected" /\ error' = NoError
                            /\ age' = StatusInterval
     ELSE UNCHANGED <<view, age>>
  /\ UNCHANGED <<config, host, restart, greeted, answered, pong, framing, silence, packets>>

-------------------------------------------------------------------------------
(* The network and time *)

WifiLost ==
  /\ pc \notin {"off", "dropped"}
  /\ pc' = "dropped" /\ left' = 0 /\ stale' = FALSE
  /\ NoConnection /\ Lose
  /\ UNCHANGED <<config, host, waker, missed, view, channel>>

\* client::disconnected
MarkDisconnected ==
  /\ pc = "dropped" /\ pc' = "off"
  /\ IF config = NoHost THEN shown' = "Disabled" /\ error' = NoError
     ELSE shown' = "Disconnected" /\ error' = "Unreachable"
  /\ UNCHANGED <<config, host, op, left, restart, connection, clocks, packets>>

WifiUp ==
  /\ pc = "off" /\ pc' = "starting"
  /\ UNCHANGED <<config, host, op, left, restart, view, connection, clocks, packets>>

\* A tick is long for what needs no network: the task waits with nothing to do.
\* What takes time may be done until its timer fires.
Idle ==
  \/ pc \in {"retrying"} \cup InIo /\ ~Roused /\ left > 0 /\ ~(pc = "waiting" /\ (ack \/ pong))
  \/ Selecting /\ ~Due /\ ~pong /\ channel = <<>>

Tick ==
  /\ Idle
  /\ left' = IF left > 0 THEN left - 1 ELSE 0
  /\ IF pc \in Connected
     THEN keep' = keep + 1 /\ age' = age + 1 /\ silence' = silence + 1
     ELSE UNCHANGED clocks
  /\ UNCHANGED <<config, host, pc, op, restart, view, connection, packets>>

-------------------------------------------------------------------------------
\* What the task does by itself, as soon as it can.
Task ==
  \/ ReadGeneration \/ Configure \/ Retry \/ Connect \/ NoCredentials
  \/ TimeOut \/ SeeRestart \/ Deadline \/ Control \/ Event
  \/ Answer \/ TakeAck \/ MarkDisconnected

Next ==
  \/ Task
  \/ SetHost \/ RequestRestart \/ ReportPacket
  \/ Opened \/ Fail \/ Acknowledged \/ Refused \/ PingFrame \/ Written \/ AnswerWritten
  \/ WifiLost \/ WifiUp \/ Tick

\* The executor polls what is ready, and time passes.
Spec == Init /\ [][Next]_vars /\ WF_vars(Task) /\ WF_vars(Tick)

-------------------------------------------------------------------------------
(* Properties *)

\* The types of the variables: no more packets wait than the channel holds, and no
\* wait is longer than its timer.
TypeOK ==
  /\ config \in Hosts /\ host \in Hosts
  /\ pc \in {"off", "dropped", "starting", "configuring", "retrying"} \cup InSession
  /\ op \in {"none", "connect", "pong", "packet", "status", "ping"}
  /\ pc \in InIo => left \in 0 .. Io
  /\ left \in Nat
  /\ stale \in BOOLEAN /\ waker \in {"none", "registered", "woken"} /\ missed \in BOOLEAN
  /\ shown \in {"Disabled", "Disconnected", "Connecting", "Connected"}
  /\ error \in Errors \cup {NoError}
  /\ {greeted, ack, answered, pong, framing} \subseteq BOOLEAN
  /\ keep \in Nat /\ age \in Nat /\ silence \in Nat
  /\ channel \in Seq({"plain", "marked"}) /\ Len(channel) <= ChannelSize
  /\ marked \in {"new", "waiting", "taken", "published", "lost"}

\* A restart that is requested after the task has read its configuration reaches
\* the task wherever it waits: the session is known for stale and the task woken.
RestartTakesEffect ==
  pc \in InSession \cup {"retrying"} /\ missed => stale /\ waker = "woken"

\* `mqtt status`: a broker shown as connected has accepted this connection, and
\* shows no error; a disabled one shows none, nor does one whose restart is under
\* way, whatever way the session it cancels comes to its end.
ShownIsTrue ==
  /\ shown = "Connected" => pc = "dropped" \/ (pc \in Connected /\ greeted)
  /\ shown \in {"Connected", "Disabled"} \/ stale => error = NoError

\* "Dropping a cancelled or timed-out operation may leave a partial MQTT frame.
\* Every error from this helper must therefore discard the connection.": no frame
\* is begun on a connection that holds part of another.
FramesAreWhole == pc \in {"select", "waiting"} => ~framing

\* What ends the wait for a ping's answer was read after the ping was begun.
AcksAreFresh == op = "ping" /\ pc # "writing" /\ ack => answered

\* The broker hears something within the keepalive of 60 s that CONNECT announces,
\* whatever WebSocket pings, slow writes and late answers come between.
SilenceBounded == silence <= Keepalive + 3 * Io

\* "Deadlines take priority so busy connections still refresh status."
StatusStaysFresh == age <= StatusInterval + 2 * Io

\* Every packet taken from the channel is written, or goes with its connection: none
\* is taken by a round of the loop that then does something else.
TakenIsWritten ==
  /\ marked = "taken" => pc = "writing" /\ op = "packet"
  /\ marked = "waiting" <=> \E i \in DOMAIN channel : channel[i] = "marked"

\* A WebSocket ping is answered or its connection given up, however many packets
\* there are to report.
PongsAnswered == pong ~> ~pong

\* Both deadlines of the session are kept, up to the operations under way.
DeadlinesKept == SilenceBounded /\ StatusStaysFresh
==============================================================================
