--------------------------- MODULE MqttSession_proofs ---------------------------
(***************************************************************************)
(* Proofs about the task of a broker, for every choice of its times, its   *)
(* hosts and the size of its channel.                                      *)
(***************************************************************************)
EXTENDS MqttSession, TLAPS

\* Where a restart may find the task, its waker is there, and woken by one; a
\* restart that came after the host was read is known.
WakesForRestart ==
  /\ pc \in InSession \cup {"retrying"} =>
       waker = (IF stale THEN "woken" ELSE "registered") /\ (missed => stale)
  /\ pc \in {"off", "dropped"} => ~stale

\* Only a connection that is greeted is acknowledged, and does anything but connect.
AnswersInOrder ==
  /\ ack => greeted
  /\ pc = "select" \/ op \in {"pong", "packet", "status", "ping"} => greeted
  /\ op = "ping" /\ ack => answered
  /\ FramesAreWhole

\* What is written, or waited for, has used up what its timer no longer holds.
InTime ==
  /\ pc \notin Connected => keep = 0 /\ age = 0 /\ silence = 0
  /\ pc = "select" =>
       silence <= keep + Io /\ keep <= Keepalive + Io /\ age <= StatusInterval + Io
  /\ pc = "writing" =>
       /\ op # "none"
       /\ op = "connect" => silence <= Io - left
       /\ op # "connect" => silence <= keep + Io
       /\ op \in {"pong", "packet"} => keep <= Keepalive + (Io - left)
       /\ op \in {"status", "ping"} => keep <= Keepalive + Io + (Io - left)
       /\ op # "status" => age <= StatusInterval + (Io - left)
       /\ op = "status" => age <= StatusInterval + Io + (Io - left)
  /\ pc \in {"waiting", "answering"} =>
       silence <= Io - left /\ age <= StatusInterval + (Io - left)

\* There is one marked packet.
OneMarked ==
  /\ TakenIsWritten
  /\ \A i, j \in DOMAIN channel : channel[i] = "marked" /\ channel[j] = "marked" => i = j

MqttInv ==
  /\ TypeOK /\ WakesForRestart /\ ShownIsTrue /\ AnswersInOrder /\ InTime /\ OneMarked

\* A session that ends, for whatever reason; then one lemma for every other action.
LEMMA EndSessionKeepsInv ==
  ASSUME MqttInv, NEW failure \in Errors, pc \in InSession, EndSession(failure) PROVE MqttInv'
<1>. USE MqttAssumption DEF MqttInv
<1>1. TypeOK'
  BY DEF TypeOK, InSession, InIo, Reaching, Connected, Errors, EndSession, Wait, Register,
         NoConnection, Lose
<1>2. WakesForRestart'
  BY DEF TypeOK, WakesForRestart, InSession, InIo, Reaching, Connected, EndSession, Wait,
         Register, NoConnection, Lose
<1>3. ShownIsTrue'
  BY DEF TypeOK, ShownIsTrue, InSession, InIo, Reaching, Connected, WakesForRestart,
         AnswersInOrder, Errors, EndSession, Wait, Register, NoConnection, Lose
<1>4. AnswersInOrder'
  BY DEF AnswersInOrder, InSession, InIo, Reaching, Connected, FramesAreWhole, EndSession,
         Wait, Register, NoConnection, Lose
<1>5. InTime'
  BY DEF TypeOK, InTime, InSession, InIo, Reaching, Connected, EndSession, Wait, Register,
         NoConnection, Lose
<1>6. OneMarked'
  BY DEF OneMarked, TakenIsWritten, EndSession, Wait, Register, NoConnection, Lose
<1> QED
  BY <1>1, <1>2, <1>3, <1>4, <1>5, <1>6

LEMMA SetHostKeepsInv ==
  ASSUME MqttInv, SetHost PROVE MqttInv'
<1>. USE MqttAssumption DEF MqttInv
<1>1. TypeOK'
  BY DEF TypeOK, InSession, InIo, Reaching, Connected, Errors, SetHost, task, restart, view,
         connection, clocks, packets
<1>2. WakesForRestart'
  BY DEF TypeOK, WakesForRestart, InSession, InIo, Reaching, Connected, SetHost, task,
         restart, view, connection, clocks, packets
<1>3. ShownIsTrue'
  BY DEF TypeOK, ShownIsTrue, InSession, InIo, Reaching, Connected, WakesForRestart,
         AnswersInOrder, Errors, SetHost, task, restart, view, connection, clocks, packets
<1>4. AnswersInOrder'
  BY DEF AnswersInOrder, InSession, InIo, Reaching, Connected, FramesAreWhole, SetHost,
         task, restart, view, connection, clocks, packets
<1>5. InTime'
  BY DEF TypeOK, InTime, InSession, InIo, Reaching, Connected, SetHost, task, restart, view,
         connection, clocks, packets
<1>6. OneMarked'
  BY DEF OneMarked, TakenIsWritten, SetHost, task, restart, view, connection, clocks,
         packets
<1> QED
  BY <1>1, <1>2, <1>3, <1>4, <1>5, <1>6

LEMMA RequestRestartKeepsInv ==
  ASSUME MqttInv, RequestRestart PROVE MqttInv'
<1>. USE MqttAssumption DEF MqttInv
<1>1. TypeOK'
  BY DEF TypeOK, InSession, InIo, Reaching, Connected, Errors, RequestRestart, task,
         restart, view, connection, clocks, packets
<1>2. WakesForRestart'
  BY DEF TypeOK, WakesForRestart, InSession, InIo, Reaching, Connected, RequestRestart,
         task, restart, view, connection, clocks, packets
<1>3. ShownIsTrue'
  BY DEF TypeOK, ShownIsTrue, InSession, InIo, Reaching, Connected, WakesForRestart,
         AnswersInOrder, Errors, RequestRestart, task, restart, view, connection, clocks,
         packets
<1>4. AnswersInOrder'
  BY DEF AnswersInOrder, InSession, InIo, Reaching, Connected, FramesAreWhole,
         RequestRestart, task, restart, view, connection, clocks, packets
<1>5. InTime'
  BY DEF TypeOK, InTime, InSession, InIo, Reaching, Connected, RequestRestart, task,
         restart, view, connection, clocks, packets
<1>6. OneMarked'
  BY DEF OneMarked, TakenIsWritten, RequestRestart, task, restart, view, connection, clocks,
         packets
<1> QED
  BY <1>1, <1>2, <1>3, <1>4, <1>5, <1>6

LEMMA ReportPacketKeepsInv ==
  ASSUME MqttInv, ReportPacket PROVE MqttInv'
<1>. USE MqttAssumption DEF MqttInv
<1>1. TypeOK'
  BY DEF TypeOK, InSession, InIo, Reaching, Connected, Errors, ReportPacket, task, restart,
         view, connection, clocks, packets
<1>2. WakesForRestart'
  BY DEF TypeOK, WakesForRestart, InSession, InIo, Reaching, Connected, ReportPacket, task,
         restart, view, connection, clocks, packets
<1>3. ShownIsTrue'
  BY DEF TypeOK, ShownIsTrue, InSession, InIo, Reaching, Connected, WakesForRestart,
         AnswersInOrder, Errors, ReportPacket, task, restart, view, connection, clocks,
         packets
<1>4. AnswersInOrder'
  BY DEF AnswersInOrder, InSession, InIo, Reaching, Connected, FramesAreWhole, ReportPacket,
         task, restart, view, connection, clocks, packets
<1>5. InTime'
  BY DEF TypeOK, InTime, InSession, InIo, Reaching, Connected, ReportPacket, task, restart,
         view, connection, clocks, packets
<1>6. OneMarked'
  BY DEF OneMarked, TakenIsWritten, ReportPacket, task, restart, view, connection, clocks,
         packets
<1> QED
  BY <1>1, <1>2, <1>3, <1>4, <1>5, <1>6

LEMMA ReadGenerationKeepsInv ==
  ASSUME MqttInv, ReadGeneration PROVE MqttInv'
<1>. USE MqttAssumption DEF MqttInv
<1>1. TypeOK'
  <2>1. /\ config' \in Hosts /\ host' \in Hosts
        /\ channel' \in Seq({"plain", "marked"}) /\ Len(channel') <= ChannelSize
    BY DEF TypeOK, ReadGeneration, Spend, task, restart, view, connection, clocks, packets
  <2>2. /\ pc' \in {"off", "dropped", "starting", "configuring", "retrying"} \cup InSession
        /\ op' \in {"none", "connect", "pong", "packet", "status", "ping"}
        /\ pc' \in InIo => left' \in 0 .. Io
        /\ left' \in Nat
    BY DEF TypeOK, InSession, InIo, Reaching, Connected, ReadGeneration, Spend, task,
           restart, view, connection, clocks, packets
  <2>3. {greeted', ack', answered', pong', framing'} \subseteq BOOLEAN
    BY DEF TypeOK, ReadGeneration, Spend, task, restart, view, connection, clocks, packets
  <2>4. /\ stale' \in BOOLEAN /\ missed' \in BOOLEAN
        /\ waker' \in {"none", "registered", "woken"}
        /\ shown' \in {"Disabled", "Disconnected", "Connecting", "Connected"}
        /\ error' \in Errors \cup {NoError}
    BY DEF TypeOK, Errors, ReadGeneration, Spend, task, restart, view, connection, clocks,
           packets
  <2>5. /\ keep' \in Nat /\ age' \in Nat /\ silence' \in Nat
        /\ marked' \in {"new", "waiting", "taken", "published", "lost"}
    BY DEF TypeOK, ReadGeneration, Spend, task, restart, view, connection, clocks, packets
  <2> QED
    BY <2>1, <2>2, <2>3, <2>4, <2>5 DEF TypeOK
<1>2. WakesForRestart'
  BY DEF TypeOK, WakesForRestart, InSession, InIo, Reaching, Connected, ReadGeneration,
         Spend, task, restart, view, connection, clocks, packets
<1>3. ShownIsTrue'
  BY DEF TypeOK, ShownIsTrue, InSession, InIo, Reaching, Connected, WakesForRestart,
         AnswersInOrder, Errors, ReadGeneration, Spend, task, restart, view, connection,
         clocks, packets
<1>4. AnswersInOrder'
  BY DEF AnswersInOrder, InSession, InIo, Reaching, Connected, FramesAreWhole,
         ReadGeneration, Spend, task, restart, view, connection, clocks, packets
<1>5. InTime'
  BY DEF TypeOK, InTime, InSession, InIo, Reaching, Connected, ReadGeneration, Spend, task,
         restart, view, connection, clocks, packets
<1>6. OneMarked'
  BY DEF OneMarked, TakenIsWritten, ReadGeneration, Spend, task, restart, view, connection,
         clocks, packets
<1> QED
  BY <1>1, <1>2, <1>3, <1>4, <1>5, <1>6

LEMMA ConfigureKeepsInv ==
  ASSUME MqttInv, Configure PROVE MqttInv'
<1>. USE MqttAssumption DEF MqttInv
<1>1. TypeOK'
  <2>1. /\ config' \in Hosts /\ host' \in Hosts
        /\ channel' \in Seq({"plain", "marked"}) /\ Len(channel') <= ChannelSize
    BY DEF TypeOK, Configure, Wait, Register, task, restart, view, connection, clocks,
           packets
  <2>2. /\ pc' \in {"off", "dropped", "starting", "configuring", "retrying"} \cup InSession
        /\ op' \in {"none", "connect", "pong", "packet", "status", "ping"}
        /\ pc' \in InIo => left' \in 0 .. Io
        /\ left' \in Nat
    BY DEF TypeOK, InSession, InIo, Reaching, Connected, Configure, Wait, Register, task,
           restart, view, connection, clocks, packets
  <2>3. {greeted', ack', answered', pong', framing'} \subseteq BOOLEAN
    BY DEF TypeOK, Configure, Wait, Register, task, restart, view, connection, clocks,
           packets
  <2>4. /\ stale' \in BOOLEAN /\ missed' \in BOOLEAN
        /\ waker' \in {"none", "registered", "woken"}
        /\ shown' \in {"Disabled", "Disconnected", "Connecting", "Connected"}
        /\ error' \in Errors \cup {NoError}
    BY DEF TypeOK, Errors, Configure, Wait, Register, task, restart, view, connection,
           clocks, packets
  <2>5. /\ keep' \in Nat /\ age' \in Nat /\ silence' \in Nat
        /\ marked' \in {"new", "waiting", "taken", "published", "lost"}
    BY DEF TypeOK, Configure, Wait, Register, task, restart, view, connection, clocks,
           packets
  <2> QED
    BY <2>1, <2>2, <2>3, <2>4, <2>5 DEF TypeOK
<1>2. WakesForRestart'
  BY DEF TypeOK, WakesForRestart, InSession, InIo, Reaching, Connected, Configure, Wait,
         Register, task, restart, view, connection, clocks, packets
<1>3. ShownIsTrue'
  BY DEF TypeOK, ShownIsTrue, InSession, InIo, Reaching, Connected, WakesForRestart,
         AnswersInOrder, Errors, Configure, Wait, Register, task, restart, view, connection,
         clocks, packets
<1>4. AnswersInOrder'
  BY DEF AnswersInOrder, InSession, InIo, Reaching, Connected, FramesAreWhole, Configure,
         Wait, Register, task, restart, view, connection, clocks, packets
<1>5. InTime'
  BY DEF TypeOK, InTime, InSession, InIo, Reaching, Connected, Configure, Wait, Register,
         task, restart, view, connection, clocks, packets
<1>6. OneMarked'
  BY DEF OneMarked, TakenIsWritten, Configure, Wait, Register, task, restart, view,
         connection, clocks, packets
<1> QED
  BY <1>1, <1>2, <1>3, <1>4, <1>5, <1>6

LEMMA RetryKeepsInv ==
  ASSUME MqttInv, Retry PROVE MqttInv'
<1>. USE MqttAssumption DEF MqttInv
<1>1. TypeOK'
  BY DEF TypeOK, InSession, InIo, Reaching, Connected, Errors, Retry, task, restart, view,
         connection, clocks, packets
<1>2. WakesForRestart'
  BY DEF TypeOK, WakesForRestart, InSession, InIo, Reaching, Connected, Retry, task,
         restart, view, connection, clocks, packets
<1>3. ShownIsTrue'
  BY DEF TypeOK, ShownIsTrue, InSession, InIo, Reaching, Connected, WakesForRestart,
         AnswersInOrder, Errors, Retry, task, restart, view, connection, clocks, packets
<1>4. AnswersInOrder'
  BY DEF AnswersInOrder, InSession, InIo, Reaching, Connected, FramesAreWhole, Retry, task,
         restart, view, connection, clocks, packets
<1>5. InTime'
  BY DEF TypeOK, InTime, InSession, InIo, Reaching, Connected, Retry, task, restart, view,
         connection, clocks, packets
<1>6. OneMarked'
  BY DEF OneMarked, TakenIsWritten, Retry, task, restart, view, connection, clocks, packets
<1> QED
  BY <1>1, <1>2, <1>3, <1>4, <1>5, <1>6

LEMMA OpenedKeepsInv ==
  ASSUME MqttInv, Opened PROVE MqttInv'
<1>. USE MqttAssumption DEF MqttInv
<1>1. TypeOK'
  BY DEF TypeOK, InSession, InIo, Reaching, Connected, Errors, Opened, task, restart, view,
         connection, clocks, packets
<1>2. WakesForRestart'
  BY DEF TypeOK, WakesForRestart, InSession, InIo, Reaching, Connected, Opened, task,
         restart, view, connection, clocks, packets
<1>3. ShownIsTrue'
  BY DEF TypeOK, ShownIsTrue, InSession, InIo, Reaching, Connected, WakesForRestart,
         AnswersInOrder, Errors, Opened, task, restart, view, connection, clocks, packets
<1>4. AnswersInOrder'
  BY DEF AnswersInOrder, InSession, InIo, Reaching, Connected, FramesAreWhole, Opened, task,
         restart, view, connection, clocks, packets
<1>5. InTime'
  BY DEF TypeOK, InTime, InSession, InIo, Reaching, Connected, Opened, task, restart, view,
         connection, clocks, packets
<1>6. OneMarked'
  BY DEF OneMarked, TakenIsWritten, Opened, task, restart, view, connection, clocks, packets
<1> QED
  BY <1>1, <1>2, <1>3, <1>4, <1>5, <1>6

LEMMA ConnectKeepsInv ==
  ASSUME MqttInv, Connect PROVE MqttInv'
<1>. USE MqttAssumption DEF MqttInv
<1>1. TypeOK'
  BY DEF TypeOK, InSession, InIo, Reaching, Connected, Errors, Connect, Begin, Register,
         task, restart, view, connection, clocks, packets
<1>2. WakesForRestart'
  BY DEF TypeOK, WakesForRestart, InSession, InIo, Reaching, Connected, Connect, Begin,
         Register, task, restart, view, connection, clocks, packets
<1>3. ShownIsTrue'
  BY DEF TypeOK, ShownIsTrue, InSession, InIo, Reaching, Connected, WakesForRestart,
         AnswersInOrder, Errors, Connect, Begin, Register, task, restart, view, connection,
         clocks, packets
<1>4. AnswersInOrder'
  BY DEF AnswersInOrder, InSession, InIo, Reaching, Connected, FramesAreWhole, Connect,
         Begin, Register, task, restart, view, connection, clocks, packets
<1>5. InTime'
  BY DEF TypeOK, InTime, InSession, InIo, Reaching, Connected, Connect, Begin, Register,
         task, restart, view, connection, clocks, packets
<1>6. OneMarked'
  BY DEF OneMarked, TakenIsWritten, Connect, Begin, Register, task, restart, view,
         connection, clocks, packets
<1> QED
  BY <1>1, <1>2, <1>3, <1>4, <1>5, <1>6

LEMMA AcknowledgedKeepsInv ==
  ASSUME MqttInv, Acknowledged PROVE MqttInv'
<1>. USE MqttAssumption DEF MqttInv
<1>1. TypeOK'
  BY DEF TypeOK, InSession, InIo, Reaching, Connected, Errors, Acknowledged, Receives, task,
         restart, view, connection, clocks, packets
<1>2. WakesForRestart'
  BY DEF TypeOK, WakesForRestart, InSession, InIo, Reaching, Connected, Acknowledged,
         Receives, task, restart, view, connection, clocks, packets
<1>3. ShownIsTrue'
  BY DEF TypeOK, ShownIsTrue, InSession, InIo, Reaching, Connected, WakesForRestart,
         AnswersInOrder, Errors, Acknowledged, Receives, task, restart, view, connection,
         clocks, packets
<1>4. AnswersInOrder'
  BY DEF AnswersInOrder, InSession, InIo, Reaching, Connected, FramesAreWhole, Acknowledged,
         Receives, task, restart, view, connection, clocks, packets
<1>5. InTime'
  BY DEF TypeOK, InTime, InSession, InIo, Reaching, Connected, Acknowledged, Receives, task,
         restart, view, connection, clocks, packets
<1>6. OneMarked'
  BY DEF OneMarked, TakenIsWritten, Acknowledged, Receives, task, restart, view, connection,
         clocks, packets
<1> QED
  BY <1>1, <1>2, <1>3, <1>4, <1>5, <1>6

LEMMA PingFrameKeepsInv ==
  ASSUME MqttInv, PingFrame PROVE MqttInv'
<1>. USE MqttAssumption DEF MqttInv
<1>1. TypeOK'
  BY DEF TypeOK, InSession, InIo, Reaching, Connected, Errors, PingFrame, Receives, task,
         restart, view, connection, clocks, packets
<1>2. WakesForRestart'
  BY DEF TypeOK, WakesForRestart, InSession, InIo, Reaching, Connected, PingFrame, Receives,
         task, restart, view, connection, clocks, packets
<1>3. ShownIsTrue'
  BY DEF TypeOK, ShownIsTrue, InSession, InIo, Reaching, Connected, WakesForRestart,
         AnswersInOrder, Errors, PingFrame, Receives, task, restart, view, connection,
         clocks, packets
<1>4. AnswersInOrder'
  BY DEF AnswersInOrder, InSession, InIo, Reaching, Connected, FramesAreWhole, PingFrame,
         Receives, task, restart, view, connection, clocks, packets
<1>5. InTime'
  BY DEF TypeOK, InTime, InSession, InIo, Reaching, Connected, PingFrame, Receives, task,
         restart, view, connection, clocks, packets
<1>6. OneMarked'
  BY DEF OneMarked, TakenIsWritten, PingFrame, Receives, task, restart, view, connection,
         clocks, packets
<1> QED
  BY <1>1, <1>2, <1>3, <1>4, <1>5, <1>6

LEMMA DeadlineKeepsInv ==
  ASSUME MqttInv, Deadline PROVE MqttInv'
<1>. USE MqttAssumption DEF MqttInv
<1>1. TypeOK'
  <2>1. /\ config' \in Hosts /\ host' \in Hosts
        /\ channel' \in Seq({"plain", "marked"}) /\ Len(channel') <= ChannelSize
    BY DEF TypeOK, Deadline, Selecting, Due, StatusDue, Begin, task, restart, view,
           connection, clocks, packets
  <2>2. /\ pc' \in {"off", "dropped", "starting", "configuring", "retrying"} \cup InSession
        /\ op' \in {"none", "connect", "pong", "packet", "status", "ping"}
        /\ pc' \in InIo => left' \in 0 .. Io
        /\ left' \in Nat
    BY DEF TypeOK, InSession, InIo, Reaching, Connected, Deadline, Selecting, Due,
           StatusDue, Begin, task, restart, view, connection, clocks, packets
  <2>3. {greeted', ack', answered', pong', framing'} \subseteq BOOLEAN
    BY DEF TypeOK, Deadline, Selecting, Due, StatusDue, Begin, task, restart, view,
           connection, clocks, packets
  <2>4. /\ stale' \in BOOLEAN /\ missed' \in BOOLEAN
        /\ waker' \in {"none", "registered", "woken"}
        /\ shown' \in {"Disabled", "Disconnected", "Connecting", "Connected"}
        /\ error' \in Errors \cup {NoError}
    BY DEF TypeOK, Errors, Deadline, Selecting, Due, StatusDue, Begin, task, restart, view,
           connection, clocks, packets
  <2>5. /\ keep' \in Nat /\ age' \in Nat /\ silence' \in Nat
        /\ marked' \in {"new", "waiting", "taken", "published", "lost"}
    BY DEF TypeOK, Deadline, Selecting, Due, StatusDue, Begin, task, restart, view,
           connection, clocks, packets
  <2> QED
    BY <2>1, <2>2, <2>3, <2>4, <2>5 DEF TypeOK
<1>2. WakesForRestart'
  BY DEF TypeOK, WakesForRestart, InSession, InIo, Reaching, Connected, Deadline, Selecting,
         Due, StatusDue, Begin, task, restart, view, connection, clocks, packets
<1>3. ShownIsTrue'
  BY DEF TypeOK, ShownIsTrue, InSession, InIo, Reaching, Connected, WakesForRestart,
         AnswersInOrder, Errors, Deadline, Selecting, Due, StatusDue, Begin, task, restart,
         view, connection, clocks, packets
<1>4. AnswersInOrder'
  BY DEF AnswersInOrder, InSession, InIo, Reaching, Connected, FramesAreWhole, Deadline,
         Selecting, Due, StatusDue, Begin, task, restart, view, connection, clocks, packets
<1>5. InTime'
  BY DEF TypeOK, InTime, InSession, InIo, Reaching, Connected, Deadline, Selecting, Due,
         StatusDue, Begin, task, restart, view, connection, clocks, packets
<1>6. OneMarked'
  BY DEF OneMarked, TakenIsWritten, Deadline, Selecting, Due, StatusDue, Begin, task,
         restart, view, connection, clocks, packets
<1> QED
  BY <1>1, <1>2, <1>3, <1>4, <1>5, <1>6

LEMMA ControlKeepsInv ==
  ASSUME MqttInv, Control PROVE MqttInv'
<1>. USE MqttAssumption DEF MqttInv
<1>1. TypeOK'
  <2>1. /\ config' \in Hosts /\ host' \in Hosts
        /\ channel' \in Seq({"plain", "marked"}) /\ Len(channel') <= ChannelSize
    BY DEF TypeOK, Control, Selecting, Due, StatusDue, Begin, task, restart, view,
           connection, clocks, packets
  <2>2. /\ pc' \in {"off", "dropped", "starting", "configuring", "retrying"} \cup InSession
        /\ op' \in {"none", "connect", "pong", "packet", "status", "ping"}
        /\ pc' \in InIo => left' \in 0 .. Io
        /\ left' \in Nat
    BY DEF TypeOK, InSession, InIo, Reaching, Connected, Control, Selecting, Due, StatusDue,
           Begin, task, restart, view, connection, clocks, packets
  <2>3. {greeted', ack', answered', pong', framing'} \subseteq BOOLEAN
    BY DEF TypeOK, Control, Selecting, Due, StatusDue, Begin, task, restart, view,
           connection, clocks, packets
  <2>4. /\ stale' \in BOOLEAN /\ missed' \in BOOLEAN
        /\ waker' \in {"none", "registered", "woken"}
        /\ shown' \in {"Disabled", "Disconnected", "Connecting", "Connected"}
        /\ error' \in Errors \cup {NoError}
    BY DEF TypeOK, Errors, Control, Selecting, Due, StatusDue, Begin, task, restart, view,
           connection, clocks, packets
  <2>5. /\ keep' \in Nat /\ age' \in Nat /\ silence' \in Nat
        /\ marked' \in {"new", "waiting", "taken", "published", "lost"}
    BY DEF TypeOK, Control, Selecting, Due, StatusDue, Begin, task, restart, view,
           connection, clocks, packets
  <2> QED
    BY <2>1, <2>2, <2>3, <2>4, <2>5 DEF TypeOK
<1>2. WakesForRestart'
  BY DEF TypeOK, WakesForRestart, InSession, InIo, Reaching, Connected, Control, Selecting,
         Due, StatusDue, Begin, task, restart, view, connection, clocks, packets
<1>3. ShownIsTrue'
  BY DEF TypeOK, ShownIsTrue, InSession, InIo, Reaching, Connected, WakesForRestart,
         AnswersInOrder, Errors, Control, Selecting, Due, StatusDue, Begin, task, restart,
         view, connection, clocks, packets
<1>4. AnswersInOrder'
  BY DEF AnswersInOrder, InSession, InIo, Reaching, Connected, FramesAreWhole, Control,
         Selecting, Due, StatusDue, Begin, task, restart, view, connection, clocks, packets
<1>5. InTime'
  BY DEF TypeOK, InTime, InSession, InIo, Reaching, Connected, Control, Selecting, Due,
         StatusDue, Begin, task, restart, view, connection, clocks, packets
<1>6. OneMarked'
  BY DEF OneMarked, TakenIsWritten, Control, Selecting, Due, StatusDue, Begin, task,
         restart, view, connection, clocks, packets
<1> QED
  BY <1>1, <1>2, <1>3, <1>4, <1>5, <1>6

LEMMA EventKeepsInv ==
  ASSUME MqttInv, Event PROVE MqttInv'
<1>. USE MqttAssumption DEF MqttInv
<1>1. TypeOK'
  BY DEF TypeOK, InSession, InIo, Reaching, Connected, Errors, Event, Selecting, Due,
         StatusDue, Taken, Begin, task, restart, view, connection, clocks, packets
<1>2. WakesForRestart'
  BY DEF TypeOK, WakesForRestart, InSession, InIo, Reaching, Connected, Event, Selecting,
         Due, StatusDue, Taken, Begin, task, restart, view, connection, clocks, packets
<1>3. ShownIsTrue'
  BY DEF TypeOK, ShownIsTrue, InSession, InIo, Reaching, Connected, WakesForRestart,
         AnswersInOrder, Errors, Event, Selecting, Due, StatusDue, Taken, Begin, task,
         restart, view, connection, clocks, packets
<1>4. AnswersInOrder'
  BY DEF AnswersInOrder, InSession, InIo, Reaching, Connected, FramesAreWhole, Event,
         Selecting, Due, StatusDue, Taken, Begin, task, restart, view, connection, clocks,
         packets
<1>5. InTime'
  BY DEF TypeOK, InTime, InSession, InIo, Reaching, Connected, Event, Selecting, Due,
         StatusDue, Taken, Begin, task, restart, view, connection, clocks, packets
<1>6. OneMarked'
  <2>1. /\ channel \in Seq({"plain", "marked"}) /\ channel # <<>> /\ channel' = Tail(channel)
        /\ marked' = IF Head(channel) = "marked" THEN "taken" ELSE marked
        /\ pc' = "writing" /\ op' = "packet" /\ marked # "taken"
    BY DEF TypeOK, OneMarked, TakenIsWritten, Event, Selecting, Taken, Begin
  <2>2. /\ DOMAIN channel = 1 .. Len(channel) /\ DOMAIN channel' = 1 .. Len(channel) - 1
        /\ Len(channel) \in Nat \ {0} /\ channel[1] = Head(channel)
        /\ \A i \in 1 .. Len(channel) - 1 : channel'[i] = channel[i + 1]
    BY <2>1
  <2>3. /\ marked = "waiting" <=> \E i \in DOMAIN channel : channel[i] = "marked"
        /\ \A i, j \in DOMAIN channel : channel[i] = "marked" /\ channel[j] = "marked" => i = j
    BY DEF OneMarked, TakenIsWritten
  <2>4. \A i, j \in DOMAIN channel' : channel'[i] = "marked" /\ channel'[j] = "marked" => i = j
    BY <2>2, <2>3
  <2>5. (marked' = "waiting") <=> \E i \in DOMAIN channel' : channel'[i] = "marked"
    <3>1. CASE Head(channel) = "marked"
      <4>1. \A i \in DOMAIN channel' : channel'[i] # "marked"
        BY <2>2, <2>3, <3>1
      <4> QED
        BY <2>1, <3>1, <4>1
    <3>2. CASE Head(channel) # "marked"
      <4>1. ASSUME NEW i \in DOMAIN channel, channel[i] = "marked"
            PROVE  \E j \in DOMAIN channel' : channel'[j] = "marked"
        <5>1. i # 1
          BY <2>2, <3>2, <4>1
        <5>2. i - 1 \in DOMAIN channel' /\ channel'[i - 1] = channel[i]
          BY <2>2, <4>1, <5>1
        <5> QED
          BY <4>1, <5>2
      <4>2. ASSUME NEW i \in DOMAIN channel', channel'[i] = "marked"
            PROVE  \E j \in DOMAIN channel : channel[j] = "marked"
        <5>1. i + 1 \in DOMAIN channel /\ channel[i + 1] = "marked"
          BY <2>2, <4>2
        <5> QED
          BY <5>1
      <4> QED
        BY <2>1, <2>3, <3>2, <4>1, <4>2
    <3> QED
      BY <3>1, <3>2
  <2> QED
    BY <2>1, <2>4, <2>5 DEF OneMarked, TakenIsWritten
<1> QED
  BY <1>1, <1>2, <1>3, <1>4, <1>5, <1>6

LEMMA WrittenKeepsInv ==
  ASSUME MqttInv, Written PROVE MqttInv'
<1>. USE MqttAssumption DEF MqttInv
<1>1. TypeOK'
  <2>1. /\ config' \in Hosts /\ host' \in Hosts
        /\ channel' \in Seq({"plain", "marked"}) /\ Len(channel') <= ChannelSize
    BY DEF TypeOK, Written, task, restart, view, connection, clocks, packets
  <2>2. /\ pc' \in {"off", "dropped", "starting", "configuring", "retrying"} \cup InSession
        /\ op' \in {"none", "connect", "pong", "packet", "status", "ping"}
        /\ pc' \in InIo => left' \in 0 .. Io
        /\ left' \in Nat
    BY DEF TypeOK, InSession, InIo, Reaching, Connected, Written, task, restart, view,
           connection, clocks, packets
  <2>3. {greeted', ack', answered', pong', framing'} \subseteq BOOLEAN
    BY DEF TypeOK, Written, task, restart, view, connection, clocks, packets
  <2>4. /\ stale' \in BOOLEAN /\ missed' \in BOOLEAN
        /\ waker' \in {"none", "registered", "woken"}
        /\ shown' \in {"Disabled", "Disconnected", "Connecting", "Connected"}
        /\ error' \in Errors \cup {NoError}
    BY DEF TypeOK, Errors, Written, task, restart, view, connection, clocks, packets
  <2>5. /\ keep' \in Nat /\ age' \in Nat /\ silence' \in Nat
        /\ marked' \in {"new", "waiting", "taken", "published", "lost"}
    BY DEF TypeOK, Written, task, restart, view, connection, clocks, packets
  <2> QED
    BY <2>1, <2>2, <2>3, <2>4, <2>5 DEF TypeOK
<1>2. WakesForRestart'
  BY DEF TypeOK, WakesForRestart, InSession, InIo, Reaching, Connected, Written, task,
         restart, view, connection, clocks, packets
<1>3. ShownIsTrue'
  BY DEF TypeOK, ShownIsTrue, InSession, InIo, Reaching, Connected, WakesForRestart,
         AnswersInOrder, Errors, Written, task, restart, view, connection, clocks, packets
<1>4. AnswersInOrder'
  BY DEF TypeOK, InTime, AnswersInOrder, Connected, FramesAreWhole, Written, task, restart, view,
         connection, clocks, packets
<1>5. InTime'
  BY DEF TypeOK, InTime, InSession, InIo, Reaching, Connected, Written, task, restart, view,
         connection, clocks, packets
<1>6. OneMarked'
  BY DEF OneMarked, TakenIsWritten, Written, task, restart, view, connection, clocks,
         packets
<1> QED
  BY <1>1, <1>2, <1>3, <1>4, <1>5, <1>6

LEMMA AnswerKeepsInv ==
  ASSUME MqttInv, Answer PROVE MqttInv'
<1>. USE MqttAssumption DEF MqttInv
<1>1. TypeOK'
  <2>1. /\ config' \in Hosts /\ host' \in Hosts
        /\ channel' \in Seq({"plain", "marked"}) /\ Len(channel') <= ChannelSize
    BY DEF TypeOK, Answer, task, restart, view, connection, clocks, packets
  <2>2. /\ pc' \in {"off", "dropped", "starting", "configuring", "retrying"} \cup InSession
        /\ op' \in {"none", "connect", "pong", "packet", "status", "ping"}
        /\ pc' \in InIo => left' \in 0 .. Io
        /\ left' \in Nat
    BY DEF TypeOK, InSession, InIo, Reaching, Connected, Answer, task, restart, view,
           connection, clocks, packets
  <2>3. {greeted', ack', answered', pong', framing'} \subseteq BOOLEAN
    BY DEF TypeOK, Answer, task, restart, view, connection, clocks, packets
  <2>4. /\ stale' \in BOOLEAN /\ missed' \in BOOLEAN
        /\ waker' \in {"none", "registered", "woken"}
        /\ shown' \in {"Disabled", "Disconnected", "Connecting", "Connected"}
        /\ error' \in Errors \cup {NoError}
    BY DEF TypeOK, Errors, Answer, task, restart, view, connection, clocks, packets
  <2>5. /\ keep' \in Nat /\ age' \in Nat /\ silence' \in Nat
        /\ marked' \in {"new", "waiting", "taken", "published", "lost"}
    BY DEF TypeOK, Answer, task, restart, view, connection, clocks, packets
  <2> QED
    BY <2>1, <2>2, <2>3, <2>4, <2>5 DEF TypeOK
<1>2. WakesForRestart'
  BY DEF TypeOK, WakesForRestart, InSession, InIo, Reaching, Connected, Answer, task,
         restart, view, connection, clocks, packets
<1>3. ShownIsTrue'
  BY DEF TypeOK, ShownIsTrue, InSession, InIo, Reaching, Connected, WakesForRestart,
         AnswersInOrder, Errors, Answer, task, restart, view, connection, clocks, packets
<1>4. AnswersInOrder'
  BY DEF AnswersInOrder, InSession, InIo, Reaching, Connected, FramesAreWhole, Answer, task,
         restart, view, connection, clocks, packets
<1>5. InTime'
  BY DEF TypeOK, InTime, InSession, InIo, Reaching, Connected, Answer, task, restart, view,
         connection, clocks, packets
<1>6. OneMarked'
  BY DEF OneMarked, TakenIsWritten, Answer, task, restart, view, connection, clocks, packets
<1> QED
  BY <1>1, <1>2, <1>3, <1>4, <1>5, <1>6

LEMMA AnswerWrittenKeepsInv ==
  ASSUME MqttInv, AnswerWritten PROVE MqttInv'
<1>. USE MqttAssumption DEF MqttInv
<1>1. TypeOK'
  <2>1. /\ config' \in Hosts /\ host' \in Hosts
        /\ channel' \in Seq({"plain", "marked"}) /\ Len(channel') <= ChannelSize
    BY DEF TypeOK, AnswerWritten, task, restart, view, connection, clocks, packets
  <2>2. /\ pc' \in {"off", "dropped", "starting", "configuring", "retrying"} \cup InSession
        /\ op' \in {"none", "connect", "pong", "packet", "status", "ping"}
        /\ pc' \in InIo => left' \in 0 .. Io
        /\ left' \in Nat
    BY DEF TypeOK, InSession, InIo, Reaching, Connected, AnswerWritten, task, restart, view,
           connection, clocks, packets
  <2>3. {greeted', ack', answered', pong', framing'} \subseteq BOOLEAN
    BY DEF TypeOK, AnswerWritten, task, restart, view, connection, clocks, packets
  <2>4. /\ stale' \in BOOLEAN /\ missed' \in BOOLEAN
        /\ waker' \in {"none", "registered", "woken"}
        /\ shown' \in {"Disabled", "Disconnected", "Connecting", "Connected"}
        /\ error' \in Errors \cup {NoError}
    BY DEF TypeOK, Errors, AnswerWritten, task, restart, view, connection, clocks, packets
  <2>5. /\ keep' \in Nat /\ age' \in Nat /\ silence' \in Nat
        /\ marked' \in {"new", "waiting", "taken", "published", "lost"}
    BY DEF TypeOK, AnswerWritten, task, restart, view, connection, clocks, packets
  <2> QED
    BY <2>1, <2>2, <2>3, <2>4, <2>5 DEF TypeOK
<1>2. WakesForRestart'
  BY DEF TypeOK, WakesForRestart, InSession, InIo, Reaching, Connected, AnswerWritten, task,
         restart, view, connection, clocks, packets
<1>3. ShownIsTrue'
  BY DEF TypeOK, ShownIsTrue, InSession, InIo, Reaching, Connected, WakesForRestart,
         AnswersInOrder, Errors, AnswerWritten, task, restart, view, connection, clocks,
         packets
<1>4. AnswersInOrder'
  BY DEF AnswersInOrder, InSession, InIo, Reaching, Connected, FramesAreWhole,
         AnswerWritten, task, restart, view, connection, clocks, packets
<1>5. InTime'
  BY DEF TypeOK, InTime, InSession, InIo, Reaching, Connected, AnswerWritten, task, restart,
         view, connection, clocks, packets
<1>6. OneMarked'
  BY DEF OneMarked, TakenIsWritten, AnswerWritten, task, restart, view, connection, clocks,
         packets
<1> QED
  BY <1>1, <1>2, <1>3, <1>4, <1>5, <1>6

LEMMA TakeAckKeepsInv ==
  ASSUME MqttInv, TakeAck PROVE MqttInv'
<1>. USE MqttAssumption DEF MqttInv
<1>1. TypeOK'
  <2>1. /\ config' \in Hosts /\ host' \in Hosts
        /\ channel' \in Seq({"plain", "marked"}) /\ Len(channel') <= ChannelSize
    BY DEF TypeOK, TakeAck, task, restart, view, connection, clocks, packets
  <2>2. /\ pc' \in {"off", "dropped", "starting", "configuring", "retrying"} \cup InSession
        /\ op' \in {"none", "connect", "pong", "packet", "status", "ping"}
        /\ pc' \in InIo => left' \in 0 .. Io
        /\ left' \in Nat
    BY DEF TypeOK, InSession, InIo, Reaching, Connected, TakeAck, task, restart, view,
           connection, clocks, packets
  <2>3. {greeted', ack', answered', pong', framing'} \subseteq BOOLEAN
    BY DEF TypeOK, TakeAck, task, restart, view, connection, clocks, packets
  <2>4. /\ stale' \in BOOLEAN /\ missed' \in BOOLEAN
        /\ waker' \in {"none", "registered", "woken"}
        /\ shown' \in {"Disabled", "Disconnected", "Connecting", "Connected"}
        /\ error' \in Errors \cup {NoError}
    BY DEF TypeOK, Errors, TakeAck, task, restart, view, connection, clocks, packets
  <2>5. /\ keep' \in Nat /\ age' \in Nat /\ silence' \in Nat
        /\ marked' \in {"new", "waiting", "taken", "published", "lost"}
    BY DEF TypeOK, TakeAck, task, restart, view, connection, clocks, packets
  <2> QED
    BY <2>1, <2>2, <2>3, <2>4, <2>5 DEF TypeOK
<1>2. WakesForRestart'
  BY DEF TypeOK, WakesForRestart, InSession, InIo, Reaching, Connected, TakeAck, task,
         restart, view, connection, clocks, packets
<1>3. ShownIsTrue'
  BY DEF TypeOK, ShownIsTrue, InSession, InIo, Reaching, Connected, WakesForRestart,
         AnswersInOrder, Errors, TakeAck, task, restart, view, connection, clocks, packets
<1>4. AnswersInOrder'
  BY DEF AnswersInOrder, InSession, InIo, Reaching, Connected, FramesAreWhole, TakeAck,
         task, restart, view, connection, clocks, packets
<1>5. InTime'
  BY DEF TypeOK, InTime, InSession, InIo, Reaching, Connected, TakeAck, task, restart, view,
         connection, clocks, packets
<1>6. OneMarked'
  BY DEF OneMarked, TakenIsWritten, TakeAck, task, restart, view, connection, clocks,
         packets
<1> QED
  BY <1>1, <1>2, <1>3, <1>4, <1>5, <1>6

LEMMA WifiLostKeepsInv ==
  ASSUME MqttInv, WifiLost PROVE MqttInv'
<1>. USE MqttAssumption DEF MqttInv
<1>1. TypeOK'
  BY DEF TypeOK, InSession, InIo, Reaching, Connected, Errors, WifiLost, NoConnection, Lose,
         task, restart, view, connection, clocks, packets
<1>2. WakesForRestart'
  BY DEF TypeOK, WakesForRestart, InSession, InIo, Reaching, Connected, WifiLost,
         NoConnection, Lose, task, restart, view, connection, clocks, packets
<1>3. ShownIsTrue'
  BY DEF TypeOK, ShownIsTrue, InSession, InIo, Reaching, Connected, WakesForRestart,
         AnswersInOrder, Errors, WifiLost, NoConnection, Lose, task, restart, view,
         connection, clocks, packets
<1>4. AnswersInOrder'
  BY DEF AnswersInOrder, InSession, InIo, Reaching, Connected, FramesAreWhole, WifiLost,
         NoConnection, Lose, task, restart, view, connection, clocks, packets
<1>5. InTime'
  BY DEF TypeOK, InTime, InSession, InIo, Reaching, Connected, WifiLost, NoConnection, Lose,
         task, restart, view, connection, clocks, packets
<1>6. OneMarked'
  BY DEF OneMarked, TakenIsWritten, WifiLost, NoConnection, Lose, task, restart, view,
         connection, clocks, packets
<1> QED
  BY <1>1, <1>2, <1>3, <1>4, <1>5, <1>6

LEMMA MarkDisconnectedKeepsInv ==
  ASSUME MqttInv, MarkDisconnected PROVE MqttInv'
<1>. USE MqttAssumption DEF MqttInv
<1>1. TypeOK'
  BY DEF TypeOK, InSession, InIo, Reaching, Connected, Errors, MarkDisconnected, task,
         restart, view, connection, clocks, packets
<1>2. WakesForRestart'
  BY DEF TypeOK, WakesForRestart, InSession, InIo, Reaching, Connected, MarkDisconnected,
         task, restart, view, connection, clocks, packets
<1>3. ShownIsTrue'
  BY DEF TypeOK, ShownIsTrue, InSession, InIo, Reaching, Connected, WakesForRestart,
         AnswersInOrder, Errors, MarkDisconnected, task, restart, view, connection, clocks,
         packets
<1>4. AnswersInOrder'
  BY DEF AnswersInOrder, InSession, InIo, Reaching, Connected, FramesAreWhole,
         MarkDisconnected, task, restart, view, connection, clocks, packets
<1>5. InTime'
  BY DEF TypeOK, InTime, InSession, InIo, Reaching, Connected, MarkDisconnected, task,
         restart, view, connection, clocks, packets
<1>6. OneMarked'
  BY DEF OneMarked, TakenIsWritten, MarkDisconnected, task, restart, view, connection,
         clocks, packets
<1> QED
  BY <1>1, <1>2, <1>3, <1>4, <1>5, <1>6

LEMMA WifiUpKeepsInv ==
  ASSUME MqttInv, WifiUp PROVE MqttInv'
<1>. USE MqttAssumption DEF MqttInv
<1>1. TypeOK'
  BY DEF TypeOK, InSession, InIo, Reaching, Connected, Errors, WifiUp, task, restart, view,
         connection, clocks, packets
<1>2. WakesForRestart'
  BY DEF TypeOK, WakesForRestart, InSession, InIo, Reaching, Connected, WifiUp, task,
         restart, view, connection, clocks, packets
<1>3. ShownIsTrue'
  BY DEF TypeOK, ShownIsTrue, InSession, InIo, Reaching, Connected, WakesForRestart,
         AnswersInOrder, Errors, WifiUp, task, restart, view, connection, clocks, packets
<1>4. AnswersInOrder'
  BY DEF AnswersInOrder, InSession, InIo, Reaching, Connected, FramesAreWhole, WifiUp, task,
         restart, view, connection, clocks, packets
<1>5. InTime'
  BY DEF TypeOK, InTime, InSession, InIo, Reaching, Connected, WifiUp, task, restart, view,
         connection, clocks, packets
<1>6. OneMarked'
  BY DEF OneMarked, TakenIsWritten, WifiUp, task, restart, view, connection, clocks, packets
<1> QED
  BY <1>1, <1>2, <1>3, <1>4, <1>5, <1>6

LEMMA TickKeepsInv ==
  ASSUME MqttInv, Tick PROVE MqttInv'
<1>. USE MqttAssumption DEF MqttInv
<1>1. TypeOK'
  BY DEF TypeOK, InSession, InIo, Reaching, Connected, Errors, Tick, Idle, Roused,
         Selecting, Due, StatusDue, task, restart, view, connection, clocks, packets
<1>2. WakesForRestart'
  BY DEF TypeOK, WakesForRestart, InSession, InIo, Reaching, Connected, Tick, Idle, Roused,
         Selecting, Due, StatusDue, task, restart, view, connection, clocks, packets
<1>3. ShownIsTrue'
  BY DEF TypeOK, ShownIsTrue, InSession, InIo, Reaching, Connected, WakesForRestart,
         AnswersInOrder, Errors, Tick, Idle, Roused, Selecting, Due, StatusDue, task,
         restart, view, connection, clocks, packets
<1>4. AnswersInOrder'
  BY DEF AnswersInOrder, InSession, InIo, Reaching, Connected, FramesAreWhole, Tick, Idle,
         Roused, Selecting, Due, StatusDue, task, restart, view, connection, clocks, packets
<1>5. InTime'
  BY DEF TypeOK, InTime, InSession, InIo, Reaching, Connected, Tick, Idle, Roused,
         Selecting, Due, StatusDue, task, restart, view, connection, clocks, packets
<1>6. OneMarked'
  BY DEF OneMarked, TakenIsWritten, Tick, Idle, Roused, Selecting, Due, StatusDue, task,
         restart, view, connection, clocks, packets
<1> QED
  BY <1>1, <1>2, <1>3, <1>4, <1>5, <1>6

LEMMA MqttStart == Init => MqttInv
<1>. SUFFICES ASSUME Init PROVE MqttInv
  OBVIOUS
<1>. USE MqttAssumption DEF Init
<1>1. TypeOK
  <2>1. /\ config \in Hosts /\ host \in Hosts /\ left \in Nat /\ pc \notin InIo
        /\ channel \in Seq({"plain", "marked"}) /\ Len(channel) <= ChannelSize
        /\ keep \in Nat /\ age \in Nat /\ silence \in Nat
    BY DEF InIo, Connected, Reaching
  <2>2. {greeted, ack, answered, pong, framing} \subseteq BOOLEAN
    OBVIOUS
  <2> QED
    BY <2>1, <2>2 DEF TypeOK
<1>2. WakesForRestart /\ ShownIsTrue /\ AnswersInOrder
  BY DEF WakesForRestart, ShownIsTrue, AnswersInOrder, FramesAreWhole, InSession, Reaching,
         Connected
<1>3. InTime /\ OneMarked
  BY DEF InTime, OneMarked, TakenIsWritten, Connected
<1> QED
  BY <1>1, <1>2, <1>3 DEF MqttInv

\* However a session ends, it is with one of the errors.
LEMMA EndingsEndSession ==
  ASSUME NoCredentials \/ Fail \/ TimeOut \/ SeeRestart \/ Refused
  PROVE  \E failure \in Errors : pc \in InSession /\ EndSession(failure)
<1>1. CASE NoCredentials
  BY <1>1 DEF NoCredentials, Errors, InSession
<1>2. CASE Fail \/ TimeOut
  <2>1. pc \in InIo /\ \E failure \in Failure : EndSession(failure)
    BY <1>2 DEF TimeOut, Fail
  <2>2. Failure \subseteq Errors /\ pc \in InSession
    BY <2>1 DEF Failure, Errors, InIo, InSession
  <2> QED
    BY <2>1, <2>2
<1>3. CASE SeeRestart
  BY <1>3 DEF SeeRestart, Errors, InIo, InSession, Connected
<1>4. CASE Refused
  BY <1>4 DEF Refused, Receives, Errors, InSession
<1> QED
  BY <1>1, <1>2, <1>3, <1>4

LEMMA MqttStep == MqttInv /\ [Next]_vars => MqttInv'
<1>. SUFFICES ASSUME MqttInv, [Next]_vars PROVE MqttInv'
  OBVIOUS
<1>1. CASE NoCredentials \/ Fail \/ TimeOut \/ SeeRestart \/ Refused
  BY <1>1, EndingsEndSession, EndSessionKeepsInv
<1>2. CASE SetHost \/ RequestRestart \/ ReportPacket
  BY <1>2, SetHostKeepsInv, RequestRestartKeepsInv, ReportPacketKeepsInv
<1>3. CASE ReadGeneration \/ Configure \/ Retry
  BY <1>3, ReadGenerationKeepsInv, ConfigureKeepsInv, RetryKeepsInv
<1>4. CASE Opened \/ Connect
  BY <1>4, OpenedKeepsInv, ConnectKeepsInv
<1>5. CASE Acknowledged \/ PingFrame
  BY <1>5, AcknowledgedKeepsInv, PingFrameKeepsInv
<1>6. CASE Deadline \/ Control \/ Event
  BY <1>6, DeadlineKeepsInv, ControlKeepsInv, EventKeepsInv
<1>7. CASE Written \/ Answer \/ AnswerWritten \/ TakeAck
  BY <1>7, WrittenKeepsInv, AnswerKeepsInv, AnswerWrittenKeepsInv, TakeAckKeepsInv
<1>8. CASE WifiLost \/ MarkDisconnected \/ WifiUp
  BY <1>8, WifiLostKeepsInv, MarkDisconnectedKeepsInv, WifiUpKeepsInv
<1>9. CASE Tick
  BY <1>9, TickKeepsInv
<1>10. CASE UNCHANGED vars
  <2>. USE <1>10 DEF vars, task, restart, view, connection, clocks, packets
  <2>1. TypeOK' /\ WakesForRestart' /\ ShownIsTrue'
    BY DEF MqttInv, TypeOK, WakesForRestart, ShownIsTrue
  <2>2. AnswersInOrder' /\ InTime' /\ OneMarked'
    BY DEF MqttInv, AnswersInOrder, FramesAreWhole, InTime, OneMarked, TakenIsWritten
  <2> QED
    BY <2>1, <2>2 DEF MqttInv
<1> QED
  BY <1>1, <1>2, <1>3, <1>4, <1>5, <1>6, <1>7, <1>8, <1>9, <1>10 DEF Next, Task

\* MqttInv is an invariant of a broker's task.
THEOREM MqttInvariant == Spec => []MqttInv
<1> QED
  BY MqttStart, MqttStep, PTL DEF Spec

\* The variables have their types: the channel never overflows.
THEOREM MqttTypes == Spec => []TypeOK
<1>1. MqttInv => TypeOK
  BY DEF MqttInv
<1> QED
  BY <1>1, MqttInvariant, PTL

\* No restart is lost between the reading of the generation and the waker's
\* registration, or between two waits.
THEOREM RestartsReachTask == Spec => []RestartTakesEffect
<1>1. MqttInv => RestartTakesEffect
  BY DEF MqttInv, WakesForRestart, RestartTakesEffect, TypeOK
<1> QED
  BY <1>1, MqttInvariant, PTL

\* What `mqtt status` shows is true of the connection.
THEOREM StatusIsTrue == Spec => []ShownIsTrue
<1>1. MqttInv => ShownIsTrue
  BY DEF MqttInv
<1> QED
  BY <1>1, MqttInvariant, PTL

\* No frame follows a part of another.
THEOREM FramesStayWhole == Spec => []FramesAreWhole
<1>1. MqttInv => FramesAreWhole
  BY DEF MqttInv, AnswersInOrder
<1> QED
  BY <1>1, MqttInvariant, PTL

\* A ping's wait is ended by its own answer, or a later one.
THEOREM AcksStayFresh == Spec => []AcksAreFresh
<1>1. MqttInv => AcksAreFresh
  BY DEF MqttInv, AnswersInOrder, AcksAreFresh
<1> QED
  BY <1>1, MqttInvariant, PTL

\* For every keepalive and time limit: no silence is longer than the keepalive and
\* the time of three operations.
THEOREM SilenceIsBounded == Spec => []SilenceBounded
<1>1. ASSUME MqttInv PROVE SilenceBounded
  <2>1. InTime /\ TypeOK
    BY <1>1 DEF MqttInv
  <2>2. /\ keep \in Nat /\ silence \in Nat /\ Io \in Nat /\ Keepalive \in Nat
        /\ pc \in InIo => left \in 0 .. Io
    BY <2>1, MqttAssumption DEF TypeOK
  <2>3. CASE pc \notin Connected
    BY <2>1, <2>2, <2>3 DEF InTime, SilenceBounded
  <2>4. CASE pc = "select"
    BY <2>1, <2>2, <2>4 DEF InTime, SilenceBounded
  <2>5. CASE pc = "writing"
    <3>1. left \in 0 .. Io /\ op \in {"connect", "pong", "packet", "status", "ping"}
      BY <2>1, <2>2, <2>5 DEF InTime, TypeOK, InIo, Connected
    <3> QED
      BY <2>1, <2>2, <2>5, <3>1 DEF InTime, SilenceBounded
  <2>6. CASE pc \in {"waiting", "answering"}
    <3>1. left \in 0 .. Io
      BY <2>2, <2>6 DEF InIo, Connected
    <3> QED
      BY <2>1, <2>2, <2>6, <3>1 DEF InTime, SilenceBounded
  <2> QED
    BY <2>3, <2>4, <2>5, <2>6 DEF Connected
<1> QED
  BY <1>1, MqttInvariant, PTL

\* And the status is never older than its interval and the time of two operations.
THEOREM StatusIsFresh == Spec => []StatusStaysFresh
<1>1. ASSUME MqttInv PROVE StatusStaysFresh
  <2>1. InTime /\ TypeOK
    BY <1>1 DEF MqttInv
  <2>2. /\ age \in Nat /\ Io \in Nat /\ StatusInterval \in Nat
        /\ pc \in InIo => left \in 0 .. Io
    BY <2>1, MqttAssumption DEF TypeOK
  <2>3. CASE pc \notin Connected
    BY <2>1, <2>2, <2>3 DEF InTime, StatusStaysFresh
  <2>4. CASE pc = "select"
    BY <2>1, <2>2, <2>4 DEF InTime, StatusStaysFresh
  <2>5. CASE pc = "writing"
    <3>1. left \in 0 .. Io
      BY <2>2, <2>5 DEF InIo, Connected
    <3> QED
      BY <2>1, <2>2, <2>5, <3>1 DEF InTime, StatusStaysFresh
  <2>6. CASE pc \in {"waiting", "answering"}
    <3>1. left \in 0 .. Io
      BY <2>2, <2>6 DEF InIo, Connected
    <3> QED
      BY <2>1, <2>2, <2>6, <3>1 DEF InTime, StatusStaysFresh
  <2> QED
    BY <2>3, <2>4, <2>5, <2>6 DEF Connected
<1> QED
  BY <1>1, MqttInvariant, PTL

\* A packet taken from the channel is being written, and no other is marked.
THEOREM TakenPacketsWritten == Spec => []TakenIsWritten
<1>1. MqttInv => TakenIsWritten
  BY DEF MqttInv, OneMarked
<1> QED
  BY <1>1, MqttInvariant, PTL

\* For every keepalive, interval and time limit, both deadlines are kept.
THEOREM DeadlinesAreKept == Spec => []DeadlinesKept
<1>1. SilenceBounded /\ StatusStaysFresh => DeadlinesKept
  BY DEF DeadlinesKept
<1> QED
  BY <1>1, SilenceIsBounded, StatusIsFresh, PTL
==============================================================================
