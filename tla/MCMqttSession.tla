----------------------------- MODULE MCMqttSession -----------------------------
(* A broker over TCP, one by WebSocket over TLS, and a port 0; a tick is five   *)
(* seconds, and the status due after twelve of them, not 180.                   *)
EXTENDS MqttSession

CONSTANTS plain, secure, unparsed, empty

MCHosts == {plain, secure, unparsed, empty}
==============================================================================
