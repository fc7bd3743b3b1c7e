-------------------------------- MODULE Uptime --------------------------------
(* Platform::now_millis: the clock the tasks of one device share, in ticks. *)
EXTENDS Integers

VARIABLE now

\* A bound stops the clock.
Passes(bound) == now < bound /\ now' = now + 1
==============================================================================
