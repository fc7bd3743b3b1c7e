CONSTANTS
  s1 = s1
  s2 = s2
  s3 = s3
  Signatures <- MCSignatures
  NoSignature = NoSignature
  capacity = 3
  OUTBOUND_MAX_ATTEMPTS = 2
  inbound_queue_len = 2
  CAD_MAX_ATTEMPTS = 2
  ttl_ticks = 2
  max_entries = 2
  DUTY_CYCLE_WINDOW_MS = 1
  Percents <- Unlimited
  PacketLens <- OneLen
  Radios <- OneRadio
  packet_airtime_ms <- OneAirtime
  ForwardDelays <- ShortDelays
  RetryDelays <- OneMs
SPECIFICATION Spec
SYMMETRY MCSymmetry
INVARIANT QueueKept
INVARIANT ReservationsMatchHeld
INVARIANT NoRepeatWhileRemembered
