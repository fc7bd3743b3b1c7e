CONSTANTS
  s1 = s1
  s2 = s2
  s3 = s3
  Signatures <- MCOneSignature
  NoSignature = NoSignature
  capacity = 2
  OUTBOUND_MAX_ATTEMPTS = 2
  inbound_queue_len = 1
  CAD_MAX_ATTEMPTS = 2
  ttl_ticks = 1
  max_entries = 1
  DUTY_CYCLE_WINDOW_MS = 6
  Percents <- AnyDutyCycle
  PacketLens <- OneLen
  Radios <- OneRadio
  packet_airtime_ms <- OneAirtime
  ForwardDelays <- ShortDelays
  RetryDelays <- OneMs
SPECIFICATION FairSpec
INVARIANT WaitCoversQueue
INVARIANT NeverOverdrawn
PROPERTY ReservationsReleased
