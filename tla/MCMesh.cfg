CONSTANTS
  a = a
  b = b
  c = c
  d = d
  home = home
  far = far
  secret = secret
  Default = Default
  Capture = Capture
  Wildcard = Wildcard
  NoName = NoName
  Names <- MCNames
  Begins <- MCBegins
  Private <- MCPrivate
  MaxRegions = 3
  MaxId = 4
  Nodes <- MCNodes
  Hash <- MCHash
  Sizes <- MCSizes
  Payloads <- MCPayloads
  MaxPathBytes = 7
  MaxHops = 4
  MaxUnit = 23
  Links <- MCLinks
  Snr <- MCSnr
  Config <- MCConfig
  Sendings <- MCSendings
SPECIFICATION Spec
INVARIANT CopiesAreTrue
INVARIANT ScopesAreKept
INVARIANT LoopsAreBounded
PROPERTY DiesOut
CHECK_DEADLOCK FALSE
