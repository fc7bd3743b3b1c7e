CONSTANTS
  own = own
  x = x
  y = y
  z = z
  Own = own
  Keys = {own, x, y, z}
  Responders = {z}
  Far = {z}
  Snr <- MCSnr
  max_neighbours = 2
  inbound_queue_len = 1
  DISCOVER_NEIGHBOURS_TTL_MS = 1
  MaxAsking = 2
  MaxResults = 12
  KeyLengths = {1, 4}
  Counts = {3}
  Intervals = {0, 2, 3}
  Changing = {"zero_hop"}
  Period = 1
  Late = 1
  MaxTime = 3
  MaxAdvertTime = 11
  SetTo = {3, 7}
  MaxSeconds = 5
  Blocks = 3
  Chars = {"p", "q"}
  LINE_BUFFER_LEN = 2
  MaxShown = 6
SPECIFICATION Spec
INVARIANT PagesMakeTable
INVARIANT PressesAreFollowed
INVARIANT LinesAreTrue
PROPERTY NeighboursKept
PROPERTY AdvertsKeepTime
PROPERTY ClockKeepsTime
PROPERTY StorageIsSafe
CHECK_DEADLOCK FALSE
