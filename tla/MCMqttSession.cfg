CONSTANTS
  plain = plain
  secure = secure
  unparsed = unparsed
  empty = empty
  NoHost = empty
  Hosts <- MCHosts
  Unparsed = {unparsed}
  Secure = {secure}
  Websocket = {secure}
  Io = 2
  Keepalive = 6
  StatusInterval = 12
  RetryWait = 2
  IdleWait = 6
  ChannelSize = 2
SPECIFICATION Spec
INVARIANT RestartTakesEffect
INVARIANT ShownIsTrue
INVARIANT FramesAreWhole
INVARIANT AcksAreFresh
INVARIANT DeadlinesKept
PROPERTY PongsAnswered
