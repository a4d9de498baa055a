SPECIFICATION Spec
CONSTANTS
  Loads <- MCLoads
  Routings <- MCRoutings
  Timeouts = {0, 1}
  DefaultTimeout = 2
  DialTimeout = 2
  ConnectTimeout = 2
  HandshakeTimeout = 1
  IdleConnTimeout = 2
  Slots = {1, 2, 3}
  LastStart = 1
  LastToken = 1
  MaxTime = 14
INVARIANT ForwardedWhole
