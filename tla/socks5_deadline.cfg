SPECIFICATION Spec
CONSTANTS
  DialTimeout = 0
  DefaultTimeout = 2
  CtxDeadlines = {9}
  TokenSources = {TRUE}
  HostLens = {255, 256}
  LocLens = {0, 252}
  GreetingReplies <- MCGreetingReplies
  AuthReplies <- MCAuthReplies
  ConnectReplies <- MCConnectReplies
  Payload <- MCPayload
  MaxTime = 3
INVARIANT TunnelOutlivesDial
