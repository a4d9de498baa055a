SPECIFICATION FairSpec
CONSTANTS
  DialTimeout = 0
  DefaultTimeout = 2
  CtxDeadlines = {0, 1, 9}
  TokenSources = {TRUE, FALSE}
  HostLens = {255, 256}
  LocLens = {0, 252, 256}
  GreetingReplies <- MCGreetingReplies
  AuthReplies <- MCAuthReplies
  ConnectReplies <- MCConnectReplies
  Payload <- MCPayload
  MaxTime = 3
INVARIANTS
  TypeOK
  AuthBeforeConnect
  TunnelAligned
  StageTruthful
  DialBounded
PROPERTIES
  KeepsPromise
  DialReturns
