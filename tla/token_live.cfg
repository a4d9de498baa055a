SPECIFICATION FairSpec
CONSTANTS
  c1 = c1
  c2 = c2
  c3 = c3
  Calls <- MCCalls
  NoCall = NoCall
  Cancellable = {c1}
  Lifetimes = {1}
  ConfigSkew = 0
  DefaultSkew = 1
  MaxLatency = 0
  MaxTime = 0
PROPERTIES
  CancelledCallReturns
  WaitersReleased
