SPECIFICATION Spec
CONSTANTS
  c1 = c1
  c2 = c2
  c3 = c3
  Calls <- MCCalls
  NoCall = NoCall
  Cancellable <- MCCalls
  Lifetimes <- MCLifetimes
  ConfigSkew = 0
  DefaultSkew = 1
  MaxLatency = 1
  MaxTime = 2
INVARIANTS
  TypeOK
  SingleFlight
  NoLostWakeup
  ClosedOnce
  CacheLeavesMargin
PROPERTIES
  UsableTokenKept
  KeepsPromise
SYMMETRY MCSymmetry
