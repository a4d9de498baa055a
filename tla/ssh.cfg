SPECIFICATION FairSpec
CONSTANTS
  DialTimeout = 2
  MaxAttempts <- MCMaxAttempts
  BaseDelays <- MCBaseDelays
  DefaultDelay = 4
  Jitters = {TRUE, FALSE}
  MaxDuration = 127
  MaxTime = 26
INVARIANTS
  TypeOK
  CancelStopsRetries
  DialBounded
PROPERTIES
  KeepsPromise
  BackoffWindow
  DialReturns
