SPECIFICATION FairSpec
CONSTANTS
  e1 = e1
  e2 = e2
  d1 = d1
  d2 = d2
  Events <- TwoEvents
  Unsupported <- OnlySecond
  Dispatchers <- TwoDispatchers
  BatchSize = 2
  MaxAttempts = 3
  NoEvent = NoEvent
INVARIANTS OutboxIsSafe
PROPERTIES ImplementsPromise RestartsRecoverClaims
