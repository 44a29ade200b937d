SPECIFICATION Spec
CONSTANTS
  w1 = w1
  w2 = w2
  c1 = c1
  c2 = c2
  host = host
  Workers <- TwoWorkers
  Host <- PreforkHost
  Claims <- TwoClaims
  Flagged <- SomeFlagged
  MaxRetries = 1
  MaxFaults = 1
  MaxErrors = 1
  EarlyRedelivery = TRUE
  LaggingCheckpoints = TRUE
  NoHost = NoHost
  NoClaims = NoClaims
INVARIANTS ReviewIsSound UnaskedRunIsDelivered
 
CHECK_DEADLOCK FALSE
