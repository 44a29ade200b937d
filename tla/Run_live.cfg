SPECIFICATION FairSpec
CONSTANTS
  w1 = w1
  w2 = w2
  c1 = c1
  c2 = c2
  host = host
  Workers <- OneWorker
  Host <- SoloHosts
  Claims <- TwoClaims
  Flagged <- SomeFlagged
  MaxRetries = 1
  MaxFaults = 2
  MaxErrors = 0
  EarlyRedelivery = FALSE
  LaggingCheckpoints = FALSE
  NoHost = NoHost
  NoClaims = NoClaims
PROPERTIES RunsComeToRest
CHECK_DEADLOCK FALSE
