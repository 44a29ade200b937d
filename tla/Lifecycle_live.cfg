SPECIFICATION FairSpec
CONSTANTS
  w1 = w1
  w2 = w2
  Workers <- TwoWorkers
  Host <- SoloHosts
  MaxJobs = 1
  MaxAttempts = 2
  MaxRetries = 1
  MaxEvents = 2
  MaxFaults = 1
  MaxDbFaults = 0
  EarlyRedelivery = FALSE
  NoHost = NoHost
  NoJob = NoJob
PROPERTIES IngestionEnds
CHECK_DEADLOCK FALSE
