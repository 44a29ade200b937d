SPECIFICATION Spec
CONSTANTS
  w1 = w1
  w2 = w2
  Workers <- TwoWorkers
  Host <- SoloHosts
  MaxJobs = 2
  MaxAttempts = 2
  MaxRetries = 1
  MaxEvents = 1
  MaxFaults = 1
  MaxDbFaults = 1
  EarlyRedelivery = TRUE
  NoHost = NoHost
  NoJob = NoJob
SYMMETRY WorkerSymmetry
   
PROPERTIES EndsAreFinal 
CHECK_DEADLOCK FALSE
