SPECIFICATION FairSpec
CONSTANTS
  d1 = d1
  w1 = w1
  w2 = w2
  Docs <- OneDoc
  Workers <- TwoWorkers
  MaxJobs = 2
  MaxAttempts = 1
  MaxRetries = 1
  MaxEvents = 2
  MaxFaults = 1
  NoWorker = NoWorker
  NoJob = NoJob
INVARIANTS CleanupExcludesIngestion 
PROPERTIES OnlyOvertakenWorkersPutPointsBack 
CHECK_DEADLOCK FALSE
