SPECIFICATION FairSpec
CONSTANTS
  w1 = w1
  w2 = w2
  Workers <- TwoWorkers
  NumCases = 2
  k1 = k1
  k2 = k2
  Chunks <- TwoChunks
  Expected <- FirstJudged
  Limit = 2
  Metrics <- AllMetrics
  Budget = 3
  Baseline <- Perfect
  NoBaseline = NoBaseline
  MaxAttempts = 2
  MaxRetries = 2
  MaxEvents = 2
  MaxFaults = 1
  NoWorker = NoWorker
INVARIANTS CasesArePaidOnce ResultsAddUp
PROPERTIES EndIsFinal 
CHECK_DEADLOCK FALSE
