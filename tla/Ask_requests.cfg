SPECIFICATION FairSpec
CONSTANTS
  r1 = r1
  r2 = r2
  k1 = k1
  h1 = h1
  h2 = h2
  c1 = c1
  Handlers <- TwoHandlers
  Keys <- OneKey
  OpOf <- OnlyAsk
  Hashes <- TwoBodies
  Limit <- Quota
  Conversations <- OneConversation
  Keep = 1
  MaxRequests = 3
  MaxErrors = 1
  NoKey = NoKey
  NoConversation = NoConversation
INVARIANTS RequestsAreAccounted 
PROPERTIES ImplementsLocalStore KeysAreFreed
CHECK_DEADLOCK FALSE
