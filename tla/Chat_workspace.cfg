SPECIFICATION ChatSpec
CONSTANTS
  Conversations = {c1}
  NoConversation = NoConversation
  Prompts = {p}
  MaxAsks = 2
  MaxMoves = 1
  NumFiles = 2
INVARIANTS ThreadsAreConsistent RetriesReuseTheKey
PROPERTIES LoadingEnds
CHECK_DEADLOCK FALSE
