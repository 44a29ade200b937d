SPECIFICATION FairSpec
CONSTANTS
    d1 = d1
    d3 = d3
    dense1 = dense1
    light1 = light1
    other1 = other1
    page = page
    site = site
    Docs <- MCDocs
    ConversationDocs <- MCConversationDocs
    Ingesting <- MCIngesting
    Raw <- MCRaw
    Light <- MCLight
    Wiki <- MCWiki
    Web <- MCWeb
    DocOf <- MCDocOf
    Tokens <- MCTokens
    Provenance <- MCProvenance
    EvidenceBudget = 3
    FullContextLimit = 4
    GateLimit = 1
    RoundLimit = 2
    CandidateLimit = 2
    TopN = 2
    MaxRounds = 2
    MaxChanges = 1
INVARIANTS EvidenceIsEarned EvidenceFitsItsBudget AnswersAreSupported
PROPERTIES SourcesAreCurrent RequestEnds
