CONSTANTS
    Docs = {1, 2, 3}
    Words <- Texts
    Shards = {1, 2}
    ShardOf <- TwoAndOne
    MinFrequency = 1
    MaxTerms = 2
    Batches <- Written
    Asked <- Questions
    MaxPrefix = 2
    MaxLimit = 2
    Users = {u}
    MaxCrashes = 1
    MaxCalls = 1
SPECIFICATION FairSpec
INVARIANT FrequencyDeserved
PROPERTIES
    SuggestExact
    EventuallyFresh
