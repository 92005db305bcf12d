CONSTANTS
    DocIds = {1, 2, 3, 4, 5}
    Shards = {1, 2}
    ShardOf <- FourAndOne
    Score <- Bm25
    RankScore <- ByRanker
    Available <- Stock
    Strategy = "region_stock"
    Candidates = 1
    Requests <- Asked
    MaxLimit = 2
    TTL = 1
    Callers = {c1}
    Writers = {w1}
    Batches <- Written
    MaxBatch = 2
    Preloaded = {1, 2, 3}
    Deletable = {1}
    MaxWrites = 1
    MaxFaults = 1
SPECIFICATION Spec
INVARIANTS
    ZoneRespected
    BulkOkStored
PROPERTIES
    ExactWhenClean
