CONSTANTS
    a = a
    b = b
    t1 = t1
    t2 = t2
    DocIds = {a, b}
    Threads = {t1}
    Calls <- EveryCall
    Batches <- WithPair
    BufferCap = 2
    MinSegmentsToMerge = 2
    MaxMergeAtOnce = 10
    MaxOps = 5
    Faults = {"crash"}
    MaxFaults = 2
SPECIFICATION Spec
INVARIANTS
    FoundBetweenCalls
    Durable
    MapIsFresh
    EachWriteOnce
