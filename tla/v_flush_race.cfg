CONSTANTS
    a = a
    b = b
    t1 = t1
    t2 = t2
    DocIds = {a}
    Threads = {t1, t2}
    Calls <- IndexOnly
    Batches <- OnlyA
    BufferCap = 2
    MinSegmentsToMerge = 2
    MaxMergeAtOnce = 10
    MaxOps = 3
    Faults = {"crash"}
    MaxFaults = 1
SPECIFICATION Spec
INVARIANT NothingVanishes
