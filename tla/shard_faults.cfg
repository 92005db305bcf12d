CONSTANTS
    a = a
    b = b
    t1 = t1
    t2 = t2
    DocIds = {a}
    Threads = {t1, t2}
    Calls <- EveryCall
    Batches <- OnlyA
    BufferCap = 1
    MinSegmentsToMerge = 2
    MaxMergeAtOnce = 2
    MaxOps = 3
    Faults = {"crash", "write_error", "append_cut", "bitmap_cut"}
    MaxFaults = 1
SPECIFICATION FairSpec
INVARIANT SegmentInv
PROPERTY FinallySearchable
