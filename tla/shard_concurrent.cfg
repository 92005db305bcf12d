CONSTANTS
    a = a
    b = b
    t1 = t1
    t2 = t2
    DocIds = {a, b}
    Threads = {t1, t2}
    Calls <- NoReindex
    Batches <- Singles
    BufferCap = 1
    MinSegmentsToMerge = 2
    MaxMergeAtOnce = 2
    MaxOps = 4
    Faults = {}
    MaxFaults = 0
SPECIFICATION Spec
INVARIANTS
    ListedOnDisk
    DocMapSound
    NothingVanishes
PROPERTIES
    MergeKeepsDocs
SYMMETRY Symmetric
