CONSTANTS
    a = a
    b = b
    t1 = t1
    t2 = t2
    r = r
    DocIds = {a, b}
    Writers = {t1}
    Replicas = {r}
    Calls <- IndexOnly
    Batches <- Singles
    BufferCap = 2
    MaxOps = 2
    Faults = {"replica_crash"}
    MaxFaults = 1
SPECIFICATION Spec
INVARIANT CaughtUpAfterRestart
