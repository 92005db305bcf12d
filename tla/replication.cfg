CONSTANTS
    a = a
    b = b
    t1 = t1
    t2 = t2
    r = r
    DocIds = {a}
    Writers = {t1, t2}
    Replicas = {r}
    Calls <- EveryCall
    Batches <- Twice
    BufferCap = 2
    MaxOps = 3
    Faults = {"rpc_lost", "reply_lost", "call_hangs", "replica_crash", "primary_crash", "catch_up_error"}
    MaxFaults = 1
SPECIFICATION Spec
INVARIANTS
    OnlyExcusedMissing
    SettledNotStale
