CONSTANTS
    p = p
    r = r
    Breakers = {p, r}
    Group <- PrimaryAndReplica
    Callers = {c1, c2}
    Threshold = 2
    Recovery = 1
SPECIFICATION FairSpec
PROPERTIES
    Gated
    GateLapses
    Recovers
    PersistentFailureTrips
    EveryEndpointServes
