------------------------------ MODULE ShardGroup ------------------------------
(***************************************************************************)
(* Reads of one shard group: ShardGroup::read_target of                    *)
(* crates/router/src/client.rs chooses an endpoint, the BreakerShardClient *)
(* around it (crates/router/src/breaker.rs) records how the call went, and *)
(* the next choices depend on that.                                        *)
(*                                                                         *)
(*   idle -> scan (one endpoint at a time) -> wait -> (report) -> idle     *)
(*                                                                         *)
(* A call that the router's query_timeout cuts off is dropped where it     *)
(* awaits the shard, before record(): it counts neither as a success nor   *)
(* as a failure.  Writes, stats, flush and reindex pass the wrapper by.    *)
(***************************************************************************)
EXTENDS CircuitBreaker, Sequences

CONSTANT Group     \* <<primary, replica 1, ...>>

ASSUME GroupAssumption ==
    Group \in Seq(Breakers) /\ Len(Group) > 0

VARIABLES
    next,      \* ShardGroup::next, modulo the number of endpoints
    req,       \* req[c]: where caller c is in its read
    healthy    \* healthy[b]: the endpoint answers (external)

groupVars == <<breakerVars, next, req, healthy>>

Total == Len(Group)

\* idx counts endpoints from 0, as the code does; left: how many of them are
\* still to be looked at.
Request == [pc : {"idle", "scan", "wait"}, idx : 0..Total-1, left : 0..Total]

IdleReq == [pc |-> "idle", idx |-> 0, left |-> 0]

Endpoint(i) == Group[i + 1]

TypeOK ==
    /\ BreakerTypeOK
    /\ next \in 0..Total-1
    /\ req \in [Callers -> Request]
    /\ healthy \in [Breakers -> BOOLEAN]

Init ==
    /\ BreakerInit
    /\ next = 0
    /\ req = [c \in Callers |-> IdleReq]
    /\ healthy \in [Breakers -> BOOLEAN]

-----------------------------------------------------------------------------
\* Mutant: next is advanced past the endpoint that was offered.
BeginSkipping(c) ==
    /\ req[c].pc = "idle"
    /\ rep[c].pc = "none"
    /\ req' = [req EXCEPT ![c] = [pc |-> "scan", idx |-> next, left |-> Total]]
    /\ next' = (next + Total) % Total
    /\ UNCHANGED <<breakerVars, healthy>>

\* A read starts: next.fetch_add.
Begin(c) ==
    /\ req[c].pc = "idle"
    /\ rep[c].pc = "none"
    /\ req' = [req EXCEPT ![c] = [pc |-> "scan", idx |-> next, left |-> Total]]
    /\ next' = (next + 1) % Total
    /\ UNCHANGED <<breakerVars, healthy>>

\* One turn of read_target's loop: take the endpoint unless its circuit is
\* open; after the last one, take the primary whatever its circuit.
Look(c) ==
    /\ req[c].pc = "scan"
    /\ req' = [req EXCEPT ![c] =
                  IF req[c].left = 0
                  THEN [pc |-> "wait", idx |-> 0, left |-> 0]
                  ELSE IF ~IsOpen(Endpoint(req[c].idx))
                  THEN [pc |-> "wait", idx |-> req[c].idx, left |-> 0]
                  ELSE [pc   |-> "scan",
                        idx  |-> (req[c].idx + 1) % Total,
                        left |-> req[c].left - 1]]
    /\ UNCHANGED <<breakerVars, next, healthy>>

\* The call returns and record() starts.
Answer(c) ==
    LET b == Endpoint(req[c].idx) IN
    /\ req[c].pc = "wait"
    /\ Report(c, b, healthy[b])
    /\ req' = [req EXCEPT ![c] = IdleReq]
    /\ UNCHANGED <<next, healthy>>

\* The endpoint does not answer in time and the call is dropped.
TimeOut(c) ==
    /\ req[c].pc = "wait"
    /\ ~healthy[Endpoint(req[c].idx)]
    /\ req' = [req EXCEPT ![c] = IdleReq]
    /\ UNCHANGED <<breakerVars, next, healthy>>

Finish(c) == Record(c) /\ UNCHANGED <<next, req, healthy>>

Tick == BreakerTick /\ UNCHANGED <<next, req, healthy>>

\* An endpoint fails, or works again.
ChangeHealth(b) ==
    /\ healthy' = [healthy EXCEPT ![b] = ~@]
    /\ UNCHANGED <<breakerVars, next, req>>

Step(c) == Begin(c) \/ Look(c) \/ Answer(c) \/ TimeOut(c) \/ Finish(c)

Next ==
    \/ \E c \in Callers : Step(c)
    \/ Tick
    \/ \E b \in Breakers : ChangeHealth(b)

Spec == Init /\ [][Next]_groupVars

\* Reads keep coming, a call that was started is answered or cut off by its
\* timeout, and the clock runs.  Nothing is assumed about the endpoints.
FairSpec ==
    /\ Spec
    /\ \A c \in Callers : WF_groupVars(Step(c))
    /\ WF_groupVars(Tick)

-----------------------------------------------------------------------------
\* The gate a caller of is_open and the recovery window sees.
GateOf == [b \in Breakers |->
              IF openAge[b] = Unset THEN "closed"
              ELSE IF openAge[b] < Recovery THEN "open" ELSE "half_open"]

ArmedOf == [b \in Breakers |->
               {c \in Callers : rep[c].b = b /\ rep[c].pc \in {"now", "cas"}}]

Gate == INSTANCE AbstractBreaker
        WITH gate <- GateOf, strikes <- failures, armed <- ArmedOf

\* The two atomics, updated by overlapping calls, implement the gate of
\* AbstractBreaker: it opens only by a caller that saw Threshold consecutive
\* failures, and once half open it never opens again before a success.
Gated == Gate!AbsSpec

\* Under the clock, an open gate does not stay open (is_open).
GateLapses == Gate!AbsFairSpec

\* If all endpoints work from some time on, every breaker is closed from some
\* time on: late reports of calls that failed earlier do not keep one open, and
\* read_target keeps probing each endpoint.
Recovers ==
    <>[](\A b \in Breakers : healthy[b]) =>
        <>[](\A b \in Breakers : openAge[b] = Unset)

\* An endpoint that is down for good, and whose failures keep being reported,
\* ends up with its breaker tripped, even if a success that overlapped with the
\* failures cleared opened_at_ms after they had set it (record_success,
\* record_failure).
PersistentFailureTrips ==
    \A b \in Breakers :
        (/\ <>[]~healthy[b]
         /\ []<>(\E c \in Callers : At(c, b, "err1")))
            => <>[](openAge[b] # Unset)

\* read_target's round robin: an endpoint whose circuit is not open gets reads
\* again and again, whatever the other endpoints do.
EveryEndpointServes ==
    \A i \in 0..Total-1 :
        <>[]~IsOpen(Endpoint(i)) =>
            []<>(\E c \in Callers : req[c].pc = "wait" /\ req[c].idx = i)

=============================================================================
