-------------------------------- MODULE Router --------------------------------
(***************************************************************************)
(* The router, crates/router/src/router.rs, with its query cache           *)
(* (cache.rs), availability strategies (availability.rs), the ranker with  *)
(* its fallback (crates/ranker/src), and the HTTP handlers for search and  *)
(* bulk writes in front of it (crates/server/src/main.rs).                 *)
(*                                                                         *)
(*   search   idle -> scatter -> fetch -> rerank -> finish -> idle         *)
(*            idle -> idle when the cache answers or the request is bad    *)
(*   bulk     idle -> await -> idle, with one detached task per shard      *)
(*                                                                         *)
(* A shard is a primary and a replica that follows it with a delay         *)
(* (Replication); a read goes to either, as ShardGroup decides.  Indexing  *)
(* an id again adds a copy, and a delete leaves the copies in open         *)
(* segment readers where they are (ShardEngine), so an endpoint is kept as *)
(* the number of copies of each id: a search finds copies, each of which   *)
(* takes a place among the hits.  Merges, reindexing and restarts of a     *)
(* shard, and flushes of one shard that overlap, are in ShardEngine only.  *)
(*                                                                         *)
(* A search matches every document.  BM25 and the ranker each order the    *)
(* ids; copies of one id score alike, and a hit is <<d, k>>, copy k of d.  *)
(* Hit counts, aggregations, or-fallback flags and the documents attached  *)
(* to the hits of a page (build_hits) are carried along by the code        *)
(* without affecting anything else.                                        *)
(***************************************************************************)
EXTENDS ShardTypes, SequencesExt

CONSTANTS
    Shards,
    ShardOf,       \* jump_consistent_hash of an id (external to this module)
    Score,         \* Score[d]: BM25 score of id d, all different
    RankScore,     \* RankScore[d]: the ranker's score of id d, all different
    Available,     \* Available[z]: what the zone z has in stock; "" is no zone
    Strategy,      \* "noop", "static" or "region_stock"
    Candidates,    \* ranker_candidates
    Requests,      \* the searches clients send
    MaxLimit,      \* the HTTP handler's limit on limit
    TTL,           \* ttl_seconds of the cache, in ticks
    Callers,       \* searches in flight
    Writers,       \* bulk writes in flight
    Preloaded,     \* the documents in the segments the shards start with
    Batches,       \* sent to /v1/bulk ("docs") and /v1/ingest/bulk ("meli")
    MaxBatch,      \* the handlers' limit, 10,000
    Deletable,     \* the documents that are indexed and deleted one by one
    MaxWrites,     \* bound: batches and deletes
    MaxFaults      \* bound: failed calls

Zones == DOMAIN Available

Endpoints == {"primary", "replica"}

Copy == DocIds \X (Nat \ {0})

ASSUME RouterAssumption ==
    /\ IsFiniteSet(Shards) /\ Shards \subseteq Nat
    /\ ShardOf \in [DocIds -> Shards]
    /\ Score \in [DocIds -> Nat] /\ RankScore \in [DocIds -> Nat]
    /\ \A d, e \in DocIds : (Score[d] = Score[e] \/ RankScore[d] = RankScore[e]) => d = e
    /\ Strategy \in {"noop", "static", "region_stock"}
    /\ Candidates \in Nat /\ TTL \in Nat /\ MaxWrites \in Nat /\ MaxFaults \in Nat
    /\ Requests # {}
    /\ \A q \in Requests : q.zone \in Zones /\ q.offset \in Nat /\ q.limit \in Nat
    /\ Preloaded \subseteq DocIds /\ Deletable \subseteq DocIds

VARIABLES
    held,      \* held[s][e]: what endpoint e of shard s holds, a Store
    lag,       \* lag[s]: writes the replica of s has not applied yet
    cache,     \* cache[k]: the entry under key k, if any
    srch,      \* srch[c]: where search c is
    resp,      \* resp[c]: the last response c got
    bulk,      \* bulk[w]: where bulk write w is
    writes,    \* writes so far
    faults,    \* failed calls so far
    dropped    \* history: documents that were deleted

vars == <<held, lag, cache, srch, resp, bulk, writes, faults, dropped>>

-----------------------------------------------------------------------------
\* Mutant: the destination zone is not part of the key.
KeyOfNoZone(q) == [zone |-> "", offset |-> q.offset, limit |-> q.limit]

\* QueryCacheKey: everything the cached value depends on, and the page as well.
KeyOf(q) == [zone |-> q.zone, offset |-> q.offset, limit |-> q.limit]

Keys == {KeyOf(q) : q \in Requests}

NoCached == [age |-> TTL, hits |-> << >>, blind |-> FALSE]

NoSearch == [pc |-> "idle", req |-> CHOOSE q \in Requests : TRUE,
             got  |-> [s \in Shards |-> [st |-> "wait", found |-> {}]],
             docs |-> {}, hits |-> << >>, clean |-> FALSE]

NoResponse == [status |-> "none", req |-> CHOOSE q \in Requests : TRUE,
               hits |-> << >>, clean |-> FALSE, blind |-> FALSE]

NoBulk == [pc |-> "idle", docs |-> {}, total |-> 0, result |-> "none",
           task |-> [s \in Shards |-> "none"]]

NoCopies == [d \in DocIds |-> 0]

OneEach(docs) == [d \in DocIds |-> IF d \in docs THEN 1 ELSE 0]

OfShard(docs, s) == {d \in docs : ShardOf[d] = s}

\* An endpoint whose segments hold docs: flushed counts the copies in the open
\* readers of the segments, located is the keys of doc_id_map, buffered and
\* marked are the write buffer, hands is what a flush has drained and not added.
OpenedWith(docs) ==
    [flushed |-> OneEach(docs), located |-> docs, buffered |-> NoCopies,
     marked  |-> {}, hands |-> NoCopies]

Init ==
    /\ held = [s \in Shards |->
                  [e \in Endpoints |-> OpenedWith(OfShard(Preloaded, s))]]
    /\ lag = [s \in Shards |-> << >>]
    /\ cache = [k \in Keys |-> NoCached]
    /\ srch = [c \in Callers |-> NoSearch]
    /\ resp = [c \in Callers |-> NoResponse]
    /\ bulk = [w \in Writers |-> NoBulk]
    /\ writes = 0
    /\ faults = 0
    /\ dropped = {}

-----------------------------------------------------------------------------
\* The copies of d a search of st finds: marks hide copies in the buffer only.
Shown(st, d) == st.flushed[d] + (IF d \in st.marked THEN 0 ELSE st.buffered[d])

Copies(st) == UNION {{d} \X (1..Shown(st, d)) : d \in DocIds}

\* The ids get_docs knows: by the map, or in the buffer, marked or not.
Known(st) == st.located \cup {d \in DocIds : st.buffered[d] > 0}

\* Hit g comes before hit h.
Above(score, g, h) == score[g[1]] > score[h[1]] \/ (g[1] = h[1] /\ g[2] < h[2])

Ahead(S, score, h) == {g \in S : Above(score, g, h)}

\* sort_by score, best first; written with ranks, as Gather in ShardTypes is.
InOrder(S, score) ==
    [k \in 1..Cardinality(S) |->
        CHOOSE h \in S : Cardinality(Ahead(S, score, h)) = k - 1]

\* What a shard answers to a search with a limit of n: every copy counts.
TopOf(S, n) == {h \in S : Cardinality(Ahead(S, Score, h)) < n}

\* candidate_multiplier
ScatterLimit == Candidates * (IF Strategy = "noop" THEN 1 ELSE 3)

\* skip(offset).take(limit)
Page(hits, q) ==
    SubSeq(hits, q.offset + 1,
           IF q.offset + q.limit < Len(hits) THEN q.offset + q.limit ELSE Len(hits))

Fault == faults < MaxFaults /\ faults' = faults + 1

\* The hits whose document get_docs of one endpoint per shard returns; the
\* shards in lost answer nothing.
Fetched(hits, pick, lost) ==
    {h \in hits : LET s == ShardOf[h[1]]
                  IN  s \notin lost /\ h[1] \in Known(held[s][pick[s]])}

\* StaticAvailabilityStrategy: the documents say where they are in stock.
StaticApply(hits, zone) ==
    Retain(hits, {k \in DOMAIN hits : hits[k][1] \in Available[zone]})

\* RegionStockStrategy asks a service, and filters nothing when that fails.
RegionStockApply(hits, zone, ok) ==
    IF hits = << >> \/ ~ok THEN hits
    ELSE Retain(hits, {k \in DOMAIN hits : hits[k][1] \in Available[zone]})

\* The strategy that was configured, for a search that names a zone.
Filtered(hits, zone, ok) ==
    CASE zone = "" \/ Strategy = "noop" -> hits
      [] zone # "" /\ Strategy = "static" -> StaticApply(hits, zone)
      [] zone # "" /\ Strategy = "region_stock" -> RegionStockApply(hits, zone, ok)

-----------------------------------------------------------------------------
\* The HTTP handler turns the request down.
Reject(c, q) ==
    /\ srch[c].pc = "idle"
    /\ q.limit > MaxLimit
    /\ resp' = [resp EXCEPT ![c] = [NoResponse EXCEPT !.status = "rejected",
                                                      !.req = q]]
    /\ UNCHANGED <<held, lag, cache, srch, bulk, writes, faults, dropped>>

Hit(q) == cache[KeyOf(q)].age < TTL

\* Mutant: an entry that is read lives on (time_to_idle).
RespondFromCacheIdle(c, q) ==
    LET e == cache[KeyOf(q)] IN
    /\ srch[c].pc = "idle"
    /\ q.limit <= MaxLimit
    /\ Hit(q)
    /\ resp' = [resp EXCEPT ![c] =
          [status |-> "ok", req |-> q, hits |-> Page(e.hits, q),
           clean |-> FALSE, blind |-> e.blind]]
    /\ cache' = [cache EXCEPT ![KeyOf(q)].age = 0]
    /\ UNCHANGED <<held, lag, srch, bulk, writes, faults, dropped>>

\* respond_from_cache
RespondFromCache(c, q) ==
    LET e == cache[KeyOf(q)] IN
    /\ srch[c].pc = "idle"
    /\ q.limit <= MaxLimit
    /\ Hit(q)
    /\ resp' = [resp EXCEPT ![c] =
          [status |-> "ok", req |-> q, hits |-> Page(e.hits, q),
           clean |-> FALSE, blind |-> e.blind]]
    /\ UNCHANGED <<held, lag, cache, srch, bulk, writes, faults, dropped>>

\* The cache has nothing: ask every shard.
Scatter(c, q) ==
    /\ srch[c].pc = "idle"
    /\ q.limit <= MaxLimit
    /\ ~Hit(q)
    /\ srch' = [srch EXCEPT ![c] = [NoSearch EXCEPT !.pc = "scatter", !.req = q,
                                                    !.clean = TRUE]]
    /\ UNCHANGED <<held, lag, cache, resp, bulk, writes, faults, dropped>>

ShardAnswers(c, s) ==
    /\ srch[c].pc = "scatter"
    /\ srch[c].got[s].st = "wait"
    /\ \E e \in Endpoints :
          srch' = [srch EXCEPT ![c].got[s] =
                      [st |-> "ok", found |-> TopOf(Copies(held[s][e]), ScatterLimit)]]
    /\ UNCHANGED <<held, lag, cache, resp, bulk, writes, faults, dropped>>

\* An error, or query_timeout.
ShardFails(c, s) ==
    /\ srch[c].pc = "scatter"
    /\ srch[c].got[s].st = "wait"
    /\ Fault
    /\ srch' = [srch EXCEPT ![c].got[s].st = "failed", ![c].clean = FALSE]
    /\ UNCHANGED <<held, lag, cache, resp, bulk, writes, dropped>>

Healthy(c) == {s \in Shards : srch[c].got[s].st = "ok"}

AllHits(c) == UNION {srch[c].got[s].found : s \in Healthy(c)}

\* All shards are heard of: fail if none answered, otherwise go on, past the
\* ranker if nothing was found.
GatherHits(c) ==
    /\ srch[c].pc = "scatter"
    /\ \A s \in Shards : srch[c].got[s].st # "wait"
    /\ IF Healthy(c) = {}
       THEN /\ resp' = [resp EXCEPT ![c] = [NoResponse EXCEPT !.status = "error",
                                                !.req = srch[c].req]]
            /\ srch' = [srch EXCEPT ![c] = NoSearch]
       ELSE /\ srch' = [srch EXCEPT ![c].pc =
                           IF AllHits(c) = {} THEN "finish" ELSE "fetch"]
            /\ UNCHANGED resp
    /\ UNCHANGED <<held, lag, cache, bulk, writes, faults, dropped>>

\* fetch_docs: from either endpoint of each shard again; a shard that fails
\* contributes nothing.  There is no timeout here.
Fetch(c) ==
    /\ srch[c].pc = "fetch"
    /\ \E pick \in [Shards -> Endpoints], lost \in SUBSET Shards :
          /\ IF lost = {} THEN UNCHANGED faults ELSE Fault
          /\ srch' = [srch EXCEPT ![c].pc = "rerank",
                                  ![c].docs = Fetched(AllHits(c), pick, lost),
                                  ![c].got = NoSearch.got,
                                  ![c].clean = @ /\ lost = {}]
    /\ UNCHANGED <<held, lag, cache, resp, bulk, writes, dropped>>

\* The ranker's results, best first.
RankerOrder(hits) == InOrder(hits, RankScore)

\* rerank_with_fallback: an error, an open circuit (BreakerRanker) or the timeout
\* leave BM25 order.
RankedOrFallback(hits, ok) == IF ok THEN RankerOrder(hits) ELSE InOrder(hits, Score)

\* The candidates are the hits whose document arrived.
Rerank(c) ==
    /\ srch[c].pc = "rerank"
    /\ \E ok \in BOOLEAN :
          /\ IF ok THEN UNCHANGED faults ELSE Fault
          /\ srch' = [srch EXCEPT ![c].pc = "finish",
                ![c].hits = RankedOrFallback(srch[c].docs, ok),
                ![c].docs = {},
                ![c].clean = @ /\ ok]
    /\ UNCHANGED <<held, lag, cache, resp, bulk, writes, dropped>>

\* Mutant: the page is cut before the availability filter.
FinishPagedFirst(c) ==
    LET q == srch[c].req IN
    /\ srch[c].pc = "finish"
    /\ \E ok \in BOOLEAN :
          LET hits == Filtered(srch[c].hits, q.zone, ok) IN
          /\ ok \/ (q.zone # "" /\ Strategy = "region_stock" /\ srch[c].hits # << >>)
          /\ IF ok THEN UNCHANGED faults ELSE Fault
          /\ cache' = [cache EXCEPT ![KeyOf(q)] =
                [age |-> 0, hits |-> hits, blind |-> ~ok]]
          /\ resp' = [resp EXCEPT ![c] =
                [status |-> "ok", req |-> q,
                 hits |-> Filtered(Page(srch[c].hits, q), q.zone, ok),
                 clean |-> srch[c].clean /\ ok, blind |-> ~ok]]
    /\ srch' = [srch EXCEPT ![c] = NoSearch]
    /\ UNCHANGED <<held, lag, bulk, writes, dropped>>

\* Availability filter, cache insert, pagination, response.
Finish(c) ==
    LET q == srch[c].req IN
    /\ srch[c].pc = "finish"
    /\ \E ok \in BOOLEAN :
          LET hits == Filtered(srch[c].hits, q.zone, ok) IN
          /\ ok \/ (q.zone # "" /\ Strategy = "region_stock" /\ srch[c].hits # << >>)
          /\ IF ok THEN UNCHANGED faults ELSE Fault
          /\ cache' = [cache EXCEPT ![KeyOf(q)] =
                [age |-> 0, hits |-> hits, blind |-> ~ok]]
          /\ resp' = [resp EXCEPT ![c] =
                [status |-> "ok", req |-> q, hits |-> Page(hits, q),
                 clean |-> srch[c].clean /\ ok, blind |-> ~ok]]
    /\ srch' = [srch EXCEPT ![c] = NoSearch]
    /\ UNCHANGED <<held, lag, bulk, writes, dropped>>

\* Time passes for the cache: moka drops an entry TTL after its insertion
\* (external).
Expire ==
    /\ cache' = [k \in Keys |->
                    IF cache[k].age + 1 >= TTL THEN NoCached
                    ELSE [cache[k] EXCEPT !.age = @ + 1]]
    /\ UNCHANGED <<held, lag, srch, resp, bulk, writes, faults, dropped>>

-----------------------------------------------------------------------------
\* Any change of what the shards hold spoils the searches in progress for the
\* comparison with the reference.
Spoiled == [c \in Callers |-> [srch[c] EXCEPT !.clean = FALSE]]

\* WriteBuffer::add of each document: another copy of each.
Added(st, docs) ==
    [st EXCEPT !.buffered = [d \in DocIds |-> @[d] + OneEach(docs)[d]]]

\* Shard::delete: marked in the buffer, and gone from the map; the copies in the
\* open readers stay.
Deleted(st, d) ==
    [st EXCEPT !.marked = @ \cup {d}, !.located = @ \ {d}]

\* Shard::flush takes the buffer, marked documents too, and forgets the marks ...
Drained(st) ==
    [st EXCEPT !.hands = st.buffered, !.buffered = NoCopies, !.marked = {}]

\* ... and later adds a segment with what it took.
Published(st) ==
    [st EXCEPT !.flushed = [d \in DocIds |-> @[d] + st.hands[d]],
               !.located = @ \cup {d \in DocIds : st.hands[d] > 0},
               !.hands   = NoCopies]

\* The primary of s indexes docs, each once, and queues them for its replica.
Stored(s, docs) ==
    /\ held' = [held EXCEPT ![s]["primary"] = Added(@, docs)]
    /\ lag' = [lag EXCEPT ![s] = Append(@, [op |-> "index", docs |-> docs])]
    /\ srch' = Spoiled

\* MeliMapper::map_batch drops the items it cannot map.
Mapped(items) == items \cap DocIds

\* The handlers: a document without a title spoils its batch, an item whose id
\* cannot be read only itself.
TurnedDown(b) ==
    \/ b.items = {}
    \/ Cardinality(b.items) > MaxBatch
    \/ b.kind = "docs" /\ ~(b.items \subseteq DocIds)
    \/ b.kind = "meli" /\ Mapped(b.items) = {}

RejectBulk(w, b) ==
    /\ bulk[w].pc = "idle"
    /\ TurnedDown(b)
    /\ bulk' = [bulk EXCEPT ![w].result = "rejected"]
    /\ UNCHANGED <<held, lag, cache, srch, resp, writes, faults, dropped>>

\* bulk_index: one spawned task per shard that has documents in the batch.
StartBulk(w, b) ==
    LET docs == Mapped(b.items) IN
    /\ bulk[w].pc = "idle"
    /\ \A s \in Shards : bulk[w].task[s] # "running"
    /\ ~TurnedDown(b)
    /\ writes < MaxWrites
    /\ writes' = writes + 1
    /\ bulk' = [bulk EXCEPT ![w] =
                   [NoBulk EXCEPT !.pc = "await", !.docs = docs,
                       !.task = [s \in Shards |->
                           IF OfShard(docs, s) = {} THEN "none" ELSE "running"]]]
    /\ UNCHANGED <<held, lag, cache, srch, resp, faults, dropped>>

\* The task of shard s, also when its call has returned already.  A call that
\* fails may have stored the documents: the answer can be lost, or the flush the
\* write caused can fail.
RunTask(w, s) ==
    /\ bulk[w].task[s] = "running"
    /\ \/ /\ Stored(s, OfShard(bulk[w].docs, s))
          /\ bulk' = [bulk EXCEPT ![w].task[s] = "ok"]
          /\ UNCHANGED faults
       \/ /\ Fault
          /\ Stored(s, OfShard(bulk[w].docs, s)) \/ UNCHANGED <<held, lag, srch>>
          /\ bulk' = [bulk EXCEPT ![w].task[s] = "failed"]
    /\ UNCHANGED <<cache, resp, writes, dropped>>

\* The tasks of w that have not been awaited.
Left(w) == {s \in Shards : bulk[w].task[s] \in {"running", "ok", "failed"}}

\* Mutant: the inner result of a task, Ok(Err(e)), is not looked at.
AwaitTaskJoinOnly(w) ==
    LET s == Min(Left(w)) IN
    /\ bulk[w].pc = "await"
    /\ \/ /\ Left(w) = {}
          /\ bulk' = [bulk EXCEPT ![w].pc = "idle", ![w].result = "ok"]
       \/ /\ Left(w) # {}
          /\ bulk[w].task[s] \in {"ok", "failed"}
          /\ bulk' = [bulk EXCEPT
                ![w].total = @ + Cardinality(OfShard(bulk[w].docs, s)),
                ![w].task[s] = "none"]
    /\ UNCHANGED <<held, lag, cache, srch, resp, writes, faults, dropped>>

\* The tasks are awaited in shard order; the first error is returned.
AwaitTask(w) ==
    LET s == Min(Left(w)) IN
    /\ bulk[w].pc = "await"
    /\ \/ /\ Left(w) = {}
          /\ bulk' = [bulk EXCEPT ![w].pc = "idle", ![w].result = "ok"]
       \/ /\ Left(w) # {}
          /\ bulk[w].task[s] = "failed"
          /\ bulk' = [bulk EXCEPT ![w].pc = "idle", ![w].result = "error",
                                  ![w].task[s] = "none"]
       \/ /\ Left(w) # {}
          /\ bulk[w].task[s] = "ok"
          /\ bulk' = [bulk EXCEPT
                ![w].total = @ + Cardinality(OfShard(bulk[w].docs, s)),
                ![w].task[s] = "none"]
    /\ UNCHANGED <<held, lag, cache, srch, resp, writes, faults, dropped>>

\* A document goes to the primary of its shard, or the call fails.
Index(d) ==
    /\ writes < MaxWrites
    /\ writes' = writes + 1
    /\ Stored(ShardOf[d], {d})
    /\ UNCHANGED <<cache, resp, bulk, faults, dropped>>

Delete(d) ==
    LET s == ShardOf[d] IN
    /\ writes < MaxWrites
    /\ writes' = writes + 1
    /\ held' = [held EXCEPT ![s]["primary"] = Deleted(@, d)]
    /\ lag' = [lag EXCEPT ![s] = Append(@, [op |-> "delete", docs |-> {d}])]
    /\ srch' = Spoiled
    /\ dropped' = dropped \cup {d}
    /\ UNCHANGED <<cache, resp, bulk, faults>>

\* The replica of s applies the next document of the oldest write it has not
\* applied; the documents of a batch are forwarded one by one (Replication).
Replicate(s) ==
    /\ lag[s] # << >>
    /\ \E d \in Head(lag[s]).docs :
          LET rest == Head(lag[s]).docs \ {d} IN
          /\ held' = [held EXCEPT ![s]["replica"] =
                IF Head(lag[s]).op = "index" THEN Added(@, {d}) ELSE Deleted(@, d)]
          /\ lag' = [lag EXCEPT ![s] =
                IF rest = {} THEN Tail(@) ELSE [@ EXCEPT ![1].docs = rest]]
    /\ srch' = Spoiled
    /\ UNCHANGED <<cache, resp, bulk, writes, faults, dropped>>

FlushDrain(s, e) ==
    LET st == held[s][e] IN
    /\ st.hands = NoCopies
    /\ st.buffered # NoCopies \/ st.marked # {}
    /\ held' = [held EXCEPT ![s][e] = Drained(@)]
    /\ srch' = Spoiled
    /\ UNCHANGED <<lag, cache, resp, bulk, writes, faults, dropped>>

FlushPublish(s, e) ==
    /\ held[s][e].hands # NoCopies
    /\ held' = [held EXCEPT ![s][e] = Published(@)]
    /\ srch' = Spoiled
    /\ UNCHANGED <<lag, cache, resp, bulk, writes, faults, dropped>>

-----------------------------------------------------------------------------
Search(c) ==
    \/ \E q \in Requests : Reject(c, q) \/ RespondFromCache(c, q) \/ Scatter(c, q)
    \/ \E s \in Shards : ShardAnswers(c, s) \/ ShardFails(c, s)
    \/ GatherHits(c) \/ Fetch(c) \/ Rerank(c) \/ Finish(c)

BulkStep(w) == (\E s \in Shards : RunTask(w, s)) \/ AwaitTask(w)

Next ==
    \/ \E c \in Callers : Search(c)
    \/ \E w \in Writers, b \in Batches : RejectBulk(w, b) \/ StartBulk(w, b)
    \/ \E w \in Writers : BulkStep(w)
    \/ \E d \in Deletable : Index(d) \/ Delete(d)
    \/ \E s \in Shards : Replicate(s)
    \/ \E s \in Shards, e \in Endpoints : FlushDrain(s, e) \/ FlushPublish(s, e)
    \/ Expire

Spec == Init /\ [][Next]_vars

\* Clients keep searching with every request, calls end, replicas catch up, a
\* flush that has begun ends, and the clock runs.
FairSpec ==
    /\ Spec
    /\ \A c \in Callers :
          /\ WF_vars(Search(c))
          /\ \A q \in Requests :
                SF_vars(Reject(c, q) \/ RespondFromCache(c, q) \/ Scatter(c, q))
    /\ \A w \in Writers : WF_vars(BulkStep(w))
    /\ \A s \in Shards :
          /\ WF_vars(Replicate(s))
          /\ \A e \in Endpoints : WF_vars(FlushPublish(s, e))
    /\ WF_vars(Expire)

-----------------------------------------------------------------------------
\* What the endpoints in from answer together, whatever a shard leaves out.
Everything(from) == UNION {Copies(held[s][from[s]]) : s \in Shards}

\* The ScatterLimit best copies of each shard.
Candidate(from) ==
    UNION {TopOf(Copies(held[s][from[s]]), ScatterLimit) : s \in Shards}

InStock(q) == IF q.zone = "" \/ Strategy = "noop" THEN DocIds ELSE Available[q.zone]

\* There is one endpoint of each shard to search and one to fetch from such that
\* hits is the page of q of the candidates, all of them and nothing else, whose
\* document can be fetched and is in stock, in the ranker's order; and none of
\* the ScatterLimit best copies overall is missing from the candidates.
Exact(q, hits) ==
    \E from, pick \in [Shards -> Endpoints] :
        /\ TopOf(Everything(from), ScatterLimit) \subseteq Candidate(from)
        /\ hits = Page(InOrder({h \in Fetched(Candidate(from), pick, {}) :
                                    h[1] \in InStock(q)}, RankScore), q)

\* A search during which nothing failed and nothing changed on the shards returns
\* the page that sorting and filtering the candidates of one choice of endpoints
\* gives: no interleaving with other searches, no cache entry, no fallback order,
\* no filter and no page boundary loses or adds one (Router::search steps 1 to 9).
\* Two copies of an id are two candidates, and a deleted id whose copies are in an
\* open reader takes places among them: the property says so, it does not deny it
\* (see UpdatesReplace and DeletesRemove in ShardProperties).
ExactWhenClean ==
    [][\A c \in Callers :
          (resp'[c] # resp[c] /\ resp'[c].clean) =>
              Exact(resp'[c].req, resp'[c].hits)]_vars

IdsOf(hits) == {hits[k][1] : k \in DOMAIN hits}

\* A response for a zone contains only what the zone has in stock, from the
\* cache as well as fresh, unless the stock service failed when the list was
\* made (AvailabilityStrategy::apply, QueryCacheKey).  The noop strategy is the
\* configuration that does not filter.
ZoneRespected ==
    \A c \in Callers :
        (Strategy # "noop" /\ resp[c].status = "ok" /\ resp[c].req.zone # ""
           /\ ~resp[c].blind)
            => IdsOf(resp[c].hits) \subseteq Available[resp[c].req.zone]

\* Once shards, ranker and stock service work and writes have ended, the answers
\* become exact and stay so: what was computed from a failed shard, a stale
\* replica or in fallback order leaves the cache, also if a slow search puts it
\* there after a write (cache insert in Router::search, time_to_live in QueryCache).
EventuallyExact ==
    <>[](\A c \in Callers :
            resp[c].status = "ok" => Exact(resp[c].req, resp[c].hits))

\* d is in a segment, in the buffer or on its way from the one to the other.
OnPrimary(d) ==
    LET st == held[ShardOf[d]]["primary"]
    IN  d \in st.located \/ st.buffered[d] > 0 \/ st.hands[d] > 0

\* A bulk write that returns Ok has stored every document of the batch on its
\* shard's primary, and counts them all (Router::bulk_index).
BulkOkStored ==
    \A w \in Writers :
        bulk[w].result = "ok" =>
            /\ bulk[w].total = Cardinality(bulk[w].docs)
            /\ \A d \in bulk[w].docs \ dropped : OnPrimary(d)
-----------------------------------------------------------------------------
(***************************************************************************)
(* The inductive invariant behind the properties above (RouterProofs).     *)
(***************************************************************************)
Amount == [DocIds -> Nat]

Store ==
    [flushed : Amount, located : SUBSET DocIds, buffered : Amount,
     marked : SUBSET DocIds, hands : Amount]

Pending == [op : {"index", "delete"}, docs : SUBSET DocIds]

HitSets == {S \in SUBSET Copy : IsFiniteSet(S)}

Answer == [st : {"wait", "ok", "failed"}, found : HitSets]

SearchState ==
    [pc : {"idle", "scatter", "fetch", "rerank", "finish"}, req : Requests,
     got : [Shards -> Answer], docs : HitSets, hits : Seq(Copy),
     clean : BOOLEAN]

Response ==
    [status : {"none", "ok", "error", "rejected"}, req : Requests,
     hits : Seq(Copy), clean : BOOLEAN, blind : BOOLEAN]

CacheEntry == [age : Nat, hits : Seq(Copy), blind : BOOLEAN]

BulkState ==
    [pc : {"idle", "await"}, docs : SUBSET DocIds, total : Nat,
     result : {"none", "ok", "error", "rejected"},
     task : [Shards -> {"none", "running", "ok", "failed"}]]

TypeOK ==
    /\ held \in [Shards -> [Endpoints -> Store]]
    /\ lag \in [Shards -> Seq(Pending)]
    /\ cache \in [Keys -> CacheEntry]
    /\ srch \in [Callers -> SearchState]
    /\ resp \in [Callers -> Response]
    /\ bulk \in [Writers -> BulkState]
    /\ writes \in Nat
    /\ faults \in Nat
    /\ dropped \subseteq DocIds

\* What is cached for a zone was filtered for that zone, or is marked blind.
CachedForZone ==
    \A k \in Keys :
        (Strategy # "noop" /\ k.zone # "" /\ ~cache[k].blind)
            => IdsOf(cache[k].hits) \subseteq Available[k.zone]

\* What a search x that nothing disturbed has gathered is what the endpoints it
\* asked hold.
Undisturbed(x) ==
    /\ x.pc = "scatter" =>
          /\ x.hits = << >>
          /\ \A s \in Shards :
                /\ x.got[s].st # "failed"
                /\ x.got[s].st = "ok" =>
                      \E e \in Endpoints :
                          x.got[s].found = TopOf(Copies(held[s][e]), ScatterLimit)
    /\ x.pc = "fetch" =>
          \E from \in [Shards -> Endpoints] : \A s \in Shards :
              /\ x.got[s].st = "ok"
              /\ x.got[s].found = TopOf(Copies(held[s][from[s]]), ScatterLimit)
    /\ x.pc \in {"rerank", "finish"} =>
          \E from, pick \in [Shards -> Endpoints] :
              LET C == Fetched(Candidate(from), pick, {})
              IN  IF x.pc = "rerank" THEN x.docs = C ELSE x.hits = InOrder(C, RankScore)

CleanSoFar == \A c \in Callers : srch[c].clean => Undisturbed(srch[c])

\* The documents of bulk write b whose task has been awaited.
Awaited(b) == {d \in b.docs : b.task[ShardOf[d]] = "none"}

\* A task that ended well has stored its documents, and the count follows the
\* tasks that were awaited.
Accounted(b) ==
    /\ b.pc = "await" =>
          /\ b.result = "none"
          /\ b.total = Cardinality(Awaited(b))
          /\ \A d \in b.docs \ dropped :
                b.task[ShardOf[d]] \in {"none", "ok"} => OnPrimary(d)
    /\ b.result = "ok" =>
          /\ \A s \in Shards : b.task[s] = "none"
          /\ b.total = Cardinality(b.docs)
          /\ \A d \in b.docs \ dropped : OnPrimary(d)

BulksAccounted == \A w \in Writers : Accounted(bulk[w])

RouterInv ==
    /\ TypeOK
    /\ CachedForZone
    /\ ZoneRespected
    /\ CleanSoFar
    /\ BulksAccounted
=============================================================================
