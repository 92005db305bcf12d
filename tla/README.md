# A TLA+ model of the zearch engine

This directory holds the formal model of the search engine in `crates/`: TLA+
modules, TLC configurations that check them on small instances, and TLAPS proofs
of what must hold for every instance. File and line references are to the
repository; `PROJECT.json` maps every definition to the lines it models.

## 1. The system

| Part | State | Operations | Correct when |
|---|---|---|---|
| Write-ahead log, `shard/wal.rs` | `wal.bin`, `next_seq` | `append`, `append_batch`, `read_all`, `read_since`, `truncate` | whatever was acknowledged and is not in a segment can be read back after a crash |
| Write buffer, `shard/write_buffer.rs` | `docs`, `deleted_ids`, a cached temporary segment | `add`, `mark_deleted`, `drain`, `reader_and_stats` | what a search sees is what was added and not deleted |
| Segment list, `shard/segment_list.rs` | open readers, `doc_id_map`, `next_segment_seq` | `open`, `next_segment_id`, `add_segment`, `replace_segments`, `mark_deleted`, `get_doc` | list, map and directories agree |
| Segments, `index/segment.rs`, `docstore.rs`, `inverted.rs`, `posting.rs`, `column.rs` | a directory of immutable files, and `deletions.bin` | `write`, `open`, `mark_deleted`, term lookup, filters, facets | a listed segment can be opened again, with its documents and deletions; what is read is what was indexed |
| Merging, `shard/merge.rs` | none | `find_merges`, `execute_merge` | a merge loses no live document and drops the deleted ones |
| Shard engine, `shard/shard.rs` | the log, buffer and list, each behind its own lock | `open`, `index`, `index_batch`, `delete`, `flush`, `reindex_self`, `search`, `get_docs` | acknowledged writes survive and are found |
| Replication, `shard/replication.rs`, `shard/grpc_server.rs`, the second half of `shard.rs` | an unbounded queue per replica | `enqueue`, `Replicate`, `ReplicateCatchUp`, `FullSync` | replicas converge to the primary |
| Circuit breaker, `core/breaker.rs` and its two wrappers | two atomics | `is_open`, `record_success`, `record_failure` | opens after N failures, lets calls through after the window |
| Shard group, `router/client.rs` | the round-robin counter | `read_target` | every endpoint that works gets reads |
| Router, `router/router.rs`, `cache.rs`, `routing.rs`, `availability.rs` | query cache | `search`, `index`, `bulk_index`, `delete`, `suggest`, `reindex`, `flush`, `stats` | partial failure degrades the result and nothing else, and not for long |
| Ranker, `ranker/` | none | `rerank` with timeout and fallback | every search ends with an order |
| Query execution, `query/` | none | AND and OR retrieval, WAND, exact scores, facets, top-n | WAND returns what exhaustive scoring returns |
| Suggest shard, `suggest/` | counts in the builder, a published index | `index`, `bulk`, `flush`, `suggest` | an answer is exact for one complete snapshot, and snapshots catch up |
| HTTP handlers and process start, `server/main.rs` | none | handlers, start of nodes, flush task of the suggest node | bad requests are turned down before they change anything |
| Analysis, query understanding, configuration, generated code | none | | stateless, not modelled |

A client's request reaches an HTTP handler and the router, which hashes a document id
to a shard group and calls the group's primary over gRPC (or in process) for a write,
or any endpoint of every group for a search. The shard handles each request on a thread
of a pool. The engine has a mutex around the WAL and reader-writer locks around the
buffer and the segment list; its methods take these one after the other and hold no lock
while they write or remove segment directories. A primary hands each logged write to a
channel per replica; a task per channel forwards it. A replica that starts asks the
primary for what it missed.

The hard behaviour is in four places. An operation of the engine is a sequence of atomic
sections, other requests run in between, and the process may be killed at any point while
only `wal.bin` and the segment directories survive. Between primary and replica, calls
fail before or after they were applied, and log, channel and buffer each have their own
order. In the router, searches meet failed shards, stale replicas and cached answers
computed under other circumstances, and breakers are updated by overlapping calls. And
inside a search, the WAND loop skips postings on the strength of bounds.

## 2. Modules

| Module | Models |
|---|---|
| `ShardTypes` | documents, log entries, and `Gather`, the order-preserving filter behind `iter().flat_map().filter().collect()` and `Vec::retain` |
| `WalRecords` | `wal.rs`: the file as a sequence of records, of which some may be torn, and what reading it returns |
| `Wal` | `wal.rs`: opening, appending, truncating |
| `WriteBuffer` | `write_buffer.rs` |
| `SegmentList` | `segment_list.rs`, `merge.rs`, and of `crates/index` which documents a directory holds, which are marked deleted, and whether it can be opened |
| `ShardEngine` | `shard.rs`: composes the three, one action per locked section of each method, with failures, crash and `open` |
| `ShardProperties` | what a search sees, and the properties of the engine |
| `Replication` | extends `Wal`: the primary's threads, channel, forwarder, replica, catch-up, full sync |
| `CircuitBreaker` | `core/breaker.rs`, one action per atomic access |
| `AbstractBreaker` | what a caller may rely on: a gate that is closed, open or half open |
| `ShardGroup` | extends `CircuitBreaker`: `read_target` and the recording of outcomes; the refinement `Gate` |
| `Router` | `router.rs`, `cache.rs`, `availability.rs`, the ranker's fallback, the search and bulk handlers |
| `Postings` | `posting.rs`, `inverted.rs`: building, merging, encoding and looking up posting lists |
| `Columns` | `column.rs`: filters and facets |
| `Wand` | extends `Postings`: `wand.rs`, one action per way through the loop |
| `QueryExecutor` | extends `Wand`, `Columns`: `executor.rs`, `multi.rs`, `collector.rs`, `scorer.rs` |
| `QueryProperties` | reference definitions over documents alone, and the properties of a search |
| `SuggestEngine` | `crates/suggest`, the router's calls to it, the suggest handler |
| `MCShard`, `MCReplication`, `MCShardGroup`, `MCRouter`, `MCQuery`, `MCSuggest` | constants for TLC |
| `ShardTypesProofs` | lemmas on `Gather`, and on reading and numbering the log |
| `ShardProofs`, `ShardDurabilityProofs` | theorems about the engine |
| `ReplicationProofs` | theorems about replication |
| `ShardGroupProofs`, `RouterProofs`, `SuggestProofs` | theorems about breakers, the router and autocomplete |

### The shard engine

**State.** `walFile` and `disk` are durable. `nextSeq`, `bufDocs`, `bufDeleted`,
`segs`, `docMap`, `nextSegSeq` are the fields of the Rust structs. `th[t]` holds the
program counter and locals of the request thread `t`: the documents in its hands, the
segment id it was given, the ids it replaces. `up` says whether the process serves.
`acked` and `cleared` are history: documents whose index call returned `Ok`, and up to
which version the documents of an id were deleted. A failed delete also counts as a
delete for `cleared`, since its log record may have been written.

**Steps.** The order of sections is the one of the methods:

    index, index_batch   IndexAppend, IndexAdd, and a flush if the buffer is full
    delete               DeleteAppend, DeleteBuffered, DeleteInSegments
    flush                FlushDrain, Allocate, WriteSegment, FlushPublish,
                         FlushTruncate, MergeFind
    run_merge            Allocate, MergeExecute, MergeSwap, MergeClean
    reindex_self         flush, ReindexCollect, Allocate, WriteSegment,
                         ReindexOldIds, ReindexSwap, ReindexClean, ReindexTruncate

`IndexAppendFails`, `DeleteAppendFails`, `DeleteBitmapFails`, `WriteFails`,
`TruncateFails` and `CleanFails` are the error paths: the `?` operator returns the
error and keeps whatever was done so far. `Crash` loses memory and leaves directories
that were being written or removed in any state a kill can leave them in; `Open` is
`ShardEngine::open` with the replay of the log. A kill in the middle of an append, or
of the rewriting of `deletions.bin`, is the failing action followed by `Crash`.

**What is abstracted.** The content of a document is a version number: every write of
an id gets a new one. The buffer's size in bytes is a number of documents. Searching
is the set of documents the readers can return; matching and scoring are outside this
model. Segment ids are numbers (`seg-{:06}` sorts like numbers up to 999999).
`MergeExecute` takes the documents and writes the directory in one step, as the code
holds the read lock over both. `MergeClean` and `ReindexClean` remove all old
directories in one step; nobody else uses those directories by then (this is
`RemovedUnlisted`), so the order of removal matters to a crash only, and `Crash` covers
it. The kill is one of the process: data that `write` returned for is on disk.
A power failure, where the missing fsync of the segment files would count, is not
modelled. Neither is a torn record that happens to decode together with the bytes
behind it. The counters are 64 bits wide in the code and do not overflow here.

### Replication

A store is the sequence of its segment documents, its buffer, and the deletions known to
disk, to the open readers and to the map. A thread of the primary keeps its sections: the
log (under its mutex) for a whole batch, each record into one channel after the other, the
buffer, and for a full buffer, `flush` or `reindex_self` the drain, the publication and
the truncation, collecting and swapping. Documents a flush has drained and not published
are in its hands and in neither buffer nor segments. Writing a segment and listing it is
one step, as in between only its own thread knows the directory; merges keep the content
of segments and are left to `ShardEngine`.

`Forward` is a `Replicate` call that was applied. `ForwardFails` is one that failed before
or after the replica handled it, which it always does while the replica is not serving, or
one that never ends: the call has no timeout. The entry is gone in each case, as the
comment in `replication.rs` says. A handler whose buffer is full drains it, and publishes
in a step of its own (`hands`). A replica that opens replays its own log, in which nothing
is ever written (`apply_replicated` does not log), asks for the records from its own next
sequence number on, and applies them. It asks for a full sync if there were none and its
segments show nothing; `get_all_live_docs` on the primary then reads the segments in one
section (`CatchUpEnds`) and the buffer in another (`SyncReadsBuffer`), while flushes go
on. `excused` records, per replica, the documents some named cause took from it, and
`contested` the ids written by two threads at once; both are history.

### Breakers and shard groups

`opened_at_ms` becomes the age of the opening, since the code only compares it with the
clock: `Unset`, below the recovery window, or at its end, after which ages are not told
apart. A time that was read and not yet stored ages too. `failures` is counted up to the
threshold. A call the router's timeout cuts off is dropped before `record()` and reports
nothing. The endpoints are external and fail and recover at will.

### The router

A shard is a primary and a replica, which applies the primary's writes one document at a
time, later (`lag`). Each endpoint counts the copies of an id: `index` adds one to the
buffer whatever the segments hold, `delete` marks the id in the buffer and takes it out of
`doc_id_map` and leaves the copies in open readers to be found, a flush drains the buffer
with its marks and adds a segment later. A search finds copies, and each takes a place
among the best `ScatterLimit` that a shard sends. `get_docs` gives one document per id, so
both copies go on to the ranker. Merges, reindexing, restarts and overlapping flushes of
one shard are left to `ShardEngine`. A batch names an id once.

A search goes scatter, gather, fetch, rerank, filter, cache, page; each call to a shard,
the ranker and the stock service may fail. Relevance is a fixed order of the ids, and the
ranker's is another. Bulk writes are detached tasks per shard, awaited one after the other,
the first error returned; a task that failed may have stored its documents.

### Searching a shard

A term is a sequence of letters, a text a sequence of terms. Scores are integers scaled
by 1000, an average length a pair of sum and count, and `ln` a table given as a constant,
so block bounds and scores are computed as `bm25_impact`, `idf` and `term_score` compute
them, up to rounding. `BlockSize` (64 in the code), the limit of a term frequency and
the base of the varints are constants, so that blocks fill, counters saturate and
numbers take several digits in small corpora. The dictionary, an FST in the code, is a set.

### Suggest

The builder's counts, an index being published by each of two flushers, the published index.
`Write` and `Deliver` are the router's detached calls, which may be lost; a crash loses
counts and index. An index is its terms with their counts; `SortedTerms` is the list
`SuggestIndex::new` sorts them into, which a query searches. Ties in `snapshot` and `query`
are broken by hash order in the code and by any choice here.

## 3. Runs

| Run | Instance | Checks |
|---|---|---|
| `shard_concurrent` | 2 threads, 2 ids, 4 operations, no reindex, buffer of 1, merges of 2 | `ListedOnDisk`, `DocMapSound`, `NothingVanishes`, `MergeKeepsDocs` |
| `shard_crash` | 1 thread, 2 ids, batches, 5 operations, 2 kills | `FoundBetweenCalls`, `Durable`, `MapIsFresh`, `EachWriteOnce` |
| `shard_faults` | 2 threads, 1 id, 3 operations, 1 failure of any kind, merges of 2, fairness | `SegmentInv`, `FinallySearchable` |
| `group_reads` | 2 endpoints, 2 callers, threshold 2, window 1 | `Gated`, `GateLapses`, `Recovers`, `PersistentFailureTrips`, `EveryEndpointServes` |
| `replication` | 2 writers, 1 replica, 1 id, single writes, batches of 2, deletes, flushes and reindexing up to 3, 1 failure of any kind, buffer of 2 | `OnlyExcusedMissing`, `SettledNotStale` |
| `router` | 2 shards with replicas, 5 documents of which 3 are there at the start, 3 kinds of search, a bulk write, repeated write or delete, 1 failed call | `ZoneRespected`, `BulkOkStored`, `ExactWhenClean` |
| `router_live` | the same without bulk writes, entries that live 2 ticks, 2 failed calls, fairness | `EventuallyExact` |
| `query` | 528 corpora of 2 segments, 6 queries, blocks of 2 | `PageExact`, `HitsAsked`, `FacetsAgree`, `IndexFaithful`, `SearchEnds` |
| `suggest` | 2 shards, 3 documents, 2 flushers, 2 writes, 1 `Flush` call, 1 crash, 1 user, limits up to 2, fairness | `FrequencyDeserved`, `SuggestExact`, `EventuallyFresh` |

`MaxOps`, `MaxWrites`, `MaxCalls` and the list of batches bound what clients do, `MaxFaults` and `MaxCrashes`
what goes wrong; `group_reads` and `query` have no such bound (endpoints fail and recover
for ever, and a search is finite).

**Why the bounds are enough.** With a buffer of one or two documents every index call, or
every second one, flushes, and `MinSegmentsToMerge = 2` (3 in the code) makes every second
flush merge: the bounds reach two overlapping merges, a delete during a merge, a merge while
another thread publishes, and a restart with leftovers of an interrupted merge. In
`replication`, three operations and a buffer of two give a flush of the primary with its
truncation, and a write, a delete, a flush or a reindexing of the other thread anywhere
around or inside it; a full sync runs into the flush of a batch, and one failure of each
kind falls anywhere. In `group_reads` two callers are what it takes for a success and a
failure to overlap, and a threshold of 2 for a run of failures to be interrupted. In
`router` a search asks a shard for three hits and the first shard starts with three
documents, so a second copy or a batch pushes one out; the ranker reverses the order, and
the zone lacks the best documents of either order. One write and one failure are enough for
a copy on one endpoint only, a batch half stored, a flush between search and fetch; both
shards fail only in `router_live`, where two failures are allowed. In `query` the corpora
have blocks that are skipped, words that begin with other words, saturated frequencies,
deleted documents and missing attributes; one more word is only found through a typo. In
`suggest` the first write is a batch of all documents, one task per shard, and the second
one of them again. The ticker's flush takes its snapshot before a task arrives, the `Flush`
call after it, and they publish in either order. The term limit is below the number of
terms, one term is a prefix of another, and a question for two terms gets both from one
shard, one from each, or the same term from both.

**Where the properties stop.** They hold where they are checked for a reason:

- `Durable` and `FoundBetweenCalls` hold with one client at a time and kills between
  sections; `FoundBetweenCalls` leaves out ids with a deletion mark in the buffer, which
  hides a document indexed again after its delete until a flush. `NothingVanishes` holds
  under concurrency without kills and without reindexing. Concurrency and a kill together
  break it (`v_flush_race`), and so does reindexing next to a writer. Section 4 lists
  what else does.
- `MapIsFresh` holds for one client, and when a merge takes all segments there are.
  With a cap below that (`max_merge_at_once` is 10) and a crash that leaves extra
  directories, the newest copy of a document can be left out of the group and the
  swap makes an older one the mapped one. With two threads, a flush that publishes late,
  or a merge that overlaps a flush, does the same.
- `EachWriteOnce` is about one write of a document, the time before the first kill, and one
  client. A kill between publishing a segment and truncating the log brings its documents
  back twice. Two writes of an id are two hits (`UpdatesReplace`, section 4).
- `FinallySearchable` leaves out ids that are deleted, since the deletion mark of the
  buffer is by id and hides a document indexed again, and behaviours with a failure or
  with reindexing.
- `OnlyExcusedMissing` names the causes for which a replica may lack a document: its call
  failed, the channel died with the primary, a catch-up broke off, or the primary had
  truncated the record before the replica read it. A full sync makes up for what it sends
  and no more: not for a document in a flush's hands, or one of the primary's buffer that
  an earlier delete hides. Nothing else loses one; in particular, what a full sync misses
  because it ran into a flush is on its way through the channel, unless it had been taken
  from the replica before. That the excuses exist at all is against the documents
  (`DownLosesNothing` in section 4, and `v_catch_up`).
- `SettledNotStale` leaves out ids that two threads wrote at once (log, channel and buffer
  then have independent orders) or that a crashing replica had in its buffer, ids of which
  the replica was cut off from a write, and copies of the primary that a later delete was
  aimed at.
- That entries get through a channel at all is no property here: nothing in the code ends a
  `Replicate` call that hangs, and the channel behind it stands still.
- `PersistentFailureTrips` is about failures that are reported. An endpoint that hangs is
  cut off by the timeout and never reported, so its breaker stays closed.
- `ExactWhenClean` is about searches during which no call failed and no endpoint changed.
  The answer is then exactly the page of the candidates, the best `ScatterLimit` copies of
  the endpoints it asked, that can be fetched and are in stock; no copy overall that is
  among the best `ScatterLimit` is missing from them. It does not say that an id comes
  once, or that a deleted id does not come: the code returns both copies, and a deleted
  id whose copy is in an open reader takes a place until it cannot be fetched.
  Availability is applied after each shard has sent its best, so a page can be short
  although more matching documents are in stock.
- `EventuallyExact` is why caching a partial answer is tolerable: nothing but its age
  removes it. The mutant, in which reading an entry renews it, breaks the property.
- `ZoneRespected` leaves out answers that were made, or cached, while the stock service
  failed: they are not filtered.
- `PageExact` has three provisos: that block bounds are bounds (`BoundsHold`), which
  `v_wand_bound` shows they need not be; for a sort by a field, that no segment has more
  matches than its heap keeps, since the heap keeps the best by score; and the same where
  a segment falls back to OR, since each token has a heap of its own there and a document
  may miss the score of a token. It accepts that each segment falls back on its own
  (`FallbackOnlyIfNothing`, section 4). The reference definitions read the documents and
  deletions   alone: whether a document has all tokens or passes the filters is not taken
  from the engine's filters, columns or posting lists. Scores are the engine's formula
  (BM25 with the document frequencies the engine counts, which `IndexFaithful` checks).
- `FrequencyDeserved` leaves out shards that got a document twice: it counts twice. What
  it counts are fields, not documents.

**Fairness.** `ShardEngine`: weak fairness of each thread's next section, and nothing else;
no client has to call, no failure has to happen. The sections are synchronous code that
waits for locks released at the end of a section, and no thread takes a lock while it holds
one another section needs. `Replication`: none, its properties are about states.
`ShardGroup`: reads keep coming, a call ends (it has a timeout), the clock runs; nothing
about endpoints. `Router`: calls end, replicas catch up, a flush that has begun publishes,
entries age, and each kind of search is asked again and again (strong fairness, since a
client is busy in between); clients that stop asking have no answers to speak about. No
flush has to begin. `QueryExecutor`: the thread of the search runs. `SuggestEngine`: the
ticker of the flush task fires and a flush goes on; no shard has to answer or to be up.

**Deadlock** is checked everywhere except in `query`, where a search ends.

## 4. Where code and documents disagree

Each violation run states what a document or comment of the repository promises.

| Run | Promise | What happens |
|---|---|---|
| `v_flush_race` | README.md:427, no data loss | thread 1 drains; thread 2 indexes a document; thread 1 truncates the log with the record of it; kill |
| `v_catch_up` | spec/004 requirements.md:31,33: a replica that restarts gets all it missed before it serves | the primary flushes and truncates the record of a document that the replica has only buffered when it crashes; the replica has other data, so there is no full sync, and it serves without the document |
| `v_wand_bound` | wand.rs:186, "No doc in these blocks can beat the threshold." | a prefix expands to more postings than there are documents and the idf of that number is clamped to 0; the summed bound, 75270, is not above 104898, the score in the full heap, and a document that scores 112967 is skipped |

More promises the models break. No configuration kept here runs them; the definitions are
beside the other properties, and each is violated with the constants given:

- `UpdatesReplace`: spec/001 requirements.md:69, "Updates to existing documents are
  reflected", and :110 (FR-09). One thread, `index` and `flush`, a buffer of one: index,
  index the same id again, and every search finds both contents from then on, as `index`
  only adds (shard.rs:115) and nothing compares ids.
- `DeletesRemove`: spec/001 requirements.md:70, "Deletes remove documents from results
  within 1 second". One thread, no reindexing, three operations: the open reader does not
  learn of the delete; a merge copies the document from it and drops the mark (merge.rs:72).
- `NothingVanishes` with reindexing: spec/002 requirements.md:61, "All documents present
  before reindex are present after", and design.md:123. Two threads that index and reindex,
  a buffer of one, three operations: thread 2 has drained a document; thread 1 collects
  what the segments show; thread 2 publishes; thread 1 lists the segments to replace
  (shard.rs:359) and swaps.
- `DownLosesNothing`: spec/004 requirements.md:23, "If a replica is down, its queue
  accumulates; the write is not lost". One writer, two operations, a buffer of one, a crash
  of the replica: the forwarder takes the entry, the call to the replica that is down fails,
  the entry is dropped (replication.rs:71); the record is truncated.
- `FallbackOnlyIfNothing`: spec/003 tasks.md:12, "does not trigger when AND has results".
  With the constants of `query`: one segment has a document with all tokens, another has
  none and falls back (executor.rs:80); the response mixes the hits and is marked as a
  fallback.
- `AllDownIsAnError`: spec/008 requirements.md:45, "the endpoint returns 503". Two crashes:
  both shards are down, both calls time out, the answer is an empty list with status 200
  (router.rs:465).

The models also have the following behaviours. Where a property is named, it is violated
when `Faults` or `Calls` allow the case; the others have no property here, because the code
does not satisfy the statement:

- a flush whose segment cannot be written has dropped its documents from memory, and the
  next flush truncates their records (shard.rs:240; `Durable`, with `"write_error"`);
- a torn `deletions.bin` makes the whole segment unreadable (docstore.rs:147;
  `NothingVanishes`, with `"bitmap_cut"`);
- records behind a torn one are never read again (wal.rs:85; `NothingVanishes`, with
  `"append_cut"`), although wal.rs:69 speaks of trailing records only;
- a flush drops the marks of the buffer, so a document deleted before it was flushed is
  found after (shard.rs:225; `DeletesRemove`), although merge.rs:60 says that a merge
  excludes deleted documents;
- `get_all_live_docs` leaves out a buffered document whose id was deleted before it was
  indexed, because the mark is by id: a full sync does not bring it to the replica, and
  after the primary's next flush the primary shows it and the replica does not
  (shard.rs:409; `OnlyExcusedMissing` excuses it);
- two reads of `get_all_live_docs` around a flush miss the documents it publishes; if the
  replica had been cut off from them before, the sync does not make up for it
  (shard.rs:409; `OnlyExcusedMissing` excuses it);
- `get_docs` asks the segments before the buffer, so an update is hidden until it is
  flushed (shard.rs:196).

And from reading: the router sorts by score whatever `sort` says (router.rs:191),
README.md:12 promises a custom sort; a fetch of documents has no timeout (router.rs:552);
attributes that are not strings do not cross gRPC (client.rs:281); the suggest builder
counts a term once per field of a document (builder.rs:60), where builder.rs:9 speaks of
the document frequency.

## 5. Proofs

Every theorem is about the specification TLC checks, with its constants left open: any
finite sets of threads, replicas, shards and document ids, any capacity, merge policy,
threshold and window, any number of operations and failures.

| Module | Theorem | Statement |
|---|---|---|
| `ShardProofs` | `Typing` | `Spec => []TypeOK` |
| | `SegmentsSafe` | `Spec => []SegmentInv` |
| | `DirectoriesSafe` | `Spec => []ListedOnDisk` |
| | `MapSafe` | `Spec => []DocMapSound` |
| | `MergeSafe` | `Spec => MergeKeepsDocs` |
| `ShardDurabilityProofs` | `NothingDropped` | `NoReindexing /\ MemoryKept => (Spec => []NothingVanishes)` |
| | `AckedSurvives` | `OneClient /\ OnlyKills => (Spec => []Durable)` |
| | `AckedServed` | `OneClient /\ OnlyKills => (Spec => []FoundBetweenCalls)` |
| | `NoWriteTwice` | `OneClient => (Spec => []EachWriteOnce)` |
| `ReplicationProofs` | `ReplicationTyping` | `Spec => []TypeOK` |
| | `MissingOnlyForCause` | `Spec => []OnlyExcusedMissing` |
| `ShardGroupProofs` | `Typing` | `Spec => []TypeOK` |
| | `BreakersGated` | `Spec => Gated` |
| `RouterProofs` | `ZonesKeptApart` | `Spec => []ZoneRespected` |
| | `BulkOkMeansStored` | `Spec => []BulkOkStored` |
| | `CleanSearchesExact` | `Spec => ExactWhenClean` |
| `SuggestProofs` | `SuggestTyping` | `Spec => []TypeOK` |
| | `AnswersAreExact` | `Spec => SuggestExact` |
| | `FrequenciesAreDeserved` | `Spec => []FrequencyDeserved` |

The assumptions are those named in the modules: finite `DocIds` and `Threads`, positive
`BufferCap`, `MinSegmentsToMerge`, `MaxMergeAtOnce`, natural bounds, for autocomplete
finite sets of documents, fields and shards and words of any letters, and in the router
scores that are all different. This one says that relevance is a fixed total order:
the code's stable sorts break ties by the order of arrival, and the model has no ties.

### Segments and directories

`ListedOnDisk` is not inductive. A thread that removes directories, or that lists a
segment it wrote some time ago, does so with no lock that would tell it what others did
meanwhile. What makes it right is who owns an id: `next_segment_id` hands out numbers
above every id in use (`IdsAllocated`), so a segment under construction belongs to one
thread and is in nobody's list of segments to replace (`BuildersApart`), its directory
stays as it was written (`BuiltOnDisk`), and what a thread removes has left the list for
good (`RemovedUnlisted`). `MergeCovers` says that a merged segment holds what its
sources hold as long as they are listed, which is why two overlapping merges lose
nothing: the second writes what is left of its group. `SegmentInv` is the conjunction
and is inductive; `shard_faults` checks it with TLC. The proof goes action by action,
by way of lemmas on four ways to change the segment state: a step that leaves it alone
(`QuietStep`), one that changes the list, one that changes directories nobody lists, and
one that marks a deletion. `ShardTypesProofs` shows that `Gather` enumerates exactly the
elements at the given positions; it is defined by ranks instead of by recursion so that
this can be proved.

### Acknowledged documents

`AckedServed` is about the state between calls, when no flush has documents in hand: what
is held is then searched, but for the marks of the buffer. The hypotheses of the three
theorems are on the constants and are the ones the runs have.
They are needed: `reindex_self` next to a writer and a segment that cannot be written each
drop documents (section 4), and two writers and a kill are `v_flush_race`.

With many threads (`HeldInv`), the promise has to start before the acknowledgement: a
document is held from the moment its `index` call left the buffer's section (`Promised`).
Every section then hands it on: the buffer to the flush that drains it, the flush to the
segment it publishes, and a merge swap by `MergeKeepsDocs`' argument to the merged one.

With one client and kills (`DurableInv`), a document that is due is in the log and in
memory, or in a listed segment and not marked in its directory. While the process is down
it is in the log or in a directory that `open` loads (`Survives`). Three things make this
inductive. The log gets a record before the buffer gets the document (`LoggedFirst`).
Between a drain and its truncation the buffer stays empty (`BufferTaken`), so the
truncation removes only records of documents that are in segments by then; this is what
fails with two threads. And when the log holds a delete of the document's id, it holds
the document too, which is what saves a document in a segment from the replay of an old
delete. `LogWhole` needs the absence of torn records.

### One place per write

A document is here one write of an id. `OnePlace` says that no listed segment and no buffer
has a document twice and no two of them share one. To keep it, what a call is about to add
must not be there yet: the documents of an `index` call have versions above every stored one
(`VersionsGiven`), those of a flush left the buffer when it was drained, and those of a
merge are in segments that leave the list in the same section (`CallOnce`). `reindex_self`
reads the ids it replaces after the documents it copies; with one client these are all the
segments there are. With two threads the invariant fails: two merges of the same segments
both list a copy. `OnceInv` adds "until the first failure", since a kill between publishing
and truncating does leave a document in two places.

### Replication

`OnlyExcusedMissing` looks at what the primary shows and the replica lacks when the
replica serves. Its invariant (`ReplicationInv`) has to say where a document of the primary
is, as seen from one replica, in any state. `Supplied` does: every document the primary
knows (stored, in a record of its log, in a flush's hands, or in a call) is stored on the
replica or in its handler's hands, in the channel, in the stream of a catch-up, among the
records of a call that the channel has not got yet, excused, or, while the replica has yet
to ask for it, in a readable record of the log. It covers the documents of a call that has
logged them and not applied them, since the forwarder may deliver, or lose, an entry before
the primary itself has the document; and those a flush has drained, since a full sync does
not see them. Hence a sync may take back only excuses of what it sends.

The rest makes this inductive. `LogWhole`: every record can be read. `CallShape` and
`StreamShape`: what the program counters say of a call's records, and that nothing is
streamed to a replica that is down, has not asked, or serves. `VersionsUsed` and
`QueuedFirst`: until a call has filled every channel, its documents are nowhere but in the
log and in the call, as versions are new; so a restart of the primary, a truncation and a
failed call cannot take a document from a replica that was never offered it.

The proof goes operator by operator first (what each change of a store does to the
documents in it), then one lemma per action for `Supplied` and one for the rest.

`SettledNotStale` is only model-checked: it compares the order of four ways an entry can
come to a replica, and flushes of two threads that publish in the reverse order put one
more order beside them.

### Breakers

The refinement mapping of `BreakersGated` reads the gate off the age of the opening
and the armed callers off their program counters. Every access to an atomic is a step of
the gate or invisible: `failures.store(0)` is `Forgive`, `opened_at_ms.store(0)` `Heal`,
`fetch_add` `Strike`, the compare-exchange `Trip`, and a tick is `Lapse` of the gates
whose window ends with it, or nothing. The type invariant is all that is needed besides:
`Trip` must find an age that is not the mark of an unset time, and `Lapse` an age that
does not pass the end of the window.

### Router

`RouterInv` has three parts beside types. `CachedForZone`: what is cached under a zone was
filtered for this zone, unless the stock service failed when it was computed and the entry
is marked so; a page cut from it inherits that. `Accounted`: the documents of a task that
ended well are on its primary, in the map, in the buffer or in the hands of a flush, and the
running total counts the tasks awaited so far; a delete that comes later is what `dropped`
leaves out. `CleanSoFar`: as long as a search is clean, each answer it has is the best
`ScatterLimit` copies of one endpoint (`Undisturbed`), after the gather one endpoint per
shard explains all of them, and after the fetch there is a second choice of endpoints that
knew the documents. `CleanSearchesExact` then goes through what is done with these
candidates: `InOrder` lists a finite set of copies by rank, filtering an ordered list gives
the ordered list of the filtered set (`FilteredInOrder`), and the best copies overall are
among the best of each shard (`CandidatesComplete`). `HitSets` says that all sets of copies
are finite, which orders by rank need.

### Suggest

`SuggestExact` relates an answer to the whole indexes of the shards that answered. Its
invariant (`AnswersSound`) is short: what a shard said is one of the results
`SuggestIndex::query` may return on the index it had then, and a shard that failed said
nothing. The work is in what follows from it, for any choice among ties:

- Terms are strictly ordered (`PrecedesOrders`, by the first letter that differs, the end
  of a term coming before every letter), and the terms with a prefix are the first ones
  from the prefix on (`PrefixRange`). So `partition_point` and `take_while` on the sorted
  list cut out exactly these (`MatchesExact`).
- Within a shard all scores have the same denominator, so its best by frequency are its
  best by score, and what it keeps back is no better than any of the `limit` terms it
  sends (`ShardBest`).
- Scores of different shards are compared as fractions; `ScoreOrder` shows that this is a
  weak order and `Before` a strict one on entries of different terms. `MergedBest` is
  about the merge of any entries.
- `MergeExact` puts these together. A term that was kept back and ranks before the i-th
  answer would have all `limit` terms of its shard before the i-th answer too; they fill
  places below i, of which there are fewer than `limit`.

For `FrequencyDeserved` the counts have to be deserved first (`CountsDeserved`); a snapshot
copies them, what the shard got only grows while the snapshot waits to be published, and a
crash takes both. When a task is delivered and no document has come twice, its documents are
new to the shard and different from each other, so the fields it counts are as many more
fields of documents the shard got (`DeliverCounts`).

For the proofs, `AddAll` counts at once what `SuggestShardEngine::bulk` adds one by one,
and lists are put in order by ranks (`InOrder`), as in `Router`.

### Only model-checked

- `MapIsFresh` is false in general (section 3), and its reason, that a merge took every
  segment, is about particular bounds.
- The properties of `QueryProperties`: they compare folds, recursive encodings and counts
  over data with reference definitions. A proof is an induction over the data, for which
  no prover here can instantiate the induction theorems.
- `SettledNotStale` (see above).
- All liveness properties, with them the second half of `GateLapses`, `UpdatesReplace` and
  `DeletesRemove`.

## 6. Not modelled, and what is left

- `routing.rs`: `jump_consistent_hash` multiplies in 64 bits and divides floats. TLC's
  integers have 32 bits, and a scaled version would be another function. The models take
  any `ShardOf`.
- Query understanding and text analysis: functions of strings without state. The models
  start from terms.
- `config.rs`, generated protocol code, the byte layout of the document store and of
  column files, the wasm host of the ranker, metrics and process wiring.
- The fan-outs of `reindex`, `flush` and `stats` in the router, which wait for all shards
  and collect their answers; the engine's side of the first two is in `ShardEngine`.
- A power failure (missing fsync), and clocks that step back.
