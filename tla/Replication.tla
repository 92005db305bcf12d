------------------------------ MODULE Replication ------------------------------
(***************************************************************************)
(* One shard's primary and its replicas: crates/shard/src/replication.rs,  *)
(* the replication half of shard.rs (apply_replicated, get_all_live_docs,  *)
(* wal_records_since, catch_up_from_primary) and the handlers replicate,   *)
(* replicate_catch_up and full_sync of grpc_server.rs.                     *)
(*                                                                         *)
(*   primary's index,   idle -> enqueue (per record and replica) -> apply  *)
(*     index_batch        [-> drain -> publish -> truncate] -> idle        *)
(*   delete             idle -> enqueue -> apply -> del_seg -> idle        *)
(*   flush              idle -> drain -> publish -> truncate -> idle       *)
(*   reindex_self       flush -> collect -> swap -> r_truncate -> idle     *)
(*   forwarder of r     connecting -> connected -> connecting ... | hung   *)
(*   replica            down -> opened -> catch_up [-> sync_read -> sync]  *)
(*                        -> serving                                       *)
(*                                                                         *)
(* Threads of the primary take their steps in any order; no lock is held   *)
(* from one step to the next.  A replica runs one handler, or its          *)
(* catch-up, at a time: the forwarder waits for each reply, and a handler  *)
(* whose caller gave up is taken to end before the next call arrives.      *)
(*                                                                         *)
(* The log is module Wal's.  A store is ShardEngine's with the list of     *)
(* segments seen as one sequence of documents; a directory is written and  *)
(* listed in one step, since a kill between the two leaves what a kill     *)
(* after both leaves.  Merging keeps the content of segments               *)
(* (MergeKeepsDocs) and is left out.  Attributes that are not strings are  *)
(* lost between nodes (doc_to_proto); documents are opaque.                *)
(***************************************************************************)
EXTENDS Wal, SequencesExt

CONSTANTS
    Replicas,    \* replica_endpoints
    Writers,     \* request threads of the primary
    Calls,       \* Calls[t]: the operations thread t's clients issue
    Batches,     \* the batches of ids that are indexed; <<i>> is index()
    BufferCap,   \* write_buffer_size, in documents
    MaxOps,      \* bound: documents indexed plus other calls made
    Faults,      \* the kinds of failure that may happen
    MaxFaults    \* bound: number of failures

Operations == {"index", "delete", "flush", "reindex"}

\* rpc_lost, reply_lost, call_hangs: a Replicate call fails before or after the
\* replica handled it, or never ends (it has no timeout).
CallFaults == {"rpc_lost", "reply_lost", "call_hangs"}
ReplicationFaults ==
    CallFaults \cup {"replica_crash", "primary_crash", "catch_up_error"}

ASSUME ReplicationAssumption ==
    /\ Calls \in [Writers -> SUBSET Operations]
    /\ Batches \subseteq Seq(DocIds) \ {<< >>}
    /\ BufferCap \in Nat \ {0}
    /\ MaxOps \in Nat
    /\ Faults \subseteq ReplicationFaults
    /\ MaxFaults \in Nat

VARIABLES
    primary,   \* the primary's store
    writer,    \* writer[t]: program counter and locals of thread t
    queue,     \* queue[r]: entries in the channel to r, oldest first
    link,      \* link[r]: state of the forwarder task of r
    mode,      \* mode[r]: state of the replica process
    replica,   \* replica[r]: the replica's store
    hands,     \* hands[r]: documents a flush of r has drained and not published
    stream,    \* stream[r]: entries still to come of a catch-up or full sync
    caught,    \* caught[r]: wal_count
    clock,     \* operations so far; numbers the writes
    faults,    \* failures so far
    cleared,   \* history: versions of id up to cleared[id] were deleted
    contested, \* history: contested[r]: ids whose order on r is open
    excused    \* history: excused[r]: documents r was cut off from

primaryVars == <<primary, writer>>
channelVars == <<queue, link>>
replicaVars == <<mode, replica, hands, stream, caught>>
historyVars == <<cleared, contested, excused>>
vars == <<walVars, primaryVars, channelVars, replicaVars, clock, faults,
          historyVars>>

-----------------------------------------------------------------------------
(***************************************************************************)
(* A node's store: the write buffer with its deletion marks, and what the  *)
(* segments hold, in the order it was published.  gone are the positions   *)
(* marked in deletions.bin, hidden those the open readers know of (a       *)
(* reader loads the file once), at the position get_doc and mark_deleted   *)
(* use for an id (0: none).                                                *)
(***************************************************************************)
Store == [buf : Seq(Document), del : SUBSET DocIds, seg : Seq(Document),
          gone : SUBSET Nat, hidden : SUBSET Nat, at : [DocIds -> Nat]]

EmptyStore == [buf |-> << >>, del |-> {}, seg |-> << >>,
               gone |-> {}, hidden |-> {}, at |-> [i \in DocIds |-> 0]]

LastAt(seg, skip, i) ==
    Max({0} \cup {k \in DOMAIN seg : seg[k].id = i /\ k \notin skip})

Added(s, docs) == [s EXCEPT !.buf = @ \o docs]

Full(s) == Len(s.buf) >= BufferCap

\* drain: the flushing thread takes the documents, marked deleted or not.
Drained(s) == [s EXCEPT !.buf = << >>, !.del = {}]

\* A segment with docs is written and listed (add_segment).
Published(s, docs) ==
    LET seg == s.seg \o docs IN
    [s EXCEPT !.seg = seg,
              !.at = [i \in DocIds |->
                  IF \E k \in DOMAIN docs : docs[k].id = i
                  THEN LastAt(seg, {}, i) ELSE s.at[i]]]

\* One segment with docs takes the place of all segments (replace_segments).
Replaced(s, docs) ==
    [s EXCEPT !.seg = docs, !.gone = {}, !.hidden = {},
              !.at = [i \in DocIds |-> LastAt(docs, {}, i)]]

\* WriteBuffer::mark_deleted and SegmentList::mark_deleted.
MarkedInBuffer(s, i) == [s EXCEPT !.del = @ \cup {i}]

MarkedInSegments(s, i) ==
    [s EXCEPT !.gone = IF s.at[i] = 0 THEN @ ELSE @ \cup {s.at[i]},
              !.at   = [@ EXCEPT ![i] = 0]]

\* The process starts again on its segments; the buffer comes from the log.
Reopened(s) ==
    [s EXCEPT !.buf = << >>, !.del = {}, !.hidden = s.gone,
              !.at = [i \in DocIds |-> LastAt(s.seg, s.gone, i)]]

\* open's replay of the log: documents are buffered without flushing, deletes are
\* marked in the buffer and in the segments.
Replayed(s, log) ==
    LET docs    == [k \in DOMAIN log |-> log[k].entry.doc]
        indexed == {k \in DOMAIN log : log[k].entry.op = "index"}
        deleted == {docs[k].id : k \in DOMAIN log \ indexed}
    IN  [s EXCEPT !.buf  = Retain(docs, indexed),
                  !.del  = deleted,
                  !.gone = @ \cup ({s.at[i] : i \in deleted} \ {0}),
                  !.at   = [i \in DocIds |-> IF i \in deleted THEN 0 ELSE s.at[i]]]

\* reader.all_live_docs of every segment.
LiveSegmentDocs(s) ==
    [k \in 1..Cardinality(DOMAIN s.seg \ s.hidden) |->
        s.seg[Ascending(DOMAIN s.seg \ s.hidden)[k]]]

\* WriteBuffer::all_docs: without the ids marked deleted.
LiveBufferDocs(s) ==
    Retain(s.buf, {k \in DOMAIN s.buf : s.buf[k].id \notin s.del})

SegmentDocs(s) == ToSet(s.seg)

BufferDocs(s) == ToSet(s.buf)

StoredDocs(s) == SegmentDocs(s) \cup BufferDocs(s)

\* What a search finds.
Shown(s) == ToSet(LiveSegmentDocs(s)) \cup ToSet(LiveBufferDocs(s))

-----------------------------------------------------------------------------
\* op, call: the operation and the records it logged; sent, left: how many of
\* them are in every channel, and the channels the next one has still to go to;
\* docs: documents a flush has drained or reindex_self has collected.
Writer == [pc : {"idle", "enqueue", "apply", "del_seg", "drain", "publish",
                 "truncate", "collect", "swap", "r_truncate"},
           op : Operations \cup {"none"}, call : Seq(WalEntry), sent : Nat,
           left : SUBSET Replicas, docs : Seq(Document)]

Serving(op, call, label) ==
    [pc |-> label, op |-> op, call |-> call, sent |-> 0,
     left |-> IF call = << >> THEN {} ELSE Replicas, docs |-> << >>]

IdleWriter == Serving("none", << >>, "idle")

TypeOK ==
    /\ WalTypeOK
    /\ primary \in Store
    /\ writer \in [Writers -> Writer]
    /\ queue \in [Replicas -> Seq(WalEntry)]
    /\ link \in [Replicas -> {"connecting", "connected", "hung"}]
    /\ mode \in [Replicas -> {"down", "opened", "catch_up", "sync_read", "sync",
                              "serving"}]
    /\ replica \in [Replicas -> Store]
    /\ hands \in [Replicas -> Seq(Document)]
    /\ stream \in [Replicas -> Seq(WalEntry)]
    /\ caught \in [Replicas -> Nat]
    /\ clock \in 0..MaxOps
    /\ faults \in 0..MaxFaults
    /\ cleared \in [DocIds -> Nat]
    /\ contested \in [Replicas -> SUBSET DocIds]
    /\ excused \in [Replicas -> SUBSET Document]

Init ==
    /\ WalInit
    /\ primary = EmptyStore
    /\ writer = [t \in Writers |-> IdleWriter]
    /\ queue = [r \in Replicas |-> << >>]
    /\ link = [r \in Replicas |-> "connecting"]
    /\ mode = [r \in Replicas |-> "down"]
    /\ replica = [r \in Replicas |-> EmptyStore]
    /\ hands = [r \in Replicas |-> << >>]
    /\ stream = [r \in Replicas |-> << >>]
    /\ caught = [r \in Replicas |-> 0]
    /\ clock = 0
    /\ faults = 0
    /\ cleared = [i \in DocIds |-> 0]
    /\ contested = [r \in Replicas |-> {}]
    /\ excused = [r \in Replicas |-> {}]

-----------------------------------------------------------------------------
EntriesOf(records) == [k \in DOMAIN records |-> records[k].entry]

AsEntries(docs) == [k \in DOMAIN docs |-> IndexEntry(docs[k])]

DocsIn(entries) ==
    {entries[k].doc : k \in {j \in DOMAIN entries : entries[j].op = "index"}}

QueuedDocs(r) == DocsIn(queue[r])

\* Documents sent to r by a catch-up or full sync that is still running.
Streamed(r) == DocsIn(stream[r])

\* The records of t's call that are not in the channel to r yet.
Unsent(t, r) ==
    {k \in DOMAIN writer[t].call :
        /\ k > writer[t].sent
        /\ k = writer[t].sent + 1 => r \in writer[t].left}

LeftDocs(r) ==
    UNION {{writer[t].call[k].doc :
               k \in {j \in Unsent(t, r) : writer[t].call[j].op = "index"}} :
           t \in Writers}

\* Documents on their way to r.
Coming(r) == QueuedDocs(r) \cup Streamed(r) \cup LeftDocs(r)

\* What r has, in a flush of its own too.
Has(r) == StoredDocs(replica[r]) \cup ToSet(hands[r])

LoggedDocs == DocsIn(EntriesOf(ReadRecords(walFile)))

\* Documents r will find in the log when it asks for it.
WillRead(r) == {d \in LoggedDocs : mode[r] \in {"down", "opened"}}

Fails(kind) ==
    kind \in Faults /\ faults < MaxFaults /\ faults' = faults + 1

-----------------------------------------------------------------------------
(* The primary's threads *)

\* The ids of the records of a call that are not in the buffer yet.
Writing(t) == IF writer[t].pc \in {"enqueue", "apply", "del_seg"}
              THEN {e.doc.id : e \in ToSet(writer[t].call)} ELSE {}

\* The records are appended under the log's lock.
Log(t, op, entries) ==
    /\ writer[t].pc = "idle"
    /\ op \in Calls[t]
    /\ clock + Len(entries) <= MaxOps
    /\ clock' = clock + Len(entries)
    /\ AppendBatch(entries)
    /\ writer' = [writer EXCEPT ![t] =
                     Serving(op, entries,
                             IF Replicas = {} THEN "apply" ELSE "enqueue")]
    /\ contested' = [r \in Replicas |-> contested[r] \cup
          ((UNION {Writing(u) : u \in Writers})
              \cap {e.doc.id : e \in ToSet(entries)})]
    /\ UNCHANGED <<primary, channelVars, replicaVars, faults, excused>>

\* index, index_batch
LogIndex(t) ==
    \E ids \in Batches :
        /\ Log(t, "index", [k \in DOMAIN ids |->
                               IndexEntry([id |-> ids[k], ver |-> clock + k])])
        /\ UNCHANGED cleared

LogDelete(t) ==
    \E i \in DocIds :
        /\ Log(t, "delete", <<DeleteEntry(i)>>)
        /\ cleared' = [cleared EXCEPT ![i] = clock]

\* flush, and reindex_self, which starts with one.
CallFlush(t) ==
    /\ writer[t].pc = "idle"
    /\ clock < MaxOps
    /\ clock' = clock + 1
    /\ \E op \in {"flush", "reindex"} \cap Calls[t] :
          writer' = [writer EXCEPT ![t] = Serving(op, << >>, "drain")]
    /\ UNCHANGED <<walVars, primary, channelVars, replicaVars, faults, historyVars>>

\* ReplicationManager::enqueue sends a record to one channel after the other.
Enqueue(t) ==
    LET w == writer[t]
        last == w.sent + 1 = Len(w.call)
    IN
    /\ w.pc = "enqueue"
    /\ \E r \in w.left :
          /\ queue' = [queue EXCEPT ![r] = Append(@, w.call[w.sent + 1])]
          /\ writer' = [writer EXCEPT ![t] =
                IF w.left # {r} THEN [w EXCEPT !.left = @ \ {r}]
                ELSE [w EXCEPT !.sent = @ + 1,
                               !.left = IF last THEN {} ELSE Replicas,
                               !.pc   = IF last THEN "apply" ELSE @]]
    /\ UNCHANGED <<walVars, primary, link, replicaVars, clock, faults, historyVars>>

Goto(t, label, docs) ==
    writer' = [writer EXCEPT ![t] = [@ EXCEPT !.pc = label, !.docs = docs]]

Returns(t) == writer' = [writer EXCEPT ![t] = IdleWriter]

AddToBuffer(t) ==
    /\ writer[t].pc = "apply" /\ writer[t].op = "index"
    /\ primary' = Added(primary, [k \in DOMAIN writer[t].call |-> writer[t].call[k].doc])
    /\ IF Full(primary') THEN Goto(t, "drain", << >>) ELSE Returns(t)
    /\ UNCHANGED <<walVars, channelVars, replicaVars, clock, faults, historyVars>>

\* The two sections of delete(); each may hit any version written by now.
Delete(t) ==
    LET i == writer[t].call[1].doc.id IN
    /\ writer[t].op = "delete"
    /\ \/ /\ writer[t].pc = "apply"
          /\ primary' = MarkedInBuffer(primary, i)
          /\ Goto(t, "del_seg", << >>)
       \/ /\ writer[t].pc = "del_seg"
          /\ primary' = MarkedInSegments(primary, i)
          /\ Returns(t)
    /\ cleared' = [cleared EXCEPT ![i] = clock]
    /\ UNCHANGED <<walVars, channelVars, replicaVars, clock, faults,
                   contested, excused>>

\* The flush is over: reindex_self goes on with what the segments show.
AfterFlush(t) ==
    IF writer[t].op = "reindex" THEN Goto(t, "collect", << >>) ELSE Returns(t)

FlushDrain(t) ==
    /\ writer[t].pc = "drain"
    /\ primary' = Drained(primary)
    /\ IF primary.buf = << >> THEN AfterFlush(t) ELSE Goto(t, "publish", primary.buf)
    /\ UNCHANGED <<walVars, channelVars, replicaVars, clock, faults, historyVars>>

FlushPublish(t) ==
    /\ writer[t].pc = "publish"
    /\ primary' = Published(primary, writer[t].docs)
    /\ Goto(t, "truncate", << >>)
    /\ UNCHANGED <<walVars, channelVars, replicaVars, clock, faults, historyVars>>

\* The log is emptied, with the records of documents that are not in a segment
\* yet; a replica that was to read it is cut off from what does not come elsewhere.
TruncateLog(t) ==
    /\ \/ writer[t].pc = "truncate" /\ AfterFlush(t)
       \/ writer[t].pc = "r_truncate" /\ Returns(t)
    /\ Truncate
    /\ excused' = [r \in Replicas |->
                      excused[r] \cup (WillRead(r) \ Coming(r))]
    /\ UNCHANGED <<primary, channelVars, replicaVars, clock, faults,
                   cleared, contested>>

\* reindex_self: what is published between the two sections is lost.
ReindexCollect(t) ==
    /\ writer[t].pc = "collect"
    /\ IF LiveSegmentDocs(primary) = << >> THEN Returns(t)
       ELSE Goto(t, "swap", LiveSegmentDocs(primary))
    /\ UNCHANGED <<walVars, primary, channelVars, replicaVars, clock, faults,
                   historyVars>>

ReindexSwap(t) ==
    /\ writer[t].pc = "swap"
    /\ primary' = Replaced(primary, writer[t].docs)
    /\ Goto(t, "r_truncate", << >>)
    /\ UNCHANGED <<walVars, channelVars, replicaVars, clock, faults, historyVars>>

\* The primary is killed and opened again: calls in progress, the buffer and
\* the channels are lost, the log is replayed.  A stream the primary was
\* sending breaks off: the replica serves anyway.
PrimaryRestarts ==
    /\ Fails("primary_crash")
    /\ WalOpen
    /\ primary' = Replayed(Reopened(primary), ReadRecords(walFile))
    /\ writer' = [t \in Writers |-> IdleWriter]
    /\ queue' = [r \in Replicas |-> << >>]
    /\ link' = [r \in Replicas |-> "connecting"]
    /\ mode' = [r \in Replicas |->
                   IF mode[r] \in {"down", "opened"} THEN mode[r] ELSE "serving"]
    /\ stream' = [r \in Replicas |-> << >>]
    /\ excused' = [r \in Replicas |->
                      excused[r] \cup (Coming(r) \ WillRead(r))]
    /\ UNCHANGED <<replica, hands, caught, clock, cleared, contested>>

-----------------------------------------------------------------------------
(* Replicas *)

\* r applies entry e (index() and delete() after the log): a full buffer is
\* drained at once, and published in the handler's next step.
Handles(r, e) ==
    LET i == e.doc.id
        s == Added(replica[r], <<e.doc>>)
    IN
    /\ hands[r] = << >>
    /\ IF e.op = "delete"
       THEN /\ replica' = [replica EXCEPT ![r] =
                              MarkedInSegments(MarkedInBuffer(@, i), i)]
            /\ UNCHANGED hands
       ELSE /\ replica' = [replica EXCEPT ![r] = IF Full(s) THEN Drained(s) ELSE s]
            /\ hands' = [hands EXCEPT ![r] = IF Full(s) THEN s.buf ELSE << >>]

ReplicaPublishes(r) ==
    /\ hands[r] # << >>
    /\ replica' = [replica EXCEPT ![r] = Published(@, hands[r])]
    /\ hands' = [hands EXCEPT ![r] = << >>]
    /\ UNCHANGED <<walVars, primaryVars, channelVars, mode, stream, caught,
                   clock, faults, historyVars>>

\* The forwarder's connect loop: it retries until the replica serves.
Connect(r) ==
    /\ link[r] = "connecting"
    /\ mode[r] = "serving"
    /\ link' = [link EXCEPT ![r] = "connected"]
    /\ UNCHANGED <<walVars, primaryVars, queue, replicaVars, clock, faults,
                   historyVars>>

Received(r) ==
    /\ link[r] = "connected"
    /\ queue[r] # << >>
    /\ queue' = [queue EXCEPT ![r] = Tail(@)]

\* recv, Replicate and the replica's handler.
Forward(r) ==
    /\ mode[r] = "serving"
    /\ Received(r)
    /\ Handles(r, Head(queue[r]))
    /\ UNCHANGED <<walVars, primaryVars, link, mode, stream, caught,
                   clock, faults, historyVars>>

\* Mutant: the entry whose call failed goes back to the end of the channel.
ForwardFailsRequeues(r) ==
    /\ link[r] = "connected"
    /\ queue[r] # << >>
    /\ queue' = [queue EXCEPT ![r] = Append(Tail(@), Head(@))]
    /\ link' = [link EXCEPT ![r] = "connecting"]
    /\ IF mode[r] = "serving" THEN Fails("rpc_lost") ELSE UNCHANGED faults
    /\ UNCHANGED <<walVars, primaryVars, replicaVars, clock, historyVars>>

\* What a call that did not reach r costs it.
CutOff(r, docs) == [excused EXCEPT ![r] = @ \cup (docs \ WillRead(r))]

\* The call fails: the entry that was taken from the channel is gone, and the
\* task connects again.  It fails because the replica is not there, or the
\* request or the reply is lost on the way; or it never ends.
ForwardFails(r) ==
    /\ Received(r)
    /\ \/ /\ mode[r] # "serving"
          /\ link' = [link EXCEPT ![r] = "connecting"]
          /\ excused' = CutOff(r, DocsIn(<<Head(queue[r])>>))
          /\ UNCHANGED <<replica, hands, faults>>
       \/ /\ mode[r] = "serving"
          /\ \E kind \in CallFaults :
                /\ Fails(kind)
                /\ link' = [link EXCEPT ![r] = IF kind = "call_hangs" THEN "hung"
                                               ELSE "connecting"]
                /\ \/ /\ kind # "reply_lost"
                      /\ excused' = CutOff(r, DocsIn(<<Head(queue[r])>>))
                      /\ UNCHANGED <<replica, hands>>
                   \/ /\ kind # "rpc_lost"
                      /\ Handles(r, Head(queue[r]))
                      /\ UNCHANGED excused
    /\ UNCHANGED <<walVars, primaryVars, mode, stream, caught, clock,
                   cleared, contested>>

\* The replica process is killed: what it had buffered or drained is in no log of
\* its own.  A call it was serving fails.
ReplicaCrashes(r) ==
    LET lost == BufferDocs(replica[r]) \cup ToSet(hands[r]) \cup Streamed(r) IN
    /\ mode[r] # "down"
    /\ Fails("replica_crash")
    /\ mode' = [mode EXCEPT ![r] = "down"]
    /\ replica' = [replica EXCEPT ![r] = Reopened(@)]
    /\ hands' = [hands EXCEPT ![r] = << >>]
    /\ stream' = [stream EXCEPT ![r] = << >>]
    /\ link' = [link EXCEPT ![r] = IF @ = "hung" \/ hands[r] # << >>
                                   THEN "connecting" ELSE @]
    /\ excused' = [excused EXCEPT ![r] =
          @ \cup (lost \ (LoggedDocs \cup SegmentDocs(replica[r])))]
    /\ contested' = [contested EXCEPT ![r] = @ \cup {d.id : d \in lost}]
    /\ UNCHANGED <<walVars, primaryVars, queue, caught, clock, cleared>>

ReplicaOpens(r) ==
    /\ mode[r] = "down"
    /\ mode' = [mode EXCEPT ![r] = "opened"]
    /\ UNCHANGED <<walVars, primaryVars, channelVars, replica, hands, stream,
                   caught, clock, faults, historyVars>>

\* The replica's own log never gets a record, so next_seq() is 0.
OwnNextSeq(r) == SeqAfter(<< >>)

\* Mutant: > instead of >=.
ReadSinceExclusive(f, from) ==
    LET log == ReadRecords(f) IN Retain(log, {k \in DOMAIN log : log[k].seq > from})

\* read_since
ReadSince(f, from) ==
    LET log == ReadRecords(f) IN Retain(log, {k \in DOMAIN log : log[k].seq >= from})

\* replicate_catch_up: the primary reads its log once and streams the records.
RequestCatchUp(r) ==
    /\ mode[r] = "opened"
    /\ mode' = [mode EXCEPT ![r] = "catch_up"]
    /\ stream' = [stream EXCEPT ![r] =
                     EntriesOf(ReadSince(walFile, OwnNextSeq(r)))]
    /\ caught' = [caught EXCEPT ![r] = 0]
    /\ UNCHANGED <<walVars, primaryVars, channelVars, replica, hands,
                   clock, faults, historyVars>>

ApplyStreamed(r) ==
    /\ mode[r] \in {"catch_up", "sync"}
    /\ stream[r] # << >>
    /\ Handles(r, Head(stream[r]))
    /\ stream' = [stream EXCEPT ![r] = Tail(@)]
    /\ caught' = IF mode[r] = "catch_up"
                 THEN [caught EXCEPT ![r] = @ + 1] ELSE caught
    /\ UNCHANGED <<walVars, primaryVars, channelVars, mode, clock, faults,
                   historyVars>>

\* The log stream ends.  A replica that got nothing from it and whose segments
\* show nothing asks for everything; any other one starts to serve.
NeedsFullSync(r) == caught[r] = 0 /\ LiveSegmentDocs(replica[r]) = << >>

CatchUpEnds(r) ==
    /\ mode[r] = "catch_up"
    /\ stream[r] = << >>
    /\ hands[r] = << >>
    /\ IF NeedsFullSync(r)
       THEN \* full_sync: get_all_live_docs reads the segments first ...
            /\ mode' = [mode EXCEPT ![r] = "sync_read"]
            /\ stream' = [stream EXCEPT ![r] = AsEntries(LiveSegmentDocs(primary))]
       ELSE /\ mode' = [mode EXCEPT ![r] = "serving"]
            /\ UNCHANGED stream
    /\ UNCHANGED <<walVars, primaryVars, channelVars, replica, hands, caught,
                   clock, faults, historyVars>>

\* ... and the buffer under another lock: documents that a flush has in hand, or
\* publishes in between, are in neither.  The sync makes up for what it sends.
SyncReadsBuffer(r) ==
    /\ mode[r] = "sync_read"
    /\ mode' = [mode EXCEPT ![r] = "sync"]
    /\ stream' = [stream EXCEPT ![r] = @ \o AsEntries(LiveBufferDocs(primary))]
    /\ excused' = [excused EXCEPT ![r] = @ \ DocsIn(stream'[r])]
    /\ UNCHANGED <<walVars, primaryVars, channelVars, replica, hands, caught,
                   clock, faults, cleared, contested>>

\* The full sync ends with a flush.
SyncEnds(r) ==
    /\ mode[r] = "sync"
    /\ stream[r] = << >>
    /\ hands[r] = << >>
    /\ replica' = [replica EXCEPT ![r] = Drained(@)]
    /\ hands' = [hands EXCEPT ![r] = replica[r].buf]
    /\ mode' = [mode EXCEPT ![r] = "serving"]
    /\ UNCHANGED <<walVars, primaryVars, channelVars, stream, caught,
                   clock, faults, historyVars>>

\* No connection to the primary, or a stream that breaks off: open() logs the
\* error and the replica serves what it has.
CatchUpFails(r) ==
    /\ mode[r] \in {"opened", "catch_up", "sync_read", "sync"}
    /\ Fails("catch_up_error")
    /\ mode' = [mode EXCEPT ![r] = "serving"]
    /\ stream' = [stream EXCEPT ![r] = << >>]
    /\ excused' = [excused EXCEPT ![r] = @ \cup Streamed(r) \cup WillRead(r)]
    /\ UNCHANGED <<walVars, primaryVars, channelVars, replica, hands, caught,
                   clock, cleared, contested>>

-----------------------------------------------------------------------------
WriterStep(t) ==
    \/ Enqueue(t) \/ AddToBuffer(t) \/ Delete(t)
    \/ FlushDrain(t) \/ FlushPublish(t) \/ TruncateLog(t)
    \/ ReindexCollect(t) \/ ReindexSwap(t)

ForwarderStep(r) == Connect(r) \/ Forward(r) \/ ForwardFails(r)

CatchUpStep(r) ==
    \/ ReplicaOpens(r) \/ RequestCatchUp(r) \/ ApplyStreamed(r)
    \/ CatchUpEnds(r) \/ SyncReadsBuffer(r) \/ SyncEnds(r)

\* The bound is used up, no call is in progress, every replica serves.
Quiet ==
    /\ clock = MaxOps
    /\ \A t \in Writers : writer[t].pc = "idle"
    /\ \A r \in Replicas : mode[r] = "serving" /\ hands[r] = << >>

Settled ==
    Quiet /\ \A r \in Replicas : link[r] = "connected" /\ queue[r] = << >>

Next ==
    \/ \E t \in Writers :
          LogIndex(t) \/ LogDelete(t) \/ CallFlush(t) \/ WriterStep(t)
    \/ \E r \in Replicas :
          \/ ForwarderStep(r) \/ CatchUpStep(r) \/ ReplicaPublishes(r)
          \/ ReplicaCrashes(r) \/ CatchUpFails(r)
    \/ PrimaryRestarts
    \/ Quiet /\ UNCHANGED vars

Spec == Init /\ [][Next]_vars

-----------------------------------------------------------------------------
\* Documents the primary shows and of which the replica has no copy, deleted or not.
Lacks(r) == Shown(primary) \ Has(r)

\* A replica that serves lacks a document of its primary only while the document
\* is queued for it, or because r was cut off from it: its Replicate call failed,
\* its channel or stream broke off, a catch-up failed, or a flush (or
\* reindex_self) of the primary truncated its record before r, which came back
\* without it, had read the log.  In particular no crash of the replica loses a
\* document whose record is still there then, and a full sync that runs into a
\* flush leaves nothing out that does not come through the channel
\* (catch_up_from_primary, read_since, get_all_live_docs).
OnlyExcusedMissing ==
    \A r \in Replicas :
        mode[r] = "serving" => Lacks(r) \subseteq QueuedDocs(r) \cup excused[r]

\* The copy of id i that was stored last, the one get_doc finds after a flush.
LastCopy(s, i) ==
    LET copies == s.seg \o s.buf
        k      == LastAt(copies, {}, i)
    IN  IF k = 0 THEN {} ELSE {copies[k]}

\* When everything is quiet, the newest copy of an id on a replica is not older
\* than the primary's, unless two threads were writing the id at once (the
\* orders of the log, of the channel and of the buffer are then independent:
\* index), the replica crashed with a copy in its buffer, or it was cut off from
\* one of the writes, or a later delete was aimed at the primary's copy.  Entries
\* applied twice, by catch-up and again from the channel, end in the right order,
\* and flushes of the primary may overlap each other and a full sync.
SettledNotStale ==
    Settled =>
        \A r \in Replicas : \A i \in DocIds \ contested[r] :
            (\A d \in excused[r] : d.id # i) =>
                \A d \in LastCopy(primary, i), e \in LastCopy(replica[r], i) :
                    d.ver > cleared[i] => e.ver >= d.ver

\* spec/004: "If a replica is down, its queue accumulates; the write is not
\* lost": what a replica that is down has yet to get stays in its channel or in
\* the log it will read.
DownLosesNothing ==
    [][\A r \in Replicas : mode[r] = "down" /\ mode'[r] = "down" =>
          (QueuedDocs(r) \cup WillRead(r)) \ Has(r)
              \subseteq (QueuedDocs(r) \cup WillRead(r))']_vars

\* After a restart a replica has caught up with what it missed.
CaughtUpAfterRestart ==
    Settled => \A r \in Replicas : \A d \in Lacks(r) : d.ver <= cleared[d.id]
-----------------------------------------------------------------------------
(***************************************************************************)
(* The inductive invariant behind OnlyExcusedMissing (ReplicationProofs).  *)
(***************************************************************************)
\* Documents the primary has in any form: what it shows, or may show later.
KnownDocs ==
    StoredDocs(primary) \cup LoggedDocs
        \cup UNION {ToSet(writer[t].docs) \cup DocsIn(writer[t].call) : t \in Writers}

\* Whatever the primary has, r has, is getting, or was cut off from.
Supplied ==
    \A r \in Replicas :
        KnownDocs \subseteq Has(r) \cup Coming(r) \cup WillRead(r) \cup excused[r]

LogWhole == \A k \in DOMAIN walFile : walFile[k].ok

CallShape ==
    \A t \in Writers : LET w == writer[t] IN
        /\ w.pc = "enqueue" => w.sent < Len(w.call) /\ w.left # {}
        /\ w.pc # "enqueue" => Replicas = {} \/ w.sent = Len(w.call)
        /\ w.op = "index" => \A k \in DOMAIN w.call : w.call[k].op = "index"
        /\ w.op = "delete" => w.call # << >>

StreamShape ==
    \A r \in Replicas :
        mode[r] \in {"down", "opened", "serving"} => stream[r] = << >>

VersionsUsed == \A d \in KnownDocs : d.ver <= clock

\* Until a call has filled every channel, its documents are nowhere else.
QueuedFirst ==
    \A t \in Writers : writer[t].pc = "enqueue" =>
        \A d \in DocsIn(writer[t].call) :
            /\ d \notin StoredDocs(primary)
            /\ \A u \in Writers :
                  /\ d \notin ToSet(writer[u].docs)
                  /\ u # t => d \notin DocsIn(writer[u].call)

ReplicationInv ==
    /\ TypeOK
    /\ LogWhole
    /\ CallShape
    /\ StreamShape
    /\ VersionsUsed
    /\ QueuedFirst
    /\ Supplied
=============================================================================
