----------------------------- MODULE ShardEngine -----------------------------
(***************************************************************************)
(* The shard engine, crates/shard/src/shard.rs: a WAL, a write buffer and  *)
(* a list of immutable segments, each behind its own lock, used by several *)
(* threads at once (the gRPC handlers of grpc_server.rs run on a thread    *)
(* pool).  No method holds one lock while it takes another except the two  *)
(* readers search and get_docs, so an operation is a sequence of atomic    *)
(* sections, one per lock, and other threads run between any two of them.  *)
(* A thread's pc names the section it executes next.                       *)
(*                                                                         *)
(*   index, index_batch   idle -> add [-> flush]                           *)
(*   delete               idle -> del_buf -> del_seg                       *)
(*   flush                drain -> alloc -> write -> publish -> truncate   *)
(*                          -> find [-> m_alloc -> m_exec -> m_swap        *)
(*                          -> m_clean]                                    *)
(*   reindex_self         flush -> r_collect -> r_alloc -> r_write         *)
(*                          -> r_old -> r_swap -> r_clean -> r_truncate    *)
(*                                                                         *)
(* The process may be killed between any two sections and opened again.    *)
(***************************************************************************)
EXTENDS Wal, WriteBuffer, SegmentList

CONSTANTS
    Threads,     \* request threads
    Calls,       \* Calls[t]: the operations thread t's clients issue
    Batches,     \* the batches of ids that are indexed; <<i>> is index()
    MaxOps,      \* bound: documents indexed plus other calls made
    Faults,      \* the kinds of failure that may happen
    MaxFaults    \* bound: number of failures

Operations == {"index", "delete", "flush", "reindex"}

\* crash: the process is killed between two sections.  write_error: a segment
\* directory cannot be written or removed, or the WAL cannot be truncated.
\* append_cut, bitmap_cut: a WAL append, or the rewriting of deletions.bin,
\* stops part way (with a crash to follow: the kill hit the section itself).
FaultKinds == {"crash", "write_error", "append_cut", "bitmap_cut"}

ASSUME EngineAssumption ==
    /\ IsFiniteSet(Threads)
    /\ Calls \in [Threads -> SUBSET Operations]
    /\ Batches \subseteq Seq(DocIds) \ {<< >>}
    /\ MaxOps \in Nat
    /\ Faults \subseteq FaultKinds
    /\ MaxFaults \in Nat

VARIABLES
    up,        \* the process is serving
    th,        \* th[t]: program counter and locals of thread t
    clock,     \* operations so far; numbers the writes
    faults,    \* failures so far
    acked,     \* history: documents whose index call returned Ok
    cleared    \* history: versions of id up to cleared[id] were deleted

engineVars == <<up, th, clock, faults, acked, cleared>>
vars == <<walVars, bufVars, segVars, engineVars>>

FlushPcs   == {"drain", "alloc", "write", "publish", "truncate",
               "find", "m_alloc", "m_exec", "m_swap", "m_clean"}
ReindexPcs == {"r_collect", "r_alloc", "r_write", "r_old", "r_swap",
               "r_clean", "r_truncate"}
Pcs == {"idle", "add", "del_buf", "del_seg"} \cup FlushPcs \cup ReindexPcs

\* arg: the call's own documents (for a delete, the id with version 0);
\* docs, seg, old: content and id of the segment under construction, and the
\* ids of the segments it replaces.
Thread == [pc   : Pcs,
           op   : Operations \cup {"none"},
           arg  : Seq(Document),
           docs : Seq(Document),
           seg  : Nat,
           old  : SUBSET Nat]

\* A thread that starts serving the call op at label.
Serving(op, arg, label) == [pc |-> label, op |-> op, arg |-> arg,
                            docs |-> << >>, seg |-> 0, old |-> {}]

Idle == Serving("none", << >>, "idle")

TypeOK ==
    /\ WalTypeOK
    /\ BufTypeOK
    /\ SegTypeOK
    /\ up \in BOOLEAN
    /\ th \in [Threads -> Thread]
    /\ clock \in Nat
    /\ faults \in Nat
    /\ acked \in SUBSET Document
    /\ cleared \in [DocIds -> Nat]

Init ==
    /\ WalInit
    /\ BufInit
    /\ SegInit
    /\ up = TRUE
    /\ th = [t \in Threads |-> Idle]
    /\ clock = 0
    /\ faults = 0
    /\ acked = {}
    /\ cleared = [id \in DocIds |-> 0]

-----------------------------------------------------------------------------
At(t, label) == up /\ th[t].pc = label

\* t goes on with its call at label, with new locals.
Continue(t, label, docs, seg, old) ==
    th' = [th EXCEPT ![t] = [pc |-> label, op |-> th[t].op, arg |-> th[t].arg,
                             docs |-> docs, seg |-> seg, old |-> old]]

Goto(t, label) == Continue(t, label, th[t].docs, th[t].seg, th[t].old)

\* The call of t returns Ok: an index call is acknowledged.
ReturnOk(t) ==
    /\ th' = [th EXCEPT ![t] = Idle]
    /\ acked' = IF th[t].op = "index" THEN acked \cup Range(th[t].arg)
                                      ELSE acked

\* The call of t returns Err: the ? operator propagates it to the client.
ReturnErr(t) == th' = [th EXCEPT ![t] = Idle] /\ UNCHANGED acked

\* flush() returns Ok to its caller: index, the Flush handler, or reindex_self.
FlushReturns(t) ==
    IF th[t].op = "reindex"
    THEN Continue(t, "r_collect", << >>, 0, {}) /\ UNCHANGED acked
    ELSE ReturnOk(t)

Fault(kind) ==
    /\ kind \in Faults
    /\ faults < MaxFaults
    /\ faults' = faults + 1

-----------------------------------------------------------------------------
(* index and index_batch *)

Stamped(ids) == [i \in 1..Len(ids) |-> [id |-> ids[i], ver |-> clock + i]]
IndexEntries(docs) == [i \in 1..Len(docs) |-> IndexEntry(docs[i])]

\* Section under the wal lock.  Queueing the entry for the replicas, which a
\* primary does next, changes no state of the engine.
IndexAppend(t, ids) ==
    /\ At(t, "idle")
    /\ "index" \in Calls[t]
    /\ clock + Len(ids) <= MaxOps
    /\ AppendBatch(IndexEntries(Stamped(ids)))
    /\ clock' = clock + Len(ids)
    /\ th' = [th EXCEPT ![t] = Serving("index", Stamped(ids), "add")]
    /\ UNCHANGED <<bufVars, segVars, up, faults, acked, cleared>>

\* The append fails part way: the client gets an error and the bytes stay.
IndexAppendFails(t, ids, k, torn) ==
    /\ At(t, "idle")
    /\ "index" \in Calls[t]
    /\ clock + Len(ids) <= MaxOps
    /\ Fault("append_cut")
    /\ AppendCut(IndexEntries(Stamped(ids)), k, torn)
    /\ clock' = clock + Len(ids)
    /\ UNCHANGED <<bufVars, segVars, up, th, acked, cleared>>

\* Section under the buffer lock: add the documents, flush if now full.
IndexAdd(t) ==
    /\ At(t, "add")
    /\ BufAdd(th[t].arg)
    /\ IF IsFull(bufDocs \o th[t].arg)
       THEN Goto(t, "drain") /\ UNCHANGED acked
       ELSE ReturnOk(t)
    /\ UNCHANGED <<walVars, segVars, up, clock, faults, cleared>>

-----------------------------------------------------------------------------
(* delete *)

DeleteAppend(t, id) ==
    /\ At(t, "idle")
    /\ "delete" \in Calls[t]
    /\ clock < MaxOps
    /\ AppendBatch(<<DeleteEntry(id)>>)
    /\ clock' = clock + 1
    /\ cleared' = [cleared EXCEPT ![id] = clock']
    /\ th' = [th EXCEPT ![t] =
                    Serving("delete", <<DeleteEntry(id).doc>>, "del_buf")]
    /\ UNCHANGED <<bufVars, segVars, up, faults, acked>>

\* The append fails: Err, although the record may be in the file.
DeleteAppendFails(t, id, k, torn) ==
    /\ At(t, "idle")
    /\ "delete" \in Calls[t]
    /\ clock < MaxOps
    /\ Fault("append_cut")
    /\ AppendCut(<<DeleteEntry(id)>>, k, torn)
    /\ clock' = clock + 1
    /\ cleared' = [cleared EXCEPT ![id] = clock']
    /\ UNCHANGED <<bufVars, segVars, up, th, acked>>

DeleteBuffered(t) ==
    /\ At(t, "del_buf")
    /\ BufMarkDeleted(th[t].arg[1].id)
    /\ Goto(t, "del_seg")
    /\ UNCHANGED <<walVars, segVars, up, clock, faults, acked, cleared>>

DeleteInSegments(t) ==
    LET id == th[t].arg[1].id IN
    /\ At(t, "del_seg")
    /\ MarkDeleted(id)
    /\ cleared' = [cleared EXCEPT ![id] = clock]
    /\ ReturnOk(t)
    /\ UNCHANGED <<walVars, bufVars, up, clock, faults>>

\* What a kill can leave of a directory that remove_dir_all was working on:
\* all of it, nothing, an unreadable rest, or everything but deletions.bin.
Remains == {"kept", "gone", "unreadable", "unmarked"}

Left(dir, fate) ==
    [docs |-> dir.docs,
     dead |-> IF fate = "unmarked" THEN {} ELSE dir.dead,
     ok   |-> dir.ok /\ fate # "unreadable"]

\* std::fs::write truncated deletions.bin and did not finish: mark_deleted
\* returns Err before the map entry is removed.
DeleteBitmapFails(t) ==
    LET id == th[t].arg[1].id IN
    /\ At(t, "del_seg")
    /\ Deletable(docMap, id)
    /\ Fault("bitmap_cut")
    /\ disk' = WithDir(docMap[id].seg,
                       Left(disk[docMap[id].seg], "unreadable"))
    /\ ReturnErr(t)
    /\ UNCHANGED <<walVars, bufVars, segs, docMap, nextSegSeq,
                   up, clock, cleared>>

-----------------------------------------------------------------------------
(* flush *)

CallFlush(t, op) ==
    /\ At(t, "idle")
    /\ op \in Calls[t] \cap {"flush", "reindex"}
    /\ clock < MaxOps
    /\ clock' = clock + 1
    /\ th' = [th EXCEPT ![t] = Serving(op, << >>, "drain")]
    /\ UNCHANGED <<walVars, bufVars, segVars, up, faults, acked, cleared>>

\* Mutant: the log is truncated with the drain, before the segment exists.
FlushDrainTruncates(t) ==
    /\ At(t, "drain")
    /\ BufDrain
    /\ IF bufDocs = << >>
       THEN FlushReturns(t) /\ UNCHANGED walVars
       ELSE Continue(t, "alloc", bufDocs, 0, {}) /\ Truncate /\ UNCHANGED acked
    /\ UNCHANGED <<segVars, up, clock, faults, cleared>>

\* drain() hands over the documents; the deletion marks are dropped.
FlushDrain(t) ==
    /\ At(t, "drain")
    /\ BufDrain
    /\ IF bufDocs = << >>
       THEN FlushReturns(t)
       ELSE Continue(t, "alloc", bufDocs, 0, {}) /\ UNCHANGED acked
    /\ UNCHANGED <<walVars, segVars, up, clock, faults, cleared>>

\* next_segment_id, for flush, run_merge and reindex_self.
Allocate(t) ==
    /\ \E hop \in {<<"alloc", "write">>, <<"m_alloc", "m_exec">>,
                   <<"r_alloc", "r_write">>} :
          /\ At(t, hop[1])
          /\ Continue(t, hop[2], th[t].docs, nextSegSeq, th[t].old)
    /\ NextSegmentId
    /\ UNCHANGED <<walVars, bufVars, up, clock, faults, acked, cleared>>

\* SegmentWriter::write of th[t].docs, with no lock held.
WriteSegment(t) ==
    /\ \/ At(t, "write")   /\ Goto(t, "publish")
       \/ At(t, "r_write") /\ Goto(t, "r_old")
    /\ disk' = WithDir(th[t].seg, NewDir(th[t].docs))
    /\ UNCHANGED <<walVars, bufVars, segs, docMap, nextSegSeq,
                   up, clock, faults, acked, cleared>>

WritePcs == {"write", "m_exec", "r_write"}

\* The write fails, leaving no directory, a partial one, or a whole one (when
\* it is SegmentReader::open that fails).  A flush has already drained its
\* documents: memory has lost them.
WriteFails(t) ==
    /\ up /\ th[t].pc \in WritePcs
    /\ Fault("write_error")
    /\ LET docs == IF th[t].pc = "m_exec" THEN LiveDocsOf(th[t].old)
                                         ELSE th[t].docs
       IN  disk' \in {disk, WithDir(th[t].seg, PartialDir),
                           WithDir(th[t].seg, NewDir(docs))}
    /\ ReturnErr(t)
    /\ UNCHANGED <<walVars, bufVars, segs, docMap, nextSegSeq,
                   up, clock, cleared>>

\* Mutant: the buffer is emptied when the segment is listed, not when its
\* documents were taken.
FlushPublishClears(t) ==
    /\ At(t, "publish")
    /\ AddSegment(NewEntry(th[t].seg, th[t].docs))
    /\ BufDrain
    /\ Continue(t, "truncate", << >>, 0, {})
    /\ UNCHANGED <<walVars, up, clock, faults, acked, cleared>>

FlushPublish(t) ==
    /\ At(t, "publish")
    /\ AddSegment(NewEntry(th[t].seg, th[t].docs))
    /\ Continue(t, "truncate", << >>, 0, {})
    /\ UNCHANGED <<walVars, bufVars, up, clock, faults, acked, cleared>>

\* Empties the whole log, whoever wrote the records that are in it by now.
FlushTruncate(t) ==
    /\ At(t, "truncate")
    /\ Truncate
    /\ Goto(t, "find")
    /\ UNCHANGED <<bufVars, segVars, up, clock, faults, acked, cleared>>

\* truncate returns Err, before or after the file was emptied.
TruncateFails(t) ==
    /\ up /\ th[t].pc \in {"truncate", "r_truncate"}
    /\ Fault("write_error")
    /\ walFile' \in {walFile, << >>}
    /\ ReturnErr(t)
    /\ UNCHANGED <<nextSeq, bufVars, segVars, up, clock, cleared>>

-----------------------------------------------------------------------------
(* maybe_merge and run_merge; the policy yields at most one group *)

MergeFind(t) ==
    /\ At(t, "find")
    /\ IF FindMerges = {}
       THEN FlushReturns(t)
       ELSE Continue(t, "m_alloc", << >>, 0, FindMerges) /\ UNCHANGED acked
    /\ UNCHANGED <<walVars, bufVars, segVars, up, clock, faults, cleared>>

\* execute_merge under the read lock: the members of the group that are still
\* listed, as their open readers see them, are written to the new directory.
MergeExecute(t) ==
    /\ At(t, "m_exec")
    /\ LET docs == LiveDocsOf(th[t].old)
       IN  /\ Continue(t, "m_swap", docs, th[t].seg, th[t].old)
           /\ disk' = WithDir(th[t].seg, NewDir(docs))
    /\ UNCHANGED <<walVars, bufVars, segs, docMap, nextSegSeq,
                   up, clock, faults, acked, cleared>>

MergeSwap(t) ==
    /\ At(t, "m_swap")
    /\ ReplaceSegments(th[t].old, NewEntry(th[t].seg, th[t].docs))
    /\ Goto(t, "m_clean")
    /\ UNCHANGED <<walVars, bufVars, up, clock, faults, acked, cleared>>

MergeClean(t) ==
    /\ At(t, "m_clean")
    /\ disk' = WithoutDirs(th[t].old)
    /\ FlushReturns(t)
    /\ UNCHANGED <<walVars, bufVars, segs, docMap, nextSegSeq,
                   up, clock, faults, cleared>>

-----------------------------------------------------------------------------
(* reindex_self, after its flush *)

ReindexCollect(t) ==
    /\ At(t, "r_collect")
    /\ LET docs == LiveDocsOf(ListedIds)
       IN  IF docs = << >>
           THEN ReturnOk(t)
           ELSE Continue(t, "r_alloc", docs, 0, {}) /\ UNCHANGED acked
    /\ UNCHANGED <<walVars, bufVars, segVars, up, clock, faults, cleared>>

\* old_ids is read after the documents were collected, under a lock of its own.
ReindexOldIds(t) ==
    /\ At(t, "r_old")
    /\ Continue(t, "r_swap", th[t].docs, th[t].seg, ListedIds)
    /\ UNCHANGED <<walVars, bufVars, segVars, up, clock, faults, acked, cleared>>

ReindexSwap(t) ==
    /\ At(t, "r_swap")
    /\ ReplaceSegments(th[t].old, NewEntry(th[t].seg, th[t].docs))
    /\ Goto(t, "r_clean")
    /\ UNCHANGED <<walVars, bufVars, up, clock, faults, acked, cleared>>

ReindexClean(t) ==
    /\ At(t, "r_clean")
    /\ disk' = WithoutDirs(th[t].old)
    /\ Goto(t, "r_truncate")
    /\ UNCHANGED <<walVars, bufVars, segs, docMap, nextSegSeq,
                   up, clock, faults, acked, cleared>>

ReindexTruncate(t) ==
    /\ At(t, "r_truncate")
    /\ Truncate
    /\ ReturnOk(t)
    /\ UNCHANGED <<bufVars, segVars, up, clock, faults, cleared>>

CleanPcs == {"m_clean", "r_clean"}

\* remove_dir_all fails for some of the directories: the error is ignored.
CleanFails(t) ==
    /\ up /\ th[t].pc \in CleanPcs
    /\ Fault("write_error")
    /\ \E gone \in SUBSET th[t].old : disk' = WithoutDirs(gone)
    /\ IF th[t].pc = "m_clean" THEN FlushReturns(t)
       ELSE Goto(t, "r_truncate") /\ UNCHANGED acked
    /\ UNCHANGED <<walVars, bufVars, segs, docMap, nextSegSeq,
                   up, clock, cleared>>

-----------------------------------------------------------------------------
(* Crash and restart *)

\* The process is killed.  Directories being written may have appeared without
\* meta.json, directories being removed may be removed in part (each thread
\* removes one after the other).  Memory is lost, calls in progress fail.
Crash ==
    LET writing  == {th[t].seg : t \in {u \in Threads : th[u].pc \in WritePcs}}
        cleaners == {t \in Threads : th[t].pc \in CleanPcs}
        doomed   == DOMAIN disk \cap UNION {th[t].old : t \in cleaners}
    IN
    /\ up
    /\ Fault("crash")
    /\ \E partial \in SUBSET writing, fate \in [doomed -> Remains] :
          /\ \A t \in cleaners :
                Cardinality({s \in doomed \cap th[t].old :
                                fate[s] \in {"unreadable", "unmarked"}}) <= 1
          /\ disk' = [s \in partial \cup
                            (DOMAIN disk \ {x \in doomed : fate[x] = "gone"}) |->
                         IF s \in partial THEN PartialDir
                         ELSE IF s \in doomed THEN Left(disk[s], fate[s])
                         ELSE disk[s]]
    /\ up' = FALSE
    /\ th' = [t \in Threads |-> Idle]
    /\ nextSeq' = 0
    /\ bufDocs' = << >>
    /\ bufDeleted' = {}
    /\ segs' = << >>
    /\ docMap' = [id \in DocIds |-> NoLoc]
    /\ nextSegSeq' = 1
    /\ UNCHANGED <<walFile, clock, acked, cleared>>

\* Mutant: the replay skips the documents of ids the log also deletes.
OpenSkipsDeleted ==
    LET log     == ReadRecords(walFile)
        entries == [i \in DOMAIN log |-> log[i].entry.doc]
        indexed == {i \in DOMAIN log : log[i].entry.op = "index"}
        deleted == {log[i].entry.doc.id : i \in DOMAIN log \ indexed}
    IN
    /\ ~up
    /\ WalOpen
    /\ OpenAndReplayDeletes(deleted)
    /\ bufDocs' = Retain(entries, {i \in indexed : entries[i].id \notin deleted})
    /\ bufDeleted' = deleted
    /\ up' = TRUE
    /\ UNCHANGED <<th, clock, faults, acked, cleared>>

\* ShardEngine::open: load the segments, then replay the WAL into the buffer
\* (whatever its size) and the deletes into the segments too.
Open ==
    LET log     == ReadRecords(walFile)
        entries == [i \in DOMAIN log |-> log[i].entry.doc]
        indexed == {i \in DOMAIN log : log[i].entry.op = "index"}
        deleted == {log[i].entry.doc.id : i \in DOMAIN log \ indexed}
    IN
    /\ ~up
    /\ WalOpen
    /\ OpenAndReplayDeletes(deleted)
    /\ bufDocs' = Retain(entries, indexed)
    /\ bufDeleted' = deleted
    /\ up' = TRUE
    /\ UNCHANGED <<th, clock, faults, acked, cleared>>

-----------------------------------------------------------------------------
\* A client calls an operation.
Call(t) ==
    \/ \E ids \in Batches :
          \/ IndexAppend(t, ids)
          \/ \E k \in 0..Len(ids), torn \in BOOLEAN :
                IndexAppendFails(t, ids, k, torn)
    \/ \E id \in DocIds :
          \/ DeleteAppend(t, id)
          \/ \E k \in {0, 1}, torn \in BOOLEAN :
                DeleteAppendFails(t, id, k, torn)
    \/ \E op \in {"flush", "reindex"} : CallFlush(t, op)

\* The thread executes the next section of the call it serves.
Section(t) ==
    \/ IndexAdd(t)
    \/ DeleteBuffered(t) \/ DeleteInSegments(t)
    \/ FlushDrain(t) \/ Allocate(t) \/ WriteSegment(t)
    \/ FlushPublish(t) \/ FlushTruncate(t)
    \/ MergeFind(t) \/ MergeExecute(t) \/ MergeSwap(t) \/ MergeClean(t)
    \/ ReindexCollect(t) \/ ReindexOldIds(t) \/ ReindexSwap(t)
    \/ ReindexClean(t) \/ ReindexTruncate(t)

SectionFails(t) ==
    DeleteBitmapFails(t) \/ WriteFails(t) \/ TruncateFails(t) \/ CleanFails(t)

\* The bounds are used up: every call has returned and clients stop.
Quiescent == up /\ \A t \in Threads : th[t].pc = "idle"

Stop == Quiescent /\ clock = MaxOps /\ UNCHANGED vars

Next ==
    \/ \E t \in Threads : Call(t) \/ Section(t) \/ SectionFails(t)
    \/ Crash
    \/ Open
    \/ Stop

Spec == Init /\ [][Next]_vars

\* Request threads run: the methods are synchronous code without waiting
\* except for locks that are released at the end of each section.
FairSpec == Spec /\ \A t \in Threads : WF_vars(Section(t))
=============================================================================
