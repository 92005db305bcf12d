--------------------------- MODULE ShardProperties ---------------------------
(***************************************************************************)
(* What the shard engine's clients and its own code rely on.               *)
(***************************************************************************)
EXTENDS ShardEngine

\* The documents of the open readers and of the buffer that search() scans.
Searched ==
    {segs[p[1]].docs[p[2]] :
        p \in UNION {{i} \X Live(segs[i]) : i \in DOMAIN segs}}
    \cup {bufDocs[i] : i \in LiveInBuffer}

\* How many hits search() can return for the document d.
Hits(d) ==
    Cardinality({p \in UNION {{i} \X Live(segs[i]) : i \in DOMAIN segs} :
                    segs[p[1]].docs[p[2]] = d})
    + Cardinality({i \in LiveInBuffer : bufDocs[i] = d})

\* Memory holds d: buffered, drained by a flush that has not published yet, or
\* in a listed segment.
Held(d) ==
    \/ d \in Range(bufDocs)
    \/ \E t \in Threads : /\ th[t].pc \in {"alloc", "write", "publish"}
                          /\ d \in Range(th[t].docs)
    \/ \E i \in DOMAIN segs : \E l \in Live(segs[i]) : segs[i].docs[l] = d

\* A restart would bring d back: from the WAL, or from a readable directory.
Recoverable(d) ==
    \/ \E i \in DOMAIN ReadRecords(walFile) : walFile[i].entry = IndexEntry(d)
    \/ \E s \in ReadableIds :
          \E l \in Live(EntryOf(s)) : disk[s].docs[l] = d

\* Acknowledged and not deleted since.
Owed(d) == d \in acked /\ d.ver > cleared[d.id]

-----------------------------------------------------------------------------
\* Every listed segment has its own directory on disk, with the documents its
\* reader holds and at least the deletions its reader knows of; so a restart
\* finds every segment that search() uses.  Threads of run_merge and
\* reindex_self remove directories with no lock held: they must never remove
\* one that is listed, nor may two segments be given one id.
ListedOnDisk ==
    /\ \A i, j \in DOMAIN segs : segs[i].id = segs[j].id => i = j
    /\ \A i \in DOMAIN segs :
          /\ segs[i].id \in DOMAIN disk
          /\ disk[segs[i].id].docs = segs[i].docs
          /\ segs[i].dead \subseteq disk[segs[i].id].dead
          /\ "bitmap_cut" \notin Faults => disk[segs[i].id].ok

\* doc_id_map never leads astray: the location of an id is in a listed segment,
\* holds a document of that id, and has not been deleted, neither for the open
\* reader nor in the bitmap on disk.  get_docs and mark_deleted rely on it
\* across concurrent merges, reindexing and restarts.
DocMapSound ==
    \A id \in DocIds : docMap[id] # NoLoc =>
        \E i \in DOMAIN segs :
            /\ segs[i].id = docMap[id].seg
            /\ docMap[id].loc \in CopiesOf(segs[i], id)
            /\ docMap[id].loc \notin disk[segs[i].id].dead

\* No acknowledged document disappears from memory while the engine serves:
\* wherever flushes and merges of several threads have got to, it is in the
\* buffer, in a flush's hands, or in a listed segment (flush, run_merge,
\* reindex_self).  That searches find it is more, see FoundBetweenCalls.
NothingVanishes == up => \A d \in acked : Owed(d) => Held(d)

\* Between calls, search() finds every acknowledged document, also after
\* restarts, unless the buffer has a deletion mark for its id (a document that
\* is indexed again after its delete is hidden by the mark until a flush).
FoundBetweenCalls ==
    Quiescent => \A d \in acked :
        Owed(d) => d \in Searched \/ d.id \in bufDeleted

\* README: "every write is persisted before ack"; a crash at this very moment
\* loses no acknowledged document.
Durable == \A d \in acked : Owed(d) => Recoverable(d)

\* No listed segment has a newer undeleted copy of an id than the one the map
\* leads to, so that get_docs and delete act on the last flushed write.
MapIsFresh ==
    \A id \in DocIds : \A found \in GetDoc(id) :
        \A i \in DOMAIN segs : \A l \in CopiesOf(segs[i], id) :
            \/ segs[i].docs[l].ver <= found.ver
            \/ segs[i].docs[l].ver <= cleared[id]

\* The flushes, merges and reindexing that move a write about never leave a
\* second copy of it where search() looks, until a failure (a kill between
\* publishing a segment and truncating the log does).  A document indexed again
\* is another write: it may be returned for each of them, see UpdatesReplace.
EachWriteOnce == faults = 0 => \A d \in Searched : Hits(d) <= 1

-----------------------------------------------------------------------------
ListedDocs ==
    UNION {{segs[i].docs[l] : l \in Live(segs[i])} : i \in DOMAIN segs}

\* The swap of a merge loses no document, although between execute_merge and
\* replace_segments other threads publish, merge and swap segments.
MergeKeepsDocs ==
    [][\A t \in Threads : MergeSwap(t) => ListedDocs \subseteq ListedDocs']_vars

\* Nothing has failed, nobody reindexes and nobody deletes id.
Peaceful(id) ==
    /\ faults = 0 /\ cleared[id] = 0
    /\ \A t \in Threads : th[t].op # "reindex"

\* Every acknowledged document is at last found by search for good, however many
\* flushes and merges run at once, unless a call failed, the engine reindexed
\* next to a writer (see NothingVanishes) or the id was deleted (the mark in the
\* buffer hides a document that is indexed again).
FinallySearchable ==
    \A id \in DocIds : []Peaceful(id) =>
        \A v \in 1..MaxOps :
            LET d == [id |-> id, ver |-> v]
            IN  d \in acked ~> [](d \in Searched)

\* spec/001: "Updates to existing documents are reflected": once a newer copy of
\* a document is acknowledged, search() ends up returning no older one.  index()
\* leaves the copy in the segments alone and search() does not compare ids.
UpdatesReplace ==
    \A id \in DocIds, v, w \in 1..MaxOps :
        LET old == [id |-> id, ver |-> v]
            new == [id |-> id, ver |-> w]
        IN  v < w => (new \in acked ~> [](old \notin Searched))

\* spec/001: "Deletes remove documents from results": once the delete of a
\* document is acknowledged, none of its copies is both found by search() and
\* fetched by get_docs() for good.  mark_deleted changes the map and the bitmap
\* on disk, not the open reader, which is what a merge copies from.
DeletesRemove ==
    \A id \in DocIds, v \in 1..MaxOps :
        LET old == [id |-> id, ver |-> v]
        IN  cleared[id] >= v ~> [](old \notin Searched \cap GetDoc(id))
-----------------------------------------------------------------------------
(***************************************************************************)
(* The inductive invariant behind ListedOnDisk, DocMapSound and            *)
(* MergeKeepsDocs: who owns which segment id.                              *)
(***************************************************************************)

\* t has been given an id for a segment that is not listed yet.
Building(t) == th[t].pc \in WritePcs \cup {"publish", "m_swap", "r_old", "r_swap"}

\* t has written the directory of that segment.
Built(t) == th[t].pc \in {"publish", "m_swap", "r_old", "r_swap"}

\* t is about to replace, or is removing, the segments th[t].old.
Replacing(t) ==
    th[t].pc \in {"m_alloc", "m_exec", "m_swap", "r_swap"} \cup CleanPcs

\* Ids in use are below the counter.
IdsAllocated ==
    /\ \A s \in DOMAIN disk : up => s < nextSegSeq
    /\ \A i \in DOMAIN segs : 0 < segs[i].id /\ segs[i].id < nextSegSeq
    /\ \A t \in Threads : Building(t) => 0 < th[t].seg /\ th[t].seg < nextSegSeq
    /\ \A t \in Threads : Replacing(t) => \A s \in th[t].old : s < nextSegSeq

\* A segment under construction belongs to one thread, which alone lists it.
BuildersApart ==
    /\ \A t, u \in Threads :
          Building(t) /\ Building(u) /\ th[t].seg = th[u].seg => t = u
    /\ \A t \in Threads : \A i \in DOMAIN segs :
          Building(t) => segs[i].id # th[t].seg
    /\ \A t, u \in Threads :
          Building(t) /\ Replacing(u) => th[t].seg \notin th[u].old

\* Its directory stays as written until it is listed.
BuiltOnDisk ==
    \A t \in Threads : Built(t) =>
        th[t].seg \in DOMAIN disk /\ disk[th[t].seg] = NewDir(th[t].docs)

\* Directories are removed only after their segments left the list for good.
RemovedUnlisted ==
    \A t \in Threads : th[t].pc \in CleanPcs =>
        \A i \in DOMAIN segs : segs[i].id \notin th[t].old

\* A merged segment holds what its sources, if still listed, hold.
MergeCovers ==
    \A t \in Threads : th[t].pc = "m_swap" =>
        \A i \in DOMAIN segs : segs[i].id \in th[t].old =>
            \A l \in Live(segs[i]) : segs[i].docs[l] \in Range(th[t].docs)

\* Nothing is in memory while the process is down.
DownIsEmpty ==
    ~up => /\ segs = << >>
           /\ \A t \in Threads : th[t] = Idle

\* A delete call carries one entry, the id it deletes.
DeleteArg ==
    \A t \in Threads : th[t].pc \in {"del_buf", "del_seg"} => Len(th[t].arg) = 1

\* Segment ids are never shared between a listed segment, a segment being
\* built and a segment being removed, and the directories agree: the invariant
\* that keeps the unlocked work of flush, run_merge and reindex_self safe.
SegmentInv ==
    /\ TypeOK
    /\ ListedOnDisk
    /\ DocMapSound
    /\ IdsAllocated
    /\ BuildersApart
    /\ BuiltOnDisk
    /\ RemovedUnlisted
    /\ MergeCovers
    /\ DownIsEmpty
    /\ DeleteArg

-----------------------------------------------------------------------------
(***************************************************************************)
(* The inductive invariant behind NothingVanishes with any number of       *)
(* threads.  It holds where no call reindexes (two threads in              *)
(* reindex_self can drop each other's documents) and where memory is not   *)
(* lost (a flush whose write fails has dropped what it drained).           *)
(***************************************************************************)
NoReindexing == \A t \in Threads : "reindex" \notin Calls[t]
MemoryKept   == Faults \cap {"crash", "write_error"} = {}

\* What the engine has promised to keep: the acknowledged documents and those
\* of index calls that have left the buffer section and may return Ok.
Promised ==
    acked \cup UNION {Range(th[t].arg) :
                         t \in {u \in Threads : /\ th[u].op = "index"
                                                /\ th[u].pc # "add"}}

HeldInv ==
    /\ NoReindexing
    /\ MemoryKept
    /\ up
    /\ \A t \in Threads : th[t].op # "reindex" /\ th[t].pc \notin ReindexPcs
    /\ \A d \in Promised : Held(d)

-----------------------------------------------------------------------------
(***************************************************************************)
(* The inductive invariant behind Durable and NothingVanishes for one      *)
(* client at a time whose process may be killed at any moment and opened   *)
(* again.  With two threads the log is truncated under a document that is  *)
(* only in the buffer (the run v_flush_race).                              *)
(***************************************************************************)
OneClient == \A t, u \in Threads : t = u
OnlyKills == Faults \subseteq {"crash"}

InLog(d) == \E i \in DOMAIN walFile : walFile[i].entry = IndexEntry(d)

DeletedInLog(id) ==
    \E i \in DOMAIN walFile : /\ walFile[i].entry.op = "delete"
                              /\ walFile[i].entry.doc.id = id

\* d is in the hands of memory alone: the buffer, or a flush.
Buffered(d) ==
    \/ d \in Range(bufDocs)
    \/ \E t \in Threads : /\ th[t].pc \in {"alloc", "write", "publish"}
                          /\ d \in Range(th[t].docs)

\* d is in a listed segment and not deleted in its directory.
Listed(d) ==
    \E i \in DOMAIN segs : \E l \in DOMAIN segs[i].docs :
        segs[i].docs[l] = d /\ l \notin disk[segs[i].id].dead

\* d is in a directory that open() will load.
InDirectory(d) ==
    \E s \in ReadableIds : \E l \in Live(EntryOf(s)) : disk[s].docs[l] = d

Due(d) == d \in Promised /\ d.ver > cleared[d.id]

\* Every record of the log can be decoded.
LogWhole == \A i \in DOMAIN walFile : walFile[i].ok

\* A delete clears every version that was promised before it.
VersionsSeen ==
    /\ \A d \in acked : d.ver <= clock
    /\ \A t \in Threads : \A d \in Range(th[t].arg) : d.ver <= clock

\* Once a flush has drained the buffer, its only client adds nothing to it.
BufferTaken ==
    \A t \in Threads :
        th[t].pc \in (FlushPcs \ {"drain"}) \cup ReindexPcs => bufDocs = << >>

\* The log has the documents before the buffer gets them.
LoggedFirst ==
    \A t \in Threads : th[t].pc = "add" => \A d \in Range(th[t].arg) : InLog(d)

\* reindex_self writes every document that the listed segments hold.
ReindexCovers ==
    \A t \in Threads : th[t].pc \in {"r_alloc", "r_write", "r_old", "r_swap"} =>
        \A i \in DOMAIN segs : \A l \in Live(segs[i]) :
            segs[i].docs[l] \in Range(th[t].docs)

\* A document is in the log as long as it is in memory alone; then it is on
\* disk; and a delete that the log would replay has the document after it.
Survives ==
    \A d \in Promised : Due(d) =>
        /\ up  => (InLog(d) /\ Buffered(d)) \/ Listed(d)
        /\ ~up => InLog(d) \/ InDirectory(d)
        /\ DeletedInLog(d.id) => InLog(d)

DurableInv ==
    /\ OneClient
    /\ OnlyKills
    /\ LogWhole
    /\ VersionsSeen
    /\ BufferTaken
    /\ LoggedFirst
    /\ ReindexCovers
    /\ Survives
-----------------------------------------------------------------------------
(***************************************************************************)
(* The inductive invariant behind EachWriteOnce for one client at a time.   *)
(* Two threads that merge the same segments both list the merged one.      *)
(***************************************************************************)
Apart(s, u) == Range(s) \cap Range(u) = {}

\* No listed segment has a document twice, or one of another listed segment.
SegsOnce ==
    /\ \A i \in DOMAIN segs : segs[i].dead = {} /\ IsInjective(segs[i].docs)
    /\ \A i, j \in DOMAIN segs : i # j => Apart(segs[i].docs, segs[j].docs)

\* Nor does the buffer.
BufOnce ==
    /\ IsInjective(bufDocs)
    /\ \A i \in DOMAIN segs : Apart(segs[i].docs, bufDocs)

\* What the call t serves adds to the buffer or to the list is not there yet, or
\* is in the segments it replaces.
CallOnce(t) ==
    /\ IsInjective(th[t].docs)
    /\ th[t].pc = "add" =>
          /\ IsInjective(th[t].arg)
          /\ Apart(th[t].arg, bufDocs)
          /\ \A i \in DOMAIN segs : Apart(segs[i].docs, th[t].arg)
    /\ th[t].pc \in (FlushPcs \ {"drain"}) \cup ReindexPcs => bufDocs = << >>
    /\ th[t].pc \in {"alloc", "write", "publish"} =>
          \A i \in DOMAIN segs : Apart(segs[i].docs, th[t].docs)
    /\ th[t].pc = "m_swap" =>
          \A i \in DOMAIN segs :
              segs[i].id \notin th[t].old => Apart(segs[i].docs, th[t].docs)
    /\ th[t].pc = "r_swap" => ListedIds \subseteq th[t].old

\* Versions that are stored or in hand have been given out.
VersionsGiven ==
    /\ \A d \in Range(bufDocs) : d.ver <= clock
    /\ \A i \in DOMAIN segs : \A d \in Range(segs[i].docs) : d.ver <= clock
    /\ \A t \in Threads :
          \A d \in Range(th[t].docs) \cup Range(th[t].arg) : d.ver <= clock

OnePlace ==
    /\ up
    /\ SegsOnce
    /\ BufOnce
    /\ \A t \in Threads : CallOnce(t)
    /\ VersionsGiven

OnceInv == OneClient /\ (faults = 0 => OnePlace)
=============================================================================
