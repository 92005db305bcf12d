----------------------------- MODULE SegmentList -----------------------------
(***************************************************************************)
(* The shard's immutable segments: crates/shard/src/segment_list.rs, with  *)
(* the parts of crates/index (SegmentWriter, SegmentReader, DocStoreReader *)
(* and DeletionBitmap) it stores documents through, and the merge policy   *)
(* and merge execution of crates/shard/src/merge.rs.                       *)
(*                                                                         *)
(* A segment directory holds the documents in local-id order, the deletion *)
(* bitmap deletions.bin, and is readable (ok) only when every file can be  *)
(* decoded: meta.json is written last, and a deletions.bin cut short makes *)
(* SegmentReader::open fail for the whole directory.  A segment id         *)
(* "seg-NNNNNN" is its number.  Local ids start at 1 here, at 0 in the     *)
(* code.                                                                   *)
(***************************************************************************)
EXTENDS ShardTypes

CONSTANTS
    MinSegmentsToMerge,   \* TieredMergePolicy::min_segments_to_merge (3)
    MaxMergeAtOnce        \* TieredMergePolicy::max_merge_at_once (10)

ASSUME MergePolicyAssumption ==
    MinSegmentsToMerge \in Nat \ {0} /\ MaxMergeAtOnce \in Nat \ {0}

VARIABLES
    disk,         \* segment directories: id -> [docs, dead, ok] (durable)
    segs,         \* SegmentList::segments, a Vec of open readers
    docMap,       \* SegmentList::doc_id_map
    nextSegSeq    \* SegmentList::next_segment_seq

segVars == <<disk, segs, docMap, nextSegSeq>>

Dir   == [docs : Seq(Document), dead : SUBSET Nat, ok : BOOLEAN]
Entry == [id : Nat, docs : Seq(Document), dead : SUBSET Nat]

\* DocLocation; NoLoc stands for an id the map does not contain.
Location == [seg : Nat, loc : Nat]
NoLoc    == [seg |-> 0, loc |-> 0]

SegTypeOK ==
    /\ DOMAIN disk \in SUBSET (Nat \ {0})
    /\ IsFiniteSet(DOMAIN disk)
    /\ \A s \in DOMAIN disk : disk[s] \in Dir
    /\ segs \in Seq(Entry)
    /\ docMap \in [DocIds -> Location]
    /\ nextSegSeq \in Nat \ {0}

-----------------------------------------------------------------------------
\* all_live_docs: the local ids whose document DocStoreReader::get returns.
Live(e) == DOMAIN e.docs \ e.dead

CopiesOf(e, id) == {l \in Live(e) : e.docs[l].id = id}

ListedIds == {segs[i].id : i \in DOMAIN segs}

\* Mutant: an id that is mapped already keeps its location.
MappedOnce(m, e) ==
    [id \in DocIds |->
        IF m[id] # NoLoc \/ CopiesOf(e, id) = {} THEN m[id]
        ELSE [seg |-> e.id, loc |-> Max(CopiesOf(e, id))]]

\* Locations a segment's documents insert into the map m; of two copies of
\* one id the later local id wins.
Mapped(m, e) ==
    [id \in DocIds |->
        IF CopiesOf(e, id) = {} THEN m[id]
        ELSE [seg |-> e.id, loc |-> Max(CopiesOf(e, id))]]

\* SegmentWriter::write and SegmentReader::open of a directory just written.
NewDir(docs)     == [docs |-> docs, dead |-> {}, ok |-> TRUE]
NewEntry(s, docs) == [id |-> s, docs |-> docs, dead |-> {}]

\* A directory whose SegmentWriter::write did not reach meta.json.
PartialDir == [docs |-> << >>, dead |-> {}, ok |-> FALSE]

\* DeletionBitmap::mark_deleted: load deletions.bin, insert, save.
Marked(dir, locs) ==
    [docs |-> dir.docs, dead |-> dir.dead \cup locs, ok |-> dir.ok]

WithDir(s, dir) ==
    [x \in DOMAIN disk \cup {s} |-> IF x = s THEN dir ELSE disk[x]]

WithoutDirs(S) == [x \in DOMAIN disk \ S |-> disk[x]]

\* Mutant: the loop over a segment's documents starts one too late.
LiveDocsOfSkippingFirst(S) ==
    Gather([i \in DOMAIN segs |-> segs[i].docs],
           UNION {{i} \X (Live(segs[i]) \ {1}) :
                     i \in {j \in DOMAIN segs : segs[j].id \in S}})

\* Documents the open readers return, in the order of the list, for the listed
\* segments whose id is in S.  The readers' bitmaps are those of open time.
LiveDocsOf(S) ==
    Gather([i \in DOMAIN segs |-> segs[i].docs],
           UNION {{i} \X Live(segs[i]) :
                     i \in {j \in DOMAIN segs : segs[j].id \in S}})

-----------------------------------------------------------------------------
SegInit ==
    /\ disk = [s \in {} |-> PartialDir]
    /\ segs = << >>
    /\ docMap = [id \in DocIds |-> NoLoc]
    /\ nextSegSeq = 1

\* Mutant: the counter is read and not advanced.
NextSegmentIdUnchanged == UNCHANGED <<nextSegSeq, disk, segs, docMap>>

\* next_segment_id: the id handed out is the old value of next_segment_seq.
NextSegmentId ==
    /\ nextSegSeq' = nextSegSeq + 1
    /\ UNCHANGED <<disk, segs, docMap>>

\* add_segment
AddSegment(e) ==
    /\ segs' = Append(segs, e)
    /\ docMap' = Mapped(docMap, e)
    /\ UNCHANGED <<disk, nextSegSeq>>

\* Mutant: the replaced segments stay listed.
ReplaceSegmentsKeepsOld(old, e) ==
    /\ segs' = Append(segs, e)
    /\ docMap' = Mapped(docMap, e)
    /\ UNCHANGED <<disk, nextSegSeq>>

\* replace_segments: unmap and drop the old ids that are still listed, then map
\* and append the new entry.  Only list positions are compared, so a document
\* of the new entry takes over the map entry of a newer copy elsewhere.
ReplaceSegments(old, e) ==
    /\ segs' = Append(Retain(segs, {i \in DOMAIN segs : segs[i].id \notin old}),
                      e)
    /\ docMap' = Mapped([id \in DocIds |->
                            IF docMap[id].seg \in old THEN NoLoc
                            ELSE docMap[id]], e)
    /\ UNCHANGED <<disk, nextSegSeq>>

\* The map entry mark_deleted finds: mapped, and in a listed segment.
Deletable(m, id) == m[id] # NoLoc /\ m[id].seg \in ListedIds

\* Mutant: the bitmap is saved but the map entry stays.
MarkDeletedStaysMapped(id) ==
    LET at == docMap[id] IN
    IF Deletable(docMap, id) /\ disk[at.seg].ok
    THEN /\ disk' = WithDir(at.seg, Marked(disk[at.seg], {at.loc}))
         /\ UNCHANGED <<segs, docMap, nextSegSeq>>
    ELSE UNCHANGED segVars

\* mark_deleted: the bitmap on disk gets the local id, the map loses the entry.
\* The open reader keeps the bitmap it loaded.  A bitmap that cannot be decoded
\* is an error and changes nothing.
MarkDeleted(id) ==
    LET at == docMap[id] IN
    IF Deletable(docMap, id) /\ disk[at.seg].ok
    THEN /\ disk' = WithDir(at.seg, Marked(disk[at.seg], {at.loc}))
         /\ docMap' = [docMap EXCEPT ![id] = NoLoc]
         /\ UNCHANGED <<segs, nextSegSeq>>
    ELSE UNCHANGED segVars

\* get_doc: the document the map leads to, as a set of at most one.
GetDoc(id) ==
    {segs[i].docs[docMap[id].loc] :
        i \in {j \in DOMAIN segs : /\ segs[j].id = docMap[id].seg
                                   /\ docMap[id].loc \in Live(segs[j])}}

-----------------------------------------------------------------------------
\* SegmentList::open.  Directories are taken in path order; the unreadable ones
\* are skipped but still count for next_segment_seq.
ReadableIds == {s \in DOMAIN disk : disk[s].ok}

EntryOf(s) == [id |-> s, docs |-> disk[s].docs, dead |-> disk[s].dead]

OpenedSegs == LET ids == Ascending(ReadableIds)
              IN  [k \in DOMAIN ids |-> EntryOf(ids[k])]

OpenedMap ==
    [id \in DocIds |->
        LET holders == {s \in ReadableIds : CopiesOf(EntryOf(s), id) # {}}
        IN  IF holders = {} THEN NoLoc
            ELSE [seg |-> Max(holders),
                  loc |-> Max(CopiesOf(EntryOf(Max(holders)), id))]]

\* The local ids in segment s that the map m has for the given document ids.
LocsIn(m, ids, s) ==
    {m[id].loc : id \in {i \in ids : m[i] # NoLoc /\ m[i].seg = s}}

\* Mutant: directories that cannot be opened do not count for the counter.
OpenCountingReadable(ids) ==
    LET m == OpenedMap
    IN  /\ segs' = OpenedSegs
        /\ docMap' = [id \in DocIds |-> IF id \in ids THEN NoLoc ELSE m[id]]
        /\ disk' = [s \in DOMAIN disk |-> Marked(disk[s], LocsIn(m, ids, s))]
        /\ nextSegSeq' = Max(ReadableIds \cup {0}) + 1

\* open followed by the replay of the WAL's deletes: each marks the location
\* the map has for its id, if any, and removes it from the map.
OpenAndReplayDeletes(ids) ==
    LET m == OpenedMap
    IN  /\ segs' = OpenedSegs
        /\ docMap' = [id \in DocIds |-> IF id \in ids THEN NoLoc ELSE m[id]]
        /\ disk' = [s \in DOMAIN disk |-> Marked(disk[s], LocsIn(m, ids, s))]
        /\ nextSegSeq' = Max(DOMAIN disk \cup {0}) + 1

-----------------------------------------------------------------------------
\* TieredMergePolicy::find_merges: nothing below the minimum, otherwise the
\* segments with the fewest documents (ties to the older ones), at most
\* MaxMergeAtOnce of them.
Smaller(i, j) == Before(<<Len(segs[i].docs), i>>, <<Len(segs[j].docs), j>>)

FindMerges ==
    LET picked == {i \in DOMAIN segs :
                      Cardinality({j \in DOMAIN segs : Smaller(j, i)})
                          < MaxMergeAtOnce}
    IN  IF /\ Len(segs) >= MinSegmentsToMerge
           /\ Cardinality(picked) >= MinSegmentsToMerge
        THEN {segs[i].id : i \in picked}
        ELSE {}
=============================================================================
