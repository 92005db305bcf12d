----------------------------- MODULE ShardProofs -----------------------------
(***************************************************************************)
(* Proofs about the shard engine, for any set of ids, threads, batches and *)
(* calls, any buffer capacity and merge policy, and any failures: types,   *)
(* and the ownership of segment ids (SegmentInv), from which ListedOnDisk, *)
(* DocMapSound and MergeKeepsDocs follow.                                  *)
(***************************************************************************)
EXTENDS ShardProperties, ShardTypesProofs

-----------------------------------------------------------------------------
(* Types of the operators the actions are built from *)

\* The image of a finite set under a function is finite.
LEMMA FiniteImage ==
    ASSUME NEW J, IsFiniteSet(J), NEW f, DOMAIN f = J
    PROVE  IsFiniteSet({f[j] : j \in J})
<1> DEFINE T == {f[j] : j \in J}
           g == [j \in J |-> f[j]]
<1>1. g \in Surjection(J, T)  BY DEF Surjection
<1>. QED  BY <1>1, FS_Surjection

\* The positions of a segment's documents are a finite set of numbers.
LEMMA CopiesFinite ==
    ASSUME NEW e, e.docs \in Seq(Document), NEW id
    PROVE  /\ Live(e) \in SUBSET Nat
           /\ IsFiniteSet(Live(e))
           /\ CopiesOf(e, id) \in SUBSET Nat
           /\ IsFiniteSet(CopiesOf(e, id))
           /\ CopiesOf(e, id) \subseteq Live(e)
<1>1. DOMAIN e.docs = 1..Len(e.docs) /\ Len(e.docs) \in Nat  OBVIOUS
<1>2. IsFiniteSet(1..Len(e.docs))  BY <1>1, FS_Interval
<1>3. Live(e) \in SUBSET (1..Len(e.docs)) /\ CopiesOf(e, id) \in SUBSET (1..Len(e.docs))
  BY <1>1 DEF Live, CopiesOf
<1>. QED  BY <1>2, <1>3, FS_Subset DEF CopiesOf

\* The location a segment gives to an id it holds is a live copy of that id.
LEMMA MaxCopy ==
    ASSUME NEW e, e.docs \in Seq(Document), NEW id, CopiesOf(e, id) # {}
    PROVE  Max(CopiesOf(e, id)) \in CopiesOf(e, id) /\ Max(CopiesOf(e, id)) \in Nat
<1>1. CopiesOf(e, id) \in SUBSET Nat /\ IsFiniteSet(CopiesOf(e, id))
  BY CopiesFinite
<1>. QED  BY <1>1, MaxProperties

\* Inserting the documents of a segment into doc_id_map yields a map again
\* (the loop of add_segment).
LEMMA MappedType ==
    ASSUME NEW m \in [DocIds -> Location], NEW e \in Entry
    PROVE  Mapped(m, e) \in [DocIds -> Location]
<1>1. ASSUME NEW id \in DocIds, CopiesOf(e, id) # {}
      PROVE  [seg |-> e.id, loc |-> Max(CopiesOf(e, id))] \in Location
  BY <1>1, MaxCopy DEF Entry, Location
<1>. QED  BY <1>1 DEF Mapped

\* The positions LiveDocsOf gathers.
LivePositions(S) ==
    UNION {{i} \X Live(segs[i]) :
              i \in {j \in DOMAIN segs : segs[j].id \in S}}

\* The positions of the live documents of listed segments form a finite set
\* of pairs, so that Gather can enumerate them (execute_merge, reindex_self).
LEMMA LivePositionsFinite ==
    ASSUME segs \in Seq(Entry), NEW S
    PROVE  LivePositions(S) \in SUBSET (Nat \X Nat) /\ IsFiniteSet(LivePositions(S))
<1> DEFINE J == {j \in DOMAIN segs : segs[j].id \in S}
           f == [i \in J |-> {i} \X Live(segs[i])]
<1>1. DOMAIN segs = 1..Len(segs) /\ Len(segs) \in Nat  OBVIOUS
<1>2. IsFiniteSet(J)
  <2>1. IsFiniteSet(1..Len(segs)) /\ J \in SUBSET (1..Len(segs))
    BY <1>1, FS_Interval
  <2>. QED  BY <2>1, FS_Subset
<1>3. ASSUME NEW i \in J
      PROVE  f[i] \in SUBSET (Nat \X Nat) /\ IsFiniteSet(f[i])
  <2>1. segs[i] \in Entry /\ i \in Nat  BY <1>1
  <2>2. Live(segs[i]) \in SUBSET Nat /\ IsFiniteSet(Live(segs[i]))
    BY <2>1, CopiesFinite DEF Entry
  <2>3. IsFiniteSet({i})  BY FS_Singleton
  <2>4. IsFiniteSet({i} \X Live(segs[i]))  BY <2>2, <2>3, FS_Product
  <2>. QED  BY <2>1, <2>2, <2>4
<1>4. LivePositions(S) = UNION {f[i] : i \in J}  BY DEF LivePositions
<1>5. IsFiniteSet({f[i] : i \in J})
  <2>1. DOMAIN f = J  OBVIOUS
  <2>. HIDE DEF f, J
  <2>. QED  BY <1>2, <2>1, FiniteImage
<1>6. \A T \in {f[i] : i \in J} : IsFiniteSet(T) /\ T \in SUBSET (Nat \X Nat)
  BY <1>3
<1>. HIDE DEF f, J
<1>7. IsFiniteSet(UNION {f[i] : i \in J})  BY <1>5, <1>6, FS_UNION
<1>. QED  BY <1>4, <1>6, <1>7

\* LiveDocsOf(S) holds the live documents of the listed segments with ids in S.
LEMMA LiveDocsProperties ==
    ASSUME segs \in Seq(Entry), NEW S
    PROVE  /\ LiveDocsOf(S) \in Seq(Document)
           /\ \A i \in DOMAIN segs : segs[i].id \in S =>
                 \A l \in Live(segs[i]) : segs[i].docs[l] \in Range(LiveDocsOf(S))
<1> DEFINE rows == [i \in DOMAIN segs |-> segs[i].docs]
           P == LivePositions(S)
<1>1. P \in SUBSET (Nat \X Nat) /\ IsFiniteSet(P)  BY LivePositionsFinite
<1>2. \A p \in P : /\ p[1] \in DOMAIN segs
                   /\ p[2] \in Live(segs[p[1]])
  BY DEF LivePositions
<1>3. \A p \in P : rows[p[1]][p[2]] \in Document /\ rows[p[1]][p[2]] = segs[p[1]].docs[p[2]]
  <2> TAKE p \in P
  <2>1. segs[p[1]] \in Entry  BY <1>2
  <2>2. p[2] \in DOMAIN segs[p[1]].docs  BY <1>2 DEF Live
  <2>. QED  BY <1>2, <2>1, <2>2 DEF Entry
<1>4. LiveDocsOf(S) = Gather(rows, P)  BY DEF LiveDocsOf, LivePositions
<1>5. \A i \in DOMAIN segs : segs[i].id \in S =>
          \A l \in Live(segs[i]) : <<i, l>> \in P
  BY DEF LivePositions
<1>. HIDE DEF rows, P
<1>6. /\ Gather(rows, P) \in Seq(Document)
      /\ \A p \in P : rows[p[1]][p[2]] \in Range(Gather(rows, P))
  BY <1>1, <1>3, GatherProperties
<1>7. ASSUME NEW i \in DOMAIN segs, segs[i].id \in S, NEW l \in Live(segs[i])
      PROVE  segs[i].docs[l] \in Range(Gather(rows, P))
  <2>1. <<i, l>> \in P  BY <1>5, <1>7
  <2>2. rows[i][l] = segs[i].docs[l] /\ rows[i][l] \in Range(Gather(rows, P))
    BY <2>1, <1>3, <1>6
  <2>. QED  BY <2>2
<1>. QED  BY <1>4, <1>6, <1>7

\* What an index call appends to the log and to the buffer.
LEMMA StampedType ==
    ASSUME NEW ids \in Batches, clock \in Nat
    PROVE  /\ Len(ids) \in Nat
           /\ Stamped(ids) \in Seq(Document)
           /\ IndexEntries(Stamped(ids)) \in Seq(WalEntry)
           /\ Len(IndexEntries(Stamped(ids))) = Len(ids)
<1>1. ids \in Seq(DocIds)  BY EngineAssumption
<1>2. Len(ids) \in Nat  BY <1>1
<1>3. \A i \in 1..Len(ids) : ids[i] \in DocIds /\ clock + i \in Nat  BY <1>1
<1>4. Stamped(ids) \in [1..Len(ids) -> Document]  BY <1>3 DEF Stamped, Document
<1>5. Stamped(ids) \in Seq(Document) /\ Len(Stamped(ids)) = Len(ids)
  BY <1>2, <1>4
<1>6. IndexEntries(Stamped(ids)) \in [1..Len(ids) -> WalEntry]
  BY <1>4, <1>5 DEF IndexEntries, IndexEntry, WalEntry
<1>. QED  BY <1>2, <1>5, <1>6

\* append_batch keeps the log a sequence of records.
LEMMA AppendBatchType ==
    ASSUME WalTypeOK, NEW entries \in Seq(WalEntry), AppendBatch(entries)
    PROVE  WalTypeOK'
<1>1. Numbered(entries, nextSeq) \in Seq(WalRecord)  BY NumberedType DEF WalTypeOK
<1>. QED  BY <1>1 DEF WalTypeOK, AppendBatch

\* So does an append_batch that fails part way.
LEMMA AppendCutType ==
    ASSUME WalTypeOK, NEW entries \in Seq(WalEntry), NEW k, NEW torn \in BOOLEAN,
           AppendCut(entries, k, torn)
    PROVE  WalTypeOK'
<1> DEFINE whole == SubSeq(Numbered(entries, nextSeq), 1, k)
           rec == [seq |-> nextSeq + k, entry |-> entries[k + 1], ok |-> FALSE]
           tail == IF torn THEN <<rec>> ELSE << >>
<1>1. /\ k \in 0..Len(entries)
      /\ torn => k < Len(entries)
      /\ walFile' = walFile \o whole \o tail
      /\ nextSeq' \in {nextSeq + k + 1, nextSeq + k}
  BY DEF AppendCut
<1>2. /\ Numbered(entries, nextSeq) \in Seq(WalRecord)
      /\ Len(Numbered(entries, nextSeq)) = Len(entries)
  BY NumberedType DEF WalTypeOK
<1>3. whole \in Seq(WalRecord)  BY <1>1, <1>2
<1>4. tail \in Seq(WalRecord)
  <2>1. CASE torn
    <3>1. k + 1 \in 1..Len(entries) /\ nextSeq + k \in Nat
      BY <1>1, <2>1 DEF WalTypeOK
    <3>2. rec \in WalRecord  BY <3>1 DEF WalRecord
    <3>. QED  BY <2>1, <3>2
  <2>. QED  BY <2>1
<1>. HIDE DEF whole, tail
<1>. QED  BY <1>1, <1>3, <1>4 DEF WalTypeOK

\* What SegmentList::open loads: one reader per readable directory.
LEMMA OpenedSegsProperties ==
    ASSUME SegTypeOK
    PROVE  /\ ReadableIds \in SUBSET (Nat \ {0}) /\ IsFiniteSet(ReadableIds)
           /\ \A s \in ReadableIds : EntryOf(s) \in Entry
           /\ OpenedSegs \in Seq(Entry)
           /\ \A k \in DOMAIN OpenedSegs :
                 OpenedSegs[k].id \in ReadableIds /\ OpenedSegs[k] = EntryOf(OpenedSegs[k].id)
           /\ \A s \in ReadableIds : \E k \in DOMAIN OpenedSegs : OpenedSegs[k] = EntryOf(s)
           /\ \A j, k \in DOMAIN OpenedSegs :
                 OpenedSegs[j].id = OpenedSegs[k].id => j = k
<1> DEFINE ids == Ascending(ReadableIds)
<1>1. ReadableIds \in SUBSET DOMAIN disk  BY DEF ReadableIds
<1>2. ReadableIds \in SUBSET (Nat \ {0}) /\ IsFiniteSet(ReadableIds)
  BY <1>1, FS_Subset DEF SegTypeOK
<1>3. \A s \in ReadableIds : EntryOf(s) \in Entry /\ EntryOf(s).id = s
  <2> TAKE s \in ReadableIds
  <2>1. disk[s] \in Dir /\ s \in Nat  BY <1>1, <1>2 DEF SegTypeOK
  <2>. QED  BY <2>1 DEF EntryOf, Entry, Dir
<1>4. /\ ids \in Seq(ReadableIds)
      /\ \A x \in ReadableIds : \E k \in DOMAIN ids : ids[k] = x
      /\ \A j, k \in DOMAIN ids : ids[j] = ids[k] => j = k
  BY <1>2, AscendingProperties
<1>. HIDE DEF ids
<1>5. DOMAIN ids = 1..Len(ids) /\ Len(ids) \in Nat /\ \A k \in DOMAIN ids : ids[k] \in ReadableIds
  BY <1>4
<1>6. OpenedSegs = [k \in DOMAIN ids |-> EntryOf(ids[k])]  BY DEF OpenedSegs, ids
<1>7. OpenedSegs \in Seq(Entry)  BY <1>3, <1>5, <1>6
<1>8. \A k \in DOMAIN OpenedSegs : OpenedSegs[k] = EntryOf(ids[k]) /\ OpenedSegs[k].id = ids[k]
                                   /\ ids[k] \in ReadableIds
  BY <1>3, <1>5, <1>6
<1>9. DOMAIN OpenedSegs = DOMAIN ids  BY <1>6
<1>. QED  BY <1>2, <1>3, <1>4, <1>7, <1>8, <1>9

\* The map it builds leads to live copies in readable directories.
LEMMA OpenedMapProperties ==
    ASSUME SegTypeOK
    PROVE  /\ OpenedMap \in [DocIds -> Location]
           /\ \A id \in DocIds : OpenedMap[id] # NoLoc =>
                 /\ OpenedMap[id].seg \in ReadableIds
                 /\ OpenedMap[id].loc \in CopiesOf(EntryOf(OpenedMap[id].seg), id)
<1> DEFINE H(id) == {s \in ReadableIds : CopiesOf(EntryOf(s), id) # {}}
           L(id) == [seg |-> Max(H(id)), loc |-> Max(CopiesOf(EntryOf(Max(H(id))), id))]
<1>1. ASSUME NEW id \in DocIds, H(id) # {}
      PROVE  /\ L(id) \in Location
             /\ L(id).seg \in ReadableIds
             /\ L(id).loc \in CopiesOf(EntryOf(L(id).seg), id)
  <2> DEFINE m == Max(H(id))
  <2>0. ReadableIds \in SUBSET (Nat \ {0}) /\ IsFiniteSet(ReadableIds)
    BY OpenedSegsProperties
  <2>1. H(id) \in SUBSET ReadableIds  OBVIOUS
  <2>2. H(id) \in SUBSET Nat /\ IsFiniteSet(H(id))
    <3>. HIDE DEF H
    <3>. QED  BY <2>0, <2>1, FS_Subset
  <2>3. m \in H(id)
    <3>. HIDE DEF H
    <3>. QED  BY <1>1, <2>2, MaxProperties
  <2>4. m \in ReadableIds /\ CopiesOf(EntryOf(m), id) # {}  BY <2>3
  <2>5. EntryOf(m) \in Entry  BY <2>4, OpenedSegsProperties
  <2>6. Max(CopiesOf(EntryOf(m), id)) \in CopiesOf(EntryOf(m), id) /\ Max(CopiesOf(EntryOf(m), id)) \in Nat
    BY <2>4, <2>5, MaxCopy DEF Entry
  <2>. HIDE DEF m, H
  <2>7. L(id) = [seg |-> m, loc |-> Max(CopiesOf(EntryOf(m), id))]  BY DEF m
  <2>. QED  BY <2>0, <2>4, <2>6, <2>7 DEF Location
<1>2. \A id \in DocIds : OpenedMap[id] = IF H(id) = {} THEN NoLoc ELSE L(id)
  BY DEF OpenedMap
<1>3. NoLoc \in Location  BY DEF NoLoc, Location
<1>4. \A id \in DocIds : OpenedMap[id] \in Location
  <2>. HIDE DEF H, L
  <2>. QED  BY <1>1, <1>2, <1>3
<1>5. OpenedMap = [id \in DocIds |-> OpenedMap[id]]  BY DEF OpenedMap
<1>. HIDE DEF H, L
<1>. QED  BY <1>1, <1>2, <1>4, <1>5

\* Opening the segments and replaying the deletes yields well-typed state.
LEMMA OpenType ==
    ASSUME SegTypeOK, NEW ids \in SUBSET DocIds, OpenAndReplayDeletes(ids)
    PROVE  SegTypeOK'
<1>1. /\ segs' = OpenedSegs
      /\ docMap' = [id \in DocIds |-> IF id \in ids THEN NoLoc ELSE OpenedMap[id]]
      /\ disk' = [s \in DOMAIN disk |-> Marked(disk[s], LocsIn(OpenedMap, ids, s))]
      /\ nextSegSeq' = Max(DOMAIN disk \cup {0}) + 1
  BY DEF OpenAndReplayDeletes
<1>2. segs' \in Seq(Entry)  BY <1>1, OpenedSegsProperties
<1>3. docMap' \in [DocIds -> Location]
  BY <1>1, OpenedMapProperties DEF NoLoc, Location
<1>4. DOMAIN disk' = DOMAIN disk  BY <1>1
<1>5. \A s \in DOMAIN disk : disk'[s] \in Dir
  <2> TAKE s \in DOMAIN disk
  <2>1. disk[s] \in Dir  BY DEF SegTypeOK
  <2>2. LocsIn(OpenedMap, ids, s) \in SUBSET Nat
    BY OpenedMapProperties DEF LocsIn, Location
  <2>. QED  BY <1>1, <2>1, <2>2 DEF Marked, Dir
<1>6. nextSegSeq' \in Nat \ {0}
  <2> DEFINE S == DOMAIN disk \cup {0}
  <2>1. S \in SUBSET Nat /\ S # {}  BY DEF SegTypeOK
  <2>2. IsFiniteSet(S)  BY FS_AddElement DEF SegTypeOK
  <2>3. Max(S) \in Nat  BY <2>1, <2>2, MaxProperties
  <2>. QED  BY <1>1, <2>3
<1>. QED  BY <1>2, <1>3, <1>4, <1>5, <1>6 DEF SegTypeOK

-----------------------------------------------------------------------------
(* Type correctness *)

\* A new shard is well typed.
LEMMA TypeInit == Init => TypeOK
<1> SUFFICES ASSUME Init PROVE TypeOK  OBVIOUS
<1>1. WalTypeOK  BY DEF Init, WalInit, WalTypeOK
<1>2. BufTypeOK  BY DEF Init, BufInit, BufTypeOK
<1>3. SegTypeOK
  <2>1. DOMAIN disk = {} /\ IsFiniteSet({})  BY FS_EmptySet DEF Init, SegInit
  <2>. QED  BY <2>1 DEF Init, SegInit, SegTypeOK, Location, NoLoc
<1>4. Idle \in Thread
  BY DEF Idle, Serving, Thread, Pcs, Operations
<1>. QED  BY <1>1, <1>2, <1>3, <1>4 DEF Init, TypeOK

\* The state of a thread after each kind of change to it.
LEMMA ThreadTypes ==
    ASSUME th \in [Threads -> Thread], NEW t \in Threads
    PROVE  /\ Idle \in Thread
           /\ \A op \in Operations, arg \in Seq(Document), label \in Pcs :
                 th' = [th EXCEPT ![t] = Serving(op, arg, label)]
                    => th' \in [Threads -> Thread]
           /\ \A label \in Pcs, docs \in Seq(Document), s \in Nat, old \in SUBSET Nat :
                 Continue(t, label, docs, s, old) => th' \in [Threads -> Thread]
           /\ \A label \in Pcs : Goto(t, label) => th' \in [Threads -> Thread]
<1>1. Idle \in Thread  BY DEF Idle, Serving, Thread, Pcs, Operations
<1>2. \A op \in Operations, arg \in Seq(Document), label \in Pcs :
          Serving(op, arg, label) \in Thread
  BY DEF Serving, Thread
<1>3. th[t] \in Thread  OBVIOUS
<1>4. \A label \in Pcs, docs \in Seq(Document), s \in Nat, old \in SUBSET Nat :
          Continue(t, label, docs, s, old) => th' \in [Threads -> Thread]
  BY <1>3 DEF Continue, Thread
<1>5. \A label \in Pcs : Goto(t, label) => th' \in [Threads -> Thread]
  BY <1>3, <1>4 DEF Goto, Thread
<1>. QED  BY <1>1, <1>2, <1>4, <1>5

\* Returning Ok or Err keeps threads and history well typed.
LEMMA ReturnTypes ==
    ASSUME TypeOK, NEW t \in Threads
    PROVE  /\ ReturnOk(t) => th' \in [Threads -> Thread] /\ acked' \in SUBSET Document
           /\ ReturnErr(t) => th' \in [Threads -> Thread] /\ acked' \in SUBSET Document
           /\ FlushReturns(t) => th' \in [Threads -> Thread] /\ acked' \in SUBSET Document
<1>0. th \in [Threads -> Thread] /\ acked \in SUBSET Document  BY DEF TypeOK
<1>1. th[t] \in Thread  BY <1>0
<1>2. Range(th[t].arg) \in SUBSET Document
  <2>1. th[t].arg \in Seq(Document)  BY <1>1 DEF Thread
  <2>. QED  BY <2>1 DEF Range
<1>3. [th EXCEPT ![t] = Idle] \in [Threads -> Thread]  BY <1>0, ThreadTypes
<1>4. ReturnOk(t) => th' \in [Threads -> Thread] /\ acked' \in SUBSET Document
  BY <1>0, <1>2, <1>3 DEF ReturnOk
<1>5. ReturnErr(t) => th' \in [Threads -> Thread] /\ acked' \in SUBSET Document
  BY <1>0, <1>3 DEF ReturnErr
<1>6. "r_collect" \in Pcs /\ << >> \in Seq(Document) /\ 0 \in Nat /\ {} \in SUBSET Nat
  BY DEF Pcs, ReindexPcs
<1>7. Continue(t, "r_collect", << >>, 0, {}) => th' \in [Threads -> Thread]
  BY <1>0, <1>6, ThreadTypes
<1>8. FlushReturns(t) => th' \in [Threads -> Thread] /\ acked' \in SUBSET Document
  BY <1>0, <1>4, <1>7 DEF FlushReturns
<1>. QED  BY <1>4, <1>5, <1>8

\* A segment written to a directory.
LEMMA WithDirType ==
    ASSUME SegTypeOK, NEW s \in Nat \ {0}, NEW d \in Dir,
           disk' = WithDir(s, d), UNCHANGED <<segs, docMap, nextSegSeq>>
    PROVE  SegTypeOK'
<1>0. IsFiniteSet(DOMAIN disk)  BY DEF SegTypeOK
<1>1. DOMAIN disk' = DOMAIN disk \cup {s}  BY DEF WithDir
<1>2. IsFiniteSet(DOMAIN disk \cup {s})  BY <1>0, FS_AddElement
<1>3. \A x \in DOMAIN disk' : disk'[x] \in Dir  BY DEF WithDir, SegTypeOK
<1>. QED  BY <1>1, <1>2, <1>3 DEF SegTypeOK

\* remove_dir_all of replaced segments keeps the segment state well typed.
LEMMA WithoutDirsType ==
    ASSUME SegTypeOK, NEW S, disk' = WithoutDirs(S),
           UNCHANGED <<segs, docMap, nextSegSeq>>
    PROVE  SegTypeOK'
<1>0. IsFiniteSet(DOMAIN disk)  BY DEF SegTypeOK
<1>1. DOMAIN disk' = DOMAIN disk \ S  BY DEF WithoutDirs
<1>2. IsFiniteSet(DOMAIN disk \ S)  BY <1>0, FS_Difference
<1>3. \A x \in DOMAIN disk' : disk'[x] \in Dir  BY DEF WithoutDirs, SegTypeOK
<1>. QED  BY <1>1, <1>2, <1>3 DEF SegTypeOK

\* What SegmentWriter::write leaves and SegmentReader::open returns.
LEMMA NewSegmentType ==
    ASSUME NEW docs \in Seq(Document), NEW s \in Nat
    PROVE  NewDir(docs) \in Dir /\ NewEntry(s, docs) \in Entry
BY DEF NewDir, NewEntry, Dir, Entry

\* add_segment keeps the segment state well typed.
LEMMA AddSegmentType ==
    ASSUME SegTypeOK, NEW e \in Entry, AddSegment(e)
    PROVE  SegTypeOK'
<1>1. segs' \in Seq(Entry)  BY DEF SegTypeOK, AddSegment
<1>2. docMap' \in [DocIds -> Location]  BY MappedType DEF SegTypeOK, AddSegment
<1>. QED  BY <1>1, <1>2 DEF SegTypeOK, AddSegment

\* replace_segments keeps the segment state well typed.
LEMMA ReplaceSegmentsType ==
    ASSUME SegTypeOK, NEW old, NEW e \in Entry, ReplaceSegments(old, e)
    PROVE  SegTypeOK'
<1> DEFINE Keep == {i \in DOMAIN segs : segs[i].id \notin old}
           m == [id \in DocIds |-> IF docMap[id].seg \in old THEN NoLoc ELSE docMap[id]]
<1>1. Retain(segs, Keep) \in Seq(Entry)
  <2>1. Keep \in SUBSET DOMAIN segs /\ segs \in Seq(Entry)  BY DEF SegTypeOK
  <2>. HIDE DEF Keep
  <2>. QED  BY <2>1, RetainProperties
<1>2. segs' \in Seq(Entry)
  <2>1. segs' = Append(Retain(segs, Keep), e)  BY DEF ReplaceSegments
  <2>. QED  BY <1>1, <2>1
<1>3. m \in [DocIds -> Location]  BY DEF SegTypeOK, NoLoc, Location
<1>4. docMap' \in [DocIds -> Location]
  <2>1. docMap' = Mapped(m, e)  BY DEF ReplaceSegments
  <2>. HIDE DEF m
  <2>. QED  BY <1>3, <2>1, MappedType
<1>. QED  BY <1>2, <1>4 DEF SegTypeOK, ReplaceSegments

\* The types a step of a thread leaves alone.
LEMMA ThreadFacts ==
    ASSUME SegmentInv, NEW t \in Threads
    PROVE  /\ th[t] \in Thread
           /\ th[t].docs \in Seq(Document)
           /\ th[t].arg \in Seq(Document)
           /\ th[t].seg \in Nat
           /\ th[t].old \in SUBSET Nat
           /\ Building(t) => th[t].seg \in Nat \ {0}
           /\ WalTypeOK /\ BufTypeOK /\ SegTypeOK
           /\ segs \in Seq(Entry)
           /\ ListedIds \in SUBSET Nat
           /\ FindMerges \in SUBSET Nat
<1>1. th[t] \in Thread  BY DEF SegmentInv, TypeOK
<1>2. Building(t) => 0 < th[t].seg  BY DEF SegmentInv, IdsAllocated
<1>3. WalTypeOK /\ BufTypeOK /\ SegTypeOK  BY DEF SegmentInv, TypeOK
<1>4. segs \in Seq(Entry)  BY <1>3 DEF SegTypeOK
<1>5. \A i \in DOMAIN segs : segs[i].id \in Nat
  <2> TAKE i \in DOMAIN segs
  <2>1. segs[i] \in Entry  BY <1>4
  <2>. QED  BY <2>1 DEF Entry
<1>6. ListedIds \in SUBSET Nat  BY <1>5 DEF ListedIds
<1>7. FindMerges \in SUBSET ListedIds
  BY DEF FindMerges, ListedIds
<1>8. th[t].seg \in Nat  BY <1>1 DEF Thread
<1>9. /\ th[t].docs \in Seq(Document) /\ th[t].arg \in Seq(Document)
      /\ th[t].old \in SUBSET Nat
  BY <1>1 DEF Thread
<1>10. Building(t) => th[t].seg \in Nat \ {0}  BY <1>2, <1>8
<1>. QED  BY <1>1, <1>3, <1>4, <1>6, <1>7, <1>8, <1>9, <1>10

\* Accepting a call keeps the state well typed.
LEMMA TypeCall ==
    ASSUME SegmentInv, NEW t \in Threads, Call(t)
    PROVE  TypeOK'
<1>0. TypeOK /\ th \in [Threads -> Thread] /\ clock \in Nat /\ WalTypeOK
  BY DEF SegmentInv, TypeOK
<1>1. ASSUME NEW ids \in Batches, IndexAppend(t, ids)
      PROVE  TypeOK'
  <2>1. WalTypeOK'  BY <1>0, <1>1, StampedType, AppendBatchType DEF IndexAppend
  <2>2. clock' \in Nat  BY <1>0, <1>1, StampedType DEF IndexAppend
  <2>3. "index" \in Operations /\ "add" \in Pcs  BY DEF Operations, Pcs
  <2>4. th' \in [Threads -> Thread]
    BY <1>0, <1>1, <2>3, StampedType, ThreadTypes DEF IndexAppend
  <2>. QED  BY <1>0, <1>1, <2>1, <2>2, <2>4
            DEF IndexAppend, TypeOK, BufTypeOK, SegTypeOK, bufVars, segVars
<1>2. ASSUME NEW ids \in Batches, NEW k, NEW torn \in BOOLEAN,
             IndexAppendFails(t, ids, k, torn)
      PROVE  TypeOK'
  <2>1. WalTypeOK'  BY <1>0, <1>2, StampedType, AppendCutType DEF IndexAppendFails
  <2>2. clock' \in Nat  BY <1>0, <1>2, StampedType DEF IndexAppendFails
  <2>3. faults' \in Nat  BY <1>0, <1>2 DEF IndexAppendFails, Fault, TypeOK
  <2>. QED  BY <1>0, <1>2, <2>1, <2>2, <2>3
            DEF IndexAppendFails, TypeOK, BufTypeOK, SegTypeOK, bufVars, segVars
<1>21. ASSUME NEW id \in DocIds, NEW k, NEW torn \in BOOLEAN,
              DeleteAppendFails(t, id, k, torn)
       PROVE  TypeOK'
  <2>1. <<DeleteEntry(id)>> \in Seq(WalEntry)
    BY DEF DeleteEntry, WalEntry, Document
  <2>2. WalTypeOK'  BY <1>0, <1>21, <2>1, AppendCutType DEF DeleteAppendFails
  <2>3. clock' \in Nat  BY <1>0, <1>21 DEF DeleteAppendFails
  <2>4. faults' \in Nat  BY <1>0, <1>21 DEF DeleteAppendFails, Fault, TypeOK
  <2>5. cleared' \in [DocIds -> Nat]
    BY <1>0, <1>21, <2>3 DEF DeleteAppendFails, TypeOK
  <2>. QED  BY <1>0, <1>21, <2>2, <2>3, <2>4, <2>5
            DEF DeleteAppendFails, TypeOK, BufTypeOK, SegTypeOK, bufVars, segVars
<1>3. ASSUME NEW id \in DocIds, DeleteAppend(t, id)
      PROVE  TypeOK'
  <2>1. DeleteEntry(id) \in WalEntry /\ <<DeleteEntry(id)>> \in Seq(WalEntry)
    BY DEF DeleteEntry, WalEntry, Document
  <2>2. <<DeleteEntry(id).doc>> \in Seq(Document)
    BY <2>1 DEF WalEntry
  <2>3. WalTypeOK'  BY <1>0, <1>3, <2>1, AppendBatchType DEF DeleteAppend
  <2>4. clock' \in Nat  BY <1>0, <1>3 DEF DeleteAppend
  <2>5. "delete" \in Operations /\ "del_buf" \in Pcs  BY DEF Operations, Pcs
  <2>6. th' \in [Threads -> Thread]
    BY <1>0, <1>3, <2>2, <2>5, ThreadTypes DEF DeleteAppend
  <2>7. cleared' \in [DocIds -> Nat]  BY <1>0, <1>3, <2>4 DEF DeleteAppend, TypeOK
  <2>. QED  BY <1>0, <1>3, <2>3, <2>4, <2>6, <2>7
            DEF DeleteAppend, TypeOK, BufTypeOK, SegTypeOK, bufVars, segVars
<1>4. ASSUME NEW op \in {"flush", "reindex"}, CallFlush(t, op)
      PROVE  TypeOK'
  <2>1. op \in Operations /\ "drain" \in Pcs /\ << >> \in Seq(Document)
    BY DEF Operations, Pcs, FlushPcs
  <2>2. th' \in [Threads -> Thread]  BY <1>0, <1>4, <2>1, ThreadTypes DEF CallFlush
  <2>3. clock' \in Nat  BY <1>0, <1>4 DEF CallFlush
  <2>. QED  BY <1>0, <1>4, <2>2, <2>3
            DEF CallFlush, TypeOK, WalTypeOK, BufTypeOK, SegTypeOK,
                walVars, bufVars, segVars
<1>. QED  BY <1>1, <1>2, <1>21, <1>3, <1>4 DEF Call

\* mark_deleted keeps the segment state well typed; the directory it rewrites
\* exists because the map leads to listed segments only.
LEMMA MarkDeletedType ==
    ASSUME SegmentInv, NEW id \in DocIds, MarkDeleted(id)
    PROVE  SegTypeOK'
<1>0. SegTypeOK  BY DEF SegmentInv, TypeOK
<1>1. CASE Deletable(docMap, id) /\ disk[docMap[id].seg].ok
  <2> DEFINE s == docMap[id].seg
             d == Marked(disk[s], {docMap[id].loc})
  <2>1. s \in ListedIds  BY <1>1 DEF Deletable
  <2>2. PICK i \in DOMAIN segs : segs[i].id = s  BY <2>1 DEF ListedIds
  <2>3. s \in DOMAIN disk  BY <2>2 DEF SegmentInv, ListedOnDisk
  <2>4. s \in Nat \ {0} /\ disk[s] \in Dir  BY <1>0, <2>3 DEF SegTypeOK
  <2>5. docMap[id].loc \in Nat  BY <1>0 DEF SegTypeOK, Location
  <2>6. d \in Dir  BY <2>4, <2>5 DEF Marked, Dir
  <2>7. /\ disk' = WithDir(s, d)
        /\ docMap' = [docMap EXCEPT ![id] = NoLoc]
        /\ UNCHANGED <<segs, nextSegSeq>>
    BY <1>1 DEF MarkDeleted
  <2>. HIDE DEF s, d
  <2>8. docMap' \in [DocIds -> Location]
    BY <1>0, <2>7 DEF SegTypeOK, Location, NoLoc
  <2>9. DOMAIN disk' = DOMAIN disk
    BY <2>3, <2>7 DEF WithDir
  <2>10. \A x \in DOMAIN disk' : disk'[x] \in Dir
    BY <1>0, <2>6, <2>7 DEF WithDir, SegTypeOK
  <2>. QED  BY <1>0, <2>7, <2>8, <2>9, <2>10 DEF SegTypeOK
<1>2. CASE ~(Deletable(docMap, id) /\ disk[docMap[id].seg].ok)
  BY <1>0, <1>2 DEF MarkDeleted, segVars, SegTypeOK
<1>. QED  BY <1>1, <1>2

\* Every section of a call keeps the state well typed.
LEMMA TypeSection ==
    ASSUME SegmentInv, NEW t \in Threads, Section(t)
    PROVE  TypeOK'
<1>0. /\ TypeOK /\ th \in [Threads -> Thread] /\ clock \in Nat /\ faults \in Nat
      /\ acked \in SUBSET Document /\ cleared \in [DocIds -> Nat] /\ up \in BOOLEAN
  BY DEF SegmentInv, TypeOK
<1>t. /\ th[t].docs \in Seq(Document) /\ th[t].arg \in Seq(Document)
      /\ th[t].seg \in Nat /\ th[t].old \in SUBSET Nat
      /\ Building(t) => th[t].seg \in Nat \ {0}
      /\ WalTypeOK /\ BufTypeOK /\ SegTypeOK
      /\ ListedIds \in SUBSET Nat /\ FindMerges \in SUBSET Nat
  BY ThreadFacts
<1>p. {"idle", "add", "del_buf", "del_seg", "drain", "alloc", "write", "publish",
       "truncate", "find", "m_alloc", "m_exec", "m_swap", "m_clean", "r_collect",
       "r_alloc", "r_write", "r_old", "r_swap", "r_clean", "r_truncate"} \subseteq Pcs
  BY DEF Pcs, FlushPcs, ReindexPcs
<1>e. << >> \in Seq(Document) /\ {} \in SUBSET Nat /\ 0 \in Nat  OBVIOUS
<1>1. CASE IndexAdd(t)
  <2>1. BufTypeOK'  BY <1>1, <1>t DEF IndexAdd, BufAdd, BufTypeOK
  <2>2. th' \in [Threads -> Thread] /\ acked' \in SUBSET Document
    BY <1>0, <1>1, <1>p, ThreadTypes, ReturnTypes DEF IndexAdd
  <2>. QED  BY <1>0, <1>1, <1>t, <2>1, <2>2
            DEF IndexAdd, TypeOK, WalTypeOK, SegTypeOK, walVars, segVars
<1>2. CASE DeleteBuffered(t)
  <2>1. Len(th[t].arg) = 1  BY <1>2 DEF DeleteBuffered, At, SegmentInv, DeleteArg
  <2>2. th[t].arg[1] \in Document  BY <1>t, <2>1
  <2>3. th[t].arg[1].id \in DocIds  BY <2>2 DEF Document
  <2>4. BufTypeOK'  BY <1>2, <1>t, <2>3 DEF DeleteBuffered, BufMarkDeleted, BufTypeOK
  <2>5. th' \in [Threads -> Thread]
    BY <1>0, <1>2, <1>p, ThreadTypes DEF DeleteBuffered
  <2>. QED  BY <1>0, <1>2, <1>t, <2>4, <2>5
            DEF DeleteBuffered, TypeOK, WalTypeOK, SegTypeOK, walVars, segVars
<1>3. CASE DeleteInSegments(t)
  <2> DEFINE id == th[t].arg[1].id
  <2>1. Len(th[t].arg) = 1  BY <1>3 DEF DeleteInSegments, At, SegmentInv, DeleteArg
  <2>2. th[t].arg[1] \in Document  BY <1>t, <2>1
  <2>3. id \in DocIds  BY <2>2 DEF Document
  <2>4. MarkDeleted(id) /\ cleared' = [cleared EXCEPT ![id] = clock] /\ ReturnOk(t)
    BY <1>3 DEF DeleteInSegments
  <2>. HIDE DEF id
  <2>5. SegTypeOK'  BY <1>t, <2>3, <2>4, MarkDeletedType
  <2>6. th' \in [Threads -> Thread] /\ acked' \in SUBSET Document
    BY <1>0, <2>4, ReturnTypes
  <2>7. cleared' \in [DocIds -> Nat]  BY <1>0, <2>3, <2>4
  <2>. QED  BY <1>0, <1>3, <1>t, <2>5, <2>6, <2>7
            DEF DeleteInSegments, TypeOK, WalTypeOK, BufTypeOK, walVars, bufVars
<1>4. CASE FlushDrain(t)
  <2>1. BufTypeOK'  BY <1>4 DEF FlushDrain, BufDrain, BufTypeOK
  <2>2. bufDocs \in Seq(Document)  BY <1>t DEF BufTypeOK
  <2>3. th' \in [Threads -> Thread] /\ acked' \in SUBSET Document
    BY <1>0, <1>4, <1>p, <1>e, <2>2, ThreadTypes, ReturnTypes DEF FlushDrain
  <2>. QED  BY <1>0, <1>4, <1>t, <2>1, <2>3
            DEF FlushDrain, TypeOK, WalTypeOK, SegTypeOK, walVars, segVars
<1>5. CASE Allocate(t)
  <2>1. SegTypeOK' /\ nextSegSeq \in Nat
    BY <1>5, <1>t DEF Allocate, NextSegmentId, SegTypeOK
  <2>2. \E label \in Pcs : Continue(t, label, th[t].docs, nextSegSeq, th[t].old)
    BY <1>5, <1>p DEF Allocate
  <2>3. th' \in [Threads -> Thread]  BY <1>0, <1>t, <2>1, <2>2, ThreadTypes
  <2>. QED  BY <1>0, <1>5, <1>t, <2>1, <2>3
            DEF Allocate, TypeOK, WalTypeOK, BufTypeOK, walVars, bufVars
<1>6. CASE WriteSegment(t)
  <2>1. th[t].seg \in Nat \ {0}  BY <1>6, <1>t DEF WriteSegment, At, Building, WritePcs
  <2>2. SegTypeOK'  BY <1>6, <1>t, <2>1, WithDirType, NewSegmentType DEF WriteSegment
  <2>3. th' \in [Threads -> Thread]  BY <1>0, <1>6, <1>p, ThreadTypes DEF WriteSegment
  <2>. QED  BY <1>0, <1>6, <1>t, <2>2, <2>3
            DEF WriteSegment, TypeOK, WalTypeOK, BufTypeOK, walVars, bufVars
<1>7. CASE FlushPublish(t)
  <2>1. SegTypeOK'  BY <1>7, <1>t, AddSegmentType, NewSegmentType DEF FlushPublish
  <2>2. th' \in [Threads -> Thread]
    BY <1>0, <1>7, <1>p, <1>e, ThreadTypes DEF FlushPublish
  <2>. QED  BY <1>0, <1>7, <1>t, <2>1, <2>2
            DEF FlushPublish, TypeOK, WalTypeOK, BufTypeOK, walVars, bufVars
<1>8. CASE FlushTruncate(t)
  <2>1. WalTypeOK'  BY <1>8, <1>t DEF FlushTruncate, Truncate, WalTypeOK
  <2>2. th' \in [Threads -> Thread]  BY <1>0, <1>8, <1>p, ThreadTypes DEF FlushTruncate
  <2>. QED  BY <1>0, <1>8, <1>t, <2>1, <2>2
            DEF FlushTruncate, TypeOK, SegTypeOK, BufTypeOK, segVars, bufVars
<1>9. CASE MergeFind(t)
  <2>1. th' \in [Threads -> Thread] /\ acked' \in SUBSET Document
    BY <1>0, <1>9, <1>p, <1>e, <1>t, ThreadTypes, ReturnTypes DEF MergeFind
  <2>. QED  BY <1>0, <1>9, <1>t, <2>1
            DEF MergeFind, TypeOK, WalTypeOK, BufTypeOK, SegTypeOK, walVars, bufVars, segVars
<1>10. CASE MergeExecute(t)
  <2> DEFINE docs == LiveDocsOf(th[t].old)
  <2>1. docs \in Seq(Document)  BY <1>t, LiveDocsProperties DEF SegTypeOK
  <2>2. /\ Continue(t, "m_swap", docs, th[t].seg, th[t].old)
        /\ disk' = WithDir(th[t].seg, NewDir(docs))
        /\ UNCHANGED <<segs, docMap, nextSegSeq>>
    BY <1>10 DEF MergeExecute
  <2>3. th[t].seg \in Nat \ {0}  BY <1>10, <1>t DEF MergeExecute, At, Building, WritePcs
  <2>. HIDE DEF docs
  <2>4. SegTypeOK'  BY <1>t, <2>1, <2>2, <2>3, WithDirType, NewSegmentType
  <2>5. th' \in [Threads -> Thread]  BY <1>0, <1>t, <1>p, <2>1, <2>2, ThreadTypes
  <2>. QED  BY <1>0, <1>10, <1>t, <2>4, <2>5
            DEF MergeExecute, TypeOK, WalTypeOK, BufTypeOK, walVars, bufVars
<1>11. CASE MergeSwap(t)
  <2>1. SegTypeOK'  BY <1>11, <1>t, ReplaceSegmentsType, NewSegmentType DEF MergeSwap
  <2>2. th' \in [Threads -> Thread]  BY <1>0, <1>11, <1>p, ThreadTypes DEF MergeSwap
  <2>. QED  BY <1>0, <1>11, <1>t, <2>1, <2>2
            DEF MergeSwap, TypeOK, WalTypeOK, BufTypeOK, walVars, bufVars
<1>12. CASE MergeClean(t)
  <2>1. SegTypeOK'  BY <1>12, <1>t, WithoutDirsType DEF MergeClean
  <2>2. th' \in [Threads -> Thread] /\ acked' \in SUBSET Document
    BY <1>0, <1>12, ReturnTypes DEF MergeClean
  <2>. QED  BY <1>0, <1>12, <1>t, <2>1, <2>2
            DEF MergeClean, TypeOK, WalTypeOK, BufTypeOK, walVars, bufVars
<1>13. CASE ReindexCollect(t)
  <2>1. LiveDocsOf(ListedIds) \in Seq(Document)  BY <1>t, LiveDocsProperties DEF SegTypeOK
  <2>2. th' \in [Threads -> Thread] /\ acked' \in SUBSET Document
    BY <1>0, <1>13, <1>p, <1>e, <2>1, ThreadTypes, ReturnTypes DEF ReindexCollect
  <2>. QED  BY <1>0, <1>13, <1>t, <2>2
            DEF ReindexCollect, TypeOK, WalTypeOK, BufTypeOK, SegTypeOK,
                walVars, bufVars, segVars
<1>14. CASE ReindexOldIds(t)
  <2>1. th' \in [Threads -> Thread]
    BY <1>0, <1>14, <1>p, <1>t, ThreadTypes DEF ReindexOldIds
  <2>. QED  BY <1>0, <1>14, <1>t, <2>1
            DEF ReindexOldIds, TypeOK, WalTypeOK, BufTypeOK, SegTypeOK,
                walVars, bufVars, segVars
<1>15. CASE ReindexSwap(t)
  <2>1. SegTypeOK'  BY <1>15, <1>t, ReplaceSegmentsType, NewSegmentType DEF ReindexSwap
  <2>2. th' \in [Threads -> Thread]  BY <1>0, <1>15, <1>p, ThreadTypes DEF ReindexSwap
  <2>. QED  BY <1>0, <1>15, <1>t, <2>1, <2>2
            DEF ReindexSwap, TypeOK, WalTypeOK, BufTypeOK, walVars, bufVars
<1>16. CASE ReindexClean(t)
  <2>1. SegTypeOK'  BY <1>16, <1>t, WithoutDirsType DEF ReindexClean
  <2>2. th' \in [Threads -> Thread]  BY <1>0, <1>16, <1>p, ThreadTypes DEF ReindexClean
  <2>. QED  BY <1>0, <1>16, <1>t, <2>1, <2>2
            DEF ReindexClean, TypeOK, WalTypeOK, BufTypeOK, walVars, bufVars
<1>17. CASE ReindexTruncate(t)
  <2>1. WalTypeOK'  BY <1>17, <1>t DEF ReindexTruncate, Truncate, WalTypeOK
  <2>2. th' \in [Threads -> Thread] /\ acked' \in SUBSET Document
    BY <1>0, <1>17, ReturnTypes DEF ReindexTruncate
  <2>. QED  BY <1>0, <1>17, <1>t, <2>1, <2>2
            DEF ReindexTruncate, TypeOK, SegTypeOK, BufTypeOK, segVars, bufVars
<1>. QED  BY <1>1, <1>2, <1>3, <1>4, <1>5, <1>6, <1>7, <1>8, <1>9, <1>10, <1>11,
             <1>12, <1>13, <1>14, <1>15, <1>16, <1>17 DEF Section

\* So does every section that fails.
LEMMA TypeSectionFails ==
    ASSUME SegmentInv, NEW t \in Threads, SectionFails(t)
    PROVE  TypeOK'
<1>0. /\ TypeOK /\ th \in [Threads -> Thread] /\ clock \in Nat /\ faults \in Nat
      /\ acked \in SUBSET Document /\ cleared \in [DocIds -> Nat] /\ up \in BOOLEAN
  BY DEF SegmentInv, TypeOK
<1>t. /\ th[t].arg \in Seq(Document)
      /\ Building(t) => th[t].seg \in Nat \ {0}
      /\ WalTypeOK /\ BufTypeOK /\ SegTypeOK
  BY ThreadFacts
<1>1. CASE DeleteBitmapFails(t)
  <2> DEFINE id == th[t].arg[1].id
             s == docMap[id].seg
             d == Left(disk[s], "unreadable")
  <2>1. s \in ListedIds  BY <1>1 DEF DeleteBitmapFails, Deletable
  <2>2. PICK i \in DOMAIN segs : segs[i].id = s  BY <2>1 DEF ListedIds
  <2>3. s \in DOMAIN disk  BY <2>2 DEF SegmentInv, ListedOnDisk
  <2>4. s \in Nat \ {0} /\ disk[s] \in Dir  BY <1>t, <2>3 DEF SegTypeOK
  <2>5. d \in Dir  BY <2>4 DEF Left, Dir
  <2>6. disk' = WithDir(s, d) /\ UNCHANGED <<segs, docMap, nextSegSeq>>
    BY <1>1 DEF DeleteBitmapFails
  <2>. HIDE DEF s, d, id
  <2>7. SegTypeOK'  BY <1>t, <2>4, <2>5, <2>6, WithDirType
  <2>8. th' \in [Threads -> Thread] /\ acked' \in SUBSET Document
    BY <1>0, <1>1, ReturnTypes DEF DeleteBitmapFails
  <2>9. faults' \in Nat  BY <1>0, <1>1 DEF DeleteBitmapFails, Fault
  <2>. QED  BY <1>0, <1>1, <1>t, <2>7, <2>8, <2>9
            DEF DeleteBitmapFails, TypeOK, WalTypeOK, BufTypeOK, walVars, bufVars
<1>2. CASE WriteFails(t)
  <2>1. th[t].seg \in Nat \ {0}  BY <1>2, <1>t DEF WriteFails, Building
  <2>2. PartialDir \in Dir  BY DEF PartialDir, Dir
  <2>3. SegTypeOK'
    <3> DEFINE docs == IF th[t].pc = "m_exec" THEN LiveDocsOf(th[t].old) ELSE th[t].docs
    <3>1. LiveDocsOf(th[t].old) \in Seq(Document)  BY <1>t, LiveDocsProperties DEF SegTypeOK
    <3>2. docs \in Seq(Document)  BY <3>1, ThreadFacts
    <3>3. /\ disk' \in {disk, WithDir(th[t].seg, PartialDir), WithDir(th[t].seg, NewDir(docs))}
          /\ UNCHANGED <<segs, docMap, nextSegSeq>>
      BY <1>2 DEF WriteFails
    <3>. HIDE DEF docs
    <3>4. CASE disk' = disk  BY <1>t, <3>3, <3>4 DEF SegTypeOK
    <3>5. CASE disk' = WithDir(th[t].seg, PartialDir)
      BY <1>t, <2>1, <2>2, <3>3, <3>5, WithDirType
    <3>6. CASE disk' = WithDir(th[t].seg, NewDir(docs))
      BY <1>t, <2>1, <3>2, <3>3, <3>6, WithDirType, NewSegmentType
    <3>. QED  BY <3>3, <3>4, <3>5, <3>6
  <2>4. th' \in [Threads -> Thread] /\ acked' \in SUBSET Document
    BY <1>0, <1>2, ReturnTypes DEF WriteFails
  <2>5. faults' \in Nat  BY <1>0, <1>2 DEF WriteFails, Fault
  <2>. QED  BY <1>0, <1>2, <1>t, <2>3, <2>4, <2>5
            DEF WriteFails, TypeOK, WalTypeOK, BufTypeOK, walVars, bufVars
<1>3. CASE TruncateFails(t)
  <2>0. walFile' \in {walFile, << >>} /\ nextSeq' = nextSeq  BY <1>3 DEF TruncateFails
  <2>e. << >> \in Seq(WalRecord)  OBVIOUS
  <2>1. WalTypeOK'  BY <1>t, <2>0, <2>e DEF WalTypeOK
  <2>2. th' \in [Threads -> Thread] /\ acked' \in SUBSET Document
    BY <1>0, <1>3, ReturnTypes DEF TruncateFails
  <2>3. faults' \in Nat  BY <1>0, <1>3 DEF TruncateFails, Fault
  <2>. QED  BY <1>0, <1>3, <1>t, <2>1, <2>2, <2>3
            DEF TruncateFails, TypeOK, BufTypeOK, SegTypeOK, bufVars, segVars
<1>4. CASE CleanFails(t)
  <2>1. PICK gone \in SUBSET th[t].old : disk' = WithoutDirs(gone)
    BY <1>4 DEF CleanFails
  <2>2. SegTypeOK'  BY <1>4, <1>t, <2>1, WithoutDirsType DEF CleanFails
  <2>3. "r_truncate" \in Pcs  BY DEF Pcs, ReindexPcs
  <2>4. th' \in [Threads -> Thread] /\ acked' \in SUBSET Document
    BY <1>0, <1>4, <2>3, ThreadTypes, ReturnTypes DEF CleanFails
  <2>5. faults' \in Nat  BY <1>0, <1>4 DEF CleanFails, Fault
  <2>. QED  BY <1>0, <1>4, <1>t, <2>2, <2>4, <2>5
            DEF CleanFails, TypeOK, WalTypeOK, BufTypeOK, walVars, bufVars
<1>. QED  BY <1>1, <1>2, <1>3, <1>4 DEF SectionFails

\* The directories a kill leaves behind.
LEMMA CrashDisk ==
    ASSUME SegmentInv, Crash
    PROVE  /\ SegTypeOK'
           /\ segs' = << >>
           /\ th' = [t \in Threads |-> Idle]
           /\ \A id \in DocIds : docMap'[id] = NoLoc
           /\ up' = FALSE
<1> DEFINE W == {u \in Threads : th[u].pc \in WritePcs}
           writing == {th[t].seg : t \in W}
           cleaners == {t \in Threads : th[t].pc \in CleanPcs}
           doomed == DOMAIN disk \cap UNION {th[t].old : t \in cleaners}
<1>0. SegTypeOK  BY DEF SegmentInv, TypeOK
<1>1. PICK partial \in SUBSET writing, fate \in [doomed -> Remains] :
          disk' = [s \in partial \cup
                            (DOMAIN disk \ {x \in doomed : fate[x] = "gone"}) |->
                         IF s \in partial THEN PartialDir
                         ELSE IF s \in doomed THEN Left(disk[s], fate[s])
                         ELSE disk[s]]
  BY DEF Crash
<1>2. writing \in SUBSET (Nat \ {0})
  <2> SUFFICES ASSUME NEW t \in W PROVE th[t].seg \in Nat \ {0}  OBVIOUS
  <2>. QED  BY ThreadFacts DEF Building
<1>3. IsFiniteSet(writing)
  <2>1. W \in SUBSET Threads  OBVIOUS
  <2>2. IsFiniteSet(W)
    <3>. HIDE DEF W
    <3>. QED  BY <2>1, EngineAssumption, FS_Subset
  <2> DEFINE f == [t \in W |-> th[t].seg]
  <2>3. writing = {f[t] : t \in W} /\ DOMAIN f = W  OBVIOUS
  <2>. HIDE DEF W, f, writing
  <2>. QED  BY <2>2, <2>3, FiniteImage
<1> DEFINE kept == DOMAIN disk \ {x \in doomed : fate[x] = "gone"}
<1>4. DOMAIN disk' = partial \cup kept  BY <1>1
<1>5. IsFiniteSet(partial) /\ IsFiniteSet(kept)
  <2>1. kept \in SUBSET DOMAIN disk /\ IsFiniteSet(DOMAIN disk)  BY <1>0 DEF SegTypeOK
  <2>2. partial \in SUBSET writing  OBVIOUS
  <2>. HIDE DEF kept, writing
  <2>. QED  BY <1>3, <2>1, <2>2, FS_Subset
<1>6. IsFiniteSet(partial \cup kept)
  <2>. HIDE DEF kept
  <2>. QED  BY <1>5, FS_Union
<1>7. DOMAIN disk' \in SUBSET (Nat \ {0})  BY <1>0, <1>2, <1>4 DEF SegTypeOK
<1>8. \A s \in DOMAIN disk' : disk'[s] \in Dir
  <2> TAKE s \in DOMAIN disk'
  <2>1. PartialDir \in Dir  BY DEF PartialDir, Dir
  <2>2. s \notin partial => s \in DOMAIN disk /\ disk[s] \in Dir
    BY <1>0, <1>4 DEF SegTypeOK
  <2>3. s \notin partial => Left(disk[s], fate[s]) \in Dir
    BY <2>2 DEF Left, Dir
  <2>4. disk'[s] \in {PartialDir, Left(disk[s], fate[s]), disk[s]}
        /\ (s \in partial => disk'[s] = PartialDir)
        /\ (s \notin partial => disk'[s] \in {Left(disk[s], fate[s]), disk[s]})
    <3>. HIDE DEF doomed
    <3>. QED  BY <1>1, <1>4
  <2>. QED  BY <2>1, <2>2, <2>3, <2>4
<1>9. /\ segs' = << >> /\ docMap' = [id \in DocIds |-> NoLoc] /\ nextSegSeq' = 1
      /\ up' = FALSE /\ th' = [t \in Threads |-> Idle]
  BY DEF Crash
<1>10. docMap' \in [DocIds -> Location]  BY <1>9 DEF NoLoc, Location
<1>. HIDE DEF kept, doomed, writing
<1>11. SegTypeOK'  BY <1>4, <1>6, <1>7, <1>8, <1>9, <1>10 DEF SegTypeOK
<1>. QED  BY <1>9, <1>11

\* A kill leaves well-typed directories behind, whatever was half removed.
LEMMA TypeCrash ==
    ASSUME SegmentInv, Crash
    PROVE  TypeOK'
<1>0. TypeOK /\ WalTypeOK  BY DEF SegmentInv, TypeOK
<1>1. SegTypeOK'  BY CrashDisk
<1>2. th' \in [Threads -> Thread]
  <2>1. Idle \in Thread  BY DEF Idle, Serving, Thread, Pcs, Operations
  <2>. QED  BY <2>1, CrashDisk
<1>3. WalTypeOK'  BY <1>0 DEF Crash, WalTypeOK
<1>4. BufTypeOK'  BY DEF Crash, BufTypeOK
<1>5. faults' \in Nat /\ up' \in BOOLEAN
  <2>1. faults' = faults + 1 /\ faults \in Nat  BY <1>0 DEF Crash, Fault, TypeOK
  <2>2. up' = FALSE  BY DEF Crash
  <2>3. faults' \in Nat  BY <2>1
  <2>4. up' \in BOOLEAN  BY <2>2
  <2>. QED  BY <2>3, <2>4
<1>. QED  BY <1>0, <1>1, <1>2, <1>3, <1>4, <1>5 DEF Crash, TypeOK

\* What the replay of the log reads: entries, and the ids of the deletes.
LEMMA OpenReplay ==
    ASSUME SegmentInv, Open
    PROVE  \E ids \in SUBSET DocIds :
              /\ OpenAndReplayDeletes(ids)
              /\ bufDeleted' = ids
              /\ bufDocs' \in Seq(Document)
<1> DEFINE log     == ReadRecords(walFile)
           entries == [i \in DOMAIN log |-> log[i].entry.doc]
           indexed == {i \in DOMAIN log : log[i].entry.op = "index"}
           deleted == {log[i].entry.doc.id : i \in DOMAIN log \ indexed}
<1>1. walFile \in Seq(WalRecord)  BY DEF SegmentInv, TypeOK, WalTypeOK
<1>2. log \in Seq(WalRecord)  BY <1>1, ReadableProperties
<1>3. OpenAndReplayDeletes(deleted) /\ bufDocs' = Retain(entries, indexed) /\ bufDeleted' = deleted
  BY DEF Open
<1>. HIDE DEF log
<1>4. \A i \in DOMAIN log : log[i].entry.doc \in Document
  <2> TAKE i \in DOMAIN log
  <2>1. log[i] \in WalRecord  BY <1>2
  <2>2. log[i].entry \in WalEntry  BY <2>1 DEF WalRecord
  <2>. QED  BY <2>2 DEF WalEntry
<1>5. deleted \in SUBSET DocIds  BY <1>4 DEF Document
<1>6. entries \in Seq(Document) /\ indexed \in SUBSET DOMAIN entries
  BY <1>2, <1>4
<1>. HIDE DEF entries, indexed, deleted
<1>7. Retain(entries, indexed) \in Seq(Document)  BY <1>6, RetainProperties
<1>. QED  BY <1>3, <1>5, <1>7

\* ShardEngine::open builds a well-typed state from any such leftovers.
LEMMA TypeOpen ==
    ASSUME SegmentInv, Open
    PROVE  TypeOK'
<1>0. TypeOK /\ WalTypeOK /\ SegTypeOK  BY DEF SegmentInv, TypeOK
<1>1. PICK ids \in SUBSET DocIds :
          OpenAndReplayDeletes(ids) /\ bufDeleted' = ids /\ bufDocs' \in Seq(Document)
  BY OpenReplay
<1>2. SegTypeOK'  BY <1>0, <1>1, OpenType
<1>3. WalTypeOK'  BY <1>0, SeqAfterType DEF Open, WalOpen, WalTypeOK
<1>4. BufTypeOK'  BY <1>1 DEF BufTypeOK
<1>. QED  BY <1>0, <1>2, <1>3, <1>4 DEF Open, TypeOK

\* Every step of the engine keeps the state well typed.
LEMMA TypeStep ==
    ASSUME SegmentInv, [Next]_vars
    PROVE  TypeOK'
<1>1. ASSUME NEW t \in Threads, Call(t) \/ Section(t) \/ SectionFails(t)
      PROVE  TypeOK'
  BY <1>1, TypeCall, TypeSection, TypeSectionFails
<1>2. CASE Crash  BY <1>2, TypeCrash
<1>3. CASE Open  BY <1>3, TypeOpen
<1>4. CASE UNCHANGED vars
  BY <1>4 DEF SegmentInv, TypeOK, WalTypeOK, BufTypeOK, SegTypeOK,
              vars, walVars, bufVars, segVars, engineVars
<1>. QED  BY <1>1, <1>2, <1>3, <1>4 DEF Next, Stop

-----------------------------------------------------------------------------
(* The ownership of segment ids *)

\* The parts of SegmentInv that are about segments.
Ownership ==
    /\ ListedOnDisk
    /\ DocMapSound
    /\ IdsAllocated
    /\ BuildersApart
    /\ BuiltOnDisk
    /\ RemovedUnlisted
    /\ MergeCovers

\* Program counters of threads that own no segment id and replace none.
QuietPcs == {"idle", "add", "del_buf", "del_seg", "drain", "alloc", "truncate",
             "find", "r_collect", "r_alloc", "r_truncate"}

\* Every step of a thread leaves the other threads' state alone.
OthersKept(t) == \A u \in Threads : u # t => th'[u] = th[u]

\* How a thread moves on, and that it moves alone: what th' is after each way
\* of ending a section.
LEMMA Moves ==
    ASSUME th \in [Threads -> Thread], NEW t \in Threads
    PROVE  /\ ReturnOk(t) => OthersKept(t) /\ th'[t] = Idle
           /\ ReturnErr(t) => OthersKept(t) /\ th'[t] = Idle
           /\ FlushReturns(t) => OthersKept(t) /\ th'[t].pc \in {"idle", "r_collect"}
           /\ Idle.pc = "idle"
           /\ \A op, arg, label :
                 th' = [th EXCEPT ![t] = Serving(op, arg, label)] =>
                    OthersKept(t) /\ th'[t].pc = label /\ th'[t].arg = arg
           /\ \A label, docs, s, old :
                 Continue(t, label, docs, s, old) =>
                    /\ OthersKept(t)
                    /\ th'[t].pc = label /\ th'[t].docs = docs
                    /\ th'[t].seg = s /\ th'[t].old = old
                    /\ th'[t].arg = th[t].arg
           /\ \A label :
                 Goto(t, label) =>
                    /\ OthersKept(t)
                    /\ th'[t].pc = label /\ th'[t].docs = th[t].docs
                    /\ th'[t].seg = th[t].seg /\ th'[t].old = th[t].old
                    /\ th'[t].arg = th[t].arg
<1>1. Idle.pc = "idle"  BY DEF Idle, Serving
<1>2. ReturnOk(t) => OthersKept(t) /\ th'[t] = Idle  BY DEF ReturnOk, OthersKept
<1>3. ReturnErr(t) => OthersKept(t) /\ th'[t] = Idle  BY DEF ReturnErr, OthersKept
<1>4. \A op, arg, label :
          th' = [th EXCEPT ![t] = Serving(op, arg, label)] =>
             OthersKept(t) /\ th'[t].pc = label /\ th'[t].arg = arg
  BY DEF Serving, OthersKept
<1>5. \A label, docs, s, old :
          Continue(t, label, docs, s, old) =>
             /\ OthersKept(t)
             /\ th'[t].pc = label /\ th'[t].docs = docs
             /\ th'[t].seg = s /\ th'[t].old = old
             /\ th'[t].arg = th[t].arg
  BY DEF Continue, OthersKept
<1>6. FlushReturns(t) => OthersKept(t) /\ th'[t].pc \in {"idle", "r_collect"}
  BY <1>1, <1>2, <1>5 DEF FlushReturns
<1>. QED  BY <1>1, <1>2, <1>3, <1>4, <1>5, <1>6 DEF Goto

\* A step of a thread that neither has nor acquires a segment id, and leaves
\* the segments alone.
LEMMA QuietStep ==
    ASSUME SegmentInv, NEW t \in Threads, UNCHANGED segVars, up' = up,
           OthersKept(t), th'[t].pc \in QuietPcs
    PROVE  Ownership'
<1>1. ~Building(t)' /\ ~Replacing(t)' /\ ~Built(t)' /\ th'[t].pc \notin CleanPcs
      /\ th'[t].pc # "m_swap"
  BY DEF Building, Replacing, Built, QuietPcs, WritePcs, CleanPcs
<1>2. \A u \in Threads : u # t =>
          /\ th'[u] = th[u]
          /\ Building(u)' <=> Building(u)
          /\ Built(u)' <=> Built(u)
          /\ Replacing(u)' <=> Replacing(u)
  BY DEF OthersKept, Building, Built, Replacing
<1>3. UNCHANGED <<disk, segs, docMap, nextSegSeq>>  BY DEF segVars
<1>4. ListedOnDisk'  BY <1>3 DEF SegmentInv, ListedOnDisk
<1>5. DocMapSound'  BY <1>3 DEF SegmentInv, DocMapSound, CopiesOf, Live
<1>6. IdsAllocated'  BY <1>1, <1>2, <1>3 DEF SegmentInv, IdsAllocated
<1>7. BuildersApart'  BY <1>1, <1>2, <1>3 DEF SegmentInv, BuildersApart
<1>8. BuiltOnDisk'  BY <1>1, <1>2, <1>3 DEF SegmentInv, BuiltOnDisk, NewDir
<1>9. RemovedUnlisted'  BY <1>1, <1>2, <1>3 DEF SegmentInv, RemovedUnlisted
<1>10. MergeCovers'  BY <1>1, <1>2, <1>3 DEF SegmentInv, MergeCovers, Live, Range
<1>. QED  BY <1>4, <1>5, <1>6, <1>7, <1>8, <1>9, <1>10 DEF Ownership

\* The other threads' roles do not change.
LEMMA Roles ==
    ASSUME NEW t \in Threads, OthersKept(t)
    PROVE  \A u \in Threads : u # t =>
              /\ th'[u] = th[u]
              /\ Building(u)' <=> Building(u)
              /\ Built(u)' <=> Built(u)
              /\ Replacing(u)' <=> Replacing(u)
BY DEF OthersKept, Building, Built, Replacing

\* How the roles of a thread (building, built, replacing) follow from its pc.
LEMMA RoleFacts ==
    ASSUME NEW t \in Threads
    PROVE  /\ Built(t) => Building(t)
           /\ th[t].pc \in CleanPcs => Replacing(t)
           /\ th[t].pc = "m_swap" => Replacing(t) /\ Built(t)
           /\ th[t].pc \in WritePcs => Building(t)
BY DEF Built, Building, Replacing, CleanPcs, WritePcs

\* The directories of listed segments are not touched.
LEMMA ListedKept ==
    ASSUME SegmentInv, UNCHANGED <<segs, docMap>>,
           \A i \in DOMAIN segs : /\ segs[i].id \in DOMAIN disk'
                                  /\ disk'[segs[i].id] = disk[segs[i].id]
    PROVE  ListedOnDisk' /\ DocMapSound'
<1>1. ListedOnDisk'  BY DEF SegmentInv, ListedOnDisk
<1>2. DocMapSound'  BY DEF SegmentInv, DocMapSound, CopiesOf, Live
<1>. QED  BY <1>1, <1>2

\* A thread writes the directory of the segment id it was given.
LEMMA OwnWrite ==
    ASSUME SegmentInv, up, NEW t \in Threads, Building(t), NEW d,
           disk' = WithDir(th[t].seg, d), UNCHANGED <<segs, docMap, nextSegSeq, up>>,
           OthersKept(t)
    PROVE  /\ ListedOnDisk' /\ DocMapSound'
           /\ \A s \in DOMAIN disk' : s < nextSegSeq
           /\ th[t].seg \in DOMAIN disk' /\ disk'[th[t].seg] = d
           /\ \A u \in Threads : u # t /\ Built(u)' =>
                 th'[u].seg \in DOMAIN disk' /\ disk'[th'[u].seg] = NewDir(th'[u].docs)
<1>1. DOMAIN disk' = DOMAIN disk \cup {th[t].seg}
      /\ disk'[th[t].seg] = d
      /\ \A s \in DOMAIN disk : s # th[t].seg => disk'[s] = disk[s]
  BY DEF WithDir
<1>2. \A i \in DOMAIN segs : segs[i].id # th[t].seg /\ segs[i].id \in DOMAIN disk
  BY DEF SegmentInv, BuildersApart, ListedOnDisk
<1>3. ListedOnDisk' /\ DocMapSound'  BY <1>1, <1>2, ListedKept
<1>4. \A s \in DOMAIN disk' : s < nextSegSeq
  BY <1>1 DEF SegmentInv, IdsAllocated
<1>5. ASSUME NEW u \in Threads, u # t, Built(u)'
      PROVE  th'[u].seg \in DOMAIN disk' /\ disk'[th'[u].seg] = NewDir(th'[u].docs)
  <2>1. th'[u] = th[u] /\ Built(u)  BY <1>5, Roles
  <2>2. Building(u)  BY <2>1, RoleFacts
  <2>3. th[u].seg # th[t].seg  BY <1>5, <2>2 DEF SegmentInv, BuildersApart
  <2>4. th[u].seg \in DOMAIN disk /\ disk[th[u].seg] = NewDir(th[u].docs)
    BY <2>1 DEF SegmentInv, BuiltOnDisk
  <2>. QED  BY <1>1, <2>1, <2>3, <2>4
<1>. QED  BY <1>1, <1>3, <1>4, <1>5

\* SegmentWriter::write in flush and reindex_self, with no lock held, touches
\* only the directory of the id this thread was given.
LEMMA OwnWriteSegment ==
    ASSUME SegmentInv, NEW t \in Threads, WriteSegment(t)
    PROVE  Ownership'
<1>0. up /\ th[t].pc \in {"write", "r_write"} /\ th \in [Threads -> Thread]
  BY DEF WriteSegment, At, SegmentInv, TypeOK
<1>1. /\ OthersKept(t) /\ th'[t].pc \in {"publish", "r_old"}
      /\ th'[t].seg = th[t].seg /\ th'[t].docs = th[t].docs
  BY <1>0, Moves DEF WriteSegment
<1>2. Building(t) /\ Building(t)' /\ ~Replacing(t)' /\ th'[t].pc # "m_swap"
      /\ th'[t].pc \notin CleanPcs
  BY <1>0, <1>1 DEF Building, Replacing, WritePcs, CleanPcs
<1>3. /\ disk' = WithDir(th[t].seg, NewDir(th[t].docs))
      /\ UNCHANGED <<segs, docMap, nextSegSeq, up>>
  BY DEF WriteSegment
<1>4. /\ ListedOnDisk' /\ DocMapSound'
      /\ \A s \in DOMAIN disk' : s < nextSegSeq
      /\ th[t].seg \in DOMAIN disk' /\ disk'[th[t].seg] = NewDir(th[t].docs)
      /\ \A u \in Threads : u # t /\ Built(u)' =>
            th'[u].seg \in DOMAIN disk' /\ disk'[th'[u].seg] = NewDir(th'[u].docs)
  BY <1>0, <1>1, <1>2, <1>3, OwnWrite
<1>5. IdsAllocated'  BY <1>1, <1>2, <1>3, <1>4, Roles DEF SegmentInv, IdsAllocated
<1>6. BuildersApart'  BY <1>1, <1>2, <1>3, Roles DEF SegmentInv, BuildersApart
<1>7. BuiltOnDisk'  BY <1>1, <1>4 DEF BuiltOnDisk, NewDir
<1>8. RemovedUnlisted'  BY <1>1, <1>2, <1>3, Roles DEF SegmentInv, RemovedUnlisted
<1>9. MergeCovers'  BY <1>1, <1>2, <1>3, Roles DEF SegmentInv, MergeCovers, Live, Range
<1>. QED  BY <1>4, <1>5, <1>6, <1>7, <1>8, <1>9 DEF Ownership

\* The same when that write fails at any point.
LEMMA OwnWriteFails ==
    ASSUME SegmentInv, NEW t \in Threads, WriteFails(t)
    PROVE  Ownership'
<1>0. up /\ th[t].pc \in WritePcs /\ th \in [Threads -> Thread]
  BY DEF WriteFails, SegmentInv, TypeOK
<1>1. OthersKept(t) /\ th'[t].pc = "idle"
  BY <1>0, Moves DEF WriteFails
<1>2. Building(t) /\ ~Building(t)' /\ ~Replacing(t)' /\ ~Built(t)'
      /\ th'[t].pc # "m_swap" /\ th'[t].pc \notin CleanPcs
  BY <1>0, <1>1 DEF Building, Built, Replacing, WritePcs, CleanPcs
<1>3. /\ disk' = disk \/ \E d : disk' = WithDir(th[t].seg, d)
      /\ UNCHANGED <<segs, docMap, nextSegSeq, up>>
  BY DEF WriteFails
<1>4. CASE disk' = disk
  BY <1>1, <1>3, <1>4, QuietStep DEF segVars, QuietPcs
<1>5. ASSUME NEW d, disk' = WithDir(th[t].seg, d)
      PROVE  Ownership'
  <2>1. /\ ListedOnDisk' /\ DocMapSound'
        /\ \A s \in DOMAIN disk' : s < nextSegSeq
        /\ \A u \in Threads : u # t /\ Built(u)' =>
              th'[u].seg \in DOMAIN disk' /\ disk'[th'[u].seg] = NewDir(th'[u].docs)
    BY <1>0, <1>1, <1>2, <1>3, <1>5, OwnWrite
  <2>2. IdsAllocated'  BY <1>1, <1>2, <1>3, <2>1, Roles DEF SegmentInv, IdsAllocated
  <2>3. BuildersApart'  BY <1>1, <1>2, <1>3, Roles DEF SegmentInv, BuildersApart
  <2>4. BuiltOnDisk'  BY <1>2, <2>1 DEF BuiltOnDisk, NewDir
  <2>5. RemovedUnlisted'  BY <1>1, <1>2, <1>3, Roles DEF SegmentInv, RemovedUnlisted
  <2>6. MergeCovers'  BY <1>1, <1>2, <1>3, Roles DEF SegmentInv, MergeCovers, Live, Range
  <2>. QED  BY <2>1, <2>2, <2>3, <2>4, <2>5, <2>6 DEF Ownership
<1>. QED  BY <1>3, <1>4, <1>5

\* execute_merge writes this thread's directory, and its content covers the
\* members of the group that are still listed.
LEMMA OwnMergeExecute ==
    ASSUME SegmentInv, NEW t \in Threads, MergeExecute(t)
    PROVE  Ownership'
<1> DEFINE docs == LiveDocsOf(th[t].old)
<1>0. up /\ th[t].pc = "m_exec" /\ th \in [Threads -> Thread] /\ segs \in Seq(Entry)
  BY DEF MergeExecute, At, SegmentInv, TypeOK, SegTypeOK
<1>1. /\ Continue(t, "m_swap", docs, th[t].seg, th[t].old)
      /\ disk' = WithDir(th[t].seg, NewDir(docs))
      /\ UNCHANGED <<segs, docMap, nextSegSeq, up>>
  BY DEF MergeExecute
<1>2. \A i \in DOMAIN segs : segs[i].id \in th[t].old =>
          \A l \in Live(segs[i]) : segs[i].docs[l] \in Range(docs)
  BY <1>0, LiveDocsProperties
<1>. HIDE DEF docs
<1>3. /\ OthersKept(t) /\ th'[t].pc = "m_swap" /\ th'[t].seg = th[t].seg
      /\ th'[t].docs = docs /\ th'[t].old = th[t].old
  BY <1>0, <1>1, Moves
<1>4. Building(t) /\ Replacing(t) /\ Building(t)' /\ Replacing(t)'
      /\ th'[t].pc \notin CleanPcs
  BY <1>0, <1>3 DEF Building, Replacing, WritePcs, CleanPcs
<1>5. /\ ListedOnDisk' /\ DocMapSound'
      /\ \A s \in DOMAIN disk' : s < nextSegSeq
      /\ th[t].seg \in DOMAIN disk' /\ disk'[th[t].seg] = NewDir(docs)
      /\ \A u \in Threads : u # t /\ Built(u)' =>
            th'[u].seg \in DOMAIN disk' /\ disk'[th'[u].seg] = NewDir(th'[u].docs)
  BY <1>0, <1>1, <1>3, <1>4, OwnWrite
<1>6. IdsAllocated'  BY <1>1, <1>3, <1>4, <1>5, Roles DEF SegmentInv, IdsAllocated
<1>7. BuildersApart'  BY <1>1, <1>3, <1>4, Roles DEF SegmentInv, BuildersApart
<1>8. BuiltOnDisk'  BY <1>3, <1>5 DEF BuiltOnDisk, NewDir
<1>9. RemovedUnlisted'  BY <1>1, <1>3, <1>4, Roles DEF SegmentInv, RemovedUnlisted
<1>10. MergeCovers'
  <2> SUFFICES ASSUME NEW u \in Threads, th'[u].pc = "m_swap",
                      NEW i \in DOMAIN segs, segs[i].id \in th'[u].old,
                      NEW l \in Live(segs[i])
               PROVE  segs[i].docs[l] \in Range(th'[u].docs)
    BY <1>1 DEF MergeCovers, Live, Range
  <2>1. CASE u = t  BY <1>2, <1>3, <2>1
  <2>2. CASE u # t  BY <1>3, <2>2, Roles DEF SegmentInv, MergeCovers
  <2>. QED  BY <2>1, <2>2
<1>. QED  BY <1>5, <1>6, <1>7, <1>8, <1>9, <1>10 DEF Ownership

\* A thread chooses the segments it will replace: listed ones.
LEMMA OwnChoose ==
    ASSUME SegmentInv, NEW t \in Threads, NEW S \in SUBSET ListedIds,
           UNCHANGED <<segs, disk, docMap, nextSegSeq, up>>, OthersKept(t),
           \/ th'[t].pc = "m_alloc"
           \/ /\ th'[t].pc = "r_swap" /\ Built(t) /\ th'[t].seg = th[t].seg
              /\ th'[t].docs = th[t].docs,
           th'[t].old = S
    PROVE  Ownership'
<1>1. /\ Building(t)' => Built(t) /\ Building(t) /\ th'[t].seg = th[t].seg
                         /\ th'[t].docs = th[t].docs
      /\ Built(t)' => Building(t)'
      /\ th'[t].pc \notin CleanPcs /\ th'[t].pc # "m_swap"
  BY RoleFacts DEF Building, Built, WritePcs, CleanPcs
<1>2. \A s \in S : s < nextSegSeq /\ \E i \in DOMAIN segs : segs[i].id = s
  BY DEF ListedIds, SegmentInv, IdsAllocated
<1>3. ListedOnDisk' /\ DocMapSound'
  BY ListedKept DEF SegmentInv, ListedOnDisk
<1>4. IdsAllocated'  BY <1>1, <1>2, Roles DEF SegmentInv, IdsAllocated
<1>5. BuildersApart'
  <2>1. \A u \in Threads : Building(u) => th[u].seg \notin S
    BY <1>2 DEF SegmentInv, BuildersApart
  <2>. QED  BY <1>1, <2>1, Roles DEF SegmentInv, BuildersApart
<1>6. BuiltOnDisk'  BY <1>1, Roles DEF SegmentInv, BuiltOnDisk, NewDir
<1>7. RemovedUnlisted'  BY <1>1, Roles DEF SegmentInv, RemovedUnlisted
<1>8. MergeCovers'  BY <1>1, Roles DEF SegmentInv, MergeCovers, Live, Range
<1>. QED  BY <1>3, <1>4, <1>5, <1>6, <1>7, <1>8 DEF Ownership

\* next_segment_id hands out an id no segment, directory or thread uses.
LEMMA OwnAllocate ==
    ASSUME SegmentInv, NEW t \in Threads, Allocate(t)
    PROVE  Ownership'
<1>0. th \in [Threads -> Thread] /\ nextSegSeq \in Nat \ {0} /\ up
  BY DEF SegmentInv, TypeOK, SegTypeOK, Allocate, At
<1>1. /\ th[t].pc \in {"alloc", "m_alloc", "r_alloc"}
      /\ \E label \in {"write", "m_exec", "r_write"} :
            /\ Continue(t, label, th[t].docs, nextSegSeq, th[t].old)
            /\ label = "m_exec" => th[t].pc = "m_alloc"
      /\ nextSegSeq' = nextSegSeq + 1 /\ UNCHANGED <<disk, segs, docMap, up>>
  BY DEF Allocate, At, NextSegmentId
<1>2. /\ OthersKept(t) /\ th'[t].pc \in {"write", "m_exec", "r_write"}
      /\ th'[t].pc = "m_exec" => th[t].pc = "m_alloc"
      /\ th'[t].seg = nextSegSeq /\ th'[t].old = th[t].old
  BY <1>0, <1>1, Moves
<1>3. /\ ~Built(t)' /\ th'[t].pc \notin CleanPcs /\ th'[t].pc # "m_swap"
      /\ Replacing(t)' => Replacing(t)
  BY <1>2 DEF Built, Replacing, CleanPcs
<1>4. ListedOnDisk' /\ DocMapSound'
  BY <1>1, ListedKept DEF SegmentInv, ListedOnDisk
<1>5. IdsAllocated'
  <2>1. \A x \in Nat : x < nextSegSeq => x < nextSegSeq'  BY <1>0, <1>1
  <2>2. \A s \in DOMAIN disk : s \in Nat  BY DEF SegmentInv, TypeOK, SegTypeOK
  <2>3. \A i \in DOMAIN segs : segs[i].id \in Nat
    <3> TAKE i \in DOMAIN segs
    <3>1. segs[i] \in Entry  BY DEF SegmentInv, TypeOK, SegTypeOK
    <3>. QED  BY <3>1 DEF Entry
  <2>4. \A u \in Threads : th[u].seg \in Nat /\ th[u].old \in SUBSET Nat
    BY ThreadFacts
  <2>5. nextSegSeq < nextSegSeq' /\ 0 < nextSegSeq  BY <1>0, <1>1
  <2>6. \A s \in DOMAIN disk' : up' => s < nextSegSeq'
    BY <1>1, <2>1, <2>2 DEF SegmentInv, IdsAllocated
  <2>7. \A i \in DOMAIN segs' : 0 < segs'[i].id /\ segs'[i].id < nextSegSeq'
    BY <1>1, <2>1, <2>3 DEF SegmentInv, IdsAllocated
  <2>8. \A u \in Threads : Building(u)' => 0 < th'[u].seg /\ th'[u].seg < nextSegSeq'
    BY <1>2, <2>1, <2>4, <2>5, Roles DEF SegmentInv, IdsAllocated
  <2>9. \A u \in Threads : Replacing(u)' => \A s \in th'[u].old : s < nextSegSeq'
    BY <1>2, <1>3, <2>1, <2>4, Roles DEF SegmentInv, IdsAllocated
  <2>. QED  BY <2>6, <2>7, <2>8, <2>9 DEF IdsAllocated
<1>6. BuildersApart'
  <2>1. \A i \in DOMAIN segs : segs[i].id # nextSegSeq
    BY <1>0 DEF SegmentInv, IdsAllocated
  <2>2. \A u \in Threads : Building(u) => th[u].seg # nextSegSeq
    BY <1>0 DEF SegmentInv, IdsAllocated
  <2>3. \A u \in Threads : Replacing(u) => nextSegSeq \notin th[u].old
    BY <1>0 DEF SegmentInv, IdsAllocated
  <2>. QED  BY <1>1, <1>2, <1>3, <2>1, <2>2, <2>3, Roles, RoleFacts
            DEF SegmentInv, BuildersApart, Building
<1>7. BuiltOnDisk'  BY <1>1, <1>2, <1>3, Roles DEF SegmentInv, BuiltOnDisk, NewDir
<1>8. RemovedUnlisted'  BY <1>1, <1>2, <1>3, Roles DEF SegmentInv, RemovedUnlisted
<1>9. MergeCovers'  BY <1>1, <1>2, <1>3, Roles DEF SegmentInv, MergeCovers, Live, Range
<1>. QED  BY <1>4, <1>5, <1>6, <1>7, <1>8, <1>9 DEF Ownership

\* What a new segment maps: its own live copies, or what was mapped before.
LEMMA MappedProperties ==
    ASSUME NEW m, NEW e \in Entry, NEW id \in DocIds
    PROVE  \/ Mapped(m, e)[id] = m[id]
           \/ /\ Mapped(m, e)[id].seg = e.id
              /\ Mapped(m, e)[id].loc \in CopiesOf(e, id)
<1>1. CASE CopiesOf(e, id) = {}  BY <1>1 DEF Mapped
<1>2. CASE CopiesOf(e, id) # {}
  <2>1. Max(CopiesOf(e, id)) \in CopiesOf(e, id)  BY <1>2, MaxCopy DEF Entry
  <2>2. Mapped(m, e)[id] = [seg |-> e.id, loc |-> Max(CopiesOf(e, id))]
    BY <1>2 DEF Mapped
  <2>. QED  BY <2>1, <2>2
<1>. QED  BY <1>1, <1>2

\* A thread lists the segment it has built; some other segments may leave the
\* list, and with them their map entries.
LEMMA OwnList ==
    ASSUME SegmentInv, up, NEW t \in Threads, Built(t), NEW kept \in Seq(Entry), NEW m,
           segs' = Append(kept, NewEntry(th[t].seg, th[t].docs)),
           \A k \in DOMAIN kept : \E i \in DOMAIN segs : kept[k] = segs[i],
           \A j, k \in DOMAIN kept : kept[j].id = kept[k].id => j = k,
           docMap' = Mapped(m, NewEntry(th[t].seg, th[t].docs)),
           \A id \in DocIds : m[id] # NoLoc =>
               m[id] = docMap[id] /\ \E k \in DOMAIN kept : kept[k].id = docMap[id].seg,
           UNCHANGED <<disk, nextSegSeq, up>>, OthersKept(t),
           ~Building(t)', th'[t].pc # "m_swap",
           Replacing(t)' => /\ Replacing(t) /\ th'[t].old = th[t].old
                            /\ \A k \in DOMAIN kept : kept[k].id \notin th[t].old
    PROVE  Ownership'
<1> DEFINE e == NewEntry(th[t].seg, th[t].docs)
           n == Len(kept) + 1
<1>0. e \in Entry /\ e.id = th[t].seg /\ e.docs = th[t].docs /\ e.dead = {}
  BY ThreadFacts, NewSegmentType DEF NewEntry
<1>1. Building(t) /\ ~Built(t)'  BY RoleFacts DEF Built, Building
<1>2. th[t].seg \in DOMAIN disk /\ disk[th[t].seg] = NewDir(th[t].docs)
  BY DEF SegmentInv, BuiltOnDisk
<1>3. \A i \in DOMAIN segs : segs[i].id # th[t].seg
  BY <1>1 DEF SegmentInv, BuildersApart
<1>. HIDE DEF e
<1>4. /\ DOMAIN segs' = DOMAIN kept \cup {n} /\ segs'[n] = e /\ n \notin DOMAIN kept
      /\ \A k \in DOMAIN kept : segs'[k] = kept[k]
  BY <1>0 DEF e
<1>. HIDE DEF n
<1>5. \A k \in DOMAIN kept : kept[k].id # e.id  BY <1>0, <1>3
<1>6. ListedOnDisk'
  <2>1. \A i, j \in DOMAIN segs' : segs'[i].id = segs'[j].id => i = j
    BY <1>4, <1>5
  <2>2. ASSUME NEW i \in DOMAIN segs'
        PROVE  /\ segs'[i].id \in DOMAIN disk
               /\ disk[segs'[i].id].docs = segs'[i].docs
               /\ segs'[i].dead \subseteq disk[segs'[i].id].dead
               /\ "bitmap_cut" \notin Faults => disk[segs'[i].id].ok
    <3>1. CASE i \in DOMAIN kept
      BY <1>4, <3>1 DEF SegmentInv, ListedOnDisk
    <3>2. CASE i = n
      BY <1>0, <1>2, <1>4, <3>2 DEF NewDir
    <3>. QED  BY <1>4, <3>1, <3>2
  <2>. QED  BY <2>1, <2>2 DEF ListedOnDisk
<1>7. DocMapSound'
  <2> SUFFICES ASSUME NEW id \in DocIds, docMap'[id] # NoLoc
               PROVE  \E i \in DOMAIN segs' :
                         /\ segs'[i].id = docMap'[id].seg
                         /\ docMap'[id].loc \in CopiesOf(segs'[i], id)
                         /\ docMap'[id].loc \notin disk[segs'[i].id].dead
    BY DEF DocMapSound, CopiesOf, Live, NoLoc
  <2>1. CASE docMap'[id].seg = e.id /\ docMap'[id].loc \in CopiesOf(e, id)
    BY <1>0, <1>2, <1>4, <2>1 DEF NewDir
  <2>2. CASE docMap'[id] = m[id]
    <3>1. docMap'[id] = docMap[id] /\ docMap[id] # NoLoc  BY <2>2
    <3>2. PICK k \in DOMAIN kept : kept[k].id = docMap[id].seg  BY <2>2
    <3>3. PICK i \in DOMAIN segs : /\ segs[i].id = docMap[id].seg
                                   /\ docMap[id].loc \in CopiesOf(segs[i], id)
                                   /\ docMap[id].loc \notin disk[segs[i].id].dead
      BY <3>1 DEF SegmentInv, DocMapSound
    <3>4. PICK j \in DOMAIN segs : kept[k] = segs[j]  OBVIOUS
    <3>5. segs'[k] = segs[i]  BY <1>4, <3>2, <3>3, <3>4 DEF SegmentInv, ListedOnDisk
    <3>. QED  BY <1>4, <3>1, <3>3, <3>5
  <2>. QED  BY <1>0, <2>1, <2>2, MappedProperties DEF e
<1>8. IdsAllocated'
  <2>1. 0 < th[t].seg /\ th[t].seg < nextSegSeq  BY <1>1 DEF SegmentInv, IdsAllocated
  <2>2. \A i \in DOMAIN segs' : 0 < segs'[i].id /\ segs'[i].id < nextSegSeq
    BY <1>0, <1>4, <2>1 DEF SegmentInv, IdsAllocated
  <2>3. \A u \in Threads : Building(u)' => Building(u) /\ th'[u] = th[u]  BY Roles
  <2>4. \A u \in Threads : Replacing(u)' => Replacing(u) /\ th'[u].old = th[u].old  BY Roles
  <2>. QED  BY <2>2, <2>3, <2>4 DEF SegmentInv, IdsAllocated
<1>9. BuildersApart'
  <2>1. \A u \in Threads : Building(u)' => u # t /\ Building(u) /\ th'[u] = th[u]  BY Roles
  <2>2. \A u \in Threads : Building(u)' => th'[u].seg # e.id
    BY <1>0, <1>1, <2>1 DEF SegmentInv, BuildersApart
  <2>3. \A u \in Threads : \A i \in DOMAIN segs' : Building(u)' => segs'[i].id # th'[u].seg
    BY <1>4, <2>1, <2>2 DEF SegmentInv, BuildersApart
  <2>4. \A u \in Threads : Replacing(u)' => Replacing(u) /\ th'[u].old = th[u].old  BY Roles
  <2>. QED  BY <2>1, <2>3, <2>4 DEF SegmentInv, BuildersApart
<1>10. BuiltOnDisk'  BY <1>1, Roles DEF SegmentInv, BuiltOnDisk, NewDir
<1>11. RemovedUnlisted'
  <2> SUFFICES ASSUME NEW u \in Threads, th'[u].pc \in CleanPcs, NEW i \in DOMAIN segs'
               PROVE  segs'[i].id \notin th'[u].old
    BY DEF RemovedUnlisted
  <2>1. Replacing(u)'  BY DEF Replacing
  <2>2. Replacing(u) /\ th'[u].old = th[u].old  BY <2>1, Roles
  <2>3. CASE i = n  BY <1>0, <1>1, <1>4, <2>2, <2>3 DEF SegmentInv, BuildersApart
  <2>4. CASE i \in DOMAIN kept
    <3>1. CASE u = t  BY <1>4, <2>1, <2>2, <2>4, <3>1
    <3>2. CASE u # t
      <4>1. th[u].pc \in CleanPcs  BY <3>2, Roles
      <4>. QED  BY <1>4, <2>2, <2>4, <4>1 DEF SegmentInv, RemovedUnlisted
    <3>. QED  BY <3>1, <3>2
  <2>. QED  BY <1>4, <2>3, <2>4
<1>12. MergeCovers'
  <2> SUFFICES ASSUME NEW u \in Threads, th'[u].pc = "m_swap",
                      NEW i \in DOMAIN segs', segs'[i].id \in th'[u].old,
                      NEW l \in Live(segs'[i])
               PROVE  segs'[i].docs[l] \in Range(th'[u].docs)
    BY DEF MergeCovers, Live, Range
  <2>1. u # t /\ th'[u] = th[u] /\ Replacing(u)  BY Roles, RoleFacts
  <2>2. i # n  BY <1>0, <1>1, <1>4, <2>1 DEF SegmentInv, BuildersApart
  <2>3. i \in DOMAIN kept  BY <1>4, <2>2
  <2>. QED  BY <1>4, <2>1, <2>3 DEF SegmentInv, MergeCovers
<1>. QED  BY <1>6, <1>7, <1>8, <1>9, <1>10, <1>11, <1>12 DEF Ownership

\* add_segment lists a segment whose directory is complete and unshared.
LEMMA OwnPublish ==
    ASSUME SegmentInv, NEW t \in Threads, FlushPublish(t)
    PROVE  Ownership'
<1>0. /\ up /\ th[t].pc = "publish" /\ th \in [Threads -> Thread] /\ segs \in Seq(Entry)
      /\ docMap \in [DocIds -> Location]
  BY DEF FlushPublish, At, SegmentInv, TypeOK, SegTypeOK
<1>1. OthersKept(t) /\ th'[t].pc = "truncate"  BY <1>0, Moves DEF FlushPublish
<1>2. Built(t) /\ ~Building(t)' /\ ~Replacing(t)' /\ th'[t].pc # "m_swap"
  BY <1>0, <1>1 DEF Built, Building, Replacing, WritePcs, CleanPcs
<1>3. /\ segs' = Append(segs, NewEntry(th[t].seg, th[t].docs))
      /\ docMap' = Mapped(docMap, NewEntry(th[t].seg, th[t].docs))
      /\ UNCHANGED <<disk, nextSegSeq, up>>
  BY DEF FlushPublish, AddSegment
<1>4. \A j, k \in DOMAIN segs : segs[j].id = segs[k].id => j = k
  BY DEF SegmentInv, ListedOnDisk
<1>5. \A id \in DocIds : docMap[id] # NoLoc =>
          \E k \in DOMAIN segs : segs[k].id = docMap[id].seg
  BY DEF SegmentInv, DocMapSound
<1>. QED  BY <1>0, <1>1, <1>2, <1>3, <1>4, <1>5, OwnList

\* replace_segments by a thread that built the new segment.
LEMMA OwnReplace ==
    ASSUME SegmentInv, up, NEW t \in Threads,
           th[t].pc \in {"m_swap", "r_swap"}, th'[t].pc \in CleanPcs,
           OthersKept(t), th'[t].old = th[t].old, UNCHANGED up,
           ReplaceSegments(th[t].old, NewEntry(th[t].seg, th[t].docs))
    PROVE  Ownership'
<1> DEFINE K == {i \in DOMAIN segs : segs[i].id \notin th[t].old}
           kept == Retain(segs, K)
           m == [id \in DocIds |-> IF docMap[id].seg \in th[t].old THEN NoLoc ELSE docMap[id]]
<1>1. segs \in Seq(Entry) /\ K \in SUBSET DOMAIN segs
  BY DEF SegmentInv, TypeOK, SegTypeOK
<1>2. \A j, k \in DOMAIN segs : segs[j].id = segs[k].id => j = k
  BY DEF SegmentInv, ListedOnDisk
<1>3. \A i \in K : segs[i].id \notin th[t].old  OBVIOUS
<1>4. \A i \in DOMAIN segs : segs[i].id \notin th[t].old => i \in K  OBVIOUS
<1>5. /\ segs' = Append(kept, NewEntry(th[t].seg, th[t].docs))
      /\ docMap' = Mapped(m, NewEntry(th[t].seg, th[t].docs))
      /\ UNCHANGED <<disk, nextSegSeq>>
  BY DEF ReplaceSegments
<1>6. \A id \in DocIds : m[id] # NoLoc =>
          m[id] = docMap[id] /\ docMap[id].seg \notin th[t].old
  OBVIOUS
<1>. HIDE DEF K, m
<1>7. /\ kept \in Seq(Entry)
      /\ \A i \in K : \E k \in DOMAIN kept : kept[k] = segs[i]
      /\ \A k \in DOMAIN kept : \E i \in K : kept[k] = segs[i]
      /\ \A j, k \in DOMAIN kept : kept[j] = kept[k] => j = k
  <2>1. \A i, j \in K : segs[i] = segs[j] => i = j  BY <1>1, <1>2
  <2>2. /\ kept \in Seq(Entry)
        /\ \A i \in K : \E k \in DOMAIN kept : kept[k] = segs[i]
        /\ \A k \in DOMAIN kept : \E i \in K : kept[k] = segs[i]
        /\ (\A i, j \in K : segs[i] = segs[j] => i = j) =>
              \A j, k \in DOMAIN kept : kept[j] = kept[k] => j = k
    BY <1>1, RetainProperties, Zenon
  <2>. QED  BY <2>1, <2>2
<1>. HIDE DEF kept
<1>8. \A j, k \in DOMAIN kept : kept[j].id = kept[k].id => j = k
  BY <1>1, <1>2, <1>7
<1>9. \A id \in DocIds : m[id] # NoLoc =>
          m[id] = docMap[id] /\ \E k \in DOMAIN kept : kept[k].id = docMap[id].seg
  <2> SUFFICES ASSUME NEW id \in DocIds, m[id] # NoLoc
               PROVE  m[id] = docMap[id] /\ \E k \in DOMAIN kept : kept[k].id = docMap[id].seg
    OBVIOUS
  <2>1. m[id] = docMap[id] /\ docMap[id].seg \notin th[t].old  BY <1>6
  <2>2. PICK i \in DOMAIN segs : segs[i].id = docMap[id].seg
    BY <2>1 DEF SegmentInv, DocMapSound
  <2>. QED  BY <1>4, <1>7, <2>1, <2>2
<1>10. \A k \in DOMAIN kept : kept[k].id \notin th[t].old  BY <1>3, <1>7
<1>11. \A k \in DOMAIN kept : \E i \in DOMAIN segs : kept[k] = segs[i]  BY <1>1, <1>7
<1>12. Built(t) /\ Replacing(t) /\ ~Building(t)' /\ th'[t].pc # "m_swap"
  BY DEF Built, Building, Replacing, WritePcs, CleanPcs
<1>. QED  BY <1>5, <1>7, <1>8, <1>9, <1>10, <1>11, <1>12, OwnList

\* Old directories are removed, all or some of them.
LEMMA OwnClean ==
    ASSUME SegmentInv, NEW t \in Threads, th[t].pc \in CleanPcs,
           NEW gone \in SUBSET th[t].old,
           disk' = WithoutDirs(gone), UNCHANGED <<segs, docMap, nextSegSeq, up>>,
           OthersKept(t), th'[t].pc \in QuietPcs
    PROVE  Ownership'
<1>1. ~Building(t)' /\ ~Replacing(t)' /\ ~Built(t)' /\ th'[t].pc \notin CleanPcs
      /\ th'[t].pc # "m_swap"
  BY DEF Building, Replacing, Built, QuietPcs, WritePcs, CleanPcs
<1>2. DOMAIN disk' = DOMAIN disk \ gone /\ \A s \in DOMAIN disk' : disk'[s] = disk[s]
  BY DEF WithoutDirs
<1>3. \A i \in DOMAIN segs : segs[i].id \in DOMAIN disk /\ segs[i].id \notin th[t].old
  BY DEF SegmentInv, RemovedUnlisted, ListedOnDisk
<1>4. ListedOnDisk' /\ DocMapSound'  BY <1>2, <1>3, ListedKept
<1>5. IdsAllocated'  BY <1>1, <1>2, Roles DEF SegmentInv, IdsAllocated
<1>6. BuildersApart'  BY <1>1, Roles DEF SegmentInv, BuildersApart
<1>7. BuiltOnDisk'
  <2> SUFFICES ASSUME NEW u \in Threads, Built(u)'
               PROVE  th'[u].seg \in DOMAIN disk' /\ disk'[th'[u].seg] = NewDir(th'[u].docs)
    BY DEF BuiltOnDisk, NewDir
  <2>1. th'[u] = th[u] /\ Built(u) /\ Building(u) /\ Replacing(t)
    BY <1>1, Roles, RoleFacts
  <2>2. th[u].seg \notin th[t].old  BY <2>1 DEF SegmentInv, BuildersApart
  <2>. QED  BY <1>2, <2>1, <2>2 DEF SegmentInv, BuiltOnDisk
<1>8. RemovedUnlisted'  BY <1>1, Roles DEF SegmentInv, RemovedUnlisted
<1>9. MergeCovers'  BY <1>1, Roles DEF SegmentInv, MergeCovers, Live, Range
<1>. QED  BY <1>4, <1>5, <1>6, <1>7, <1>8, <1>9 DEF Ownership

\* The directory of a listed segment is rewritten with the same documents.
LEMMA OwnRewrite ==
    ASSUME SegmentInv, NEW t \in Threads, NEW s, NEW d, NEW i \in DOMAIN segs,
           segs[i].id = s, d.docs = segs[i].docs, disk[s].dead \subseteq d.dead,
           "bitmap_cut" \notin Faults => d.ok,
           disk' = WithDir(s, d), UNCHANGED <<segs, nextSegSeq, up>>,
           OthersKept(t), th'[t].pc \in QuietPcs
    PROVE  /\ ListedOnDisk' /\ IdsAllocated' /\ BuildersApart'
           /\ BuiltOnDisk' /\ RemovedUnlisted' /\ MergeCovers'
           /\ disk'[s] = d /\ \A x \in DOMAIN disk : x # s => disk'[x] = disk[x]
<1>1. ~Building(t)' /\ ~Replacing(t)' /\ ~Built(t)' /\ th'[t].pc \notin CleanPcs
      /\ th'[t].pc # "m_swap"
  BY DEF Building, Replacing, Built, QuietPcs, WritePcs, CleanPcs
<1>2. s \in DOMAIN disk  BY DEF SegmentInv, ListedOnDisk
<1>3. DOMAIN disk' = DOMAIN disk /\ disk'[s] = d
      /\ \A x \in DOMAIN disk : x # s => disk'[x] = disk[x]
  BY <1>2 DEF WithDir
<1>4. ListedOnDisk'
  <2>1. ASSUME NEW j \in DOMAIN segs
        PROVE  /\ segs[j].id \in DOMAIN disk'
               /\ disk'[segs[j].id].docs = segs[j].docs
               /\ segs[j].dead \subseteq disk'[segs[j].id].dead
               /\ "bitmap_cut" \notin Faults => disk'[segs[j].id].ok
    <3>1. CASE j = i  BY <1>3, <3>1 DEF SegmentInv, ListedOnDisk
    <3>2. CASE j # i  BY <1>3, <3>2 DEF SegmentInv, ListedOnDisk
    <3>. QED  BY <3>1, <3>2
  <2>. QED  BY <2>1 DEF SegmentInv, ListedOnDisk
<1>5. IdsAllocated'  BY <1>1, <1>3, Roles DEF SegmentInv, IdsAllocated
<1>6. BuildersApart'  BY <1>1, Roles DEF SegmentInv, BuildersApart
<1>7. BuiltOnDisk'
  <2> SUFFICES ASSUME NEW u \in Threads, Built(u)'
               PROVE  th'[u].seg \in DOMAIN disk' /\ disk'[th'[u].seg] = NewDir(th'[u].docs)
    BY DEF BuiltOnDisk, NewDir
  <2>1. th'[u] = th[u] /\ Built(u) /\ Building(u)  BY <1>1, Roles, RoleFacts
  <2>2. th[u].seg # s  BY <2>1 DEF SegmentInv, BuildersApart
  <2>. QED  BY <1>3, <2>1, <2>2 DEF SegmentInv, BuiltOnDisk
<1>8. RemovedUnlisted'  BY <1>1, Roles DEF SegmentInv, RemovedUnlisted
<1>9. MergeCovers'  BY <1>1, Roles DEF SegmentInv, MergeCovers, Live, Range
<1>. QED  BY <1>3, <1>4, <1>5, <1>6, <1>7, <1>8, <1>9

\* mark_deleted changes only the bitmap of the directory it found through the
\* map, and unmaps the id, so that the map stays sound.
LEMMA OwnDelete ==
    ASSUME SegmentInv, NEW t \in Threads, DeleteInSegments(t)
    PROVE  Ownership'
<1> DEFINE id == th[t].arg[1].id
           s == docMap[id].seg
           d == Marked(disk[s], {docMap[id].loc})
<1>0. up /\ th[t].pc = "del_seg" /\ th \in [Threads -> Thread] /\ docMap \in [DocIds -> Location]
  BY DEF DeleteInSegments, At, SegmentInv, TypeOK, SegTypeOK
<1>1. OthersKept(t) /\ th'[t].pc \in QuietPcs /\ up' = up /\ MarkDeleted(id)
  BY <1>0, Moves DEF DeleteInSegments, QuietPcs
<1>2. CASE ~(Deletable(docMap, id) /\ disk[s].ok)
  <2>1. UNCHANGED segVars  BY <1>1, <1>2 DEF MarkDeleted
  <2>. QED  BY <1>1, <2>1, QuietStep
<1>3. CASE Deletable(docMap, id) /\ disk[s].ok
  <2>0. id \in DocIds
    <3>1. Len(th[t].arg) = 1 /\ th[t].arg \in Seq(Document)
      BY <1>0, ThreadFacts DEF SegmentInv, DeleteArg
    <3>2. th[t].arg[1] \in Document  BY <3>1
    <3>. QED  BY <3>2 DEF Document
  <2>1. /\ disk' = WithDir(s, d) /\ docMap' = [docMap EXCEPT ![id] = NoLoc]
        /\ UNCHANGED <<segs, nextSegSeq>>
    BY <1>1, <1>3 DEF MarkDeleted
  <2>2. docMap[id] # NoLoc  BY <1>3 DEF Deletable
  <2>3. PICK i \in DOMAIN segs : segs[i].id = s /\ docMap[id].loc \in CopiesOf(segs[i], id)
    BY <2>0, <2>2 DEF SegmentInv, DocMapSound
  <2>4. /\ d.docs = segs[i].docs /\ disk[s].dead \subseteq d.dead
        /\ d.dead = disk[s].dead \cup {docMap[id].loc}
        /\ d.ok = disk[s].ok
    BY <2>3 DEF Marked, SegmentInv, ListedOnDisk
  <2>5. d.ok  BY <1>3, <2>4
  <2>. HIDE DEF id, d, s
  <2>6. /\ ListedOnDisk' /\ IdsAllocated' /\ BuildersApart'
        /\ BuiltOnDisk' /\ RemovedUnlisted' /\ MergeCovers'
        /\ disk'[s] = d /\ \A x \in DOMAIN disk : x # s => disk'[x] = disk[x]
    BY <1>1, <2>1, <2>3, <2>4, <2>5, OwnRewrite
  <2>7. DocMapSound'
    <3> SUFFICES ASSUME NEW x \in DocIds, docMap'[x] # NoLoc
                 PROVE  \E j \in DOMAIN segs :
                           /\ segs[j].id = docMap'[x].seg
                           /\ docMap'[x].loc \in CopiesOf(segs[j], x)
                           /\ docMap'[x].loc \notin disk'[segs[j].id].dead
      BY <2>1 DEF DocMapSound, CopiesOf, Live, NoLoc
    <3>1. x # id /\ docMap'[x] = docMap[x]  BY <1>0, <2>0, <2>1
    <3>2. PICK j \in DOMAIN segs : /\ segs[j].id = docMap[x].seg
                                   /\ docMap[x].loc \in CopiesOf(segs[j], x)
                                   /\ docMap[x].loc \notin disk[segs[j].id].dead
      BY <3>1 DEF SegmentInv, DocMapSound
    <3>3. segs[j].id \in DOMAIN disk  BY DEF SegmentInv, ListedOnDisk
    <3>4. CASE segs[j].id # s  BY <2>6, <3>1, <3>2, <3>3, <3>4
    <3>5. CASE segs[j].id = s
      <4>1. j = i  BY <2>3, <3>5 DEF SegmentInv, ListedOnDisk
      <4>2. docMap[x].loc # docMap[id].loc  BY <2>3, <3>1, <3>2, <4>1 DEF CopiesOf
      <4>. QED  BY <2>4, <2>6, <3>1, <3>2, <3>5, <4>2
    <3>. QED  BY <3>4, <3>5
  <2>. QED  BY <2>6, <2>7 DEF Ownership
<1>. QED  BY <1>2, <1>3

\* A deletions.bin that was cut short changes no other part of the state.
LEMMA OwnBitmapFails ==
    ASSUME SegmentInv, NEW t \in Threads, DeleteBitmapFails(t)
    PROVE  Ownership'
<1> DEFINE id == th[t].arg[1].id
           s == docMap[id].seg
           d == Left(disk[s], "unreadable")
<1>0. up /\ th[t].pc = "del_seg" /\ th \in [Threads -> Thread]
  BY DEF DeleteBitmapFails, At, SegmentInv, TypeOK
<1>1. OthersKept(t) /\ th'[t].pc \in QuietPcs /\ up' = up
  BY <1>0, Moves DEF DeleteBitmapFails, QuietPcs
<1>2. s \in ListedIds /\ "bitmap_cut" \in Faults
  BY DEF DeleteBitmapFails, Deletable, Fault
<1>3. PICK i \in DOMAIN segs : segs[i].id = s  BY <1>2 DEF ListedIds
<1>4. disk' = WithDir(s, d) /\ UNCHANGED <<segs, docMap, nextSegSeq>>
  BY DEF DeleteBitmapFails
<1>5. d.docs = segs[i].docs /\ d.dead = disk[s].dead
  BY <1>3 DEF Left, SegmentInv, ListedOnDisk
<1>. HIDE DEF id, s, d
<1>6. /\ ListedOnDisk' /\ IdsAllocated' /\ BuildersApart'
      /\ BuiltOnDisk' /\ RemovedUnlisted' /\ MergeCovers'
      /\ disk'[s] = d /\ \A x \in DOMAIN disk : x # s => disk'[x] = disk[x]
  BY <1>1, <1>2, <1>3, <1>4, <1>5, OwnRewrite
<1>7. \A j \in DOMAIN segs : disk'[segs[j].id].dead = disk[segs[j].id].dead
  BY <1>5, <1>6 DEF SegmentInv, ListedOnDisk
<1>8. DocMapSound'  BY <1>4, <1>7 DEF SegmentInv, DocMapSound, CopiesOf, Live
<1>. QED  BY <1>6, <1>8 DEF Ownership

\* A killed process owns nothing.
LEMMA OwnCrash ==
    ASSUME SegmentInv, Crash
    PROVE  Ownership'
<1>1. /\ segs' = << >> /\ th' = [t \in Threads |-> Idle] /\ up' = FALSE
      /\ \A id \in DocIds : docMap'[id] = NoLoc
  BY CrashDisk
<1>2. DOMAIN segs' = {}  BY <1>1
<1>3. \A t \in Threads : th'[t].pc = "idle"  BY <1>1 DEF Idle, Serving
<1>4. \A t \in Threads : ~Building(t)' /\ ~Built(t)' /\ ~Replacing(t)'
                         /\ th'[t].pc \notin CleanPcs /\ th'[t].pc # "m_swap"
  BY <1>3 DEF Building, Built, Replacing, WritePcs, CleanPcs
<1>5. ListedOnDisk'  BY <1>2 DEF ListedOnDisk
<1>6. DocMapSound'  BY <1>1 DEF DocMapSound, NoLoc
<1>7. IdsAllocated'  BY <1>1, <1>2, <1>4 DEF IdsAllocated
<1>8. BuildersApart'  BY <1>2, <1>4 DEF BuildersApart
<1>9. BuiltOnDisk'  BY <1>4 DEF BuiltOnDisk
<1>10. RemovedUnlisted'  BY <1>4 DEF RemovedUnlisted
<1>11. MergeCovers'  BY <1>4 DEF MergeCovers
<1>. QED  BY <1>5, <1>6, <1>7, <1>8, <1>9, <1>10, <1>11 DEF Ownership

\* The state a restart builds from the directories and the log.
LEMMA OwnOpen ==
    ASSUME SegmentInv, Open
    PROVE  Ownership'
<1>0. SegTypeOK /\ ~up /\ th' = th  BY DEF SegmentInv, TypeOK, Open
<1>1. PICK ids \in SUBSET DocIds : OpenAndReplayDeletes(ids)  BY OpenReplay
<1>2. /\ segs' = OpenedSegs
      /\ docMap' = [id \in DocIds |-> IF id \in ids THEN NoLoc ELSE OpenedMap[id]]
      /\ disk' = [s \in DOMAIN disk |-> Marked(disk[s], LocsIn(OpenedMap, ids, s))]
      /\ nextSegSeq' = Max(DOMAIN disk \cup {0}) + 1
  BY <1>1 DEF OpenAndReplayDeletes
<1>3. \A t \in Threads : ~Building(t)' /\ ~Built(t)' /\ ~Replacing(t)'
                         /\ th'[t].pc \notin CleanPcs /\ th'[t].pc # "m_swap"
  <2>1. \A t \in Threads : th'[t].pc = "idle"
    BY <1>0 DEF SegmentInv, DownIsEmpty, Idle, Serving
  <2>. QED  BY <2>1 DEF Building, Built, Replacing, WritePcs, CleanPcs
<1>4. /\ ReadableIds \in SUBSET (Nat \ {0})
      /\ \A k \in DOMAIN segs' : segs'[k].id \in ReadableIds /\ segs'[k] = EntryOf(segs'[k].id)
      /\ \A s \in ReadableIds : \E k \in DOMAIN segs' : segs'[k] = EntryOf(s)
      /\ \A j, k \in DOMAIN segs' : segs'[j].id = segs'[k].id => j = k
  BY <1>0, <1>2, OpenedSegsProperties
<1>5. \A s \in ReadableIds :
          /\ s \in DOMAIN disk' /\ s \in DOMAIN disk
          /\ EntryOf(s).id = s /\ EntryOf(s).docs = disk[s].docs /\ EntryOf(s).dead = disk[s].dead
          /\ disk'[s].docs = disk[s].docs /\ disk'[s].ok
          /\ disk'[s].dead = disk[s].dead \cup LocsIn(OpenedMap, ids, s)
  BY <1>2 DEF ReadableIds, EntryOf, Marked
<1>6. ListedOnDisk'
  <2>1. ASSUME NEW k \in DOMAIN segs'
        PROVE  /\ segs'[k].id \in DOMAIN disk'
               /\ disk'[segs'[k].id].docs = segs'[k].docs
               /\ segs'[k].dead \subseteq disk'[segs'[k].id].dead
               /\ disk'[segs'[k].id].ok
    <3> DEFINE s == segs'[k].id
    <3>1. s \in ReadableIds /\ segs'[k] = EntryOf(s)  BY <1>4
    <3>. QED  BY <1>5, <3>1
  <2>. QED  BY <1>4, <2>1 DEF ListedOnDisk
<1>7. DocMapSound'
  <2> SUFFICES ASSUME NEW id \in DocIds, docMap'[id] # NoLoc
               PROVE  \E i \in DOMAIN segs' :
                         /\ segs'[i].id = docMap'[id].seg
                         /\ docMap'[id].loc \in CopiesOf(segs'[i], id)
                         /\ docMap'[id].loc \notin disk'[segs'[i].id].dead
    BY DEF DocMapSound, CopiesOf, Live, NoLoc
  <2>1. id \notin ids /\ docMap'[id] = OpenedMap[id] /\ OpenedMap[id] # NoLoc  BY <1>2
  <2> DEFINE s == OpenedMap[id].seg
             l == OpenedMap[id].loc
  <2>2. s \in ReadableIds /\ l \in CopiesOf(EntryOf(s), id)
    BY <1>0, <2>1, OpenedMapProperties
  <2>3. PICK i \in DOMAIN segs' : segs'[i] = EntryOf(s)  BY <1>4, <2>2
  <2>4. l \notin disk[s].dead /\ disk[s].docs[l].id = id
    BY <1>5, <2>2 DEF CopiesOf, Live
  <2>5. l \notin LocsIn(OpenedMap, ids, s)
    <3> SUFFICES ASSUME NEW x \in ids, OpenedMap[x] # NoLoc, OpenedMap[x].seg = s,
                        OpenedMap[x].loc = l
                 PROVE  FALSE
      BY DEF LocsIn
    <3>1. x \in DocIds  OBVIOUS
    <3>2. l \in CopiesOf(EntryOf(s), x)  BY <1>0, <3>1, OpenedMapProperties
    <3>3. EntryOf(s).docs[l].id = x  BY <3>2 DEF CopiesOf
    <3>. QED  BY <1>5, <2>1, <2>2, <2>4, <3>3
  <2>6. l \notin disk'[s].dead  BY <1>5, <2>2, <2>4, <2>5
  <2>7. segs'[i].id = s  BY <1>5, <2>2, <2>3
  <2>. QED  BY <2>1, <2>2, <2>3, <2>6, <2>7
<1>8. IdsAllocated'
  <2> DEFINE S == DOMAIN disk \cup {0}
  <2>1. S \in SUBSET Nat /\ S # {}  BY <1>0 DEF SegTypeOK
  <2>2. IsFiniteSet(S)
    <3>1. IsFiniteSet(DOMAIN disk)  BY <1>0 DEF SegTypeOK
    <3>. QED  BY <3>1, FS_AddElement
  <2>3. Max(S) \in Nat /\ \A s \in S : s <= Max(S)
    <3>. HIDE DEF S
    <3>. QED  BY <2>1, <2>2, MaxProperties
  <2>4. \A s \in DOMAIN disk : s \in Nat /\ s < nextSegSeq'  BY <1>2, <2>1, <2>3
  <2>5. DOMAIN disk' = DOMAIN disk  BY <1>2
  <2>6. \A k \in DOMAIN segs' : segs'[k].id \in DOMAIN disk /\ 0 < segs'[k].id
    <3>1. \A s \in ReadableIds : s \in DOMAIN disk /\ 0 < s  BY <1>4, <1>5
    <3>2. \A k \in DOMAIN segs' : segs'[k].id \in ReadableIds  BY <1>4
    <3>. QED  BY <3>1, <3>2
  <2>. HIDE DEF S
  <2>. QED  BY <1>3, <2>4, <2>5, <2>6 DEF IdsAllocated
<1>9. BuildersApart'  BY <1>3 DEF BuildersApart
<1>10. BuiltOnDisk'  BY <1>3 DEF BuiltOnDisk
<1>11. RemovedUnlisted'  BY <1>3 DEF RemovedUnlisted
<1>12. MergeCovers'  BY <1>3 DEF MergeCovers
<1>. QED  BY <1>6, <1>7, <1>8, <1>9, <1>10, <1>11, <1>12 DEF Ownership

\* Every action of a thread.
LEMMA OwnThread ==
    ASSUME SegmentInv, NEW t \in Threads, Call(t) \/ Section(t) \/ SectionFails(t)
    PROVE  Ownership'
<1>0. th \in [Threads -> Thread]  BY DEF SegmentInv, TypeOK
<1>1. CASE Call(t)
  <2>1. UNCHANGED segVars /\ up' = up /\ OthersKept(t) /\ th'[t].pc \in QuietPcs
    <3>1. ASSUME NEW ids \in Batches, IndexAppend(t, ids)
          PROVE  UNCHANGED segVars /\ up' = up /\ OthersKept(t) /\ th'[t].pc \in QuietPcs
      BY <1>0, <3>1 DEF IndexAppend, Serving, OthersKept, QuietPcs
    <3>2. ASSUME NEW ids, NEW k, NEW torn, IndexAppendFails(t, ids, k, torn)
          PROVE  UNCHANGED segVars /\ up' = up /\ OthersKept(t) /\ th'[t].pc \in QuietPcs
      BY <3>2 DEF IndexAppendFails, At, OthersKept, QuietPcs
    <3>21. ASSUME NEW id, NEW k, NEW torn, DeleteAppendFails(t, id, k, torn)
           PROVE  UNCHANGED segVars /\ up' = up /\ OthersKept(t) /\ th'[t].pc \in QuietPcs
      BY <3>21 DEF DeleteAppendFails, At, OthersKept, QuietPcs
    <3>3. ASSUME NEW id \in DocIds, DeleteAppend(t, id)
          PROVE  UNCHANGED segVars /\ up' = up /\ OthersKept(t) /\ th'[t].pc \in QuietPcs
      BY <1>0, <3>3 DEF DeleteAppend, Serving, OthersKept, QuietPcs
    <3>4. ASSUME NEW op, CallFlush(t, op)
          PROVE  UNCHANGED segVars /\ up' = up /\ OthersKept(t) /\ th'[t].pc \in QuietPcs
      BY <1>0, <3>4 DEF CallFlush, Serving, OthersKept, QuietPcs
    <3>. QED  BY <1>1, <3>1, <3>2, <3>21, <3>3, <3>4 DEF Call
  <2>. QED  BY <2>1, QuietStep
<1>2. CASE IndexAdd(t)
  <2>1. UNCHANGED segVars /\ up' = up /\ OthersKept(t) /\ th'[t].pc \in QuietPcs
    BY <1>0, <1>2, Moves DEF IndexAdd, QuietPcs
  <2>. QED  BY <2>1, QuietStep
<1>3. CASE DeleteBuffered(t)
  <2>1. UNCHANGED segVars /\ up' = up /\ OthersKept(t) /\ th'[t].pc \in QuietPcs
    BY <1>0, <1>3, Moves DEF DeleteBuffered, QuietPcs
  <2>. QED  BY <2>1, QuietStep
<1>4. CASE DeleteInSegments(t)  BY <1>4, OwnDelete
<1>5. CASE FlushDrain(t)
  <2>1. UNCHANGED segVars /\ up' = up /\ OthersKept(t) /\ th'[t].pc \in QuietPcs
    BY <1>0, <1>5, Moves DEF FlushDrain, QuietPcs
  <2>. QED  BY <2>1, QuietStep
<1>6. CASE Allocate(t)  BY <1>6, OwnAllocate
<1>7. CASE WriteSegment(t)  BY <1>7, OwnWriteSegment
<1>8. CASE FlushPublish(t)  BY <1>8, OwnPublish
<1>9. CASE FlushTruncate(t)
  <2>1. UNCHANGED segVars /\ up' = up /\ OthersKept(t) /\ th'[t].pc \in QuietPcs
    BY <1>0, <1>9, Moves DEF FlushTruncate, QuietPcs
  <2>. QED  BY <2>1, QuietStep
<1>10. CASE MergeFind(t)
  <2>1. UNCHANGED segVars /\ up' = up  BY <1>10 DEF MergeFind
  <2>2. CASE FlushReturns(t)
    <3>1. OthersKept(t) /\ th'[t].pc \in QuietPcs  BY <1>0, <2>2, Moves DEF QuietPcs
    <3>. QED  BY <2>1, <3>1, QuietStep
  <2>3. CASE Continue(t, "m_alloc", << >>, 0, FindMerges)
    <3>1. FindMerges \in SUBSET ListedIds  BY DEF FindMerges, ListedIds
    <3>2. OthersKept(t) /\ th'[t].pc = "m_alloc" /\ th'[t].old = FindMerges
      BY <1>0, <2>3, Moves
    <3>3. UNCHANGED <<segs, disk, docMap, nextSegSeq, up>>  BY <2>1 DEF segVars
    <3>. QED  BY <3>1, <3>2, <3>3, OwnChoose
  <2>. QED  BY <1>10, <2>2, <2>3 DEF MergeFind
<1>11. CASE MergeExecute(t)  BY <1>11, OwnMergeExecute
<1>12. CASE MergeSwap(t)
  <2>1. up /\ th[t].pc = "m_swap" /\ up' = up  BY <1>12 DEF MergeSwap, At
  <2>2. OthersKept(t) /\ th'[t].pc \in CleanPcs /\ th'[t].old = th[t].old
    BY <1>0, <1>12, Moves DEF MergeSwap, CleanPcs
  <2>. QED  BY <1>12, <2>1, <2>2, OwnReplace DEF MergeSwap
<1>13. CASE MergeClean(t)
  <2>1. th[t].pc \in CleanPcs  BY <1>13 DEF MergeClean, At, CleanPcs
  <2>2. OthersKept(t) /\ th'[t].pc \in QuietPcs
    BY <1>0, <1>13, Moves DEF MergeClean, QuietPcs
  <2>. QED  BY <1>13, <2>1, <2>2, OwnClean DEF MergeClean
<1>14. CASE ReindexCollect(t)
  <2>1. UNCHANGED segVars /\ up' = up /\ OthersKept(t) /\ th'[t].pc \in QuietPcs
    BY <1>0, <1>14, Moves DEF ReindexCollect, QuietPcs
  <2>. QED  BY <2>1, QuietStep
<1>15. CASE ReindexOldIds(t)
  <2>1. Built(t) /\ UNCHANGED <<segs, disk, docMap, nextSegSeq, up>>
    BY <1>15 DEF ReindexOldIds, At, Built, segVars
  <2>2. /\ OthersKept(t) /\ th'[t].pc = "r_swap" /\ th'[t].old = ListedIds
        /\ th'[t].seg = th[t].seg /\ th'[t].docs = th[t].docs
    BY <1>0, <1>15, Moves DEF ReindexOldIds
  <2>. QED  BY <2>1, <2>2, OwnChoose
<1>16. CASE ReindexSwap(t)
  <2>1. up /\ th[t].pc = "r_swap" /\ up' = up  BY <1>16 DEF ReindexSwap, At
  <2>2. OthersKept(t) /\ th'[t].pc \in CleanPcs /\ th'[t].old = th[t].old
    BY <1>0, <1>16, Moves DEF ReindexSwap, CleanPcs
  <2>. QED  BY <1>16, <2>1, <2>2, OwnReplace DEF ReindexSwap
<1>17. CASE ReindexClean(t)
  <2>1. th[t].pc \in CleanPcs  BY <1>17 DEF ReindexClean, At, CleanPcs
  <2>2. OthersKept(t) /\ th'[t].pc \in QuietPcs
    BY <1>0, <1>17, Moves DEF ReindexClean, QuietPcs
  <2>. QED  BY <1>17, <2>1, <2>2, OwnClean DEF ReindexClean
<1>18. CASE ReindexTruncate(t)
  <2>1. UNCHANGED segVars /\ up' = up /\ OthersKept(t) /\ th'[t].pc \in QuietPcs
    BY <1>0, <1>18, Moves DEF ReindexTruncate, QuietPcs
  <2>. QED  BY <2>1, QuietStep
<1>19. CASE DeleteBitmapFails(t)  BY <1>19, OwnBitmapFails
<1>20. CASE WriteFails(t)  BY <1>20, OwnWriteFails
<1>21. CASE TruncateFails(t)
  <2>1. UNCHANGED segVars /\ up' = up /\ OthersKept(t) /\ th'[t].pc \in QuietPcs
    BY <1>0, <1>21, Moves DEF TruncateFails, QuietPcs
  <2>. QED  BY <2>1, QuietStep
<1>22. CASE CleanFails(t)
  <2>1. PICK gone \in SUBSET th[t].old : disk' = WithoutDirs(gone)
    BY <1>22 DEF CleanFails
  <2>2. th[t].pc \in CleanPcs /\ UNCHANGED <<segs, docMap, nextSegSeq, up>>
    BY <1>22 DEF CleanFails
  <2>3. OthersKept(t) /\ th'[t].pc \in QuietPcs
    BY <1>0, <1>22, Moves DEF CleanFails, QuietPcs
  <2>. QED  BY <2>1, <2>2, <2>3, OwnClean
<1>. QED  BY <1>1, <1>2, <1>3, <1>4, <1>5, <1>6, <1>7, <1>8, <1>9, <1>10, <1>11,
             <1>12, <1>13, <1>14, <1>15, <1>16, <1>17, <1>18, <1>19, <1>20, <1>21, <1>22
          DEF Section, SectionFails

-----------------------------------------------------------------------------
(* SegmentInv is inductive *)

\* A thread runs only while the process is up, and carries a delete's id.
LEMMA ThreadSteps ==
    ASSUME SegmentInv, NEW t \in Threads, Call(t) \/ Section(t) \/ SectionFails(t)
    PROVE  /\ up /\ up' = up
           /\ OthersKept(t)
           /\ th'[t].pc \in {"del_buf", "del_seg"} => Len(th'[t].arg) = 1
<1> DEFINE Goal == /\ up /\ up' = up
                   /\ OthersKept(t)
                   /\ th'[t].pc \in {"del_buf", "del_seg"} => Len(th'[t].arg) = 1
<1>0. th \in [Threads -> Thread]  BY DEF SegmentInv, TypeOK
<1>1. ASSUME NEW ids \in Batches, IndexAppend(t, ids)  PROVE Goal
  BY <1>0, <1>1 DEF IndexAppend, At, Serving, OthersKept
<1>2. ASSUME NEW ids, NEW k, NEW torn, IndexAppendFails(t, ids, k, torn)  PROVE Goal
  BY <1>2 DEF IndexAppendFails, At, OthersKept
<1>29. ASSUME NEW id, NEW k, NEW torn, DeleteAppendFails(t, id, k, torn)  PROVE Goal
  BY <1>29 DEF DeleteAppendFails, At, OthersKept
<1>3. ASSUME NEW id \in DocIds, DeleteAppend(t, id)  PROVE Goal
  <2>1. OthersKept(t) /\ th'[t].arg = <<DeleteEntry(id).doc>>
    BY <1>0, <1>3 DEF DeleteAppend, Serving, OthersKept
  <2>. QED  BY <1>3, <2>1 DEF DeleteAppend, At
<1>4. ASSUME NEW op, CallFlush(t, op)  PROVE Goal
  BY <1>0, <1>4 DEF CallFlush, At, Serving, OthersKept
<1>5. CASE IndexAdd(t)  BY <1>0, <1>5, Moves DEF IndexAdd, At
<1>6. CASE DeleteBuffered(t)
  <2>1. Len(th[t].arg) = 1  BY <1>6 DEF DeleteBuffered, At, SegmentInv, DeleteArg
  <2>2. OthersKept(t) /\ th'[t].arg = th[t].arg  BY <1>0, <1>6, Moves DEF DeleteBuffered
  <2>. QED  BY <1>6, <2>1, <2>2 DEF DeleteBuffered, At
<1>7. CASE DeleteInSegments(t)  BY <1>0, <1>7, Moves DEF DeleteInSegments, At
<1>8. CASE FlushDrain(t)  BY <1>0, <1>8, Moves DEF FlushDrain, At
<1>9. CASE Allocate(t)  BY <1>0, <1>9, Moves DEF Allocate, At
<1>10. CASE WriteSegment(t)  BY <1>0, <1>10, Moves DEF WriteSegment, At
<1>11. CASE FlushPublish(t)  BY <1>0, <1>11, Moves DEF FlushPublish, At
<1>12. CASE FlushTruncate(t)  BY <1>0, <1>12, Moves DEF FlushTruncate, At
<1>13. CASE MergeFind(t)  BY <1>0, <1>13, Moves DEF MergeFind, At
<1>14. CASE MergeExecute(t)  BY <1>0, <1>14, Moves DEF MergeExecute, At
<1>15. CASE MergeSwap(t)  BY <1>0, <1>15, Moves DEF MergeSwap, At
<1>16. CASE MergeClean(t)  BY <1>0, <1>16, Moves DEF MergeClean, At
<1>17. CASE ReindexCollect(t)  BY <1>0, <1>17, Moves DEF ReindexCollect, At
<1>18. CASE ReindexOldIds(t)  BY <1>0, <1>18, Moves DEF ReindexOldIds, At
<1>19. CASE ReindexSwap(t)  BY <1>0, <1>19, Moves DEF ReindexSwap, At
<1>20. CASE ReindexClean(t)  BY <1>0, <1>20, Moves DEF ReindexClean, At
<1>21. CASE ReindexTruncate(t)  BY <1>0, <1>21, Moves DEF ReindexTruncate, At
<1>22. CASE DeleteBitmapFails(t)  BY <1>0, <1>22, Moves DEF DeleteBitmapFails, At
<1>23. CASE WriteFails(t)  BY <1>0, <1>23, Moves DEF WriteFails
<1>24. CASE TruncateFails(t)  BY <1>0, <1>24, Moves DEF TruncateFails
<1>28. CASE CleanFails(t)  BY <1>0, <1>28, Moves DEF CleanFails
<1>25. CASE Call(t)  BY <1>1, <1>2, <1>29, <1>3, <1>4, <1>25 DEF Call
<1>26. CASE Section(t)
  BY <1>5, <1>6, <1>7, <1>8, <1>9, <1>10, <1>11, <1>12, <1>13, <1>14, <1>15, <1>16,
     <1>17, <1>18, <1>19, <1>20, <1>21, <1>26 DEF Section
<1>27. CASE SectionFails(t)  BY <1>22, <1>23, <1>24, <1>28, <1>27 DEF SectionFails
<1>. QED  BY <1>25, <1>26, <1>27

\* The invariant holds in a new shard.
LEMMA SegmentInvInit == Init => SegmentInv
<1> SUFFICES ASSUME Init PROVE SegmentInv  OBVIOUS
<1>1. TypeOK  BY TypeInit
<1>2. /\ DOMAIN disk = {} /\ segs = << >> /\ up /\ \A id \in DocIds : docMap[id] = NoLoc
      /\ DOMAIN segs = {}
  BY DEF Init, SegInit
<1>3. \A t \in Threads : th[t].pc = "idle"  BY DEF Init, Idle, Serving
<1>4. \A t \in Threads : ~Building(t) /\ ~Built(t) /\ ~Replacing(t)
                         /\ th[t].pc \notin CleanPcs /\ th[t].pc # "m_swap"
  BY <1>3 DEF Building, Built, Replacing, WritePcs, CleanPcs
<1>5. ListedOnDisk  BY <1>2 DEF ListedOnDisk
<1>6. DocMapSound  BY <1>2 DEF DocMapSound
<1>7. IdsAllocated  BY <1>2, <1>4 DEF IdsAllocated
<1>8. BuildersApart  BY <1>4 DEF BuildersApart
<1>9. BuiltOnDisk  BY <1>4 DEF BuiltOnDisk
<1>10. RemovedUnlisted  BY <1>4 DEF RemovedUnlisted
<1>11. MergeCovers  BY <1>4 DEF MergeCovers
<1>12. DownIsEmpty  BY <1>2 DEF DownIsEmpty
<1>13. DeleteArg  BY <1>3 DEF DeleteArg
<1>. QED  BY <1>1, <1>5, <1>6, <1>7, <1>8, <1>9, <1>10, <1>11, <1>12, <1>13 DEF SegmentInv

\* Every step of any thread, any failure, crash or restart preserves it.
LEMMA SegmentInvStep == SegmentInv /\ [Next]_vars => SegmentInv'
<1> SUFFICES ASSUME SegmentInv, [Next]_vars PROVE SegmentInv'  OBVIOUS
<1>1. TypeOK'  BY TypeStep
<1>2. ASSUME NEW t \in Threads, Call(t) \/ Section(t) \/ SectionFails(t)
      PROVE  Ownership' /\ DownIsEmpty' /\ DeleteArg'
  <2>1. Ownership'  BY <1>2, OwnThread
  <2>2. DownIsEmpty'  BY <1>2, ThreadSteps DEF DownIsEmpty
  <2>3. DeleteArg'
    BY <1>2, ThreadSteps DEF SegmentInv, DeleteArg, OthersKept
  <2>. QED  BY <2>1, <2>2, <2>3
<1>3. CASE Crash
  <2>1. Ownership'  BY <1>3, OwnCrash
  <2>2. segs' = << >> /\ \A t \in Threads : th'[t] = Idle  BY <1>3, CrashDisk
  <2>3. DownIsEmpty'  BY <2>2 DEF DownIsEmpty, Idle, Serving
  <2>4. DeleteArg'  BY <2>2 DEF DeleteArg, Idle, Serving
  <2>. QED  BY <1>1, <2>1, <2>3, <2>4 DEF SegmentInv, Ownership
<1>4. CASE Open
  <2>1. Ownership'  BY <1>4, OwnOpen
  <2>2. up' /\ th' = th  BY <1>4 DEF Open
  <2>3. DownIsEmpty'  BY <2>2 DEF DownIsEmpty
  <2>4. DeleteArg'  BY <2>2 DEF SegmentInv, DeleteArg
  <2>. QED  BY <1>1, <2>1, <2>3, <2>4 DEF SegmentInv, Ownership
<1>5. CASE UNCHANGED vars
  <2>1. UNCHANGED <<disk, segs, docMap, nextSegSeq, th, up>>
    BY <1>5 DEF vars, segVars, engineVars
  <2>2. ListedOnDisk' /\ DocMapSound'
    BY <2>1, ListedKept DEF SegmentInv, ListedOnDisk
  <2>3. IdsAllocated' /\ BuildersApart' /\ BuiltOnDisk' /\ RemovedUnlisted'
    BY <2>1 DEF SegmentInv, IdsAllocated, BuildersApart, BuiltOnDisk, RemovedUnlisted,
                Building, Built, Replacing, NewDir
  <2>4. MergeCovers' /\ DownIsEmpty' /\ DeleteArg'
    BY <2>1 DEF SegmentInv, MergeCovers, DownIsEmpty, DeleteArg, Live, Range, Idle, Serving
  <2>. QED  BY <1>1, <2>2, <2>3, <2>4 DEF SegmentInv
<1>. QED  BY <1>1, <1>2, <1>3, <1>4, <1>5 DEF Next, Stop, SegmentInv, Ownership

\* Whatever the threads, the calls, the buffer and merge settings and the
\* failures: segment ids, directories, the list and the map stay consistent.
THEOREM SegmentsSafe == Spec => []SegmentInv
BY SegmentInvInit, SegmentInvStep, PTL DEF Spec

\* The types of all variables, in every reachable state.
THEOREM Typing == Spec => []TypeOK
<1>1. SegmentInv => TypeOK  BY DEF SegmentInv
<1>. QED  BY <1>1, SegmentsSafe, PTL

\* The directories that flush, run_merge and reindex_self write and remove with
\* no lock held never collide with those of listed segments.
THEOREM DirectoriesSafe == Spec => []ListedOnDisk
<1>1. SegmentInv => ListedOnDisk  BY DEF SegmentInv
<1>. QED  BY <1>1, SegmentsSafe, PTL

\* doc_id_map leads get_docs and mark_deleted to a live copy of the id.
THEOREM MapSafe == Spec => []DocMapSound
<1>1. SegmentInv => DocMapSound  BY DEF SegmentInv
<1>. QED  BY <1>1, SegmentsSafe, PTL

\* replace_segments by run_merge drops no document from the list.
THEOREM MergeSafe == Spec => MergeKeepsDocs
<1>1. ASSUME SegmentInv, NEW t \in Threads, MergeSwap(t)
      PROVE  ListedDocs \subseteq ListedDocs'
  <2> DEFINE K == {i \in DOMAIN segs : segs[i].id \notin th[t].old}
             kept == Retain(segs, K)
             e == NewEntry(th[t].seg, th[t].docs)
             n == Len(kept) + 1
  <2>0. segs \in Seq(Entry) /\ K \in SUBSET DOMAIN segs /\ th[t].docs \in Seq(Document)
    BY <1>1, ThreadFacts
  <2>1. segs' = Append(kept, e) /\ th[t].pc = "m_swap"
    BY <1>1 DEF MergeSwap, ReplaceSegments, At
  <2>2. e.docs = th[t].docs /\ Live(e) = DOMAIN th[t].docs  BY DEF NewEntry, Live
  <2>3. \A i \in DOMAIN segs : i \notin K => segs[i].id \in th[t].old  OBVIOUS
  <2>. HIDE DEF K, e
  <2>4. kept \in Seq(Entry) /\ \A i \in K : \E k \in DOMAIN kept : kept[k] = segs[i]
    BY <2>0, RetainProperties
  <2>. HIDE DEF kept
  <2>5. DOMAIN segs' = DOMAIN kept \cup {n} /\ segs'[n] = e
        /\ \A k \in DOMAIN kept : segs'[k] = kept[k]
    BY <2>1, <2>4
  <2>. HIDE DEF n
  <2>6. ASSUME NEW i \in DOMAIN segs, NEW l \in Live(segs[i])
        PROVE  \E k \in DOMAIN segs' : \E m \in Live(segs'[k]) : segs'[k].docs[m] = segs[i].docs[l]
    <3>1. CASE i \in K  BY <2>4, <2>5, <3>1
    <3>2. CASE i \notin K
      <4>1. segs[i].docs[l] \in Range(th[t].docs)
        BY <1>1, <2>1, <2>3, <3>2 DEF SegmentInv, MergeCovers
      <4>2. PICK m \in DOMAIN th[t].docs : th[t].docs[m] = segs[i].docs[l]
        BY <4>1 DEF Range
      <4>. QED  BY <2>2, <2>5, <4>2
    <3>. QED  BY <3>1, <3>2
  <2>. QED  BY <2>6 DEF ListedDocs, Live
<1>2. SegmentInv =>
          (\A t \in Threads : MergeSwap(t) => ListedDocs \subseteq ListedDocs')
  BY <1>1
<1>3. SegmentInv =>
          [\A t \in Threads : MergeSwap(t) => ListedDocs \subseteq ListedDocs']_vars
  BY <1>2
<1>. QED  BY <1>3, SegmentsSafe, PTL DEF MergeKeepsDocs
=============================================================================
