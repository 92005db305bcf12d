--------------------------- MODULE ReplicationProofs ---------------------------
(***************************************************************************)
(* Proofs about replication, for any replicas, writers, batches and        *)
(* document ids, any buffer capacity and any number of failures: types,    *)
(* and that a replica that serves lacks a document only for a named cause  *)
(* (OnlyExcusedMissing).  The inductive invariant is ReplicationInv.       *)
(***************************************************************************)
EXTENDS Replication, ShardTypesProofs

-----------------------------------------------------------------------------
(* Lists of documents and stores *)

\* The position doc_id_map leads to is a number.
LEMMA LastAtType ==
    ASSUME NEW seg \in Seq(Document), NEW skip, NEW i
    PROVE  LastAt(seg, skip, i) \in Nat
<1> DEFINE S == {0} \cup {k \in DOMAIN seg : seg[k].id = i /\ k \notin skip}
<1>1. Len(seg) \in Nat /\ DOMAIN seg = 1..Len(seg)  OBVIOUS
<1>2. S \in SUBSET (0..Len(seg)) /\ 0 \in S  BY <1>1
<1>3. S \in SUBSET Nat  BY <1>1, <1>2
<1>4. IsFiniteSet(S)
  <2>1. IsFiniteSet(0..Len(seg))  BY <1>1, FS_Interval
  <2>. QED  BY <1>2, <2>1, FS_Subset
<1>5. Max(S) \in S  BY <1>2, <1>3, <1>4, MaxProperties
<1>. QED  BY <1>3, <1>5 DEF LastAt

\* Two lists joined hold the elements of both.
LEMMA JoinedLists ==
    ASSUME NEW S, NEW s \in Seq(S), NEW t \in Seq(S)
    PROVE  /\ s \o t \in Seq(S)
           /\ DOMAIN (s \o t) = 1..(Len(s) + Len(t))
           /\ \A k \in DOMAIN s : k \in DOMAIN (s \o t) /\ (s \o t)[k] = s[k]
           /\ \A k \in DOMAIN t : /\ Len(s) + k \in DOMAIN (s \o t)
                                  /\ (s \o t)[Len(s) + k] = t[k]
           /\ \A k \in DOMAIN (s \o t) :
                 \/ k \in DOMAIN s /\ (s \o t)[k] = s[k]
                 \/ k - Len(s) \in DOMAIN t /\ (s \o t)[k] = t[k - Len(s)]
OBVIOUS

LEMMA JoinedDocs ==
    ASSUME NEW s \in Seq(Document), NEW t \in Seq(Document)
    PROVE  s \o t \in Seq(Document) /\ ToSet(s \o t) = ToSet(s) \cup ToSet(t)
<1> DEFINE st == s \o t
<1>1. /\ st \in Seq(Document)
      /\ \A k \in DOMAIN s : k \in DOMAIN st /\ st[k] = s[k]
      /\ \A k \in DOMAIN t : Len(s) + k \in DOMAIN st /\ st[Len(s) + k] = t[k]
      /\ \A k \in DOMAIN st : \/ k \in DOMAIN s /\ st[k] = s[k]
                              \/ k - Len(s) \in DOMAIN t /\ st[k] = t[k - Len(s)]
  BY JoinedLists
<1>. HIDE DEF st
<1>2. ASSUME NEW d \in ToSet(st) PROVE d \in ToSet(s) \cup ToSet(t)
  <2>1. PICK k \in DOMAIN st : st[k] = d  BY DEF ToSet
  <2>. QED  BY <1>1, <2>1 DEF ToSet
<1>3. ASSUME NEW d \in ToSet(s) \cup ToSet(t) PROVE d \in ToSet(st)
  BY <1>1 DEF ToSet
<1>4. ToSet(st) = ToSet(s) \cup ToSet(t)  BY <1>2, <1>3
<1>. QED  BY <1>1, <1>4 DEF st

\* A list's elements are of its type.
LEMMA ElementsTyped ==
    ASSUME NEW S, NEW s \in Seq(S)
    PROVE  ToSet(s) \in SUBSET S
<1>1. \A k \in DOMAIN s : s[k] \in S  OBVIOUS
<1>. QED  BY <1>1 DEF ToSet

\* Documents that are added are buffered.
LEMMA AddedDocs ==
    ASSUME NEW s \in Store, NEW docs \in Seq(Document)
    PROVE  /\ Added(s, docs) \in Store
           /\ SegmentDocs(Added(s, docs)) = SegmentDocs(s)
           /\ BufferDocs(Added(s, docs)) = BufferDocs(s) \cup ToSet(docs)
           /\ Added(s, docs).buf = s.buf \o docs
<1>0. s.buf \in Seq(Document)  BY DEF Store
<1> DEFINE b == s.buf \o docs
<1>1. b \in Seq(Document) /\ ToSet(b) = ToSet(s.buf) \cup ToSet(docs)  BY <1>0, JoinedDocs
<1>2. Added(s, docs) = [s EXCEPT !.buf = b]  BY DEF Added
<1>. HIDE DEF b
<1>3. Added(s, docs) \in Store  BY <1>1, <1>2 DEF Store
<1>4. Added(s, docs).buf = b /\ Added(s, docs).seg = s.seg  BY <1>2 DEF Store
<1>. QED  BY <1>1, <1>3, <1>4 DEF SegmentDocs, BufferDocs, b

\* A drain empties the buffer.
LEMMA DrainedDocs ==
    ASSUME NEW s \in Store
    PROVE  /\ Drained(s) \in Store
           /\ SegmentDocs(Drained(s)) = SegmentDocs(s)
           /\ BufferDocs(Drained(s)) = {}
<1>1. << >> \in Seq(Document) /\ {} \in SUBSET DocIds  OBVIOUS
<1>2. Drained(s) = [s EXCEPT !.buf = << >>, !.del = {}]  BY DEF Drained
<1>3. Drained(s) \in Store  BY <1>1, <1>2 DEF Store
<1>4. Drained(s).buf = << >> /\ Drained(s).seg = s.seg  BY <1>2 DEF Store
<1>5. BufferDocs(Drained(s)) = {}  BY <1>4 DEF BufferDocs, ToSet
<1>. QED  BY <1>3, <1>4, <1>5 DEF SegmentDocs

\* A published segment adds its documents to the segments.
LEMMA PublishedDocs ==
    ASSUME NEW s \in Store, NEW docs \in Seq(Document)
    PROVE  /\ Published(s, docs) \in Store
           /\ SegmentDocs(Published(s, docs)) = SegmentDocs(s) \cup ToSet(docs)
           /\ BufferDocs(Published(s, docs)) = BufferDocs(s)
<1> DEFINE seg == s.seg \o docs
           at  == [i \in DocIds |-> IF \E k \in DOMAIN docs : docs[k].id = i
                                    THEN LastAt(seg, {}, i) ELSE s.at[i]]
<1>0. s.seg \in Seq(Document) /\ s.at \in [DocIds -> Nat]  BY DEF Store
<1>1. seg \in Seq(Document) /\ ToSet(seg) = ToSet(s.seg) \cup ToSet(docs)
  BY <1>0, JoinedDocs
<1>2. at \in [DocIds -> Nat]
  <2>1. \A i \in DocIds : LastAt(seg, {}, i) \in Nat  BY <1>1, LastAtType
  <2>. HIDE DEF seg
  <2>. QED  BY <1>0, <2>1
<1>3. Published(s, docs) = [s EXCEPT !.seg = seg, !.at = at]  BY DEF Published
<1>. HIDE DEF seg, at
<1>4. Published(s, docs) \in Store  BY <1>1, <1>2, <1>3 DEF Store
<1>5. Published(s, docs).buf = s.buf /\ Published(s, docs).seg = seg  BY <1>3 DEF Store
<1>. QED  BY <1>1, <1>4, <1>5 DEF SegmentDocs, BufferDocs

\* The segment that takes the place of the others holds docs.
LEMMA ReplacedDocs ==
    ASSUME NEW s \in Store, NEW docs \in Seq(Document)
    PROVE  /\ Replaced(s, docs) \in Store
           /\ SegmentDocs(Replaced(s, docs)) = ToSet(docs)
           /\ BufferDocs(Replaced(s, docs)) = BufferDocs(s)
<1> DEFINE at == [i \in DocIds |-> LastAt(docs, {}, i)]
<1>1. at \in [DocIds -> Nat]
  <2>1. \A i \in DocIds : LastAt(docs, {}, i) \in Nat  BY LastAtType
  <2>. QED  BY <2>1
<1>2. Replaced(s, docs) = [s EXCEPT !.seg = docs, !.gone = {}, !.hidden = {}, !.at = at]
  BY DEF Replaced
<1>3. {} \in SUBSET Nat  OBVIOUS
<1>. HIDE DEF at
<1>4. Replaced(s, docs) \in Store  BY <1>1, <1>2, <1>3 DEF Store
<1>5. Replaced(s, docs).buf = s.buf /\ Replaced(s, docs).seg = docs  BY <1>2 DEF Store
<1>. QED  BY <1>4, <1>5 DEF SegmentDocs, BufferDocs

\* Marking a deletion leaves the documents where they are.
LEMMA MarkedDocs ==
    ASSUME NEW s \in Store, NEW i \in DocIds
    PROVE  /\ MarkedInBuffer(s, i) \in Store
           /\ SegmentDocs(MarkedInBuffer(s, i)) = SegmentDocs(s)
           /\ BufferDocs(MarkedInBuffer(s, i)) = BufferDocs(s)
           /\ MarkedInSegments(s, i) \in Store
           /\ SegmentDocs(MarkedInSegments(s, i)) = SegmentDocs(s)
           /\ BufferDocs(MarkedInSegments(s, i)) = BufferDocs(s)
<1> DEFINE del  == s.del \cup {i}
           gone == IF s.at[i] = 0 THEN s.gone ELSE s.gone \cup {s.at[i]}
           at   == [s.at EXCEPT ![i] = 0]
<1>0. /\ s.at \in [DocIds -> Nat] /\ s.del \in SUBSET DocIds /\ s.gone \in SUBSET Nat
  BY DEF Store
<1>1. del \in SUBSET DocIds /\ gone \in SUBSET Nat /\ at \in [DocIds -> Nat]
  BY <1>0
<1>2. /\ MarkedInBuffer(s, i) = [s EXCEPT !.del = del]
      /\ MarkedInSegments(s, i) = [s EXCEPT !.gone = gone, !.at = at]
  BY DEF MarkedInBuffer, MarkedInSegments
<1>. HIDE DEF del, gone, at
<1>3. MarkedInBuffer(s, i) \in Store /\ MarkedInSegments(s, i) \in Store
  BY <1>1, <1>2 DEF Store
<1>4. /\ MarkedInBuffer(s, i).buf = s.buf /\ MarkedInBuffer(s, i).seg = s.seg
      /\ MarkedInSegments(s, i).buf = s.buf /\ MarkedInSegments(s, i).seg = s.seg
  BY <1>2 DEF Store
<1>. QED  BY <1>3, <1>4 DEF SegmentDocs, BufferDocs

\* A restart keeps the segments, without the positions deletions.bin names.
LEMMA ReopenedDocs ==
    ASSUME NEW s \in Store
    PROVE  /\ Reopened(s) \in Store
           /\ SegmentDocs(Reopened(s)) = SegmentDocs(s)
           /\ BufferDocs(Reopened(s)) = {}
<1> DEFINE at == [i \in DocIds |-> LastAt(s.seg, s.gone, i)]
<1>0. s.seg \in Seq(Document) /\ s.gone \in SUBSET Nat  BY DEF Store
<1>1. at \in [DocIds -> Nat]
  <2>1. \A i \in DocIds : LastAt(s.seg, s.gone, i) \in Nat  BY <1>0, LastAtType
  <2>. QED  BY <2>1
<1>2. << >> \in Seq(Document) /\ {} \in SUBSET DocIds  OBVIOUS
<1>3. Reopened(s) = [s EXCEPT !.buf = << >>, !.del = {}, !.hidden = s.gone, !.at = at]
  BY DEF Reopened
<1>. HIDE DEF at
<1>4. Reopened(s) \in Store  BY <1>0, <1>1, <1>2, <1>3 DEF Store
<1>5. /\ Reopened(s).buf = << >> /\ Reopened(s).seg = s.seg
      /\ Reopened(s).hidden = s.gone /\ Reopened(s).gone = s.gone
  BY <1>3 DEF Store
<1>6. BufferDocs(Reopened(s)) = {}  BY <1>5 DEF BufferDocs, ToSet
<1>. QED  BY <1>4, <1>5, <1>6 DEF SegmentDocs

\* The documents of a list of records, as LoggedDocs has them.
RecordDocs(log) == {log[k].entry.doc : k \in {j \in DOMAIN log : log[j].entry.op = "index"}}

\* The replay buffers the documents of the log and leaves the segments.
LEMMA ReplayedDocs ==
    ASSUME NEW s \in Store, NEW log \in Seq(WalRecord)
    PROVE  /\ Replayed(s, log) \in Store
           /\ SegmentDocs(Replayed(s, log)) = SegmentDocs(s)
           /\ BufferDocs(Replayed(s, log)) = RecordDocs(log)
<1> DEFINE docs    == [k \in DOMAIN log |-> log[k].entry.doc]
           indexed == {k \in DOMAIN log : log[k].entry.op = "index"}
           deleted == {docs[k].id : k \in DOMAIN log \ indexed}
           buf     == Retain(docs, indexed)
           gone    == s.gone \cup ({s.at[i] : i \in deleted} \ {0})
           at      == [i \in DocIds |-> IF i \in deleted THEN 0 ELSE s.at[i]]
<1>0. s.at \in [DocIds -> Nat] /\ s.gone \in SUBSET Nat  BY DEF Store
<1>1. \A k \in DOMAIN log : log[k] \in WalRecord  OBVIOUS
<1>2. \A k \in DOMAIN log : log[k].entry.doc \in Document
  BY <1>1 DEF WalRecord, WalEntry
<1>3. docs \in Seq(Document) /\ DOMAIN docs = DOMAIN log  BY <1>2
<1>4. deleted \in SUBSET DocIds  BY <1>2 DEF Document
<1>5. gone \in SUBSET Nat /\ at \in [DocIds -> Nat] /\ s.gone \subseteq gone
  <2>. HIDE DEF deleted
  <2>. QED  BY <1>0, <1>4
<1>6. /\ buf \in Seq(Document)
      /\ \A i \in indexed : \E k \in DOMAIN buf : buf[k] = docs[i]
      /\ \A k \in DOMAIN buf : \E i \in indexed : buf[k] = docs[i]
  <2>1. indexed \in SUBSET DOMAIN docs  BY <1>3
  <2>. HIDE DEF docs, indexed
  <2>. QED  BY <1>3, <2>1, RetainProperties
<1>7. Replayed(s, log) = [s EXCEPT !.buf = buf, !.del = deleted, !.gone = gone, !.at = at]
  BY DEF Replayed
<1>8. RecordDocs(log) = {docs[k] : k \in indexed}  BY DEF RecordDocs
<1>. HIDE DEF docs, indexed, deleted, buf, gone, at
<1>9. Replayed(s, log) \in Store  BY <1>4, <1>5, <1>6, <1>7 DEF Store
<1>10. /\ Replayed(s, log).buf = buf /\ Replayed(s, log).seg = s.seg
       /\ Replayed(s, log).hidden = s.hidden /\ Replayed(s, log).gone = gone
  BY <1>7 DEF Store
<1>11. BufferDocs(Replayed(s, log)) = RecordDocs(log)
  <2>1. BufferDocs(Replayed(s, log)) = {buf[k] : k \in DOMAIN buf}  BY <1>10 DEF BufferDocs, ToSet
  <2>. QED  BY <1>6, <1>8, <2>1
<1>12. SegmentDocs(Replayed(s, log)) = SegmentDocs(s)  BY <1>10 DEF SegmentDocs
<1>. QED  BY <1>9, <1>11, <1>12

\* all_live_docs lists the documents at the positions that are not hidden.
LEMMA LiveSegmentIs ==
    ASSUME NEW s \in Store
    PROVE  /\ LiveSegmentDocs(s) \in Seq(Document)
           /\ \A k \in DOMAIN LiveSegmentDocs(s) :
                 \E x \in DOMAIN s.seg \ s.hidden : LiveSegmentDocs(s)[k] = s.seg[x]
           /\ \A x \in DOMAIN s.seg \ s.hidden :
                 \E k \in DOMAIN LiveSegmentDocs(s) : LiveSegmentDocs(s)[k] = s.seg[x]
<1> DEFINE K    == DOMAIN s.seg \ s.hidden
           n    == Cardinality(K)
           ks   == Ascending(K)
           segs == LiveSegmentDocs(s)
<1>0. s.seg \in Seq(Document)  BY DEF Store
<1>1. DOMAIN s.seg = 1..Len(s.seg) /\ Len(s.seg) \in Nat  BY <1>0
<1>2. K \in SUBSET Nat /\ IsFiniteSet(K)
  <2>1. IsFiniteSet(1..Len(s.seg))  BY <1>1, FS_Interval
  <2>2. K \in SUBSET (1..Len(s.seg))  BY <1>1
  <2>. QED  BY <2>1, <2>2, FS_Subset
<1>3. /\ ks \in Seq(K) /\ DOMAIN ks = 1..n /\ n \in Nat
      /\ \A x \in K : \E k \in DOMAIN ks : ks[k] = x
  <2>1. ks \in Seq(K) /\ \A x \in K : \E k \in DOMAIN ks : ks[k] = x
    BY <1>2, AscendingProperties
  <2>2. n \in Nat  BY <1>2, FS_CardinalityType
  <2>3. DOMAIN ks = 1..n  BY DEF Ascending
  <2>. QED  BY <2>1, <2>2, <2>3
<1>4. segs = [k \in 1..n |-> s.seg[ks[k]]]  BY DEF LiveSegmentDocs
<1>5. K \subseteq DOMAIN s.seg  OBVIOUS
<1>. HIDE DEF K, n, ks, segs
<1>6. \A k \in 1..n : ks[k] \in K  BY <1>3
<1>7. \A k \in 1..n : s.seg[ks[k]] \in Document  BY <1>0, <1>5, <1>6
<1>8. segs \in [1..n -> Document] /\ DOMAIN segs = 1..n  BY <1>4, <1>7
<1>9. segs \in Seq(Document)  BY <1>3, <1>8
<1>10. \A k \in DOMAIN segs : \E x \in K : segs[k] = s.seg[x]  BY <1>4, <1>6, <1>8
<1>11. \A x \in K : \E k \in DOMAIN segs : segs[k] = s.seg[x]  BY <1>3, <1>4, <1>8
<1>. QED  BY <1>9, <1>10, <1>11 DEF segs, K

\* What is shown is stored.
LEMMA ShownStored ==
    ASSUME NEW s \in Store
    PROVE  /\ LiveSegmentDocs(s) \in Seq(Document) /\ LiveBufferDocs(s) \in Seq(Document)
           /\ ToSet(LiveSegmentDocs(s)) \subseteq SegmentDocs(s)
           /\ ToSet(LiveBufferDocs(s)) \subseteq BufferDocs(s)
           /\ Shown(s) \subseteq StoredDocs(s)
<1>0. s.buf \in Seq(Document) /\ s.seg \in Seq(Document)  BY DEF Store
<1> DEFINE keep == {k \in DOMAIN s.buf : s.buf[k].id \notin s.del}
           segs == LiveSegmentDocs(s)
           bufs == LiveBufferDocs(s)
<1>1. /\ segs \in Seq(Document)
      /\ \A k \in DOMAIN segs : \E x \in DOMAIN s.seg \ s.hidden : segs[k] = s.seg[x]
  BY LiveSegmentIs
<1>2. bufs = Retain(s.buf, keep)  BY DEF LiveBufferDocs
<1>3. /\ bufs \in Seq(Document)
      /\ \A k \in DOMAIN bufs : \E i \in keep : bufs[k] = s.buf[i]
  <2>1. keep \in SUBSET DOMAIN s.buf  OBVIOUS
  <2>. HIDE DEF keep
  <2>. QED  BY <1>0, <1>2, <2>1, RetainProperties
<1>. HIDE DEF segs, bufs
<1>4. ToSet(segs) \subseteq SegmentDocs(s)  BY <1>1 DEF ToSet, SegmentDocs
<1>5. ToSet(bufs) \subseteq BufferDocs(s)  BY <1>3 DEF ToSet, BufferDocs
<1>6. Shown(s) = ToSet(segs) \cup ToSet(bufs)  BY DEF Shown, segs, bufs
<1>. QED  BY <1>1, <1>3, <1>4, <1>5, <1>6 DEF StoredDocs, segs, bufs

-----------------------------------------------------------------------------
(* Channels, streams and the log *)

\* The documents of one entry.
LEMMA DocsOfOne ==
    ASSUME NEW e \in WalEntry
    PROVE  DocsIn(<<e>>) = IF e.op = "index" THEN {e.doc} ELSE {}
<1>1. DOMAIN <<e>> = {1} /\ <<e>>[1] = e  OBVIOUS
<1>. QED  BY <1>1 DEF DocsIn

\* The documents of two lists of entries joined.
LEMMA DocsOfJoined ==
    ASSUME NEW p \in Seq(WalEntry), NEW q \in Seq(WalEntry)
    PROVE  p \o q \in Seq(WalEntry) /\ DocsIn(p \o q) = DocsIn(p) \cup DocsIn(q)
<1> DEFINE pq == p \o q
<1>1. /\ pq \in Seq(WalEntry)
      /\ \A k \in DOMAIN p : k \in DOMAIN pq /\ pq[k] = p[k]
      /\ \A k \in DOMAIN q : Len(p) + k \in DOMAIN pq /\ pq[Len(p) + k] = q[k]
      /\ \A k \in DOMAIN pq : \/ k \in DOMAIN p /\ pq[k] = p[k]
                              \/ k - Len(p) \in DOMAIN q /\ pq[k] = q[k - Len(p)]
  BY JoinedLists
<1>. HIDE DEF pq
<1>2. ASSUME NEW d \in DocsIn(pq) PROVE d \in DocsIn(p) \cup DocsIn(q)
  <2>1. PICK k \in DOMAIN pq : pq[k].op = "index" /\ d = pq[k].doc  BY DEF DocsIn
  <2>. QED  BY <1>1, <2>1 DEF DocsIn
<1>3. ASSUME NEW d \in DocsIn(p) PROVE d \in DocsIn(pq)
  <2>1. PICK k \in DOMAIN p : p[k].op = "index" /\ d = p[k].doc  BY DEF DocsIn
  <2>. QED  BY <1>1, <2>1 DEF DocsIn
<1>4. ASSUME NEW d \in DocsIn(q) PROVE d \in DocsIn(pq)
  <2>1. PICK k \in DOMAIN q : q[k].op = "index" /\ d = q[k].doc  BY DEF DocsIn
  <2>. QED  BY <1>1, <2>1 DEF DocsIn
<1>5. DocsIn(pq) = DocsIn(p) \cup DocsIn(q)  BY <1>2, <1>3, <1>4
<1>. QED  BY <1>1, <1>5 DEF pq

LEMMA DocsOfTail ==
    ASSUME NEW q \in Seq(WalEntry), q # << >>
    PROVE  /\ Head(q) \in WalEntry /\ Tail(q) \in Seq(WalEntry)
           /\ DocsIn(q) \subseteq DocsIn(<<Head(q)>>) \cup DocsIn(Tail(q))
<1>1. Head(q) \in WalEntry /\ Tail(q) \in Seq(WalEntry) /\ Head(q) = q[1]  OBVIOUS
<1>2. /\ DOMAIN q = 1..Len(q) /\ Len(q) \in Nat
      /\ DOMAIN Tail(q) = 1..(Len(q) - 1)
      /\ \A k \in 1..(Len(q) - 1) : Tail(q)[k] = q[k + 1]
  OBVIOUS
<1>3. ASSUME NEW k \in DOMAIN q, q[k].op = "index"
      PROVE  q[k].doc \in DocsIn(<<Head(q)>>) \cup DocsIn(Tail(q))
  <2>1. CASE k = 1
    <3>1. Head(q).op = "index" /\ q[k].doc = Head(q).doc  BY <1>1, <1>3, <2>1
    <3>. QED  BY <1>1, <3>1, DocsOfOne
  <2>2. CASE k # 1
    <3>1. k - 1 \in DOMAIN Tail(q) /\ Tail(q)[k - 1] = q[k]  BY <1>2, <2>2
    <3>. QED  BY <1>3, <3>1 DEF DocsIn
  <2>. QED  BY <2>1, <2>2
<1>4. \A d \in DocsIn(q) : \E k \in DOMAIN q : q[k].op = "index" /\ d = q[k].doc
  BY DEF DocsIn
<1>. QED  BY <1>1, <1>3, <1>4

\* An entry put at the end adds its document.
LEMMA DocsOfAppended ==
    ASSUME NEW q \in Seq(WalEntry), NEW e \in WalEntry
    PROVE  /\ Append(q, e) \in Seq(WalEntry)
           /\ DocsIn(Append(q, e)) = DocsIn(q) \cup DocsIn(<<e>>)
<1>1. <<e>> \in Seq(WalEntry) /\ Append(q, e) = q \o <<e>>  OBVIOUS
<1>. QED  BY <1>1, DocsOfJoined

\* The entries of a channel, or of records, seen as a list.
LEMMA EntriesType ==
    ASSUME NEW R, \A x \in R : x.entry \in WalEntry, NEW q \in Seq(R)
    PROVE  EntriesOf(q) \in Seq(WalEntry) /\ DOMAIN EntriesOf(q) = DOMAIN q
<1>1. DOMAIN q = 1..Len(q) /\ Len(q) \in Nat /\ \A k \in DOMAIN q : q[k] \in R  OBVIOUS
<1>2. EntriesOf(q) = [k \in 1..Len(q) |-> q[k].entry]  BY <1>1 DEF EntriesOf
<1>3. EntriesOf(q) \in [1..Len(q) -> WalEntry]  BY <1>1, <1>2
<1>. QED  BY <1>1, <1>3

\* The documents of records, read from the records.
LEMMA RecordDocsAre ==
    ASSUME NEW f \in Seq(WalRecord)
    PROVE  DocsIn(EntriesOf(f)) = RecordDocs(f) /\ RecordDocs(f) \in SUBSET Document
<1>1. DOMAIN EntriesOf(f) = DOMAIN f /\ \A k \in DOMAIN f : EntriesOf(f)[k] = f[k].entry
  BY DEF EntriesOf
<1>2. \A k \in DOMAIN f : f[k] \in WalRecord  OBVIOUS
<1>3. \A k \in DOMAIN f : f[k].entry.doc \in Document  BY <1>2 DEF WalRecord, WalEntry
<1>. QED  BY <1>1, <1>3 DEF DocsIn, RecordDocs

\* LoggedDocs are the documents of the whole log when no record is damaged.
LEMMA LoggedAre ==
    ASSUME WalTypeOK, LogWhole
    PROVE  /\ LoggedDocs = RecordDocs(walFile) /\ LoggedDocs \in SUBSET Document
           /\ LoggedDocs = RecordDocs(ReadRecords(walFile))
           /\ ReadRecords(walFile) \in Seq(WalRecord)
<1> DEFINE log == ReadRecords(walFile)
           n   == ReadableLen(walFile)
<1>0. walFile \in Seq(WalRecord) /\ Len(walFile) \in Nat /\ DOMAIN walFile = 1..Len(walFile)
  BY DEF WalTypeOK
<1>1. n = Len(walFile)  BY <1>0, WholeLogRead DEF LogWhole
<1>2. /\ log \in Seq(WalRecord) /\ DOMAIN log = 1..n
      /\ \A i \in 1..n : log[i] = walFile[i]
  BY <1>0, ReadableProperties
<1>. HIDE DEF log, n
<1>3. DOMAIN log = DOMAIN walFile /\ \A i \in DOMAIN walFile : log[i] = walFile[i]
  BY <1>0, <1>1, <1>2
<1>4. LoggedDocs = RecordDocs(log) /\ LoggedDocs \in SUBSET Document
  BY <1>2, RecordDocsAre DEF LoggedDocs, log
<1>5. RecordDocs(log) = RecordDocs(walFile)  BY <1>3 DEF RecordDocs
<1>. QED  BY <1>2, <1>4, <1>5 DEF log

\* An append adds the documents of its entries to the log.
LEMMA LogAppended ==
    ASSUME WalTypeOK, LogWhole, NEW entries \in Seq(WalEntry), AppendBatch(entries)
    PROVE  WalTypeOK' /\ LogWhole' /\ LoggedDocs' = LoggedDocs \cup DocsIn(entries)
<1> DEFINE new == Numbered(entries, nextSeq)
           f   == walFile \o new
<1>0. walFile \in Seq(WalRecord) /\ nextSeq \in Nat /\ Len(entries) \in Nat
  BY DEF WalTypeOK
<1>1. new \in Seq(WalRecord) /\ Len(new) = Len(entries)  BY <1>0, NumberedType
<1>2. /\ DOMAIN new = DOMAIN entries
      /\ \A k \in DOMAIN entries : new[k].ok /\ new[k].entry = entries[k]
  BY <1>0 DEF Numbered
<1>3. walFile' = f /\ nextSeq' = nextSeq + Len(entries)  BY DEF AppendBatch
<1>. HIDE DEF new
<1>4. /\ f \in Seq(WalRecord)
      /\ \A k \in DOMAIN walFile : k \in DOMAIN f /\ f[k] = walFile[k]
      /\ \A k \in DOMAIN new : Len(walFile) + k \in DOMAIN f /\ f[Len(walFile) + k] = new[k]
      /\ \A k \in DOMAIN f : \/ k \in DOMAIN walFile /\ f[k] = walFile[k]
                             \/ k - Len(walFile) \in DOMAIN new /\ f[k] = new[k - Len(walFile)]
  BY <1>0, <1>1, JoinedLists
<1>. HIDE DEF f
<1>5. WalTypeOK'  BY <1>0, <1>3, <1>4 DEF WalTypeOK
<1>6. LogWhole'  BY <1>2, <1>3, <1>4 DEF LogWhole
<1>7. RecordDocs(f) = RecordDocs(walFile) \cup DocsIn(entries)
  <2>1. ASSUME NEW d \in RecordDocs(f) PROVE d \in RecordDocs(walFile) \cup DocsIn(entries)
    <3>1. PICK k \in DOMAIN f : f[k].entry.op = "index" /\ d = f[k].entry.doc
      BY DEF RecordDocs
    <3>2. CASE k \in DOMAIN walFile /\ f[k] = walFile[k]  BY <3>1, <3>2 DEF RecordDocs
    <3>3. CASE k - Len(walFile) \in DOMAIN new /\ f[k] = new[k - Len(walFile)]
      BY <1>2, <3>1, <3>3 DEF DocsIn
    <3>. QED  BY <1>4, <3>2, <3>3
  <2>2. ASSUME NEW d \in RecordDocs(walFile) PROVE d \in RecordDocs(f)
    BY <1>4 DEF RecordDocs
  <2>3. ASSUME NEW d \in DocsIn(entries) PROVE d \in RecordDocs(f)
    <3>1. PICK k \in DOMAIN entries : entries[k].op = "index" /\ d = entries[k].doc
      BY DEF DocsIn
    <3>2. Len(walFile) + k \in DOMAIN f /\ f[Len(walFile) + k].entry = entries[k]
      BY <1>2, <1>4
    <3>. QED  BY <3>1, <3>2 DEF RecordDocs
  <2>. QED  BY <2>1, <2>2, <2>3
<1>8. LoggedDocs = RecordDocs(walFile)  BY LoggedAre
<1>9. LoggedDocs' = RecordDocs(walFile')
  <2>1. (LoggedDocs = RecordDocs(walFile))'  BY <1>5, <1>6, LoggedAre, PTL
  <2>. QED  BY <2>1
<1>. QED  BY <1>3, <1>5, <1>6, <1>7, <1>8, <1>9

\* The truncated log holds nothing.
LEMMA LogTruncated ==
    ASSUME WalTypeOK, Truncate
    PROVE  WalTypeOK' /\ LogWhole' /\ LoggedDocs' = {}
<1>1. walFile' = << >> /\ nextSeq' = nextSeq  BY DEF Truncate
<1>2. WalTypeOK'  BY <1>1 DEF WalTypeOK
<1>3. LogWhole'  BY <1>1 DEF LogWhole
<1>4. LoggedDocs' = RecordDocs(walFile')
  <2>1. (LoggedDocs = RecordDocs(walFile))'  BY <1>2, <1>3, LoggedAre, PTL
  <2>. QED  BY <2>1
<1>5. RecordDocs(walFile') = {}  BY <1>1 DEF RecordDocs
<1>. QED  BY <1>2, <1>3, <1>4, <1>5

\* Opening the log leaves it as it is.
LEMMA LogOpened ==
    ASSUME WalTypeOK, LogWhole, WalOpen
    PROVE  WalTypeOK' /\ LogWhole' /\ LoggedDocs' = LoggedDocs
<1>1. walFile' = walFile /\ nextSeq' = SeqAfter(walFile)  BY DEF WalOpen
<1>2. WalTypeOK'  BY <1>1, SeqAfterType DEF WalTypeOK
<1>. QED  BY <1>1, <1>2 DEF LogWhole, LoggedDocs

\* replicate_catch_up streams every record: a replica always asks from 0 on.
LEMMA CatchUpStream ==
    ASSUME WalTypeOK, LogWhole, NEW r
    PROVE  /\ EntriesOf(ReadSince(walFile, OwnNextSeq(r))) \in Seq(WalEntry)
           /\ LoggedDocs \subseteq DocsIn(EntriesOf(ReadSince(walFile, OwnNextSeq(r))))
<1> DEFINE log  == ReadRecords(walFile)
           from == OwnNextSeq(r)
           keep == {k \in DOMAIN log : log[k].seq >= from}
           sent == Retain(log, keep)
<1>1. from = 0
  <2>1. << >> \in Seq(WalRecord) /\ Len(<< >>) = 0  OBVIOUS
  <2>2. ReadableLen(<< >>) \in 0..0  BY <2>1, ReadableProperties
  <2>. QED  BY <2>2 DEF OwnNextSeq, SeqAfter
<1>2. log \in Seq(WalRecord)  BY ReadableProperties DEF WalTypeOK
<1>3. keep = DOMAIN log
  <2>. HIDE DEF log, from
  <2>0. \A k \in DOMAIN log : log[k] \in WalRecord  BY <1>2
  <2>1. \A k \in DOMAIN log : log[k].seq \in Nat  BY <2>0 DEF WalRecord
  <2>2. \A n \in Nat : n >= from  BY <1>1
  <2>3. \A k \in DOMAIN log : log[k].seq >= from  BY <2>1, <2>2
  <2>. QED  BY <2>3
<1>4. /\ sent \in Seq(WalRecord)
      /\ \A i \in DOMAIN log : \E k \in DOMAIN sent : sent[k] = log[i]
  <2>. HIDE DEF log, keep
  <2>. QED  BY <1>2, <1>3, RetainProperties
<1>5. ReadSince(walFile, from) = sent  BY DEF ReadSince
<1>6. LoggedDocs = RecordDocs(log)  BY LoggedAre
<1>. HIDE DEF log, keep, sent, from
<1>7. EntriesOf(sent) \in Seq(WalEntry) /\ DOMAIN EntriesOf(sent) = DOMAIN sent
  <2>1. \A x \in WalRecord : x.entry \in WalEntry  BY DEF WalRecord
  <2>. QED  BY <1>4, <2>1, EntriesType
<1>8. ASSUME NEW d \in LoggedDocs PROVE d \in DocsIn(EntriesOf(sent))
  <2>1. PICK i \in DOMAIN log : log[i].entry.op = "index" /\ d = log[i].entry.doc
    BY <1>6 DEF RecordDocs
  <2>2. PICK k \in DOMAIN sent : sent[k] = log[i]  BY <1>4
  <2>3. EntriesOf(sent)[k] = log[i].entry  BY <2>2 DEF EntriesOf
  <2>. QED  BY <1>7, <2>1, <2>2, <2>3 DEF DocsIn
<1>. QED  BY <1>5, <1>7, <1>8 DEF from

\* full_sync streams the documents it was given.
LEMMA SyncStream ==
    ASSUME NEW live \in Seq(Document)
    PROVE  /\ AsEntries(live) \in Seq(WalEntry)
           /\ DocsIn(AsEntries(live)) = ToSet(live)
<1>1. \A d \in Document : IndexEntry(d) \in WalEntry /\ IndexEntry(d).op = "index" /\ IndexEntry(d).doc = d
  BY DEF IndexEntry, WalEntry
<1>2. DOMAIN live = 1..Len(live) /\ Len(live) \in Nat /\ \A k \in DOMAIN live : live[k] \in Document
  OBVIOUS
<1> DEFINE s == [k \in DOMAIN live |-> IndexEntry(live[k])]
<1>3. s \in Seq(WalEntry)  BY <1>1, <1>2
<1>4. DOMAIN s = DOMAIN live /\ \A k \in DOMAIN live : s[k].op = "index" /\ s[k].doc = live[k]
  BY <1>1, <1>2
<1>. HIDE DEF s
<1>5. DocsIn(s) = {live[k] : k \in DOMAIN live}  BY <1>4 DEF DocsIn
<1>. QED  BY <1>3, <1>5 DEF ToSet, AsEntries, s

LEMMA EntryTypes ==
    ASSUME NEW i \in DocIds, NEW n \in Nat
    PROVE  /\ IndexEntry([id |-> i, ver |-> n]) \in WalEntry
           /\ IndexEntry([id |-> i, ver |-> n]).op = "index"
           /\ IndexEntry([id |-> i, ver |-> n]).doc = [id |-> i, ver |-> n]
           /\ DeleteEntry(i) \in WalEntry /\ DeleteEntry(i).op = "delete"
<1>1. [id |-> i, ver |-> n] \in Document /\ [id |-> i, ver |-> 0] \in Document
  BY DEF Document
<1>. QED  BY <1>1 DEF IndexEntry, DeleteEntry, WalEntry

\* The sets the history variables are computed from are sets of documents.
LEMMA DocsTyped ==
    ASSUME TypeOK, LogWhole
    PROVE  /\ LoggedDocs \in SUBSET Document
           /\ \A s \in Store : /\ SegmentDocs(s) \in SUBSET Document
                               /\ BufferDocs(s) \in SUBSET Document
           /\ \A q \in Seq(WalEntry) : DocsIn(q) \in SUBSET Document
           /\ \A t \in Writers : DocsIn(writer[t].call) \in SUBSET Document
           /\ \A r \in Replicas : /\ Coming(r) \in SUBSET Document
                                  /\ WillRead(r) \in SUBSET Document
                                  /\ Streamed(r) \in SUBSET Document
                                  /\ ToSet(hands[r]) \in SUBSET Document
<1>1. LoggedDocs \in SUBSET Document  BY LoggedAre DEF TypeOK
<1>2. ASSUME NEW s \in Store
      PROVE  SegmentDocs(s) \in SUBSET Document /\ BufferDocs(s) \in SUBSET Document
  <2>1. s.seg \in Seq(Document) /\ s.buf \in Seq(Document)  BY DEF Store
  <2>. QED  BY <2>1, ElementsTyped DEF SegmentDocs, BufferDocs
<1>3. ASSUME NEW q \in Seq(WalEntry) PROVE DocsIn(q) \in SUBSET Document
  <2>1. \A k \in DOMAIN q : q[k] \in WalEntry  OBVIOUS
  <2>. QED  BY <2>1 DEF DocsIn, WalEntry
<1>4. ASSUME NEW t \in Writers
      PROVE  /\ writer[t].call \in Seq(WalEntry)
             /\ DocsIn(writer[t].call) \in SUBSET Document
  <2>1. writer[t] \in Writer  BY DEF TypeOK
  <2>2. writer[t].call \in Seq(WalEntry)  BY <2>1 DEF Writer
  <2>. QED  BY <1>3, <2>2
<1>5. ASSUME NEW r \in Replicas
      PROVE  /\ Coming(r) \in SUBSET Document /\ WillRead(r) \in SUBSET Document
             /\ Streamed(r) \in SUBSET Document /\ ToSet(hands[r]) \in SUBSET Document
  <2>1. /\ queue[r] \in Seq(WalEntry) /\ stream[r] \in Seq(WalEntry)
        /\ hands[r] \in Seq(Document)
    BY DEF TypeOK
  <2>2. QueuedDocs(r) \in SUBSET Document /\ Streamed(r) \in SUBSET Document
    BY <1>3, <2>1 DEF QueuedDocs, Streamed
  <2>3. LeftDocs(r) \in SUBSET Document
    <3>1. ASSUME NEW d \in LeftDocs(r) PROVE d \in Document
      <4>1. PICK t \in Writers :
               d \in {writer[t].call[k].doc :
                         k \in {j \in Unsent(t, r) : writer[t].call[j].op = "index"}}
        BY DEF LeftDocs
      <4>2. PICK k \in Unsent(t, r) : d = writer[t].call[k].doc  BY <4>1
      <4>3. k \in DOMAIN writer[t].call  BY DEF Unsent
      <4>4. writer[t].call[k] \in WalEntry  BY <1>4, <4>3
      <4>. QED  BY <4>2, <4>4 DEF WalEntry
    <3>. QED  BY <3>1
  <2>4. ToSet(hands[r]) \in SUBSET Document  BY <2>1, ElementsTyped
  <2>5. WillRead(r) \in SUBSET Document  BY <1>1 DEF WillRead
  <2>. QED  BY <2>2, <2>3, <2>4, <2>5 DEF Coming
<1>. QED  BY <1>1, <1>2, <1>3, <1>4, <1>5

-----------------------------------------------------------------------------
(* Calls *)

\* The documents of call w that are not in the channel to r yet.
LeftOf(w, r) ==
    {w.call[k].doc : k \in {j \in DOMAIN w.call :
        /\ j > w.sent
        /\ j = w.sent + 1 => r \in w.left
        /\ w.call[j].op = "index"}}

LEMMA LeftDocsAre ==
    ASSUME NEW r
    PROVE  /\ LeftDocs(r) = UNION {LeftOf(writer[t], r) : t \in Writers}
           /\ LeftDocs(r)' = UNION {LeftOf(writer'[t], r) : t \in Writers}
<1>1. \A t \in Writers :
         {writer[t].call[k].doc : k \in {j \in Unsent(t, r) : writer[t].call[j].op = "index"}}
            = LeftOf(writer[t], r)
  BY DEF LeftOf, Unsent
<1>2. \A t \in Writers :
         {writer'[t].call[k].doc : k \in {j \in Unsent(t, r)' : writer'[t].call[j].op = "index"}}
            = LeftOf(writer'[t], r)
  BY DEF LeftOf, Unsent
<1>3. LeftDocs(r) = UNION {LeftOf(writer[t], r) : t \in Writers}  BY <1>1 DEF LeftDocs
<1>4. LeftDocs(r)' = UNION {LeftOf(writer'[t], r) : t \in Writers}  BY <1>2 DEF LeftDocs
<1>. QED  BY <1>3, <1>4

\* They are documents of the call, and none when every record is in a channel.
LEMMA LeftOfCall ==
    ASSUME NEW w \in Writer, NEW r
    PROVE  /\ LeftOf(w, r) \subseteq DocsIn(w.call)
           /\ w.sent = Len(w.call) => LeftOf(w, r) = {}
           /\ w.sent = 0 /\ r \in w.left => LeftOf(w, r) = DocsIn(w.call)
<1>1. w.call \in Seq(WalEntry) /\ w.sent \in Nat  BY DEF Writer
<1>2. DOMAIN w.call = 1..Len(w.call) /\ Len(w.call) \in Nat  BY <1>1
<1>3. LeftOf(w, r) \subseteq DocsIn(w.call)  BY DEF LeftOf, DocsIn
<1>4. w.sent = Len(w.call) => LeftOf(w, r) = {}  BY <1>2 DEF LeftOf
<1>5. ASSUME w.sent = 0, r \in w.left PROVE DocsIn(w.call) \subseteq LeftOf(w, r)
  <2>1. \A j \in DOMAIN w.call : j > w.sent  BY <1>2, <1>5
  <2>. QED  BY <1>5, <2>1 DEF LeftOf, DocsIn
<1>. QED  BY <1>3, <1>4, <1>5

\* A thread that is not filling channels has nothing left to send.
LEMMA NothingLeft ==
    ASSUME TypeOK, CallShape, NEW t \in Writers, NEW r \in Replicas,
           writer[t].pc # "enqueue"
    PROVE  LeftOf(writer[t], r) = {}
<1>1. writer[t] \in Writer  BY DEF TypeOK
<1>2. writer[t].sent = Len(writer[t].call)  BY DEF CallShape
<1>. QED  BY <1>1, <1>2, LeftOfCall

\* A step of a thread outside the channels: its call stays or is over.
LEMMA CallTurns ==
    ASSUME TypeOK, CallShape, NEW t \in Writers, NEW w \in Writer,
           writer[t].pc # "enqueue", w.pc # "enqueue",
           writer' = [writer EXCEPT ![t] = w],
           \/ w.call = << >> /\ w.sent = 0 /\ w.op # "delete"
           \/ w.call = writer[t].call /\ w.sent = writer[t].sent /\ w.op = writer[t].op
    PROVE  /\ writer' \in [Writers -> Writer]
           /\ CallShape'
           /\ \A r \in Replicas : LeftDocs(r)' = LeftDocs(r)
           /\ \A u \in Writers : /\ DocsIn(writer'[u].call) \subseteq DocsIn(writer[u].call)
                                 /\ u # t => writer'[u] = writer[u]
<1>0. writer \in [Writers -> Writer]  BY DEF TypeOK
<1>1. writer' \in [Writers -> Writer] /\ writer'[t] = w
      /\ \A u \in Writers : u # t => writer'[u] = writer[u]
  BY <1>0
<1>2. DocsIn(w.call) \subseteq DocsIn(writer[t].call)
  <2>1. DocsIn(<< >>) = {}  BY DEF DocsIn
  <2>. QED  BY <2>1
<1>3. CallShape'
  <2> SUFFICES ASSUME NEW u \in Writers
               PROVE  LET v == writer'[u] IN
                      /\ v.pc = "enqueue" => v.sent < Len(v.call) /\ v.left # {}
                      /\ v.pc # "enqueue" => Replicas = {} \/ v.sent = Len(v.call)
                      /\ v.op = "index" => \A k \in DOMAIN v.call : v.call[k].op = "index"
                      /\ v.op = "delete" => v.call # << >>
    BY DEF CallShape
  <2>1. CASE u # t  BY <1>1, <2>1 DEF CallShape
  <2>2. CASE u = t
    <3>1. CASE w.call = << >> /\ w.sent = 0 /\ w.op # "delete"
      <4>1. Len(<< >>) = 0 /\ DOMAIN << >> = {}  OBVIOUS
      <4>. QED  BY <1>1, <2>2, <3>1, <4>1
    <3>2. CASE w.call = writer[t].call /\ w.sent = writer[t].sent /\ w.op = writer[t].op
      BY <1>1, <2>2, <3>2 DEF CallShape
    <3>. QED  BY <3>1, <3>2
  <2>. QED  BY <2>1, <2>2
<1>4. ASSUME NEW r \in Replicas PROVE LeftDocs(r)' = LeftDocs(r)
  <2>1. LeftOf(writer[t], r) = {}  BY NothingLeft
  <2>2. LeftOf(w, r) = {}
    <3>1. w.sent = Len(w.call)  BY <1>1, <1>3, <1>4 DEF CallShape
    <3>. QED  BY <3>1, LeftOfCall
  <2>3. \A u \in Writers : LeftOf(writer'[u], r) = LeftOf(writer[u], r)
    BY <1>1, <2>1, <2>2
  <2>4. LeftDocs(r) = UNION {LeftOf(writer[u], r) : u \in Writers}  BY LeftDocsAre
  <2>5. LeftDocs(r)' = UNION {LeftOf(writer'[u], r) : u \in Writers}  BY LeftDocsAre
  <2>. QED  BY <2>3, <2>4, <2>5
<1>. QED  BY <1>1, <1>2, <1>3, <1>4

-----------------------------------------------------------------------------
(* The primary's steps *)

\* What a thread holds besides the store: what it drained or collected, and the
\* documents of its call.
HeldDocs(t) == ToSet(writer[t].docs) \cup DocsIn(writer[t].call)

\* The primary knows documents only.
LEMMA KnownTyped ==
    ASSUME TypeOK, LogWhole
    PROVE  KnownDocs \in SUBSET Document
<1>1. ASSUME NEW u \in Writers PROVE ToSet(writer[u].docs) \in SUBSET Document
  <2>1. writer[u] \in Writer  BY DEF TypeOK
  <2>2. writer[u].docs \in Seq(Document)  BY <2>1 DEF Writer
  <2>. QED  BY <2>2, ElementsTyped
<1>2. \A u \in Writers : DocsIn(writer[u].call) \in SUBSET Document  BY DocsTyped
<1>3. StoredDocs(primary) \in SUBSET Document  BY DocsTyped DEF StoredDocs, TypeOK
<1>4. LoggedDocs \in SUBSET Document  BY DocsTyped
<1>. QED  BY <1>1, <1>2, <1>3, <1>4 DEF KnownDocs

\* A step of a thread outside the channels, which moves documents between the
\* thread and the primary's store, may take records from the log, and costs a
\* replica only what it is excused for, keeps the invariant.
LEMMA PrimaryStep ==
    ASSUME ReplicationInv, NEW t \in Writers, NEW w \in Writer,
           writer[t].pc # "enqueue", w.pc # "enqueue",
           writer' = [writer EXCEPT ![t] = w],
           \/ w.call = << >> /\ w.sent = 0 /\ w.op # "delete"
           \/ w.call = writer[t].call /\ w.sent = writer[t].sent /\ w.op = writer[t].op,
           primary' \in Store,
           StoredDocs(primary)' \subseteq StoredDocs(primary) \cup HeldDocs(t),
           ToSet(w.docs) \subseteq StoredDocs(primary) \cup HeldDocs(t),
           WalTypeOK', LogWhole', LoggedDocs' \subseteq LoggedDocs,
           UNCHANGED <<channelVars, replicaVars, faults, contested>>,
           clock' \in 0..MaxOps, clock' >= clock,
           cleared' \in [DocIds -> Nat], excused' \in [Replicas -> SUBSET Document],
           \A r \in Replicas :
              WillRead(r) \cup excused[r] \subseteq WillRead(r)' \cup excused'[r] \cup Coming(r)
    PROVE  ReplicationInv'
<1>0. TypeOK /\ CallShape /\ VersionsUsed /\ QueuedFirst /\ Supplied /\ StreamShape
  BY DEF ReplicationInv
<1>1. /\ writer' \in [Writers -> Writer]
      /\ CallShape'
      /\ \A r \in Replicas : LeftDocs(r)' = LeftDocs(r)
      /\ \A u \in Writers : /\ DocsIn(writer'[u].call) \subseteq DocsIn(writer[u].call)
                            /\ u # t => writer'[u] = writer[u]
  BY <1>0, CallTurns
<1>2. writer'[t] = w  BY <1>0 DEF TypeOK
<1>3. TypeOK'  BY <1>0, <1>1 DEF TypeOK, channelVars, replicaVars
<1> DEFINE P == StoredDocs(primary) \cup HeldDocs(t)
<1>4. P \subseteq KnownDocs  BY DEF KnownDocs, HeldDocs
<1>5. \A u \in Writers : HeldDocs(u)' \subseteq P \cup HeldDocs(u)
  <2> TAKE u \in Writers
  <2>1. HeldDocs(u)' = ToSet(writer'[u].docs) \cup DocsIn(writer'[u].call)
    BY DEF HeldDocs, ToSet, DocsIn
  <2>2. ToSet(writer'[u].docs) \subseteq P \cup HeldDocs(u)
    <3>1. CASE u = t  BY <1>2, <3>1
    <3>2. CASE u # t  BY <1>1, <3>2 DEF HeldDocs
    <3>. QED  BY <3>1, <3>2
  <2>3. DocsIn(writer'[u].call) \subseteq HeldDocs(u)  BY <1>1 DEF HeldDocs
  <2>. QED  BY <2>1, <2>2, <2>3
<1>6. KnownDocs = StoredDocs(primary) \cup LoggedDocs \cup UNION {HeldDocs(u) : u \in Writers}
  BY DEF KnownDocs, HeldDocs
<1>7. KnownDocs' = StoredDocs(primary)' \cup LoggedDocs' \cup UNION {HeldDocs(u)' : u \in Writers}
  BY DEF KnownDocs, HeldDocs
<1>8. KnownDocs' \subseteq KnownDocs  BY <1>4, <1>5, <1>6, <1>7
<1>9. VersionsUsed'
  <2>1. ASSUME NEW d \in KnownDocs' PROVE d.ver <= clock'
    <3>1. d \in KnownDocs /\ d.ver <= clock  BY <1>0, <1>8, <2>1 DEF VersionsUsed
    <3>2. d.ver \in Nat
      <4>1. d \in Document  BY <1>0, <3>1, KnownTyped DEF ReplicationInv
      <4>. QED  BY <4>1 DEF Document
    <3>3. clock \in Nat /\ clock' \in Nat  BY <1>0, ReplicationAssumption DEF TypeOK
    <3>. QED  BY <3>1, <3>2, <3>3
  <2>. QED  BY <2>1 DEF VersionsUsed
<1>10. QueuedFirst'
  <2> SUFFICES ASSUME NEW u \in Writers, writer'[u].pc = "enqueue",
                      NEW d \in DocsIn(writer'[u].call)
               PROVE  /\ d \notin StoredDocs(primary)'
                      /\ \A v \in Writers : /\ d \notin ToSet(writer'[v].docs)
                                            /\ v # u => d \notin DocsIn(writer'[v].call)
    BY DEF QueuedFirst, ToSet, DocsIn
  <2>1. u # t /\ writer'[u] = writer[u]  BY <1>1, <1>2
  <2>2. d \in DocsIn(writer[u].call) /\ writer[u].pc = "enqueue"  BY <2>1
  <2>3. /\ d \notin StoredDocs(primary)
        /\ \A v \in Writers : /\ d \notin ToSet(writer[v].docs)
                              /\ v # u => d \notin DocsIn(writer[v].call)
    BY <1>0, <2>2 DEF QueuedFirst
  <2>4. d \notin P  BY <2>1, <2>3 DEF HeldDocs
  <2>5. ASSUME NEW v \in Writers PROVE d \notin ToSet(writer'[v].docs)
    <3>1. CASE v = t  BY <1>2, <2>4, <3>1
    <3>2. CASE v # t  BY <1>1, <2>3, <3>2
    <3>. QED  BY <3>1, <3>2
  <2>6. ASSUME NEW v \in Writers, v # u PROVE d \notin DocsIn(writer'[v].call)
    BY <1>1, <2>3, <2>6
  <2>. QED  BY <2>4, <2>5, <2>6
<1>11. Supplied'
  <2> SUFFICES ASSUME NEW r \in Replicas, NEW d \in KnownDocs'
               PROVE  d \in Has(r)' \cup Coming(r)' \cup WillRead(r)' \cup excused'[r]
    BY DEF Supplied
  <2>1. d \in Has(r) \cup Coming(r) \cup WillRead(r) \cup excused[r]
    BY <1>0, <1>8 DEF Supplied
  <2>2. Has(r)' = Has(r)  BY DEF Has, replicaVars, StoredDocs, SegmentDocs, BufferDocs
  <2>3. QueuedDocs(r)' = QueuedDocs(r) /\ Streamed(r)' = Streamed(r)
    BY DEF QueuedDocs, Streamed, channelVars, replicaVars
  <2>4. Coming(r)' = Coming(r)  BY <1>1, <2>3 DEF Coming
  <2>. QED  BY <2>1, <2>2, <2>4
<1>12. StreamShape'  BY <1>0 DEF StreamShape, replicaVars
<1>. QED  BY <1>1, <1>3, <1>9, <1>10, <1>11, <1>12 DEF ReplicationInv

\* The state Goto leaves a thread in.
Turned(t, label, docs) == [writer[t] EXCEPT !.pc = label, !.docs = docs]

LEMMA GotoTurns ==
    ASSUME NEW t, NEW label, NEW docs, Goto(t, label, docs)
    PROVE  writer' = [writer EXCEPT ![t] = Turned(t, label, docs)]
BY DEF Goto, Turned

LEMMA WriterStates ==
    ASSUME TypeOK, NEW t \in Writers, NEW docs \in Seq(Document),
           NEW label \in {"del_seg", "drain", "publish", "truncate", "collect", "swap",
                          "r_truncate"},
           NEW w, w = Turned(t, label, docs)
    PROVE  /\ w \in Writer /\ w.pc # "enqueue" /\ w.docs = docs
           /\ w.call = writer[t].call /\ w.sent = writer[t].sent /\ w.op = writer[t].op
<1>1. writer[t] \in Writer  BY DEF TypeOK
<1>. QED  BY <1>1 DEF Writer, Turned

LEMMA OtherStates ==
    /\ IdleWriter \in Writer /\ IdleWriter.pc = "idle" /\ IdleWriter.docs = << >>
    /\ IdleWriter.call = << >> /\ IdleWriter.sent = 0 /\ IdleWriter.op = "none"
    /\ \A op \in {"flush", "reindex"} : LET w == Serving(op, << >>, "drain") IN
          /\ w \in Writer /\ w.pc = "drain" /\ w.docs = << >>
          /\ w.call = << >> /\ w.sent = 0 /\ w.op = op
<1>1. << >> \in Seq(WalEntry) /\ << >> \in Seq(Document)  OBVIOUS
<1>. QED  BY <1>1 DEF IdleWriter, Serving, Writer, Operations

\* What a node stores are documents.
LEMMA StoredTyped ==
    ASSUME NEW s \in Store
    PROVE  /\ SegmentDocs(s) \in SUBSET Document /\ BufferDocs(s) \in SUBSET Document
           /\ StoredDocs(s) = SegmentDocs(s) \cup BufferDocs(s)
           /\ s.buf \in Seq(Document) /\ BufferDocs(s) = ToSet(s.buf)
<1>1. s.seg \in Seq(Document) /\ s.buf \in Seq(Document)  BY DEF Store
<1>. QED  BY <1>1, ElementsTyped DEF SegmentDocs, BufferDocs, StoredDocs

\* PrimaryStep for the steps a thread takes with Goto or Returns.
LEMMA ThreadStep ==
    ASSUME ReplicationInv, NEW t \in Writers, writer[t].pc # "enqueue",
           NEW docs \in Seq(Document),
           NEW label \in {"del_seg", "drain", "publish", "truncate", "collect", "swap",
                          "r_truncate"},
           Goto(t, label, docs) \/ Returns(t),
           primary' \in Store,
           StoredDocs(primary)' \subseteq StoredDocs(primary) \cup HeldDocs(t),
           ToSet(docs) \subseteq StoredDocs(primary) \cup HeldDocs(t),
           UNCHANGED <<channelVars, replicaVars, clock, faults, contested>>,
           cleared' \in [DocIds -> Nat],
           \/ UNCHANGED <<walVars, excused>>
           \/ /\ Truncate
              /\ excused' = [r \in Replicas |-> excused[r] \cup (WillRead(r) \ Coming(r))]
    PROVE  ReplicationInv'
<1>0. TypeOK /\ LogWhole  BY DEF ReplicationInv
<1>1. WalTypeOK' /\ LogWhole' /\ LoggedDocs' \subseteq LoggedDocs
  <2>1. CASE UNCHANGED walVars
    BY <1>0, <2>1 DEF TypeOK, WalTypeOK, LogWhole, walVars, LoggedDocs
  <2>2. CASE Truncate  BY <1>0, <2>2, LogTruncated DEF TypeOK
  <2>. QED  BY <2>1, <2>2
<1>2. excused' \in [Replicas -> SUBSET Document]
  <2>1. \A r \in Replicas : WillRead(r) \in SUBSET Document  BY <1>0, DocsTyped
  <2>. QED  BY <1>0, <2>1 DEF TypeOK
<1>3. \A r \in Replicas :
         WillRead(r) \cup excused[r] \subseteq WillRead(r)' \cup excused'[r] \cup Coming(r)
  <2>1. CASE UNCHANGED <<walVars, excused>>
    BY <2>1 DEF WillRead, LoggedDocs, walVars, replicaVars
  <2>2. CASE excused' = [r \in Replicas |-> excused[r] \cup (WillRead(r) \ Coming(r))]
    BY <2>2
  <2>. QED  BY <2>1, <2>2
<1>4. clock' \in 0..MaxOps /\ clock' >= clock
  BY <1>0, ReplicationAssumption DEF TypeOK
<1>5. CASE Goto(t, label, docs)
  <2>0. PICK w : w = Turned(t, label, docs)  OBVIOUS
  <2>1. /\ w \in Writer /\ w.pc # "enqueue" /\ w.docs = docs
        /\ w.call = writer[t].call /\ w.sent = writer[t].sent /\ w.op = writer[t].op
    BY <1>0, <2>0, WriterStates
  <2>2. writer' = [writer EXCEPT ![t] = w]  BY <1>5, <2>0, GotoTurns
  <2>. QED  BY <1>1, <1>2, <1>3, <1>4, <2>1, <2>2, PrimaryStep
<1>6. CASE Returns(t)
  <2>1. PICK v : v = IdleWriter  OBVIOUS
  <2>2. /\ v \in Writer /\ v.pc # "enqueue" /\ v.docs = << >>
        /\ v.call = << >> /\ v.sent = 0 /\ v.op # "delete"
    BY <2>1, OtherStates
  <2>3. writer' = [writer EXCEPT ![t] = v]  BY <1>6, <2>1 DEF Returns
  <2>4. ToSet(v.docs) = {}  BY <2>2 DEF ToSet
  <2>. QED  BY <1>1, <1>2, <1>3, <1>4, <2>2, <2>3, <2>4, PrimaryStep
<1>. QED  BY <1>5, <1>6

LEMMA ThreadSteps ==
    ASSUME ReplicationInv, NEW t \in Writers,
           \/ AddToBuffer(t) \/ Delete(t) \/ FlushDrain(t) \/ FlushPublish(t)
           \/ TruncateLog(t) \/ ReindexCollect(t) \/ ReindexSwap(t)
    PROVE  ReplicationInv'
<1>0. /\ TypeOK /\ CallShape
      /\ primary \in Store /\ writer[t] \in Writer /\ cleared \in [DocIds -> Nat]
      /\ clock \in 0..MaxOps
  BY DEF ReplicationInv, TypeOK
<1>1. /\ writer[t].docs \in Seq(Document) /\ writer[t].call \in Seq(WalEntry)
      /\ << >> \in Seq(Document) /\ ToSet(<< >>) = {}
  BY <1>0 DEF Writer, ToSet
<1>2. CASE AddToBuffer(t)
  <2> DEFINE call == writer[t].call
             docs == [k \in DOMAIN call |-> call[k].doc]
  <2>1. \A k \in DOMAIN call : call[k] \in WalEntry /\ call[k].op = "index"
    BY <1>0, <1>1, <1>2 DEF CallShape, AddToBuffer
  <2>2. docs \in Seq(Document) /\ ToSet(docs) = DocsIn(call)
    <3>1. DOMAIN call = 1..Len(call) /\ Len(call) \in Nat  BY <1>1
    <3>2. \A k \in DOMAIN call : call[k].doc \in Document  BY <2>1 DEF WalEntry
    <3>3. docs \in Seq(Document)  BY <3>1, <3>2
    <3>4. ToSet(docs) = DocsIn(call)  BY <2>1 DEF ToSet, DocsIn
    <3>. QED  BY <3>3, <3>4
  <2>3. primary' = Added(primary, docs)  BY <1>2 DEF AddToBuffer
  <2>. HIDE DEF docs
  <2>4. /\ primary' \in Store
        /\ StoredDocs(primary)' \subseteq StoredDocs(primary) \cup DocsIn(call)
    BY <1>0, <2>2, <2>3, AddedDocs DEF StoredDocs
  <2>5. StoredDocs(primary)' \subseteq StoredDocs(primary) \cup HeldDocs(t)
    BY <2>4 DEF HeldDocs
  <2>6. Goto(t, "drain", << >>) \/ Returns(t)  BY <1>2 DEF AddToBuffer
  <2>7. /\ UNCHANGED <<channelVars, replicaVars, clock, faults, contested, walVars, excused>>
        /\ cleared' \in [DocIds -> Nat]
    BY <1>0, <1>2 DEF AddToBuffer, historyVars
  <2>8. writer[t].pc # "enqueue"  BY <1>2 DEF AddToBuffer
  <2>. QED  BY <1>1, <2>4, <2>5, <2>6, <2>7, <2>8, ThreadStep
<1>3. CASE Delete(t)
  <2>1. writer[t].call # << >>  BY <1>0, <1>3 DEF Delete, CallShape
  <2>2. writer[t].call[1] \in WalEntry  BY <1>1, <2>1
  <2>3. PICK i \in DocIds : i = writer[t].call[1].doc.id  BY <2>2 DEF WalEntry, Document
  <2>4. /\ primary' = MarkedInBuffer(primary, i) \/ primary' = MarkedInSegments(primary, i)
        /\ Goto(t, "del_seg", << >>) \/ Returns(t)
        /\ cleared' = [cleared EXCEPT ![i] = clock]
        /\ writer[t].pc # "enqueue"
        /\ UNCHANGED <<channelVars, replicaVars, clock, faults, contested, walVars, excused>>
    BY <1>3, <2>3 DEF Delete
  <2>5. primary' \in Store /\ StoredDocs(primary)' = StoredDocs(primary)
    BY <1>0, <2>4, MarkedDocs DEF StoredDocs
  <2>6. cleared' \in [DocIds -> Nat]  BY <1>0, <2>4, ReplicationAssumption
  <2>. QED  BY <1>1, <2>4, <2>5, <2>6, ThreadStep
<1>4. CASE FlushDrain(t)
  <2>1. /\ primary.buf \in Seq(Document) /\ ToSet(primary.buf) \subseteq StoredDocs(primary)
    BY <1>0, StoredTyped
  <2>2. primary' \in Store /\ StoredDocs(primary)' \subseteq StoredDocs(primary)
    BY <1>0, <1>4, DrainedDocs DEF FlushDrain, StoredDocs
  <2>3. /\ UNCHANGED <<channelVars, replicaVars, clock, faults, contested, walVars, excused>>
        /\ cleared' \in [DocIds -> Nat] /\ writer[t].pc # "enqueue"
    BY <1>0, <1>4 DEF FlushDrain, historyVars
  <2>4. CASE Goto(t, "publish", primary.buf)
    BY <2>1, <2>2, <2>3, <2>4, ThreadStep
  <2>5. CASE AfterFlush(t)
    <3>1. Goto(t, "collect", << >>) \/ Returns(t)  BY <2>5 DEF AfterFlush
    <3>. QED  BY <1>1, <2>2, <2>3, <3>1, ThreadStep
  <2>. QED  BY <1>4, <2>4, <2>5 DEF FlushDrain
<1>5. CASE FlushPublish(t)
  <2>1. /\ primary' \in Store
        /\ StoredDocs(primary)' = StoredDocs(primary) \cup ToSet(writer[t].docs)
    BY <1>0, <1>1, <1>5, PublishedDocs DEF FlushPublish, StoredDocs
  <2>2. StoredDocs(primary)' \subseteq StoredDocs(primary) \cup HeldDocs(t)
    BY <2>1 DEF HeldDocs
  <2>3. /\ UNCHANGED <<channelVars, replicaVars, clock, faults, contested, walVars, excused>>
        /\ cleared' \in [DocIds -> Nat] /\ writer[t].pc # "enqueue"
        /\ Goto(t, "truncate", << >>)
    BY <1>0, <1>5 DEF FlushPublish, historyVars
  <2>. QED  BY <1>1, <2>1, <2>2, <2>3, ThreadStep
<1>6. CASE TruncateLog(t)
  <2>1. /\ UNCHANGED <<channelVars, replicaVars, clock, faults, contested>>
        /\ cleared' \in [DocIds -> Nat] /\ writer[t].pc # "enqueue"
        /\ Goto(t, "collect", << >>) \/ Returns(t)
        /\ primary' = primary
        /\ Truncate
        /\ excused' = [r \in Replicas |-> excused[r] \cup (WillRead(r) \ Coming(r))]
    BY <1>0, <1>6 DEF TruncateLog, AfterFlush
  <2>2. primary' \in Store /\ StoredDocs(primary)' = StoredDocs(primary)  BY <1>0, <2>1
  <2>. QED  BY <1>1, <2>1, <2>2, ThreadStep
<1>7. CASE ReindexCollect(t)
  <2>1. /\ UNCHANGED <<channelVars, replicaVars, clock, faults, contested, walVars, excused>>
        /\ cleared' \in [DocIds -> Nat] /\ writer[t].pc # "enqueue"
        /\ Goto(t, "swap", LiveSegmentDocs(primary)) \/ Returns(t)
        /\ primary' = primary
    BY <1>0, <1>7 DEF ReindexCollect, historyVars
  <2>2. primary' \in Store /\ StoredDocs(primary)' = StoredDocs(primary)  BY <1>0, <2>1
  <2>3. /\ LiveSegmentDocs(primary) \in Seq(Document)
        /\ ToSet(LiveSegmentDocs(primary)) \subseteq StoredDocs(primary)
    BY <1>0, ShownStored DEF StoredDocs
  <2>. QED  BY <2>1, <2>2, <2>3, ThreadStep
<1>8. CASE ReindexSwap(t)
  <2>1. /\ primary' \in Store
        /\ StoredDocs(primary)' \subseteq StoredDocs(primary) \cup ToSet(writer[t].docs)
    BY <1>0, <1>1, <1>8, ReplacedDocs DEF ReindexSwap, StoredDocs
  <2>2. StoredDocs(primary)' \subseteq StoredDocs(primary) \cup HeldDocs(t)
    BY <2>1 DEF HeldDocs
  <2>3. /\ UNCHANGED <<channelVars, replicaVars, clock, faults, contested, walVars, excused>>
        /\ cleared' \in [DocIds -> Nat] /\ writer[t].pc # "enqueue"
        /\ Goto(t, "r_truncate", << >>)
    BY <1>0, <1>8 DEF ReindexSwap, historyVars
  <2>. QED  BY <1>1, <2>1, <2>2, <2>3, ThreadStep
<1>. QED  BY <1>2, <1>3, <1>4, <1>5, <1>6, <1>7, <1>8

\* flush and reindex_self begin.
LEMMA CallFlushStep ==
    ASSUME ReplicationInv, NEW t \in Writers, CallFlush(t)
    PROVE  ReplicationInv'
<1>0. TypeOK /\ LogWhole  BY DEF ReplicationInv
<1>1. PICK op \in {"flush", "reindex"} :
         writer' = [writer EXCEPT ![t] = Serving(op, << >>, "drain")]
  BY DEF CallFlush
<1>2. PICK w : w = Serving(op, << >>, "drain")  OBVIOUS
<1>3. /\ w \in Writer /\ w.pc # "enqueue" /\ w.docs = << >>
      /\ w.call = << >> /\ w.sent = 0 /\ w.op # "delete"
  BY <1>2, OtherStates
<1>4. writer' = [writer EXCEPT ![t] = w] /\ writer[t].pc # "enqueue"
  BY <1>1, <1>2 DEF CallFlush
<1>5. ToSet(w.docs) = {}  BY <1>3 DEF ToSet
<1>6. /\ primary' = primary
      /\ UNCHANGED <<channelVars, replicaVars, faults, contested, walVars, excused, cleared>>
      /\ clock < MaxOps /\ clock' = clock + 1
  BY DEF CallFlush, historyVars
<1>7. /\ primary' \in Store /\ StoredDocs(primary)' = StoredDocs(primary)
      /\ cleared' \in [DocIds -> Nat] /\ excused' \in [Replicas -> SUBSET Document]
  BY <1>0, <1>6 DEF TypeOK
<1>8. WalTypeOK' /\ LogWhole' /\ LoggedDocs' = LoggedDocs
  BY <1>0, <1>6 DEF TypeOK, WalTypeOK, LogWhole, walVars, LoggedDocs
<1>9. clock' \in 0..MaxOps /\ clock' >= clock
  BY <1>0, <1>6, ReplicationAssumption DEF TypeOK
<1>10. \A r \in Replicas :
          WillRead(r) \cup excused[r] \subseteq WillRead(r)' \cup excused'[r] \cup Coming(r)
  BY <1>6, <1>8 DEF WillRead, replicaVars
<1>. QED  BY <1>3, <1>4, <1>5, <1>6, <1>7, <1>8, <1>9, <1>10, PrimaryStep

\* A call appends its records: its documents have versions nobody has used, and
\* no channel has them yet.
LEMMA LogStep ==
    ASSUME ReplicationInv, NEW t \in Writers, NEW op \in {"index", "delete"},
           NEW entries \in Seq(WalEntry), entries # << >>, Log(t, op, entries),
           op = "index" => \A k \in DOMAIN entries : entries[k].op = "index",
           \A d \in DocsIn(entries) : d.ver > clock /\ d.ver <= clock',
           cleared' \in [DocIds -> Nat]
    PROVE  ReplicationInv'
<1>0. /\ TypeOK /\ LogWhole /\ CallShape /\ StreamShape /\ VersionsUsed /\ QueuedFirst
      /\ Supplied /\ WalTypeOK /\ clock \in Nat /\ MaxOps \in Nat
  BY ReplicationAssumption DEF ReplicationInv, TypeOK
<1> DEFINE new == DocsIn(entries)
<1>1. PICK w : w = Serving(op, entries, IF Replicas = {} THEN "apply" ELSE "enqueue")
  OBVIOUS
<1>2. /\ w \in Writer /\ w.op = op /\ w.call = entries /\ w.sent = 0 /\ w.docs = << >>
      /\ w.left = Replicas
      /\ Replicas # {} => w.pc = "enqueue"
      /\ Replicas = {} => w.pc = "apply"
  BY <1>1 DEF Serving, Writer, Operations
<1>3. writer' = [writer EXCEPT ![t] = w] /\ writer[t].pc = "idle"  BY <1>1 DEF Log
<1>4. /\ writer' \in [Writers -> Writer] /\ writer'[t] = w
      /\ \A u \in Writers : u # t => writer'[u] = writer[u]
  BY <1>0, <1>2, <1>3 DEF TypeOK
<1>5. /\ UNCHANGED <<primary, channelVars, replicaVars, faults, excused>>
      /\ clock + Len(entries) <= MaxOps /\ clock' = clock + Len(entries)
      /\ AppendBatch(entries)
  BY DEF Log
<1>6. WalTypeOK' /\ LogWhole' /\ LoggedDocs' = LoggedDocs \cup new
  BY <1>0, <1>5, LogAppended
<1>7. Len(entries) \in Nat /\ Len(entries) > 0 /\ clock' \in 0..MaxOps /\ clock' >= clock
  <2>1. Len(entries) \in Nat /\ Len(entries) # 0  OBVIOUS
  <2>. QED  BY <1>0, <1>5, <2>1
<1>8. contested' \in [Replicas -> SUBSET DocIds]
  <2>1. {e.doc.id : e \in ToSet(entries)} \subseteq DocIds
    <3>1. ToSet(entries) \subseteq WalEntry  BY ElementsTyped
    <3>. QED  BY <3>1 DEF WalEntry, Document
  <2>2. PICK ids : ids = {e.doc.id : e \in ToSet(entries)}  OBVIOUS
  <2>3. PICK busy : busy = UNION {Writing(u) : u \in Writers}  OBVIOUS
  <2>4. contested' = [r \in Replicas |-> contested[r] \cup (busy \cap ids)]
    BY <2>2, <2>3 DEF Log
  <2>5. contested \in [Replicas -> SUBSET DocIds]  BY <1>0 DEF TypeOK
  <2>. QED  BY <2>1, <2>2, <2>4, <2>5
<1>9. TypeOK'
  BY <1>0, <1>4, <1>5, <1>6, <1>7, <1>8 DEF TypeOK, channelVars, replicaVars
<1>10. CallShape'
  <2> SUFFICES ASSUME NEW u \in Writers
               PROVE  LET v == writer'[u] IN
                      /\ v.pc = "enqueue" => v.sent < Len(v.call) /\ v.left # {}
                      /\ v.pc # "enqueue" => Replicas = {} \/ v.sent = Len(v.call)
                      /\ v.op = "index" => \A k \in DOMAIN v.call : v.call[k].op = "index"
                      /\ v.op = "delete" => v.call # << >>
    BY DEF CallShape
  <2>1. CASE u # t  BY <1>0, <1>4, <2>1 DEF CallShape
  <2>2. CASE u = t  BY <1>2, <1>4, <1>7, <2>2
  <2>. QED  BY <2>1, <2>2
<1>11. \A u \in Writers : HeldDocs(u)' \subseteq HeldDocs(u) \cup (IF u = t THEN new ELSE {})
  <2> TAKE u \in Writers
  <2>1. HeldDocs(u)' = ToSet(writer'[u].docs) \cup DocsIn(writer'[u].call)
    BY DEF HeldDocs, ToSet, DocsIn
  <2>2. CASE u = t
    <3>1. ToSet(w.docs) = {}  BY <1>2 DEF ToSet
    <3>. QED  BY <1>2, <1>4, <2>1, <2>2, <3>1
  <2>3. CASE u # t  BY <1>4, <2>1, <2>3 DEF HeldDocs
  <2>. QED  BY <2>2, <2>3
<1>12. StoredDocs(primary)' = StoredDocs(primary)  BY <1>5
<1>13. KnownDocs = StoredDocs(primary) \cup LoggedDocs \cup UNION {HeldDocs(u) : u \in Writers}
  BY DEF KnownDocs, HeldDocs
<1>14. KnownDocs' = StoredDocs(primary)' \cup LoggedDocs' \cup UNION {HeldDocs(u)' : u \in Writers}
  BY DEF KnownDocs, HeldDocs
<1>15. KnownDocs' \subseteq KnownDocs \cup new
  BY <1>6, <1>11, <1>12, <1>13, <1>14
<1>16. \A d \in KnownDocs : d \in Document /\ d.ver \in Nat /\ d.ver <= clock
  <2>1. KnownDocs \subseteq Document  BY <1>0, KnownTyped
  <2>. QED  BY <1>0, <2>1 DEF VersionsUsed, Document
<1>17. new \subseteq Document  BY <1>0, DocsTyped
<1>18. new \cap KnownDocs = {}
  <2>1. ASSUME NEW d \in new, d \in KnownDocs PROVE FALSE
    <3>1. d.ver > clock /\ d.ver <= clock /\ d.ver \in Nat  BY <1>16, <2>1
    <3>. QED  BY <1>0, <3>1
  <2>. QED  BY <2>1
<1>19. VersionsUsed'
  <2>1. ASSUME NEW d \in KnownDocs' PROVE d.ver <= clock'
    <3>1. CASE d \in KnownDocs
      <4>1. d.ver \in Nat /\ d.ver <= clock  BY <1>16, <3>1
      <4>2. clock' \in Nat  BY <1>0, <1>7
      <4>. QED  BY <1>0, <1>7, <4>1, <4>2
    <3>2. CASE d \in new  BY <3>2
    <3>. QED  BY <1>15, <3>1, <3>2
  <2>. QED  BY <2>1 DEF VersionsUsed
<1>20. QueuedFirst'
  <2> SUFFICES ASSUME NEW u \in Writers, writer'[u].pc = "enqueue",
                      NEW d \in DocsIn(writer'[u].call)
               PROVE  /\ d \notin StoredDocs(primary)'
                      /\ \A v \in Writers : /\ d \notin ToSet(writer'[v].docs)
                                            /\ v # u => d \notin DocsIn(writer'[v].call)
    BY DEF QueuedFirst, ToSet, DocsIn
  <2>0. ToSet(w.docs) = {}  BY <1>2 DEF ToSet
  <2>1. CASE u = t
    <3>1. d \in new  BY <1>2, <1>4, <2>1
    <3>2. d \notin KnownDocs  BY <1>18, <3>1
    <3>3. d \notin StoredDocs(primary)' /\ \A v \in Writers : d \notin HeldDocs(v)
      BY <1>12, <1>13, <3>2
    <3>4. ASSUME NEW v \in Writers
          PROVE  /\ d \notin ToSet(writer'[v].docs)
                 /\ v # u => d \notin DocsIn(writer'[v].call)
      <4>1. CASE v = t  BY <1>4, <2>0, <2>1, <4>1
      <4>2. CASE v # t  BY <1>4, <3>3, <4>2 DEF HeldDocs
      <4>. QED  BY <4>1, <4>2
    <3>. QED  BY <3>3, <3>4
  <2>2. CASE u # t
    <3>1. d \in DocsIn(writer[u].call) /\ writer[u].pc = "enqueue"  BY <1>4, <2>2
    <3>2. /\ d \notin StoredDocs(primary)
          /\ \A v \in Writers : /\ d \notin ToSet(writer[v].docs)
                                /\ v # u => d \notin DocsIn(writer[v].call)
      BY <1>0, <3>1 DEF QueuedFirst
    <3>3. d \notin new
      <4>1. d \in KnownDocs  BY <1>13, <3>1 DEF HeldDocs
      <4>. QED  BY <1>18, <4>1
    <3>4. ASSUME NEW v \in Writers
          PROVE  /\ d \notin ToSet(writer'[v].docs)
                 /\ v # u => d \notin DocsIn(writer'[v].call)
      <4>1. CASE v = t  BY <1>2, <1>4, <2>0, <3>3, <4>1
      <4>2. CASE v # t  BY <1>4, <3>2, <4>2
      <4>. QED  BY <4>1, <4>2
    <3>. QED  BY <1>12, <3>2, <3>4
  <2>. QED  BY <2>1, <2>2
<1>21. Supplied'
  <2> SUFFICES ASSUME NEW r \in Replicas, NEW d \in KnownDocs'
               PROVE  d \in Has(r)' \cup Coming(r)' \cup WillRead(r)' \cup excused'[r]
    BY DEF Supplied
  <2>1. Has(r)' = Has(r)
    BY <1>5 DEF Has, replicaVars, StoredDocs, SegmentDocs, BufferDocs
  <2>2. QueuedDocs(r)' = QueuedDocs(r) /\ Streamed(r)' = Streamed(r)
    BY <1>5 DEF QueuedDocs, Streamed, channelVars, replicaVars
  <2>3. WillRead(r) \subseteq WillRead(r)' /\ excused'[r] = excused[r]
    BY <1>5, <1>6 DEF WillRead, replicaVars
  <2>4. LeftDocs(r)' = UNION {LeftOf(writer'[u], r) : u \in Writers}
        /\ LeftDocs(r) = UNION {LeftOf(writer[u], r) : u \in Writers}
    BY LeftDocsAre
  <2>5. LeftOf(writer[t], r) = {}  BY <1>0, <1>3, NothingLeft
  <2>6. LeftOf(writer'[t], r) = new  BY <1>2, <1>4, LeftOfCall
  <2>7. LeftDocs(r) \cup new \subseteq LeftDocs(r)'
    <3>1. \A u \in Writers : LeftOf(writer[u], r) \subseteq LeftOf(writer'[u], r)
      BY <1>4, <2>5
    <3>. QED  BY <2>4, <2>6, <3>1
  <2>8. Coming(r) \cup new \subseteq Coming(r)'  BY <2>2, <2>7 DEF Coming
  <2>9. d \in new \/ d \in Has(r) \cup Coming(r) \cup WillRead(r) \cup excused[r]
    BY <1>0, <1>15 DEF Supplied
  <2>. QED  BY <2>1, <2>3, <2>8, <2>9
<1>22. StreamShape'  BY <1>0, <1>5 DEF StreamShape, replicaVars
<1>. QED  BY <1>6, <1>9, <1>10, <1>19, <1>20, <1>21, <1>22 DEF ReplicationInv

LEMMA LogSteps ==
    ASSUME ReplicationInv, NEW t \in Writers, LogIndex(t) \/ LogDelete(t)
    PROVE  ReplicationInv'
<1>0. TypeOK /\ clock \in Nat /\ cleared \in [DocIds -> Nat]
  BY ReplicationAssumption DEF ReplicationInv, TypeOK
<1>1. CASE LogIndex(t)
  <2>1. PICK ids \in Batches :
           /\ Log(t, "index", [k \in DOMAIN ids |-> IndexEntry([id |-> ids[k], ver |-> clock + k])])
           /\ UNCHANGED cleared
    BY <1>1 DEF LogIndex
  <2>2. ids \in Seq(DocIds) /\ ids # << >>  BY ReplicationAssumption
  <2>3. /\ DOMAIN ids = 1..Len(ids) /\ Len(ids) \in Nat
        /\ \A k \in DOMAIN ids : ids[k] \in DocIds
    BY <2>2
  <2> DEFINE es == [k \in DOMAIN ids |-> IndexEntry([id |-> ids[k], ver |-> clock + k])]
  <2>4. \A k \in DOMAIN ids : /\ es[k] \in WalEntry /\ es[k].op = "index"
                              /\ es[k].doc.ver = clock + k
    <3> TAKE k \in DOMAIN ids
    <3>1. clock + k \in Nat  BY <1>0, <2>3
    <3>. QED  BY <2>3, <3>1, EntryTypes
  <2>5. DOMAIN es = 1..Len(ids)  BY <2>3
  <2>. HIDE DEF es
  <2>6. es \in Seq(WalEntry) /\ Len(es) = Len(ids)
    <3>1. es = [k \in 1..Len(ids) |-> es[k]]  BY <2>3, <2>5 DEF es
    <3>2. es \in [1..Len(ids) -> WalEntry]  BY <2>3, <2>4, <3>1
    <3>. QED  BY <2>3, <2>5, <3>2
  <2>7. es # << >>  BY <2>2, <2>3, <2>6
  <2>8. Log(t, "index", es)  BY <2>1 DEF es
  <2>9. clock' = clock + Len(ids)  BY <2>6, <2>8 DEF Log
  <2>10. \A d \in DocsIn(es) : d.ver > clock /\ d.ver <= clock'
    <3> TAKE d \in DocsIn(es)
    <3>1. PICK k \in DOMAIN es : d = es[k].doc  BY DEF DocsIn
    <3>2. k \in 1..Len(ids) /\ d.ver = clock + k  BY <2>3, <2>4, <2>5, <3>1
    <3>. QED  BY <1>0, <2>3, <2>9, <3>2
  <2>. QED  BY <1>0, <2>1, <2>3, <2>4, <2>5, <2>6, <2>7, <2>8, <2>10, LogStep
<1>2. CASE LogDelete(t)
  <2>1. PICK i \in DocIds : /\ Log(t, "delete", <<DeleteEntry(i)>>)
                            /\ cleared' = [cleared EXCEPT ![i] = clock]
    BY <1>2 DEF LogDelete
  <2>2. PICK e : e = DeleteEntry(i)  OBVIOUS
  <2>3. e \in WalEntry /\ e.op = "delete"  BY <1>0, <2>2, EntryTypes
  <2>4. <<e>> \in Seq(WalEntry) /\ <<e>> # << >>  BY <2>3
  <2>5. DocsIn(<<e>>) = {}  BY <2>3, DocsOfOne
  <2>6. cleared' \in [DocIds -> Nat]  BY <1>0, <2>1
  <2>. QED  BY <2>1, <2>2, <2>4, <2>5, <2>6, LogStep
<1>. QED  BY <1>1, <1>2

\* The state of a thread that has sent one more record.
Advanced(w, n, left, pc) == [w EXCEPT !.sent = n, !.left = left, !.pc = pc]

LEMMA SentOneMore ==
    ASSUME NEW w \in Writer, NEW n \in Nat, NEW left \in SUBSET Replicas,
           NEW pc \in {"apply", "enqueue"},
           NEW v, v = Advanced(w, n, left, pc)
    PROVE  /\ v \in Writer /\ v.call = w.call /\ v.op = w.op /\ v.docs = w.docs
           /\ v.sent = n /\ v.left = left /\ v.pc = pc
<1>1. PICK a : a = [w EXCEPT !.sent = n]  OBVIOUS
<1>2. /\ a \in Writer /\ a.call = w.call /\ a.op = w.op /\ a.docs = w.docs
      /\ a.sent = n /\ a.left = w.left /\ a.pc = w.pc
  BY <1>1 DEF Writer
<1>3. PICK b : b = [a EXCEPT !.left = left]  OBVIOUS
<1>4. /\ b \in Writer /\ b.call = w.call /\ b.op = w.op /\ b.docs = w.docs
      /\ b.sent = n /\ b.left = left /\ b.pc = w.pc
  BY <1>2, <1>3 DEF Writer
<1>5. v = [b EXCEPT !.pc = pc]  BY <1>1, <1>3 DEF Advanced
<1>. QED  BY <1>4, <1>5 DEF Writer

\* A record that goes into a channel comes from there.
LEMMA EnqueueStep ==
    ASSUME ReplicationInv, NEW t \in Writers, Enqueue(t)
    PROVE  ReplicationInv'
<1>0. TypeOK /\ LogWhole /\ CallShape /\ StreamShape /\ VersionsUsed /\ QueuedFirst /\ Supplied
  BY DEF ReplicationInv
<1> DEFINE w == writer[t]
           e == w.call[w.sent + 1]
           last == w.sent + 1 = Len(w.call)
<1>1. /\ w \in Writer /\ w.call \in Seq(WalEntry) /\ w.sent \in Nat /\ w.pc = "enqueue"
      /\ w.left \in SUBSET Replicas /\ w.sent < Len(w.call)
      /\ DOMAIN w.call = 1..Len(w.call) /\ Len(w.call) \in Nat
  <2>1. w \in Writer /\ w.pc = "enqueue"  BY <1>0 DEF TypeOK, Enqueue
  <2>2. w.call \in Seq(WalEntry) /\ w.sent \in Nat /\ w.left \in SUBSET Replicas
    BY <2>1 DEF Writer
  <2>3. w.sent < Len(w.call)  BY <1>0, <2>1 DEF CallShape
  <2>. QED  BY <2>1, <2>2, <2>3
<1>2. PICK q \in w.left :
         /\ queue' = [queue EXCEPT ![q] = Append(@, e)]
         /\ writer' = [writer EXCEPT ![t] =
                IF w.left # {q} THEN [w EXCEPT !.left = @ \ {q}]
                ELSE [w EXCEPT !.sent = @ + 1,
                               !.left = IF last THEN {} ELSE Replicas,
                               !.pc   = IF last THEN "apply" ELSE @]]
  BY DEF Enqueue
<1>3. PICK v : v = IF w.left # {q} THEN [w EXCEPT !.left = @ \ {q}]
                   ELSE [w EXCEPT !.sent = @ + 1,
                                  !.left = IF last THEN {} ELSE Replicas,
                                  !.pc   = IF last THEN "apply" ELSE @]
  OBVIOUS
<1>4. /\ v \in Writer /\ v.call = w.call /\ v.op = w.op /\ v.docs = w.docs
      /\ w.left # {q} => v.pc = "enqueue" /\ v.sent = w.sent /\ v.left = w.left \ {q}
      /\ w.left = {q} => /\ v.sent = w.sent + 1
                         /\ v.left = IF last THEN {} ELSE Replicas
                         /\ v.pc = IF last THEN "apply" ELSE "enqueue"
  <2>. HIDE DEF w, last
  <2>1. CASE w.left # {q}
    <3>1. v = [w EXCEPT !.left = w.left \ {q}]  BY <1>3, <2>1
    <3>. QED  BY <1>1, <2>1, <3>1 DEF Writer
  <2>2. CASE w.left = {q}
    <3>1. PICK left : left = IF last THEN {} ELSE Replicas  OBVIOUS
    <3>2. PICK pc : pc = IF last THEN "apply" ELSE "enqueue"  OBVIOUS
    <3>3. v = [w EXCEPT !.sent = w.sent + 1, !.left = left, !.pc = pc]
      BY <1>1, <1>3, <2>2, <3>1, <3>2
    <3>0. v = Advanced(w, w.sent + 1, left, pc)  BY <3>3 DEF Advanced
    <3>4. left \in SUBSET Replicas /\ pc \in {"apply", "enqueue"}  BY <3>1, <3>2
    <3>5. v \in Writer /\ v.call = w.call /\ v.op = w.op /\ v.docs = w.docs
          /\ v.sent = w.sent + 1 /\ v.left = left /\ v.pc = pc
      <4>1. w.sent + 1 \in Nat  BY <1>1
      <4>. QED  BY <1>1, <3>0, <3>4, <4>1, SentOneMore
    <3>. QED  BY <2>2, <3>1, <3>2, <3>5
  <2>. QED  BY <2>1, <2>2
<1>5. writer' = [writer EXCEPT ![t] = v]  BY <1>2, <1>3
<1>6. /\ writer' \in [Writers -> Writer] /\ writer'[t] = v
      /\ \A u \in Writers : u # t => writer'[u] = writer[u]
  BY <1>0, <1>4, <1>5 DEF TypeOK
<1>7. e \in WalEntry /\ q \in Replicas  BY <1>1, <1>2
<1>8. /\ queue' \in [Replicas -> Seq(WalEntry)]
      /\ queue'[q] = Append(queue[q], e)
      /\ \A r \in Replicas : r # q => queue'[r] = queue[r]
      /\ DocsIn(queue'[q]) = DocsIn(queue[q]) \cup DocsIn(<<e>>)
  <2>1. queue \in [Replicas -> Seq(WalEntry)] /\ queue[q] \in Seq(WalEntry)
    BY <1>0, <1>7 DEF TypeOK
  <2>2. PICK a : a = Append(queue[q], e)  OBVIOUS
  <2>3. a \in Seq(WalEntry) /\ DocsIn(a) = DocsIn(queue[q]) \cup DocsIn(<<e>>)
    BY <1>7, <2>1, <2>2, DocsOfAppended
  <2>4. queue' = [queue EXCEPT ![q] = a]  BY <1>2, <2>2
  <2>. QED  BY <1>7, <2>1, <2>2, <2>3, <2>4
<1>. HIDE DEF w, last
<1>9. UNCHANGED <<walVars, primary, link, replicaVars, clock, faults, historyVars>>
  BY DEF Enqueue
<1>10. TypeOK'
  BY <1>0, <1>6, <1>8, <1>9 DEF TypeOK, WalTypeOK, walVars, replicaVars, historyVars
<1>11. LogWhole' /\ LoggedDocs' = LoggedDocs
  BY <1>0, <1>9 DEF LogWhole, LoggedDocs, walVars
<1>12. CallShape'
  <2> SUFFICES ASSUME NEW u \in Writers
               PROVE  LET x == writer'[u] IN
                      /\ x.pc = "enqueue" => x.sent < Len(x.call) /\ x.left # {}
                      /\ x.pc # "enqueue" => Replicas = {} \/ x.sent = Len(x.call)
                      /\ x.op = "index" => \A k \in DOMAIN x.call : x.call[k].op = "index"
                      /\ x.op = "delete" => x.call # << >>
    BY DEF CallShape
  <2>1. CASE u # t  BY <1>0, <1>6, <2>1 DEF CallShape
  <2>2. CASE u = t
    <3>1. /\ w.op = "index" => \A k \in DOMAIN w.call : w.call[k].op = "index"
          /\ w.op = "delete" => w.call # << >>
      BY <1>0 DEF CallShape, w
    <3>2. CASE w.left # {q}
      <4>1. v.sent < Len(v.call) /\ v.left # {} /\ v.pc = "enqueue"
        BY <1>1, <1>2, <1>4, <3>2
      <4>. QED  BY <1>4, <1>6, <2>2, <3>1, <4>1
    <3>3. CASE w.left = {q}
      <4>1. last => v.pc = "apply" /\ v.sent = Len(v.call)  BY <1>4, <3>3 DEF last
      <4>2. ~last => v.pc = "enqueue" /\ v.sent < Len(v.call) /\ v.left # {}
        BY <1>1, <1>4, <1>7, <3>3 DEF last
      <4>. QED  BY <1>4, <1>6, <2>2, <3>1, <4>1, <4>2
    <3>. QED  BY <3>2, <3>3
  <2>. QED  BY <2>1, <2>2
<1>13. \A u \in Writers : writer'[u].call = writer[u].call /\ writer'[u].docs = writer[u].docs
  BY <1>4, <1>6 DEF w
<1>14. StoredDocs(primary)' = StoredDocs(primary)
  BY <1>9 DEF StoredDocs, SegmentDocs, BufferDocs
<1>15. KnownDocs' = KnownDocs
  <2>1. \A u \in Writers : ToSet(writer'[u].docs) \cup DocsIn(writer'[u].call)
                              = ToSet(writer[u].docs) \cup DocsIn(writer[u].call)
    BY <1>13
  <2>2. KnownDocs' = StoredDocs(primary)' \cup LoggedDocs' \cup
           UNION {ToSet(writer'[u].docs) \cup DocsIn(writer'[u].call) : u \in Writers}
    BY DEF KnownDocs, ToSet, DocsIn
  <2>. QED  BY <1>11, <1>14, <2>1, <2>2 DEF KnownDocs
<1>16. VersionsUsed'  BY <1>0, <1>9, <1>15 DEF VersionsUsed
<1>17. QueuedFirst'
  <2> SUFFICES ASSUME NEW u \in Writers, writer'[u].pc = "enqueue",
                      NEW d \in DocsIn(writer'[u].call)
               PROVE  /\ d \notin StoredDocs(primary)'
                      /\ \A x \in Writers : /\ d \notin ToSet(writer'[x].docs)
                                            /\ x # u => d \notin DocsIn(writer'[x].call)
    BY DEF QueuedFirst, ToSet, DocsIn
  <2>1. writer[u].pc = "enqueue" /\ d \in DocsIn(writer[u].call)
    BY <1>1, <1>6, <1>13 DEF w
  <2>. QED  BY <1>0, <1>13, <1>14, <2>1 DEF QueuedFirst
<1>18. \A r \in Replicas :
          LeftOf(w, r) \subseteq LeftOf(v, r) \cup (IF r = q THEN DocsIn(<<e>>) ELSE {})
  <2> SUFFICES ASSUME NEW r \in Replicas, NEW j \in DOMAIN w.call,
                      j > w.sent, j = w.sent + 1 => r \in w.left, w.call[j].op = "index"
               PROVE  w.call[j].doc \in
                         LeftOf(v, r) \cup (IF r = q THEN DocsIn(<<e>>) ELSE {})
    BY DEF LeftOf
  <2>0. j \in Nat  BY <1>1
  <2>1. CASE r = q /\ j = w.sent + 1
    <3>1. e = w.call[j]  BY <2>1 DEF w
    <3>2. w.call[j].doc \in DocsIn(<<e>>)  BY <1>7, <3>1, DocsOfOne
    <3>. QED  BY <2>1, <3>2
  <2>2. CASE ~(r = q /\ j = w.sent + 1)
    <3>1. j > v.sent /\ (j = v.sent + 1 => r \in v.left)
      <4>1. CASE w.left # {q}  BY <1>4, <2>2, <4>1
      <4>2. CASE w.left = {q}
        <5>1. j # w.sent + 1  BY <2>2, <4>2
        <5>2. j > v.sent /\ v.sent = w.sent + 1  BY <1>1, <1>4, <2>0, <4>2, <5>1
        <5>3. ~last  BY <1>1, <2>0, <5>1, <5>2 DEF last
        <5>. QED  BY <1>4, <4>2, <5>2, <5>3
      <4>. QED  BY <4>1, <4>2
    <3>2. w.call[j].doc \in LeftOf(v, r)  BY <1>4, <3>1 DEF LeftOf
    <3>. QED  BY <3>2
  <2>. QED  BY <2>1, <2>2
<1>19. Supplied'
  <2> SUFFICES ASSUME NEW r \in Replicas, NEW d \in KnownDocs'
               PROVE  d \in Has(r)' \cup Coming(r)' \cup WillRead(r)' \cup excused'[r]
    BY DEF Supplied
  <2>1. d \in Has(r) \cup Coming(r) \cup WillRead(r) \cup excused[r]
    BY <1>0, <1>15 DEF Supplied
  <2>2. /\ Has(r)' = Has(r) /\ Streamed(r)' = Streamed(r) /\ excused'[r] = excused[r]
        /\ WillRead(r)' = WillRead(r)
    BY <1>9, <1>11 DEF Has, replicaVars, historyVars, StoredDocs, SegmentDocs, BufferDocs,
       Streamed, WillRead
  <2>3. QueuedDocs(r)' = QueuedDocs(r) \cup (IF r = q THEN DocsIn(<<e>>) ELSE {})
    <3>1. QueuedDocs(r)' = DocsIn(queue'[r])  BY DEF QueuedDocs, DocsIn
    <3>2. CASE r = q  BY <1>8, <3>1, <3>2 DEF QueuedDocs
    <3>3. CASE r # q  BY <1>8, <3>1, <3>3 DEF QueuedDocs
    <3>. QED  BY <3>2, <3>3
  <2>4. LeftDocs(r) \subseteq LeftDocs(r)' \cup QueuedDocs(r)'
    <3>1. /\ LeftDocs(r)' = UNION {LeftOf(writer'[u], r) : u \in Writers}
          /\ LeftDocs(r) = UNION {LeftOf(writer[u], r) : u \in Writers}
      BY LeftDocsAre
    <3>2. LeftOf(writer[t], r) \subseteq LeftOf(writer'[t], r) \cup QueuedDocs(r)'
      BY <1>6, <1>18, <2>3 DEF w
    <3>3. \A u \in Writers : LeftOf(writer[u], r) \subseteq LeftOf(writer'[u], r) \cup QueuedDocs(r)'
      BY <1>6, <3>2
    <3>. QED  BY <3>1, <3>3
  <2>5. Coming(r) \subseteq Coming(r)'  BY <2>2, <2>3, <2>4 DEF Coming
  <2>. QED  BY <2>1, <2>2, <2>5
<1>20. StreamShape'  BY <1>0, <1>9 DEF StreamShape, replicaVars
<1>. QED  BY <1>10, <1>11, <1>12, <1>16, <1>17, <1>19, <1>20 DEF ReplicationInv

\* The primary comes back with its segments and its log; what was on its way to a
\* replica is lost to it unless it is in the log it will read.
LEMMA RestartStep ==
    ASSUME ReplicationInv, PrimaryRestarts
    PROVE  ReplicationInv'
<1>0. /\ TypeOK /\ LogWhole /\ CallShape /\ StreamShape /\ VersionsUsed /\ QueuedFirst
      /\ Supplied /\ WalTypeOK /\ primary \in Store
  BY DEF ReplicationInv, TypeOK
<1>1. WalTypeOK' /\ LogWhole' /\ LoggedDocs' = LoggedDocs
  BY <1>0, LogOpened DEF PrimaryRestarts
<1>2. PICK log : log = ReadRecords(walFile)  OBVIOUS
<1>3. log \in Seq(WalRecord) /\ RecordDocs(log) = LoggedDocs  BY <1>0, <1>2, LoggedAre
<1>4. PICK s : s = Reopened(primary)  OBVIOUS
<1>5. s \in Store /\ SegmentDocs(s) = SegmentDocs(primary)  BY <1>0, <1>4, ReopenedDocs
<1>6. primary' = Replayed(s, log)  BY <1>2, <1>4 DEF PrimaryRestarts
<1>7. /\ primary' \in Store
      /\ StoredDocs(primary)' = SegmentDocs(primary) \cup LoggedDocs
  BY <1>3, <1>5, <1>6, ReplayedDocs DEF StoredDocs
<1>8. /\ writer' = [t \in Writers |-> IdleWriter]
      /\ queue' = [r \in Replicas |-> << >>] /\ link' = [r \in Replicas |-> "connecting"]
      /\ mode' = [r \in Replicas |->
                     IF mode[r] \in {"down", "opened"} THEN mode[r] ELSE "serving"]
      /\ stream' = [r \in Replicas |-> << >>]
      /\ excused' = [r \in Replicas |-> excused[r] \cup (Coming(r) \ WillRead(r))]
      /\ UNCHANGED <<replica, hands, caught, clock, cleared, contested>>
      /\ faults' = faults + 1 /\ faults < MaxFaults
  BY DEF PrimaryRestarts, Fails
<1>9. PICK idle : idle = IdleWriter  OBVIOUS
<1>10. /\ idle \in Writer /\ idle.pc = "idle" /\ idle.docs = << >>
       /\ idle.call = << >> /\ idle.sent = 0 /\ idle.op = "none"
  BY <1>9, OtherStates
<1>11. \A u \in Writers : writer'[u] = idle  BY <1>8, <1>9
<1>12. TypeOK'
  <2>1. writer' \in [Writers -> Writer]  BY <1>8, <1>9, <1>10
  <2>2. << >> \in Seq(WalEntry)  OBVIOUS
  <2>3. queue' \in [Replicas -> Seq(WalEntry)] /\ stream' \in [Replicas -> Seq(WalEntry)]
    BY <1>8, <2>2
  <2>4. excused' \in [Replicas -> SUBSET Document]
    <3>1. \A r \in Replicas : Coming(r) \in SUBSET Document  BY <1>0, DocsTyped
    <3>. QED  BY <1>0, <1>8, <3>1 DEF TypeOK
  <2>5. faults' \in 0..MaxFaults  BY <1>0, <1>8, ReplicationAssumption DEF TypeOK
  <2>6. mode' \in [Replicas -> {"down", "opened", "catch_up", "sync_read", "sync", "serving"}]
        /\ link' \in [Replicas -> {"connecting", "connected", "hung"}]
    BY <1>0, <1>8 DEF TypeOK
  <2>. QED  BY <1>0, <1>1, <1>7, <1>8, <2>1, <2>3, <2>4, <2>5, <2>6 DEF TypeOK
<1>13. CallShape'
  <2>1. Len(<< >>) = 0 /\ DOMAIN << >> = {}  OBVIOUS
  <2>. QED  BY <1>10, <1>11, <2>1 DEF CallShape
<1>14. StreamShape'  BY <1>8 DEF StreamShape
<1>15. KnownDocs' \subseteq KnownDocs /\ KnownDocs' = SegmentDocs(primary) \cup LoggedDocs
  <2>1. \A u \in Writers : ToSet(writer'[u].docs) \cup DocsIn(writer'[u].call) = {}
    <3>1. ToSet(<< >>) = {} /\ DocsIn(<< >>) = {}  BY DEF ToSet, DocsIn
    <3>. QED  BY <1>10, <1>11, <3>1
  <2>2. KnownDocs' = StoredDocs(primary)' \cup LoggedDocs' \cup
           UNION {ToSet(writer'[u].docs) \cup DocsIn(writer'[u].call) : u \in Writers}
    BY DEF KnownDocs, ToSet, DocsIn
  <2>3. KnownDocs' = SegmentDocs(primary) \cup LoggedDocs  BY <1>1, <1>7, <2>1, <2>2
  <2>. QED  BY <2>3 DEF KnownDocs, StoredDocs
<1>16. VersionsUsed'  BY <1>0, <1>8, <1>15 DEF VersionsUsed
<1>17. QueuedFirst'  BY <1>10, <1>11 DEF QueuedFirst
<1>18. Supplied'
  <2> SUFFICES ASSUME NEW r \in Replicas, NEW d \in KnownDocs'
               PROVE  d \in Has(r)' \cup Coming(r)' \cup WillRead(r)' \cup excused'[r]
    BY DEF Supplied
  <2>1. d \in Has(r) \cup Coming(r) \cup WillRead(r) \cup excused[r]
    BY <1>0, <1>15 DEF Supplied
  <2>2. Has(r)' = Has(r)  BY <1>8 DEF Has, StoredDocs, SegmentDocs, BufferDocs
  <2>3. WillRead(r)' = WillRead(r)  BY <1>1, <1>8 DEF WillRead
  <2>4. Coming(r) \cup excused[r] \subseteq WillRead(r) \cup excused'[r]  BY <1>8
  <2>. QED  BY <2>1, <2>2, <2>3, <2>4
<1>. QED  BY <1>1, <1>12, <1>13, <1>14, <1>16, <1>17, <1>18 DEF ReplicationInv

-----------------------------------------------------------------------------
(* The steps of channels and replicas *)

\* A step of replica r, or of its channel, keeps the invariant if what r had, was
\* getting or would read it still has, gets, reads or is excused for.
LEMMA ReplicaStep ==
    ASSUME ReplicationInv, NEW r \in Replicas,
           UNCHANGED <<walVars, primaryVars, clock>>,
           TypeOK', StreamShape',
           \A q \in Replicas \ {r} :
              /\ queue'[q] = queue[q] /\ mode'[q] = mode[q] /\ replica'[q] = replica[q]
              /\ hands'[q] = hands[q] /\ stream'[q] = stream[q] /\ excused'[q] = excused[q],
           Has(r) \cup QueuedDocs(r) \cup Streamed(r) \cup WillRead(r) \cup excused[r]
              \subseteq Has(r)' \cup QueuedDocs(r)' \cup Streamed(r)' \cup WillRead(r)'
                           \cup excused'[r]
    PROVE  ReplicationInv'
<1>0. LogWhole /\ CallShape /\ VersionsUsed /\ QueuedFirst /\ Supplied
  BY DEF ReplicationInv
<1>1. walFile' = walFile /\ writer' = writer /\ primary' = primary /\ clock' = clock
  BY DEF walVars, primaryVars
<1>2. LogWhole' /\ CallShape'  BY <1>0, <1>1 DEF LogWhole, CallShape
<1>3. LoggedDocs' = LoggedDocs  BY <1>1 DEF LoggedDocs
<1>4. KnownDocs' = KnownDocs  BY <1>1, <1>3 DEF KnownDocs, StoredDocs, SegmentDocs, BufferDocs
<1>5. VersionsUsed'  BY <1>0, <1>1, <1>4 DEF VersionsUsed
<1>6. QueuedFirst'  BY <1>0, <1>1 DEF QueuedFirst, StoredDocs, SegmentDocs, BufferDocs
<1>7. Supplied'
  <2> SUFFICES ASSUME NEW q \in Replicas, NEW d \in KnownDocs'
               PROVE  d \in Has(q)' \cup Coming(q)' \cup WillRead(q)' \cup excused'[q]
    BY DEF Supplied
  <2>1. d \in Has(q) \cup Coming(q) \cup WillRead(q) \cup excused[q]
    BY <1>0, <1>4 DEF Supplied
  <2>2. LeftDocs(q)' = LeftDocs(q)  BY <1>1 DEF LeftDocs, Unsent
  <2>3. CASE q = r  BY <2>1, <2>2, <2>3 DEF Coming
  <2>4. CASE q # r
    <3>1. Has(q)' = Has(q)  BY <2>4 DEF Has, StoredDocs, SegmentDocs, BufferDocs
    <3>2. QueuedDocs(q)' = QueuedDocs(q) /\ Streamed(q)' = Streamed(q)
      BY <2>4 DEF QueuedDocs, Streamed
    <3>3. WillRead(q)' = WillRead(q) /\ excused'[q] = excused[q]
      BY <1>3, <2>4 DEF WillRead
    <3>. QED  BY <2>1, <2>2, <3>1, <3>2, <3>3 DEF Coming
  <2>. QED  BY <2>3, <2>4
<1>. QED  BY <1>2, <1>5, <1>6, <1>7 DEF ReplicationInv

\* A handler puts the document of its entry into the buffer, or into the hands of
\* the flush it starts, and takes none away.
LEMMA HandledDocs ==
    ASSUME TypeOK, NEW r \in Replicas, NEW e \in WalEntry, Handles(r, e)
    PROVE  /\ replica' \in [Replicas -> Store] /\ hands' \in [Replicas -> Seq(Document)]
           /\ Has(r)' = Has(r) \cup DocsIn(<<e>>)
           /\ \A q \in Replicas \ {r} : replica'[q] = replica[q] /\ hands'[q] = hands[q]
<1>0. /\ replica \in [Replicas -> Store] /\ hands \in [Replicas -> Seq(Document)]
      /\ replica[r] \in Store /\ hands[r] = << >>
  BY DEF TypeOK, Handles
<1>1. e.op \in {"index", "delete"} /\ e.doc \in Document /\ e.doc.id \in DocIds
  BY DEF WalEntry, Document
<1>2. Has(r) = SegmentDocs(replica[r]) \cup BufferDocs(replica[r])
  BY <1>0 DEF Has, StoredDocs, ToSet
<1>3. Has(r)' = SegmentDocs(replica'[r]) \cup BufferDocs(replica'[r]) \cup ToSet(hands'[r])
  BY DEF Has, StoredDocs, SegmentDocs, BufferDocs, ToSet
<1>4. CASE e.op = "delete"
  <2>1. PICK m : m = MarkedInBuffer(replica[r], e.doc.id)  OBVIOUS
  <2>2. /\ m \in Store /\ SegmentDocs(m) = SegmentDocs(replica[r])
        /\ BufferDocs(m) = BufferDocs(replica[r])
    BY <1>0, <1>1, <2>1, MarkedDocs
  <2>3. PICK s : s = MarkedInSegments(m, e.doc.id)  OBVIOUS
  <2>4. /\ s \in Store /\ SegmentDocs(s) = SegmentDocs(replica[r])
        /\ BufferDocs(s) = BufferDocs(replica[r])
    BY <1>1, <2>2, <2>3, MarkedDocs
  <2>5. replica' = [replica EXCEPT ![r] = s] /\ hands' = hands
    BY <1>4, <2>1, <2>3 DEF Handles
  <2>6. DocsIn(<<e>>) = {}  BY <1>4, DocsOfOne
  <2>7. replica'[r] = s /\ hands'[r] = << >> /\ ToSet(<< >>) = {}
    BY <1>0, <2>5 DEF ToSet
  <2>8. Has(r)' = Has(r)  BY <1>2, <1>3, <2>4, <2>7
  <2>. QED  BY <1>0, <2>4, <2>5, <2>6, <2>8
<1>5. CASE e.op = "index"
  <2>1. PICK s : s = Added(replica[r], <<e.doc>>)  OBVIOUS
  <2>2. <<e.doc>> \in Seq(Document) /\ ToSet(<<e.doc>>) = {e.doc}  BY <1>1 DEF ToSet
  <2>3. /\ s \in Store /\ SegmentDocs(s) = SegmentDocs(replica[r])
        /\ BufferDocs(s) = BufferDocs(replica[r]) \cup {e.doc}
    BY <1>0, <2>1, <2>2, AddedDocs
  <2>4. s.buf \in Seq(Document) /\ BufferDocs(s) = ToSet(s.buf)  BY <2>3, StoredTyped
  <2>5. DocsIn(<<e>>) = {e.doc}  BY <1>5, DocsOfOne
  <2>6. PICK v : v = IF Full(s) THEN Drained(s) ELSE s  OBVIOUS
  <2>7. PICK h : h = IF Full(s) THEN s.buf ELSE << >>  OBVIOUS
  <2>8. replica' = [replica EXCEPT ![r] = v] /\ hands' = [hands EXCEPT ![r] = h]
    BY <1>5, <2>1, <2>6, <2>7 DEF Handles
  <2>9. /\ v \in Store /\ h \in Seq(Document)
        /\ SegmentDocs(v) \cup BufferDocs(v) \cup ToSet(h) = SegmentDocs(s) \cup BufferDocs(s)
    <3>1. CASE Full(s)
      <4>1. v = Drained(s) /\ h = s.buf  BY <2>6, <2>7, <3>1
      <4>. QED  BY <2>3, <2>4, <4>1, DrainedDocs
    <3>2. CASE ~Full(s)
      <4>1. v = s /\ h = << >>  BY <2>6, <2>7, <3>2
      <4>2. ToSet(<< >>) = {} /\ << >> \in Seq(Document)  BY DEF ToSet
      <4>. QED  BY <2>3, <4>1, <4>2
    <3>. QED  BY <3>1, <3>2
  <2>10. replica'[r] = v /\ hands'[r] = h  BY <1>0, <2>8
  <2>11. Has(r)' = Has(r) \cup DocsIn(<<e>>)
    BY <1>2, <1>3, <2>3, <2>5, <2>9, <2>10
  <2>. QED  BY <1>0, <2>8, <2>9, <2>11
<1>. QED  BY <1>1, <1>4, <1>5

\* The first entry of a list is taken.
LEMMA TakenDocs ==
    ASSUME NEW Q, Q \in [Replicas -> Seq(WalEntry)], NEW r \in Replicas, Q[r] # << >>,
           NEW P, P = [Q EXCEPT ![r] = Tail(@)]
    PROVE  /\ P \in [Replicas -> Seq(WalEntry)] /\ Head(Q[r]) \in WalEntry
           /\ DocsIn(Q[r]) \subseteq DocsIn(<<Head(Q[r])>>) \cup DocsIn(P[r])
           /\ \A q \in Replicas \ {r} : P[q] = Q[q]
<1>1. Q[r] \in Seq(WalEntry)  OBVIOUS
<1>2. PICK tail : tail = Tail(Q[r])  OBVIOUS
<1>3. /\ Head(Q[r]) \in WalEntry /\ tail \in Seq(WalEntry)
      /\ DocsIn(Q[r]) \subseteq DocsIn(<<Head(Q[r])>>) \cup DocsIn(tail)
  BY <1>1, <1>2, DocsOfTail
<1>4. P = [Q EXCEPT ![r] = tail]  BY <1>2
<1>. QED  BY <1>3, <1>4

LEMMA ForwarderSteps ==
    ASSUME ReplicationInv, NEW r \in Replicas, ForwarderStep(r)
    PROVE  ReplicationInv'
<1>0. TypeOK /\ LogWhole /\ StreamShape  BY DEF ReplicationInv
<1>1. /\ queue \in [Replicas -> Seq(WalEntry)] /\ excused \in [Replicas -> SUBSET Document]
      /\ faults \in 0..MaxFaults /\ MaxFaults \in Nat
      /\ link \in [Replicas -> {"connecting", "connected", "hung"}]
  BY <1>0, ReplicationAssumption DEF TypeOK
<1>2. CASE Connect(r)
  <2>1. UNCHANGED <<walVars, primaryVars, queue, replicaVars, clock, faults, historyVars>>
        /\ link' = [link EXCEPT ![r] = "connected"]
    BY <1>2 DEF Connect
  <2>2. TypeOK'  BY <1>0, <2>1 DEF TypeOK, WalTypeOK, walVars, primaryVars, replicaVars, historyVars
  <2>3. StreamShape'  BY <1>0, <2>1 DEF StreamShape, replicaVars
  <2>4. Has(r)' = Has(r) /\ QueuedDocs(r)' = QueuedDocs(r) /\ Streamed(r)' = Streamed(r)
        /\ WillRead(r)' = WillRead(r) /\ excused'[r] = excused[r]
    BY <2>1 DEF Has, StoredDocs, SegmentDocs, BufferDocs, QueuedDocs, Streamed, WillRead,
       LoggedDocs, walVars, replicaVars, historyVars
  <2>5. \A q \in Replicas \ {r} :
           /\ queue'[q] = queue[q] /\ mode'[q] = mode[q] /\ replica'[q] = replica[q]
           /\ hands'[q] = hands[q] /\ stream'[q] = stream[q] /\ excused'[q] = excused[q]
    BY <2>1 DEF replicaVars, historyVars
  <2>. QED  BY <2>1, <2>2, <2>3, <2>4, <2>5, ReplicaStep
<1>3. ASSUME Received(r)
      PROVE  /\ queue' \in [Replicas -> Seq(WalEntry)] /\ Head(queue[r]) \in WalEntry
             /\ QueuedDocs(r) \subseteq DocsIn(<<Head(queue[r])>>) \cup QueuedDocs(r)'
             /\ \A q \in Replicas \ {r} : queue'[q] = queue[q]
  <2>1. queue[r] # << >> /\ queue' = [queue EXCEPT ![r] = Tail(@)]  BY <1>3 DEF Received
  <2>2. QueuedDocs(r)' = DocsIn(queue'[r])  BY DEF QueuedDocs, DocsIn
  <2>. QED  BY <1>1, <2>1, <2>2, TakenDocs DEF QueuedDocs
<1>4. CASE Forward(r)
  <2>1. /\ Received(r) /\ Handles(r, Head(queue[r]))
        /\ UNCHANGED <<walVars, primaryVars, link, mode, stream, caught, clock, faults, historyVars>>
    BY <1>4 DEF Forward
  <2>2. /\ replica' \in [Replicas -> Store] /\ hands' \in [Replicas -> Seq(Document)]
        /\ Has(r)' = Has(r) \cup DocsIn(<<Head(queue[r])>>)
        /\ \A q \in Replicas \ {r} : replica'[q] = replica[q] /\ hands'[q] = hands[q]
    BY <1>0, <1>3, <2>1, HandledDocs
  <2>3. TypeOK'
    BY <1>0, <1>3, <2>1, <2>2 DEF TypeOK, WalTypeOK, walVars, primaryVars, historyVars
  <2>4. StreamShape'  BY <1>0, <2>1 DEF StreamShape
  <2>5. Streamed(r)' = Streamed(r) /\ WillRead(r)' = WillRead(r) /\ excused'[r] = excused[r]
    BY <2>1 DEF Streamed, WillRead, LoggedDocs, walVars, historyVars
  <2>6. Has(r) \cup QueuedDocs(r) \cup Streamed(r) \cup WillRead(r) \cup excused[r]
              \subseteq Has(r)' \cup QueuedDocs(r)' \cup Streamed(r)' \cup WillRead(r)'
                           \cup excused'[r]
    BY <1>3, <2>1, <2>2, <2>5
  <2>7. \A q \in Replicas \ {r} :
           /\ queue'[q] = queue[q] /\ mode'[q] = mode[q] /\ replica'[q] = replica[q]
           /\ hands'[q] = hands[q] /\ stream'[q] = stream[q] /\ excused'[q] = excused[q]
    BY <1>3, <2>1, <2>2 DEF historyVars
  <2>. QED  BY <2>1, <2>3, <2>4, <2>6, <2>7, ReplicaStep
<1>5. CASE ForwardFails(r)
  <2>1. /\ Received(r)
        /\ UNCHANGED <<walVars, primaryVars, mode, stream, caught, clock, cleared, contested>>
    BY <1>5 DEF ForwardFails
  <2> DEFINE docs == DocsIn(<<Head(queue[r])>>)
             cut  == excused' = CutOff(r, docs) /\ UNCHANGED <<replica, hands>>
             done == Handles(r, Head(queue[r])) /\ UNCHANGED excused
  <2>2. /\ link' \in [Replicas -> {"connecting", "connected", "hung"}]
        /\ faults' \in 0..MaxFaults
        /\ cut \/ done
    <3>1. CASE mode[r] # "serving"
      BY <1>1, <1>5, <3>1 DEF ForwardFails
    <3>2. CASE mode[r] = "serving"
      <4>1. PICK kind \in CallFaults :
               /\ Fails(kind)
               /\ link' = [link EXCEPT ![r] = IF kind = "call_hangs" THEN "hung"
                                              ELSE "connecting"]
               /\ cut \/ done
        BY <1>5, <3>2 DEF ForwardFails
      <4>2. faults' \in 0..MaxFaults  BY <1>1, <4>1 DEF Fails
      <4>3. link' \in [Replicas -> {"connecting", "connected", "hung"}]  BY <1>1, <4>1
      <4>. QED  BY <4>1, <4>2, <4>3
    <3>. QED  BY <3>1, <3>2
  <2>3. docs \in SUBSET Document
    <3>1. Head(queue[r]) \in WalEntry  BY <1>3, <2>1
    <3>2. <<Head(queue[r])>> \in Seq(WalEntry)  BY <3>1
    <3>. QED  BY <1>0, <3>2, DocsTyped
  <2>4. Streamed(r)' = Streamed(r) /\ WillRead(r)' = WillRead(r)
    BY <2>1 DEF Streamed, WillRead, LoggedDocs, walVars
  <2>5. /\ replica' \in [Replicas -> Store] /\ hands' \in [Replicas -> Seq(Document)]
        /\ excused' \in [Replicas -> SUBSET Document]
        /\ Has(r) \cup docs \cup WillRead(r) \cup excused[r]
              \subseteq Has(r)' \cup WillRead(r)' \cup excused'[r]
        /\ \A q \in Replicas \ {r} : /\ replica'[q] = replica[q] /\ hands'[q] = hands[q]
                                     /\ excused'[q] = excused[q]
    <3>1. CASE cut
      <4>1. excused' = [excused EXCEPT ![r] = @ \cup (docs \ WillRead(r))]
        BY <3>1 DEF CutOff
      <4>2. replica' = replica /\ hands' = hands  BY <3>1
      <4>3. Has(r)' = Has(r)  BY <4>2 DEF Has, StoredDocs, SegmentDocs, BufferDocs
      <4>4. /\ replica' \in [Replicas -> Store] /\ hands' \in [Replicas -> Seq(Document)]
        BY <1>0, <4>2 DEF TypeOK
      <4>. HIDE DEF docs
      <4>5. /\ excused' \in [Replicas -> SUBSET Document]
            /\ excused'[r] = excused[r] \cup (docs \ WillRead(r))
            /\ \A q \in Replicas \ {r} : excused'[q] = excused[q]
        BY <1>1, <2>3, <4>1
      <4>. QED  BY <2>4, <4>2, <4>3, <4>4, <4>5
    <3>2. CASE done
      <4>1. /\ replica' \in [Replicas -> Store] /\ hands' \in [Replicas -> Seq(Document)]
            /\ Has(r)' = Has(r) \cup docs
            /\ \A q \in Replicas \ {r} : replica'[q] = replica[q] /\ hands'[q] = hands[q]
        BY <1>0, <1>3, <2>1, <3>2, HandledDocs
      <4>. QED  BY <1>1, <2>4, <3>2, <4>1
    <3>. QED  BY <2>2, <3>1, <3>2
  <2>. HIDE DEF docs, cut, done
  <2>6. TypeOK'
    BY <1>0, <1>3, <2>1, <2>2, <2>5 DEF TypeOK, WalTypeOK, walVars, primaryVars
  <2>7. StreamShape'  BY <1>0, <2>1 DEF StreamShape
  <2>8. QueuedDocs(r) \subseteq docs \cup QueuedDocs(r)'  BY <1>3, <2>1 DEF docs
  <2>9. Has(r) \cup QueuedDocs(r) \cup Streamed(r) \cup WillRead(r) \cup excused[r]
              \subseteq Has(r)' \cup QueuedDocs(r)' \cup Streamed(r)' \cup WillRead(r)'
                           \cup excused'[r]
    BY <2>4, <2>5, <2>8
  <2>10. \A q \in Replicas \ {r} :
           /\ queue'[q] = queue[q] /\ mode'[q] = mode[q] /\ replica'[q] = replica[q]
           /\ hands'[q] = hands[q] /\ stream'[q] = stream[q] /\ excused'[q] = excused[q]
    BY <1>3, <2>1, <2>5
  <2>. QED  BY <2>1, <2>6, <2>7, <2>9, <2>10, ReplicaStep
<1>. QED  BY <1>2, <1>4, <1>5 DEF ForwarderStep

\* A step that leaves the channels alone, and every replica but r.
LEMMA OwnStep ==
    ASSUME ReplicationInv, NEW r \in Replicas,
           UNCHANGED <<walVars, primaryVars, queue, clock>>,
           TypeOK', StreamShape',
           \A q \in Replicas \ {r} :
              /\ mode'[q] = mode[q] /\ replica'[q] = replica[q]
              /\ hands'[q] = hands[q] /\ stream'[q] = stream[q] /\ excused'[q] = excused[q],
           Has(r) \cup Streamed(r) \cup WillRead(r) \cup excused[r]
              \subseteq Has(r)' \cup Streamed(r)' \cup WillRead(r)' \cup excused'[r]
    PROVE  ReplicationInv'
<1>1. queue' = queue  OBVIOUS
<1>2. QueuedDocs(r)' = QueuedDocs(r)  BY <1>1 DEF QueuedDocs
<1>3. Has(r) \cup QueuedDocs(r) \cup Streamed(r) \cup WillRead(r) \cup excused[r]
              \subseteq Has(r)' \cup QueuedDocs(r)' \cup Streamed(r)' \cup WillRead(r)'
                           \cup excused'[r]
  BY <1>2
<1>. QED  BY <1>1, <1>3, ReplicaStep

LEMMA CatchUpSteps ==
    ASSUME ReplicationInv, NEW r \in Replicas, CatchUpStep(r)
    PROVE  ReplicationInv'
<1>0. /\ TypeOK /\ LogWhole /\ StreamShape /\ WalTypeOK /\ primary \in Store
      /\ replica \in [Replicas -> Store] /\ hands \in [Replicas -> Seq(Document)]
      /\ stream \in [Replicas -> Seq(WalEntry)] /\ caught \in [Replicas -> Nat]
      /\ excused \in [Replicas -> SUBSET Document]
      /\ mode \in [Replicas -> {"down", "opened", "catch_up", "sync_read", "sync", "serving"}]
  BY DEF ReplicationInv, TypeOK
<1>a. ASSUME UNCHANGED <<replica, hands>>
      PROVE  Has(r)' = Has(r)
  BY <1>a DEF Has, StoredDocs, SegmentDocs, BufferDocs
<1>b. Streamed(r)' = DocsIn(stream'[r])  BY DEF Streamed, DocsIn
<1>c. ASSUME UNCHANGED walVars
      PROVE  LoggedDocs' = LoggedDocs
  BY <1>c DEF LoggedDocs, walVars
<1>d. WillRead(r) = IF mode[r] \in {"down", "opened"} THEN LoggedDocs ELSE {}  BY DEF WillRead
<1>e. WillRead(r)' = IF mode'[r] \in {"down", "opened"} THEN LoggedDocs' ELSE {}
  BY DEF WillRead
<1>1. CASE ReplicaOpens(r)
  <2>1. /\ mode[r] = "down" /\ mode' = [mode EXCEPT ![r] = "opened"]
        /\ UNCHANGED <<walVars, primaryVars, queue, link, replica, hands, stream, caught, clock,
                       faults, historyVars>>
    BY <1>1 DEF ReplicaOpens, channelVars
  <2>2. TypeOK'  BY <1>0, <2>1 DEF TypeOK, WalTypeOK, walVars, primaryVars, historyVars
  <2>3. StreamShape'  BY <1>0, <2>1 DEF StreamShape
  <2>4. mode'[r] = "opened" /\ Streamed(r)' = Streamed(r) /\ excused'[r] = excused[r]
    BY <1>0, <2>1 DEF Streamed, historyVars
  <2>5. Has(r) \cup Streamed(r) \cup WillRead(r) \cup excused[r]
              \subseteq Has(r)' \cup Streamed(r)' \cup WillRead(r)' \cup excused'[r]
    BY <1>a, <1>c, <1>d, <1>e, <2>1, <2>4
  <2>6. \A q \in Replicas \ {r} :
           /\ mode'[q] = mode[q] /\ replica'[q] = replica[q]
           /\ hands'[q] = hands[q] /\ stream'[q] = stream[q] /\ excused'[q] = excused[q]
    BY <1>0, <2>1 DEF historyVars
  <2>. QED  BY <2>1, <2>2, <2>3, <2>5, <2>6, OwnStep
<1>2. CASE RequestCatchUp(r)
  <2>0. PICK s : s = EntriesOf(ReadSince(walFile, OwnNextSeq(r)))  OBVIOUS
  <2>1. /\ mode[r] = "opened" /\ mode' = [mode EXCEPT ![r] = "catch_up"]
        /\ stream' = [stream EXCEPT ![r] = s] /\ caught' = [caught EXCEPT ![r] = 0]
        /\ UNCHANGED <<walVars, primaryVars, queue, link, replica, hands, clock,
                       faults, historyVars>>
    BY <1>2, <2>0 DEF RequestCatchUp, channelVars
  <2>2. s \in Seq(WalEntry) /\ LoggedDocs \subseteq DocsIn(s)  BY <1>0, <2>0, CatchUpStream
  <2>3. stream' \in [Replicas -> Seq(WalEntry)] /\ stream'[r] = s /\ caught' \in [Replicas -> Nat]
        /\ mode'[r] = "catch_up"
    BY <1>0, <2>1, <2>2
  <2>4. TypeOK'  BY <1>0, <2>1, <2>3 DEF TypeOK, WalTypeOK, walVars, primaryVars, historyVars
  <2>5. StreamShape'  BY <1>0, <2>1 DEF StreamShape
  <2>6. Streamed(r) = {}
    <3>1. stream[r] = << >>  BY <1>0, <2>1 DEF StreamShape
    <3>. QED  BY <3>1 DEF Streamed, DocsIn
  <2>7. excused'[r] = excused[r]  BY <2>1 DEF historyVars
  <2>8. Has(r) \cup Streamed(r) \cup WillRead(r) \cup excused[r]
              \subseteq Has(r)' \cup Streamed(r)' \cup WillRead(r)' \cup excused'[r]
    BY <1>a, <1>b, <1>d, <2>1, <2>2, <2>3, <2>6, <2>7
  <2>9. \A q \in Replicas \ {r} :
           /\ mode'[q] = mode[q] /\ replica'[q] = replica[q]
           /\ hands'[q] = hands[q] /\ stream'[q] = stream[q] /\ excused'[q] = excused[q]
    BY <1>0, <2>1 DEF historyVars
  <2>. QED  BY <2>1, <2>4, <2>5, <2>8, <2>9, OwnStep
<1>3. CASE ApplyStreamed(r)
  <2>1. /\ mode[r] \in {"catch_up", "sync"} /\ stream[r] # << >>
        /\ Handles(r, Head(stream[r]))
        /\ stream' = [stream EXCEPT ![r] = Tail(@)]
        /\ UNCHANGED <<walVars, primaryVars, queue, link, mode, clock, faults, historyVars>>
    BY <1>3 DEF ApplyStreamed, channelVars
  <2>2. /\ stream' \in [Replicas -> Seq(WalEntry)] /\ Head(stream[r]) \in WalEntry
        /\ Streamed(r) \subseteq DocsIn(<<Head(stream[r])>>) \cup DocsIn(stream'[r])
        /\ \A q \in Replicas \ {r} : stream'[q] = stream[q]
    BY <1>0, <2>1, TakenDocs DEF Streamed
  <2>3. /\ replica' \in [Replicas -> Store] /\ hands' \in [Replicas -> Seq(Document)]
        /\ Has(r)' = Has(r) \cup DocsIn(<<Head(stream[r])>>)
        /\ \A q \in Replicas \ {r} : replica'[q] = replica[q] /\ hands'[q] = hands[q]
    BY <1>0, <2>1, <2>2, HandledDocs
  <2>4. caught' \in [Replicas -> Nat]
    <3>1. caught' = [caught EXCEPT ![r] = @ + 1] \/ caught' = caught
      BY <1>3 DEF ApplyStreamed
    <3>2. caught[r] + 1 \in Nat  BY <1>0
    <3>. QED  BY <1>0, <3>1, <3>2
  <2>5. TypeOK'
    BY <1>0, <2>1, <2>2, <2>3, <2>4 DEF TypeOK, WalTypeOK, walVars, primaryVars, historyVars
  <2>6. StreamShape'
    <3> SUFFICES ASSUME NEW q \in Replicas, mode'[q] \in {"down", "opened", "serving"}
                 PROVE  stream'[q] = << >>
      BY DEF StreamShape
    <3>1. q # r  BY <2>1
    <3>. QED  BY <1>0, <2>1, <2>2, <3>1 DEF StreamShape
  <2>7. WillRead(r) = {} /\ excused'[r] = excused[r]  BY <1>d, <2>1 DEF historyVars
  <2>8. Has(r) \cup Streamed(r) \cup WillRead(r) \cup excused[r]
              \subseteq Has(r)' \cup Streamed(r)' \cup WillRead(r)' \cup excused'[r]
    BY <1>b, <2>2, <2>3, <2>7
  <2>9. \A q \in Replicas \ {r} :
           /\ mode'[q] = mode[q] /\ replica'[q] = replica[q]
           /\ hands'[q] = hands[q] /\ stream'[q] = stream[q] /\ excused'[q] = excused[q]
    BY <2>1, <2>2, <2>3 DEF historyVars
  <2>. QED  BY <2>1, <2>5, <2>6, <2>8, <2>9, OwnStep
<1>4. CASE CatchUpEnds(r)
  <2>0. PICK s : s = AsEntries(LiveSegmentDocs(primary))  OBVIOUS
  <2>1. /\ mode[r] = "catch_up" /\ stream[r] = << >>
        /\ \/ mode' = [mode EXCEPT ![r] = "sync_read"] /\ stream' = [stream EXCEPT ![r] = s]
           \/ mode' = [mode EXCEPT ![r] = "serving"] /\ stream' = stream
        /\ UNCHANGED <<walVars, primaryVars, queue, link, replica, hands, caught, clock,
                       faults, historyVars>>
    BY <1>4, <2>0 DEF CatchUpEnds, channelVars
  <2>2. s \in Seq(WalEntry)  BY <1>0, <2>0, ShownStored, SyncStream
  <2>3. /\ stream' \in [Replicas -> Seq(WalEntry)]
        /\ mode' \in [Replicas -> {"down", "opened", "catch_up", "sync_read", "sync", "serving"}]
        /\ \A q \in Replicas \ {r} : mode'[q] = mode[q] /\ stream'[q] = stream[q]
        /\ mode'[r] = "sync_read" \/ (mode'[r] = "serving" /\ stream'[r] = << >>)
    BY <1>0, <2>1, <2>2
  <2>4. TypeOK'  BY <1>0, <2>1, <2>3 DEF TypeOK, WalTypeOK, walVars, primaryVars, historyVars
  <2>5. StreamShape'
    <3> SUFFICES ASSUME NEW q \in Replicas, mode'[q] \in {"down", "opened", "serving"}
                 PROVE  stream'[q] = << >>
      BY DEF StreamShape
    <3>1. CASE q = r  BY <2>3, <3>1
    <3>2. CASE q # r  BY <1>0, <2>3, <3>2 DEF StreamShape
    <3>. QED  BY <3>1, <3>2
  <2>6. Streamed(r) = {}  BY <2>1 DEF Streamed, DocsIn
  <2>7. WillRead(r) = {} /\ excused'[r] = excused[r]  BY <1>d, <2>1 DEF historyVars
  <2>8. Has(r) \cup Streamed(r) \cup WillRead(r) \cup excused[r]
              \subseteq Has(r)' \cup Streamed(r)' \cup WillRead(r)' \cup excused'[r]
    BY <1>a, <2>1, <2>6, <2>7
  <2>9. \A q \in Replicas \ {r} :
           /\ mode'[q] = mode[q] /\ replica'[q] = replica[q]
           /\ hands'[q] = hands[q] /\ stream'[q] = stream[q] /\ excused'[q] = excused[q]
    BY <2>1, <2>3 DEF historyVars
  <2>. QED  BY <2>1, <2>4, <2>5, <2>8, <2>9, OwnStep
<1>5. CASE SyncReadsBuffer(r)
  <2>0. PICK s : s = AsEntries(LiveBufferDocs(primary))  OBVIOUS
  <2>1. /\ mode[r] = "sync_read" /\ mode' = [mode EXCEPT ![r] = "sync"]
        /\ stream' = [stream EXCEPT ![r] = @ \o s]
        /\ excused' = [excused EXCEPT ![r] = @ \ DocsIn(stream'[r])]
        /\ UNCHANGED <<walVars, primaryVars, queue, link, replica, hands, caught, clock,
                       faults, cleared, contested>>
    BY <1>5, <2>0 DEF SyncReadsBuffer, channelVars
  <2>2. s \in Seq(WalEntry)  BY <1>0, <2>0, ShownStored, SyncStream
  <2>3. PICK all : all = stream[r] \o s  OBVIOUS
  <2>4. all \in Seq(WalEntry) /\ DocsIn(all) = DocsIn(stream[r]) \cup DocsIn(s)
    <3>1. stream[r] \in Seq(WalEntry)  BY <1>0
    <3>. QED  BY <2>2, <2>3, <3>1, DocsOfJoined
  <2>5. stream' = [stream EXCEPT ![r] = all]  BY <2>1, <2>3
  <2>6. /\ stream' \in [Replicas -> Seq(WalEntry)] /\ stream'[r] = all
        /\ mode' \in [Replicas -> {"down", "opened", "catch_up", "sync_read", "sync", "serving"}]
        /\ mode'[r] = "sync"
        /\ \A q \in Replicas \ {r} : mode'[q] = mode[q] /\ stream'[q] = stream[q]
    BY <1>0, <2>1, <2>4, <2>5
  <2>7. /\ excused' \in [Replicas -> SUBSET Document]
        /\ excused'[r] = excused[r] \ DocsIn(all)
        /\ \A q \in Replicas \ {r} : excused'[q] = excused[q]
    <3>1. PICK x : x = DocsIn(all)  OBVIOUS
    <3>2. excused' = [excused EXCEPT ![r] = @ \ x]  BY <2>1, <2>6, <3>1
    <3>. QED  BY <1>0, <3>1, <3>2
  <2>8. TypeOK'  BY <1>0, <2>1, <2>6, <2>7 DEF TypeOK, WalTypeOK, walVars, primaryVars
  <2>9. StreamShape'
    <3> SUFFICES ASSUME NEW q \in Replicas, mode'[q] \in {"down", "opened", "serving"}
                 PROVE  stream'[q] = << >>
      BY DEF StreamShape
    <3>1. q # r  BY <2>6
    <3>. QED  BY <1>0, <2>6, <3>1 DEF StreamShape
  <2>10. WillRead(r) = {}  BY <1>d, <2>1
  <2>11. Streamed(r)' = DocsIn(all) /\ Streamed(r) \subseteq DocsIn(all)
    BY <1>b, <2>4, <2>6 DEF Streamed
  <2>12. Has(r) \cup Streamed(r) \cup WillRead(r) \cup excused[r]
              \subseteq Has(r)' \cup Streamed(r)' \cup WillRead(r)' \cup excused'[r]
    BY <1>a, <2>1, <2>7, <2>10, <2>11
  <2>13. \A q \in Replicas \ {r} :
           /\ mode'[q] = mode[q] /\ replica'[q] = replica[q]
           /\ hands'[q] = hands[q] /\ stream'[q] = stream[q] /\ excused'[q] = excused[q]
    BY <2>1, <2>6, <2>7
  <2>. QED  BY <2>1, <2>8, <2>9, <2>12, <2>13, OwnStep
<1>6. CASE SyncEnds(r)
  <2>0. PICK s : s = Drained(replica[r])  OBVIOUS
  <2>1. /\ mode[r] = "sync" /\ stream[r] = << >> /\ hands[r] = << >>
        /\ replica' = [replica EXCEPT ![r] = s]
        /\ hands' = [hands EXCEPT ![r] = replica[r].buf]
        /\ mode' = [mode EXCEPT ![r] = "serving"]
        /\ UNCHANGED <<walVars, primaryVars, queue, link, stream, caught, clock,
                       faults, historyVars>>
    BY <1>6, <2>0 DEF SyncEnds, channelVars
  <2>2. /\ s \in Store /\ SegmentDocs(s) = SegmentDocs(replica[r]) /\ BufferDocs(s) = {}
        /\ replica[r].buf \in Seq(Document) /\ BufferDocs(replica[r]) = ToSet(replica[r].buf)
    BY <1>0, <2>0, DrainedDocs, StoredTyped
  <2>3. /\ replica' \in [Replicas -> Store] /\ hands' \in [Replicas -> Seq(Document)]
        /\ replica'[r] = s /\ hands'[r] = replica[r].buf
        /\ mode' \in [Replicas -> {"down", "opened", "catch_up", "sync_read", "sync", "serving"}]
        /\ \A q \in Replicas \ {r} : /\ mode'[q] = mode[q] /\ replica'[q] = replica[q]
                                     /\ hands'[q] = hands[q]
    BY <1>0, <2>1, <2>2
  <2>4. TypeOK'  BY <1>0, <2>1, <2>3 DEF TypeOK, WalTypeOK, walVars, primaryVars, historyVars
  <2>5. StreamShape'  BY <1>0, <2>1, <2>3 DEF StreamShape
  <2>6. Has(r) = SegmentDocs(replica[r]) \cup BufferDocs(replica[r])
    BY <2>1 DEF Has, StoredDocs, ToSet
  <2>7. Has(r)' = SegmentDocs(replica'[r]) \cup BufferDocs(replica'[r]) \cup ToSet(hands'[r])
    BY DEF Has, StoredDocs, SegmentDocs, BufferDocs, ToSet
  <2>8. Has(r)' = Has(r)  BY <2>2, <2>3, <2>6, <2>7
  <2>9. /\ Streamed(r)' = Streamed(r) /\ WillRead(r) = {} /\ excused'[r] = excused[r]
    BY <1>d, <2>1 DEF Streamed, historyVars
  <2>10. \A q \in Replicas \ {r} :
           /\ mode'[q] = mode[q] /\ replica'[q] = replica[q]
           /\ hands'[q] = hands[q] /\ stream'[q] = stream[q] /\ excused'[q] = excused[q]
    BY <2>1, <2>3 DEF historyVars
  <2>. QED  BY <2>1, <2>4, <2>5, <2>8, <2>9, <2>10, OwnStep
<1>. QED  BY <1>1, <1>2, <1>3, <1>4, <1>5, <1>6 DEF CatchUpStep

LEMMA ReplicaFaults ==
    ASSUME ReplicationInv, NEW r \in Replicas,
           ReplicaPublishes(r) \/ ReplicaCrashes(r) \/ CatchUpFails(r)
    PROVE  ReplicationInv'
<1>0. /\ TypeOK /\ LogWhole /\ StreamShape
      /\ replica \in [Replicas -> Store] /\ hands \in [Replicas -> Seq(Document)]
      /\ stream \in [Replicas -> Seq(WalEntry)] /\ excused \in [Replicas -> SUBSET Document]
      /\ link \in [Replicas -> {"connecting", "connected", "hung"}]
      /\ mode \in [Replicas -> {"down", "opened", "catch_up", "sync_read", "sync", "serving"}]
      /\ contested \in [Replicas -> SUBSET DocIds]
      /\ faults \in 0..MaxFaults /\ MaxFaults \in Nat /\ << >> \in Seq(WalEntry)
      /\ << >> \in Seq(Document)
  BY ReplicationAssumption DEF ReplicationInv, TypeOK
<1>a. Has(r)' = SegmentDocs(replica'[r]) \cup BufferDocs(replica'[r]) \cup ToSet(hands'[r])
  BY DEF Has, StoredDocs, SegmentDocs, BufferDocs, ToSet
<1>b. Has(r) = SegmentDocs(replica[r]) \cup BufferDocs(replica[r]) \cup ToSet(hands[r])
  BY DEF Has, StoredDocs
<1>c. Streamed(r)' = DocsIn(stream'[r])  BY DEF Streamed, DocsIn
<1>d. /\ WillRead(r) = IF mode[r] \in {"down", "opened"} THEN LoggedDocs ELSE {}
      /\ WillRead(r)' = IF mode'[r] \in {"down", "opened"} THEN LoggedDocs' ELSE {}
  BY DEF WillRead
<1>e. ASSUME UNCHANGED walVars PROVE LoggedDocs' = LoggedDocs
  BY <1>e DEF LoggedDocs, walVars
<1>f. ToSet(<< >>) = {} /\ DocsIn(<< >>) = {}  BY DEF ToSet, DocsIn
<1>1. CASE ReplicaPublishes(r)
  <2>0. PICK s : s = Published(replica[r], hands[r])  OBVIOUS
  <2>1. /\ replica' = [replica EXCEPT ![r] = s] /\ hands' = [hands EXCEPT ![r] = << >>]
        /\ UNCHANGED <<walVars, primaryVars, queue, link, mode, stream, caught, clock,
                       faults, historyVars>>
    BY <1>1, <2>0 DEF ReplicaPublishes, channelVars
  <2>2. /\ s \in Store /\ SegmentDocs(s) = SegmentDocs(replica[r]) \cup ToSet(hands[r])
        /\ BufferDocs(s) = BufferDocs(replica[r])
    BY <1>0, <2>0, PublishedDocs
  <2>3. /\ replica' \in [Replicas -> Store] /\ hands' \in [Replicas -> Seq(Document)]
        /\ replica'[r] = s /\ hands'[r] = << >>
        /\ \A q \in Replicas \ {r} : replica'[q] = replica[q] /\ hands'[q] = hands[q]
    BY <1>0, <2>1, <2>2
  <2>4. TypeOK'  BY <1>0, <2>1, <2>3 DEF TypeOK, WalTypeOK, walVars, primaryVars, historyVars
  <2>5. StreamShape'  BY <1>0, <2>1 DEF StreamShape
  <2>6. Has(r)' = Has(r)  BY <1>a, <1>b, <1>f, <2>2, <2>3
  <2>7. /\ Streamed(r)' = Streamed(r) /\ WillRead(r)' = WillRead(r) /\ excused'[r] = excused[r]
    BY <1>e, <2>1 DEF Streamed, WillRead, historyVars
  <2>8. \A q \in Replicas \ {r} :
           /\ mode'[q] = mode[q] /\ replica'[q] = replica[q]
           /\ hands'[q] = hands[q] /\ stream'[q] = stream[q] /\ excused'[q] = excused[q]
    BY <2>1, <2>3 DEF historyVars
  <2>. QED  BY <2>1, <2>4, <2>5, <2>6, <2>7, <2>8, OwnStep
<1>2. CASE ReplicaCrashes(r)
  <2> DEFINE lost == BufferDocs(replica[r]) \cup ToSet(hands[r]) \cup Streamed(r)
  <2>0. PICK s : s = Reopened(replica[r])  OBVIOUS
  <2>1. PICK cut : cut = lost \ (LoggedDocs \cup SegmentDocs(replica[r]))  OBVIOUS
  <2>2. PICK l : l = IF link[r] = "hung" \/ hands[r] # << >> THEN "connecting" ELSE link[r]
    OBVIOUS
  <2>3. /\ mode' = [mode EXCEPT ![r] = "down"] /\ faults' = faults + 1 /\ faults < MaxFaults
        /\ replica' = [replica EXCEPT ![r] = s] /\ hands' = [hands EXCEPT ![r] = << >>]
        /\ stream' = [stream EXCEPT ![r] = << >>] /\ link' = [link EXCEPT ![r] = l]
        /\ excused' = [excused EXCEPT ![r] = @ \cup cut]
        /\ contested' = [contested EXCEPT ![r] = @ \cup {d.id : d \in lost}]
        /\ UNCHANGED <<walVars, primaryVars, queue, caught, clock, cleared>>
    BY <1>2, <2>0, <2>1, <2>2 DEF ReplicaCrashes, Fails
  <2>4. lost \in SUBSET Document
    BY <1>0, DocsTyped
  <2>5. cut \in SUBSET Document /\ {d.id : d \in lost} \in SUBSET DocIds
    <3>. HIDE DEF lost
    <3>. QED  BY <2>1, <2>4 DEF Document
  <2>6. l \in {"connecting", "connected", "hung"}
    <3>1. link[r] \in {"connecting", "connected", "hung"}  BY <1>0
    <3>. QED  BY <2>2, <3>1
  <2>7. s \in Store /\ SegmentDocs(s) = SegmentDocs(replica[r]) /\ BufferDocs(s) = {}
    BY <1>0, <2>0, ReopenedDocs
  <2>8. PICK ids : ids = {d.id : d \in lost}  OBVIOUS
  <2>9. ids \in SUBSET DocIds /\ contested' = [contested EXCEPT ![r] = @ \cup ids]
    BY <2>3, <2>5, <2>8
  <2>10. /\ replica' \in [Replicas -> Store] /\ hands' \in [Replicas -> Seq(Document)]
         /\ stream' \in [Replicas -> Seq(WalEntry)] /\ excused' \in [Replicas -> SUBSET Document]
         /\ link' \in [Replicas -> {"connecting", "connected", "hung"}]
         /\ mode' \in [Replicas -> {"down", "opened", "catch_up", "sync_read", "sync", "serving"}]
         /\ contested' \in [Replicas -> SUBSET DocIds] /\ faults' \in 0..MaxFaults
    <3>. HIDE DEF lost
    <3>1. contested' \in [Replicas -> SUBSET DocIds]  BY <1>0, <2>9
    <3>2. excused' \in [Replicas -> SUBSET Document]  BY <1>0, <2>3, <2>5
    <3>3. faults' \in 0..MaxFaults  BY <1>0, <2>3
    <3>. QED  BY <1>0, <2>3, <2>6, <2>7, <3>1, <3>2, <3>3
  <2>11. /\ replica'[r] = s /\ hands'[r] = << >> /\ stream'[r] = << >> /\ mode'[r] = "down"
         /\ excused'[r] = excused[r] \cup cut
         /\ \A q \in Replicas \ {r} :
              /\ mode'[q] = mode[q] /\ replica'[q] = replica[q]
              /\ hands'[q] = hands[q] /\ stream'[q] = stream[q] /\ excused'[q] = excused[q]
    BY <1>0, <2>3
  <2>12. TypeOK'  BY <1>0, <2>3, <2>10 DEF TypeOK, WalTypeOK, walVars, primaryVars
  <2>13. StreamShape'
    <3> SUFFICES ASSUME NEW q \in Replicas, mode'[q] \in {"down", "opened", "serving"}
                 PROVE  stream'[q] = << >>
      BY DEF StreamShape
    <3>1. CASE q = r  BY <2>11, <3>1
    <3>2. CASE q # r  BY <1>0, <2>11, <3>2 DEF StreamShape
    <3>. QED  BY <3>1, <3>2
  <2>14. WillRead(r)' = LoggedDocs /\ WillRead(r) \subseteq LoggedDocs
    BY <1>d, <1>e, <2>3, <2>11
  <2>15. Has(r)' = SegmentDocs(replica[r])  BY <1>a, <1>f, <2>7, <2>11
  <2>16. Has(r) \cup Streamed(r) \cup WillRead(r) \cup excused[r]
              \subseteq Has(r)' \cup Streamed(r)' \cup WillRead(r)' \cup excused'[r]
    BY <1>b, <2>1, <2>11, <2>14, <2>15
  <2>. QED  BY <2>3, <2>11, <2>12, <2>13, <2>16, OwnStep
<1>3. CASE CatchUpFails(r)
  <2>0. PICK cut : cut = Streamed(r) \cup WillRead(r)  OBVIOUS
  <2>1. /\ mode' = [mode EXCEPT ![r] = "serving"] /\ faults' = faults + 1 /\ faults < MaxFaults
        /\ stream' = [stream EXCEPT ![r] = << >>]
        /\ excused' = [excused EXCEPT ![r] = @ \cup cut]
        /\ UNCHANGED <<walVars, primaryVars, queue, link, replica, hands, caught, clock,
                       cleared, contested>>
    <3>1. excused' = [excused EXCEPT ![r] = @ \cup Streamed(r) \cup WillRead(r)]
      BY <1>3 DEF CatchUpFails
    <3>2. excused' = [excused EXCEPT ![r] = @ \cup cut]  BY <2>0, <3>1
    <3>. QED  BY <1>3, <3>2 DEF CatchUpFails, Fails, channelVars
  <2>2. cut \in SUBSET Document  BY <1>0, <2>0, DocsTyped
  <2>3. /\ stream' \in [Replicas -> Seq(WalEntry)] /\ excused' \in [Replicas -> SUBSET Document]
        /\ mode' \in [Replicas -> {"down", "opened", "catch_up", "sync_read", "sync", "serving"}]
        /\ faults' \in 0..MaxFaults
        /\ stream'[r] = << >> /\ excused'[r] = excused[r] \cup cut /\ mode'[r] = "serving"
        /\ \A q \in Replicas \ {r} :
             mode'[q] = mode[q] /\ stream'[q] = stream[q] /\ excused'[q] = excused[q]
    BY <1>0, <2>1, <2>2
  <2>4. TypeOK'  BY <1>0, <2>1, <2>3 DEF TypeOK, WalTypeOK, walVars, primaryVars
  <2>5. StreamShape'
    <3> SUFFICES ASSUME NEW q \in Replicas, mode'[q] \in {"down", "opened", "serving"}
                 PROVE  stream'[q] = << >>
      BY DEF StreamShape
    <3>1. CASE q = r  BY <2>3, <3>1
    <3>2. CASE q # r  BY <1>0, <2>3, <3>2 DEF StreamShape
    <3>. QED  BY <3>1, <3>2
  <2>6. Has(r)' = Has(r)  BY <1>a, <1>b, <2>1
  <2>7. Has(r) \cup Streamed(r) \cup WillRead(r) \cup excused[r]
              \subseteq Has(r)' \cup Streamed(r)' \cup WillRead(r)' \cup excused'[r]
    BY <2>0, <2>3, <2>6
  <2>8. \A q \in Replicas \ {r} :
           /\ mode'[q] = mode[q] /\ replica'[q] = replica[q]
           /\ hands'[q] = hands[q] /\ stream'[q] = stream[q] /\ excused'[q] = excused[q]
    BY <2>1, <2>3
  <2>. QED  BY <2>1, <2>4, <2>5, <2>7, <2>8, OwnStep
<1>. QED  BY <1>1, <1>2, <1>3

-----------------------------------------------------------------------------
(* The theorems *)

LEMMA InvInit == Init => ReplicationInv
<1> SUFFICES ASSUME Init PROVE ReplicationInv  OBVIOUS
<1>1. WalTypeOK /\ LogWhole /\ walFile = << >>
  BY DEF Init, WalInit, WalTypeOK, LogWhole
<1>2. MaxOps \in Nat /\ MaxFaults \in Nat  BY ReplicationAssumption
<1>3. EmptyStore \in Store /\ StoredDocs(EmptyStore) = {}
  <2>1. /\ [i \in DocIds |-> 0] \in [DocIds -> Nat] /\ << >> \in Seq(Document)
        /\ {} \in SUBSET DocIds /\ {} \in SUBSET Nat
    OBVIOUS
  <2>2. EmptyStore \in Store  BY <2>1 DEF EmptyStore, Store
  <2>3. EmptyStore.seg = << >> /\ EmptyStore.buf = << >>  BY DEF EmptyStore
  <2>. QED  BY <2>2, <2>3 DEF StoredDocs, SegmentDocs, BufferDocs, ToSet
<1>4. PICK idle : idle = IdleWriter  OBVIOUS
<1>5. /\ idle \in Writer /\ idle.pc = "idle" /\ idle.docs = << >>
      /\ idle.call = << >> /\ idle.sent = 0 /\ idle.op = "none"
  BY <1>4, OtherStates
<1>6. writer \in [Writers -> Writer] /\ \A t \in Writers : writer[t] = idle
  BY <1>4, <1>5 DEF Init
<1>7. << >> \in Seq(WalEntry) /\ << >> \in Seq(Document)  OBVIOUS
<1>8. TypeOK  BY <1>1, <1>2, <1>3, <1>6, <1>7 DEF Init, TypeOK
<1>9. CallShape
  <2>1. Len(<< >>) = 0 /\ DOMAIN << >> = {}  OBVIOUS
  <2>. QED  BY <1>5, <1>6, <2>1 DEF CallShape
<1>10. StreamShape  BY DEF Init, StreamShape
<1>11. KnownDocs = {}
  <2>1. LoggedDocs = {}
    <3>1. LoggedDocs = RecordDocs(walFile)  BY <1>1, LoggedAre
    <3>. QED  BY <1>1, <3>1 DEF RecordDocs
  <2>2. \A u \in Writers : ToSet(writer[u].docs) \cup DocsIn(writer[u].call) = {}
    <3>1. ToSet(<< >>) = {} /\ DocsIn(<< >>) = {}  BY DEF ToSet, DocsIn
    <3>. QED  BY <1>5, <1>6, <3>1
  <2>3. StoredDocs(primary) = {}  BY <1>3 DEF Init
  <2>. QED  BY <2>1, <2>2, <2>3 DEF KnownDocs
<1>12. VersionsUsed /\ Supplied  BY <1>11 DEF VersionsUsed, Supplied
<1>13. QueuedFirst  BY <1>5, <1>6 DEF QueuedFirst
<1>. QED  BY <1>1, <1>8, <1>9, <1>10, <1>12, <1>13 DEF ReplicationInv

LEMMA InvStep == ReplicationInv /\ [Next]_vars => ReplicationInv'
<1> SUFFICES ASSUME ReplicationInv, [Next]_vars PROVE ReplicationInv'  OBVIOUS
<1>1. ASSUME UNCHANGED vars PROVE ReplicationInv'
  <2>1. /\ UNCHANGED <<walVars, primaryVars, channelVars, replicaVars, clock, faults, historyVars>>
    BY <1>1 DEF vars
  <2>2. TypeOK /\ LogWhole /\ CallShape /\ StreamShape /\ VersionsUsed /\ QueuedFirst /\ Supplied
    BY DEF ReplicationInv
  <2>3. TypeOK'
    BY <2>1, <2>2 DEF TypeOK, WalTypeOK, walVars, primaryVars, channelVars, replicaVars,
       historyVars
  <2>4. LogWhole' /\ CallShape' /\ StreamShape'
    BY <2>1, <2>2 DEF LogWhole, CallShape, StreamShape, walVars, primaryVars, replicaVars
  <2>5. LoggedDocs' = LoggedDocs /\ primary' = primary /\ writer' = writer
    BY <2>1 DEF LoggedDocs, walVars, primaryVars
  <2>6. KnownDocs' = KnownDocs  BY <2>5 DEF KnownDocs, StoredDocs, SegmentDocs, BufferDocs
  <2>7. VersionsUsed'  BY <2>1, <2>2, <2>6 DEF VersionsUsed
  <2>8. QueuedFirst'  BY <2>2, <2>5 DEF QueuedFirst, StoredDocs, SegmentDocs, BufferDocs
  <2>9. ASSUME NEW r \in Replicas
        PROVE  /\ Has(r)' = Has(r) /\ Coming(r)' = Coming(r)
               /\ WillRead(r)' = WillRead(r) /\ excused'[r] = excused[r]
    BY <2>1, <2>5 DEF Has, StoredDocs, SegmentDocs, BufferDocs, Coming, QueuedDocs, Streamed,
       LeftDocs, Unsent, WillRead, channelVars, replicaVars, historyVars
  <2>10. Supplied'  BY <2>2, <2>6, <2>9 DEF Supplied
  <2>. QED  BY <2>3, <2>4, <2>7, <2>8, <2>10 DEF ReplicationInv
<1>2. ASSUME NEW t \in Writers, LogIndex(t) \/ LogDelete(t) \/ CallFlush(t) \/ WriterStep(t)
      PROVE  ReplicationInv'
  BY <1>2, LogSteps, CallFlushStep, EnqueueStep, ThreadSteps DEF WriterStep
<1>3. ASSUME NEW r \in Replicas,
             \/ ForwarderStep(r) \/ CatchUpStep(r) \/ ReplicaPublishes(r)
             \/ ReplicaCrashes(r) \/ CatchUpFails(r)
      PROVE  ReplicationInv'
  BY <1>3, ForwarderSteps, CatchUpSteps, ReplicaFaults
<1>. QED  BY <1>1, <1>2, <1>3, RestartStep DEF Next

\* A replica that serves lacks only what is queued or excused: no stream is open
\* any more, and what is still to be put into its channel is not shown yet.
LEMMA InvExcuses == ReplicationInv => OnlyExcusedMissing
<1> SUFFICES ASSUME ReplicationInv, NEW r \in Replicas, mode[r] = "serving",
                    NEW d \in Lacks(r)
             PROVE  d \in QueuedDocs(r) \cup excused[r]
  BY DEF OnlyExcusedMissing
<1>0. TypeOK /\ CallShape /\ StreamShape /\ QueuedFirst /\ Supplied /\ primary \in Store
  BY DEF ReplicationInv, TypeOK
<1>1. d \in StoredDocs(primary) /\ d \notin Has(r)
  BY <1>0, ShownStored DEF Lacks
<1>2. d \in Coming(r) \cup WillRead(r) \cup excused[r]
  BY <1>0, <1>1 DEF Supplied, KnownDocs
<1>3. WillRead(r) = {}  BY DEF WillRead
<1>4. Streamed(r) = {}
  <2>1. stream[r] = << >>  BY <1>0 DEF StreamShape
  <2>. QED  BY <2>1 DEF Streamed, DocsIn
<1>5. d \notin LeftDocs(r)
  <2>1. ASSUME NEW t \in Writers PROVE d \notin LeftOf(writer[t], r)
    <3>1. writer[t] \in Writer  BY <1>0 DEF TypeOK
    <3>2. CASE writer[t].pc # "enqueue"  BY <1>0, <3>2, NothingLeft
    <3>3. CASE writer[t].pc = "enqueue"
      BY <1>0, <1>1, <3>1, <3>3, LeftOfCall DEF QueuedFirst
    <3>. QED  BY <3>2, <3>3
  <2>. QED  BY <2>1, LeftDocsAre
<1>. QED  BY <1>2, <1>3, <1>4, <1>5 DEF Coming

LEMMA InvAlways == Spec => []ReplicationInv
BY InvInit, InvStep, PTL DEF Spec

\* Every variable has its type: no step builds a store, a channel or a stream that
\* is not one, whatever fails (replication.rs, shard.rs).
THEOREM ReplicationTyping == Spec => []TypeOK
<1>1. ReplicationInv => TypeOK  BY DEF ReplicationInv
<1>. QED  BY <1>1, InvAlways, PTL

\* For any number of replicas, threads, documents, batches and failures: a replica
\* that serves lacks a document its primary shows only while it is queued for it,
\* or because it was cut off from it for one of the causes OnlyExcusedMissing names
\* (enqueue, forward_to_replica, catch_up_from_primary, full_sync, flush).
THEOREM MissingOnlyForCause == Spec => []OnlyExcusedMissing
BY InvAlways, InvExcuses, PTL
=============================================================================
