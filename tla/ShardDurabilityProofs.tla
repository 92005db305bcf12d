------------------------ MODULE ShardDurabilityProofs ------------------------
(***************************************************************************)
(* Proofs that the shard engine keeps what it acknowledged.  With any      *)
(* number of threads, but no reindexing and no lost memory, no document    *)
(* vanishes (HeldInv).  With one client, whose process may be killed at    *)
(* any moment, every acknowledged document can be recovered (DurableInv).  *)
(* The last part is about the opposite: with one client at a time flushes, *)
(* merges and reindexing leave no second copy of a write where searches    *)
(* look, until something fails (OnceInv).                                  *)
(***************************************************************************)
EXTENDS ShardProofs

-----------------------------------------------------------------------------
(* Sequences and segment lists *)

\* Documents added to a Vec of documents: the Vec keeps its own.
LEMMA RangeConcat ==
    ASSUME NEW D, NEW s \in Seq(D), NEW r \in Seq(D)
    PROVE  Range(s \o r) = Range(s) \cup Range(r)
<1>1. /\ Len(s) \in Nat /\ Len(r) \in Nat
      /\ DOMAIN s = 1..Len(s) /\ DOMAIN r = 1..Len(r)
      /\ DOMAIN (s \o r) = 1..(Len(s) + Len(r))
  OBVIOUS
<1>2. \A i \in DOMAIN s : i \in DOMAIN (s \o r) /\ (s \o r)[i] = s[i]  BY <1>1
<1>3. \A i \in DOMAIN r : /\ i + Len(s) \in DOMAIN (s \o r)
                          /\ (s \o r)[i + Len(s)] = r[i]
  BY <1>1
<1>4. \A i \in DOMAIN (s \o r) : \/ i \in DOMAIN s /\ (s \o r)[i] = s[i]
                                 \/ /\ i - Len(s) \in DOMAIN r
                                    /\ (s \o r)[i] = r[i - Len(s)]
  BY <1>1
<1>5. Range(s) \subseteq Range(s \o r)  BY <1>2 DEF Range
<1>6. Range(r) \subseteq Range(s \o r)  BY <1>3 DEF Range
<1>7. Range(s \o r) \subseteq Range(s) \cup Range(r)  BY <1>4 DEF Range
<1>. QED  BY <1>5, <1>6, <1>7

\* add_segment lists the new segment and keeps the others.
LEMMA AddedSegs ==
    ASSUME segs \in Seq(Entry), NEW e \in Entry, AddSegment(e)
    PROVE  /\ \A i \in DOMAIN segs : i \in DOMAIN segs' /\ segs'[i] = segs[i]
           /\ \E k \in DOMAIN segs' : segs'[k] = e
           /\ \A k \in DOMAIN segs' :
                 segs'[k] = e \/ (k \in DOMAIN segs /\ segs'[k] = segs[k])
<1>1. segs' = Append(segs, e)  BY DEF AddSegment
<1>2. Len(segs) \in Nat /\ DOMAIN segs = 1..Len(segs)  OBVIOUS
<1>3. DOMAIN segs' = 1..(Len(segs) + 1) /\ segs'[Len(segs) + 1] = e
      /\ \A i \in 1..Len(segs) : segs'[i] = segs[i]
  BY <1>1, <1>2
<1>. QED  BY <1>2, <1>3

\* replace_segments lists the new segment and keeps those it does not replace.
LEMMA ReplacedSegs ==
    ASSUME segs \in Seq(Entry), NEW old, NEW e \in Entry, ReplaceSegments(old, e)
    PROVE  /\ \A i \in DOMAIN segs : segs[i].id \notin old =>
                 \E k \in DOMAIN segs' : segs'[k] = segs[i]
           /\ \E k \in DOMAIN segs' : segs'[k] = e
           /\ \A k \in DOMAIN segs' :
                 segs'[k] = e \/ \E i \in DOMAIN segs : segs'[k] = segs[i]
<1> DEFINE K == {i \in DOMAIN segs : segs[i].id \notin old}
           kept == Retain(segs, K)
<1>1. segs' = Append(kept, e)  BY DEF ReplaceSegments
<1>2. K \in SUBSET DOMAIN segs  OBVIOUS
<1>3. \A i \in DOMAIN segs : segs[i].id \notin old => i \in K  OBVIOUS
<1>. HIDE DEF K
<1>4. /\ kept \in Seq(Entry)
      /\ \A i \in K : \E k \in DOMAIN kept : kept[k] = segs[i]
      /\ \A k \in DOMAIN kept : \E i \in K : kept[k] = segs[i]
  BY <1>2, RetainProperties
<1>. HIDE DEF kept
<1>5. /\ DOMAIN segs' = DOMAIN kept \cup {Len(kept) + 1}
      /\ segs'[Len(kept) + 1] = e
      /\ \A k \in DOMAIN kept : segs'[k] = kept[k]
  BY <1>1, <1>4
<1>6. \A i \in DOMAIN segs : segs[i].id \notin old => \E k \in DOMAIN segs' : segs'[k] = segs[i]
  BY <1>3, <1>4, <1>5
<1>7. \A k \in DOMAIN segs' : segs'[k] = e \/ \E i \in DOMAIN segs : segs'[k] = segs[i]
  BY <1>2, <1>4, <1>5
<1>. QED  BY <1>5, <1>6, <1>7

-----------------------------------------------------------------------------
(* What is promised *)

\* A thread that is past its buffer section, or serves another call, promises
\* nothing new by going on or returning.
LEMMA PromisedKept ==
    ASSUME th \in [Threads -> Thread], NEW t \in Threads, th[t].pc # "add"
    PROVE  /\ ReturnOk(t) => Promised' \subseteq Promised
           /\ ReturnErr(t) => Promised' \subseteq Promised
           /\ FlushReturns(t) => Promised' \subseteq Promised
           /\ \A label, docs, s, old :
                 Continue(t, label, docs, s, old) /\ acked' = acked
                    => Promised' \subseteq Promised
           /\ \A label : Goto(t, label) /\ acked' = acked => Promised' \subseteq Promised
<1> DEFINE Args(u) == IF th[u].op = "index" /\ th[u].pc # "add" THEN Range(th[u].arg) ELSE {}
<1>0. Promised = acked \cup UNION {Args(u) : u \in Threads}
  BY DEF Promised
<1>1. Promised' = acked' \cup UNION {Args(u)' : u \in Threads}
  BY DEF Promised
<1>2. ASSUME OthersKept(t), \/ acked' = acked
                            \/ acked' = acked \cup Args(t),
             th'[t].op # "index" \/ Args(t)' = Args(t)
      PROVE  Promised' \subseteq Promised
  <2>1. \A u \in Threads : Args(u)' = {} \/ Args(u)' = Args(u)
    BY <1>2 DEF OthersKept
  <2>. HIDE DEF Args
  <2>. QED  BY <1>0, <1>1, <1>2, <2>1
<1>3. ReturnOk(t) => Promised' \subseteq Promised
  <2> SUFFICES ASSUME ReturnOk(t) PROVE Promised' \subseteq Promised  OBVIOUS
  <2>1. OthersKept(t) /\ th'[t].op = "none"
    BY DEF ReturnOk, OthersKept, Idle, Serving
  <2>2. acked' = acked \/ acked' = acked \cup Args(t)  BY DEF ReturnOk
  <2>. QED  BY <1>2, <2>1, <2>2
<1>4. ReturnErr(t) => Promised' \subseteq Promised
  <2> SUFFICES ASSUME ReturnErr(t) PROVE Promised' \subseteq Promised  OBVIOUS
  <2>1. OthersKept(t) /\ th'[t].op = "none" /\ acked' = acked
    BY DEF ReturnErr, OthersKept, Idle, Serving
  <2>. QED  BY <1>2, <2>1
<1>5. \A label, docs, s, old :
          Continue(t, label, docs, s, old) /\ acked' = acked => Promised' \subseteq Promised
  <2> SUFFICES ASSUME NEW label, NEW docs, NEW s, NEW old,
                      Continue(t, label, docs, s, old), acked' = acked
               PROVE  Promised' \subseteq Promised
    OBVIOUS
  <2>1. OthersKept(t) /\ th'[t].op = th[t].op /\ th'[t].arg = th[t].arg
    BY DEF Continue, OthersKept
  <2>2. Args(t)' \subseteq Args(t)  BY <2>1
  <2>3. \A u \in Threads : Args(u)' \subseteq Args(u)  BY <2>1, <2>2 DEF OthersKept
  <2>. HIDE DEF Args
  <2>. QED  BY <1>0, <1>1, <2>3
<1>6. \A label : Goto(t, label) /\ acked' = acked => Promised' \subseteq Promised
  BY <1>5 DEF Goto
<1>7. FlushReturns(t) => Promised' \subseteq Promised  BY <1>3, <1>5 DEF FlushReturns
<1>. QED  BY <1>3, <1>4, <1>5, <1>6, <1>7

\* Accepting a call promises nothing yet.
LEMMA PromisedCall ==
    ASSUME th \in [Threads -> Thread], NEW t \in Threads, NEW op, NEW arg, NEW label,
           th' = [th EXCEPT ![t] = Serving(op, arg, label)], acked' = acked,
           op # "index" \/ label = "add"
    PROVE  Promised' \subseteq Promised
<1>1. \A u \in Threads : u # t => th'[u] = th[u]  OBVIOUS
<1>2. th'[t].op = op /\ th'[t].pc = label  BY DEF Serving
<1>. QED  BY <1>1, <1>2 DEF Promised

\* The buffer section of index() promises the call's own documents.
LEMMA PromisedAdd ==
    ASSUME SegmentInv, NEW t \in Threads, IndexAdd(t)
    PROVE  Promised' \subseteq Promised \cup Range(th[t].arg)
<1>0. th \in [Threads -> Thread]  BY DEF SegmentInv, TypeOK
<1>1. /\ \A u \in Threads : u # t => th'[u] = th[u]
      /\ th'[t].arg = th[t].arg \/ th'[t].op = "none"
      /\ acked' \subseteq acked \cup Range(th[t].arg)
  BY <1>0 DEF IndexAdd, Goto, Continue, ReturnOk, Idle, Serving
<1>. QED  BY <1>1 DEF Promised
-----------------------------------------------------------------------------
(* HeldInv: no document vanishes while threads flush and merge *)

\* d is in a flush of thread t that has not published it yet.
InFlush(t, d) ==
    th[t].pc \in {"alloc", "write", "publish"} /\ d \in Range(th[t].docs)

\* d is live in a listed segment, as its open reader sees it.
InSegment(d) ==
    \E i \in DOMAIN segs : \E l \in Live(segs[i]) : segs[i].docs[l] = d

\* Held, by the place that holds the document.
LEMMA HeldPlaces ==
    ASSUME NEW d
    PROVE  Held(d) <=> \/ d \in Range(bufDocs)
                       \/ \E t \in Threads : InFlush(t, d)
                       \/ InSegment(d)
BY DEF Held, InFlush, InSegment

\* Publishing a segment lists the documents of the flush and keeps the others.
LEMMA PublishHolds ==
    ASSUME SegmentInv, NEW t \in Threads, FlushPublish(t), NEW d,
           InFlush(t, d) \/ InSegment(d)
    PROVE  InSegment(d)'
<1> DEFINE e == NewEntry(th[t].seg, th[t].docs)
<1>0. th[t].docs \in Seq(Document) /\ th[t].seg \in Nat /\ segs \in Seq(Entry)
  BY ThreadFacts
<1>1. e \in Entry /\ AddSegment(e)  BY <1>0, NewSegmentType DEF FlushPublish
<1>2. Live(e) = DOMAIN th[t].docs /\ e.docs = th[t].docs  BY DEF NewEntry, Live
<1>. HIDE DEF e
<1>3. /\ \A i \in DOMAIN segs : i \in DOMAIN segs' /\ segs'[i] = segs[i]
      /\ \E k \in DOMAIN segs' : segs'[k] = e
  BY <1>0, <1>1, AddedSegs
<1>4. CASE InFlush(t, d)
  <2>1. PICK l \in DOMAIN th[t].docs : th[t].docs[l] = d  BY <1>4 DEF InFlush, Range
  <2>2. PICK k \in DOMAIN segs' : segs'[k] = e  BY <1>3
  <2>. QED  BY <1>2, <2>1, <2>2 DEF InSegment, Live
<1>5. CASE InSegment(d)  BY <1>3, <1>5 DEF InSegment, Live
<1>. QED  BY <1>4, <1>5

\* The swap of a merge keeps every document listed.
LEMMA SwapHolds ==
    ASSUME SegmentInv, NEW t \in Threads, MergeSwap(t), NEW d, InSegment(d)
    PROVE  InSegment(d)'
<1> DEFINE e == NewEntry(th[t].seg, th[t].docs)
<1>0. th[t].docs \in Seq(Document) /\ th[t].seg \in Nat /\ segs \in Seq(Entry)
  BY ThreadFacts
<1>1. e \in Entry /\ ReplaceSegments(th[t].old, e) /\ th[t].pc = "m_swap"
  BY <1>0, NewSegmentType DEF MergeSwap, At
<1>2. Live(e) = DOMAIN th[t].docs /\ e.docs = th[t].docs  BY DEF NewEntry, Live
<1>. HIDE DEF e
<1>3. /\ \A i \in DOMAIN segs : segs[i].id \notin th[t].old =>
             \E k \in DOMAIN segs' : segs'[k] = segs[i]
      /\ \E k \in DOMAIN segs' : segs'[k] = e
  BY <1>0, <1>1, ReplacedSegs
<1>10. PICK i \in DOMAIN segs : \E l \in Live(segs[i]) : segs[i].docs[l] = d
  BY DEF InSegment
<1>4. PICK l \in Live(segs[i]) : segs[i].docs[l] = d  BY <1>10
<1>5. CASE segs[i].id \in th[t].old
  <2>1. d \in Range(th[t].docs)  BY <1>1, <1>4, <1>5 DEF SegmentInv, MergeCovers
  <2>2. PICK m \in DOMAIN th[t].docs : th[t].docs[m] = d  BY <2>1 DEF Range
  <2>3. PICK k \in DOMAIN segs' : segs'[k] = e  BY <1>3
  <2>. QED  BY <1>2, <2>2, <2>3 DEF InSegment, Live
<1>6. CASE segs[i].id \notin th[t].old  BY <1>3, <1>4, <1>6 DEF InSegment, Live
<1>. QED  BY <1>5, <1>6

\* A step that leaves the buffer and the list alone, and whose thread drops no
\* document of a flush, holds what was held.
LEMMA HeldUnchanged ==
    ASSUME NEW t \in Threads, OthersKept(t), bufDocs' = bufDocs, segs' = segs,
           \A d : InFlush(t, d) => InFlush(t, d)'
    PROVE  \A d : Held(d) => Held(d)'
<1> SUFFICES ASSUME NEW d, Held(d) PROVE Held(d)'  OBVIOUS
<1>1. \A u \in Threads : InFlush(u, d) => InFlush(u, d)'
  BY DEF OthersKept, InFlush
<1>2. InSegment(d) => InSegment(d)'  BY DEF InSegment, Live
<1>. QED  BY <1>1, <1>2, HeldPlaces DEF Held, InFlush, InSegment

\* Every section of a call that does not reindex: what was held stays held, and
\* nothing is promised that is not held.
LEMMA HeldSection ==
    ASSUME SegmentInv, HeldInv, NEW t \in Threads, Section(t)
    PROVE  /\ \A d : Held(d) => Held(d)'
           /\ \A d \in Promised' : d \in Promised \/ Held(d)'
<1> DEFINE Goal == /\ \A d : Held(d) => Held(d)'
                   /\ \A d \in Promised' : d \in Promised \/ Held(d)'
<1>0. th \in [Threads -> Thread]  BY DEF SegmentInv, TypeOK
<1>t. /\ th[t].docs \in Seq(Document) /\ th[t].arg \in Seq(Document)
      /\ bufDocs \in Seq(Document)
  BY ThreadFacts DEF BufTypeOK
<1>r. th[t].pc \notin ReindexPcs /\ th[t].op # "reindex"  BY DEF HeldInv
<1>o. OthersKept(t)  BY ThreadSteps
<1>1. CASE IndexAdd(t)
  <2>1. th[t].pc = "add" /\ bufDocs' = bufDocs \o th[t].arg /\ segs' = segs
    BY <1>1 DEF IndexAdd, At, BufAdd, segVars
  <2>2. Range(bufDocs') = Range(bufDocs) \cup Range(th[t].arg)
    BY <1>t, <2>1, RangeConcat
  <2>3. ASSUME NEW d, Held(d) \/ d \in Range(th[t].arg) PROVE Held(d)'
    <3>1. \A u \in Threads : InFlush(u, d) => InFlush(u, d)'
      BY <1>o, <2>1 DEF OthersKept, InFlush
    <3>2. InSegment(d) => InSegment(d)'  BY <2>1 DEF InSegment, Live
    <3>. QED  BY <2>2, <2>3, <3>1, <3>2 DEF Held, InFlush, InSegment
  <2>. QED  BY <1>1, <2>3, PromisedAdd
<1>2. CASE FlushDrain(t)
  <2>1. th[t].pc = "drain" /\ segs' = segs  BY <1>2 DEF FlushDrain, At, segVars
  <2>2. Promised' \subseteq Promised
    BY <1>0, <1>2, <2>1, PromisedKept DEF FlushDrain
  <2>3. \A d \in Range(bufDocs) : InFlush(t, d)'
    <3>1. CASE bufDocs = << >>  BY <3>1 DEF Range
    <3>2. CASE bufDocs # << >>
      <4>1. th'[t].pc = "alloc" /\ th'[t].docs = bufDocs
        BY <1>0, <1>2, <3>2, Moves DEF FlushDrain
      <4>. QED  BY <4>1 DEF InFlush
    <3>. QED  BY <3>1, <3>2
  <2>4. ASSUME NEW d, Held(d) PROVE Held(d)'
    <3>1. \A u \in Threads : InFlush(u, d) => InFlush(u, d)'
      BY <1>o, <2>1 DEF OthersKept, InFlush
    <3>2. InSegment(d) => InSegment(d)'  BY <2>1 DEF InSegment, Live
    <3>. QED  BY <2>3, <2>4, <3>1, <3>2 DEF Held, InFlush, InSegment
  <2>. QED  BY <2>2, <2>4
<1>3. CASE FlushPublish(t)
  <2>1. th[t].pc = "publish" /\ bufDocs' = bufDocs  BY <1>3 DEF FlushPublish, At, bufVars
  <2>2. Promised' \subseteq Promised
    BY <1>0, <1>3, <2>1, PromisedKept DEF FlushPublish
  <2>3. ASSUME NEW d, Held(d) PROVE Held(d)'
    <3>1. \A u \in Threads : u # t => (InFlush(u, d) => InFlush(u, d)')
      BY <1>o DEF OthersKept, InFlush
    <3>2. InFlush(t, d) \/ InSegment(d) => InSegment(d)'  BY <1>3, PublishHolds
    <3>. QED  BY <2>1, <2>3, <3>1, <3>2 DEF Held, InFlush, InSegment
  <2>. QED  BY <2>2, <2>3
<1>4. CASE MergeSwap(t)
  <2>1. th[t].pc = "m_swap" /\ bufDocs' = bufDocs  BY <1>4 DEF MergeSwap, At, bufVars
  <2>2. Promised' \subseteq Promised
    BY <1>0, <1>4, <2>1, PromisedKept DEF MergeSwap
  <2>3. ASSUME NEW d, Held(d) PROVE Held(d)'
    <3>1. \A u \in Threads : InFlush(u, d) => InFlush(u, d)'
      BY <1>o, <2>1 DEF OthersKept, InFlush
    <3>2. InSegment(d) => InSegment(d)'  BY <1>4, SwapHolds
    <3>. QED  BY <2>1, <2>3, <3>1, <3>2 DEF Held, InFlush, InSegment
  <2>. QED  BY <2>2, <2>3
<1>5. ASSUME th[t].pc # "add", bufDocs' = bufDocs, segs' = segs,
             Promised' \subseteq Promised,
             \A d : InFlush(t, d) => InFlush(t, d)'
      PROVE  Goal
  BY <1>5, <1>o, HeldUnchanged
<1>6. CASE DeleteBuffered(t)
  <2>1. th[t].pc = "del_buf" /\ bufDocs' = bufDocs /\ segs' = segs /\ acked' = acked
    BY <1>6 DEF DeleteBuffered, At, BufMarkDeleted, segVars
  <2>2. Promised' \subseteq Promised  BY <1>0, <1>6, <2>1, PromisedKept DEF DeleteBuffered
  <2>. QED  BY <1>5, <2>1, <2>2 DEF InFlush
<1>7. CASE DeleteInSegments(t)
  <2>1. th[t].pc = "del_seg" /\ bufDocs' = bufDocs /\ segs' = segs
    BY <1>7 DEF DeleteInSegments, At, MarkDeleted, segVars, bufVars
  <2>2. Promised' \subseteq Promised  BY <1>0, <1>7, <2>1, PromisedKept DEF DeleteInSegments
  <2>. QED  BY <1>5, <2>1, <2>2 DEF InFlush
<1>8. CASE Allocate(t)
  <2>1. PICK hop \in {<<"alloc", "write">>, <<"m_alloc", "m_exec">>} :
            At(t, hop[1]) /\ Continue(t, hop[2], th[t].docs, nextSegSeq, th[t].old)
    BY <1>8, <1>r DEF Allocate, At, ReindexPcs
  <2>2. /\ th[t].pc = hop[1] /\ th'[t].pc = hop[2] /\ th'[t].docs = th[t].docs
        /\ th[t].pc # "add"
    BY <1>0, <2>1, Moves DEF At
  <2>3. bufDocs' = bufDocs /\ segs' = segs /\ acked' = acked
    BY <1>8 DEF Allocate, NextSegmentId, bufVars
  <2>4. Promised' \subseteq Promised  BY <1>0, <2>1, <2>2, <2>3, PromisedKept
  <2>5. \A d : InFlush(t, d) => InFlush(t, d)'  BY <2>2 DEF InFlush
  <2>. QED  BY <1>5, <2>2, <2>3, <2>4, <2>5
<1>9. CASE WriteSegment(t)
  <2>1. At(t, "write") /\ Goto(t, "publish")
    BY <1>9, <1>r DEF WriteSegment, At, ReindexPcs
  <2>2. /\ th[t].pc = "write" /\ bufDocs' = bufDocs /\ segs' = segs /\ acked' = acked
        /\ th'[t].pc = "publish" /\ th'[t].docs = th[t].docs
    BY <1>0, <1>9, <2>1, Moves DEF WriteSegment, At, bufVars
  <2>3. Promised' \subseteq Promised  BY <1>0, <2>1, <2>2, PromisedKept
  <2>. QED  BY <1>5, <2>2, <2>3 DEF InFlush
<1>10. CASE FlushTruncate(t)
  <2>1. th[t].pc = "truncate" /\ bufDocs' = bufDocs /\ segs' = segs /\ acked' = acked
    BY <1>10 DEF FlushTruncate, At, segVars, bufVars
  <2>2. Promised' \subseteq Promised  BY <1>0, <1>10, <2>1, PromisedKept DEF FlushTruncate
  <2>. QED  BY <1>5, <2>1, <2>2 DEF InFlush
<1>11. CASE MergeFind(t)
  <2>1. th[t].pc = "find" /\ bufDocs' = bufDocs /\ segs' = segs
    BY <1>11 DEF MergeFind, At, segVars, bufVars
  <2>2. Promised' \subseteq Promised  BY <1>0, <1>11, <2>1, PromisedKept DEF MergeFind
  <2>. QED  BY <1>5, <2>1, <2>2 DEF InFlush
<1>12. CASE MergeExecute(t)
  <2>1. th[t].pc = "m_exec" /\ bufDocs' = bufDocs /\ segs' = segs /\ acked' = acked
    BY <1>12 DEF MergeExecute, At, bufVars
  <2>2. Promised' \subseteq Promised  BY <1>0, <1>12, <2>1, PromisedKept DEF MergeExecute
  <2>. QED  BY <1>5, <2>1, <2>2 DEF InFlush
<1>13. CASE MergeClean(t)
  <2>1. th[t].pc = "m_clean" /\ bufDocs' = bufDocs /\ segs' = segs
    BY <1>13 DEF MergeClean, At, bufVars
  <2>2. Promised' \subseteq Promised  BY <1>0, <1>13, <2>1, PromisedKept DEF MergeClean
  <2>. QED  BY <1>5, <2>1, <2>2 DEF InFlush
<1>14. ~(\/ ReindexCollect(t) \/ ReindexOldIds(t) \/ ReindexSwap(t)
         \/ ReindexClean(t) \/ ReindexTruncate(t))
  BY <1>r DEF ReindexCollect, ReindexOldIds, ReindexSwap, ReindexClean,
              ReindexTruncate, At, ReindexPcs
<1>. QED  BY <1>1, <1>2, <1>3, <1>4, <1>6, <1>7, <1>8, <1>9, <1>10, <1>11, <1>12,
             <1>13, <1>14 DEF Section
\* No call turns into a reindex_self.
LEMMA NeverReindexes ==
    ASSUME SegmentInv, HeldInv, NEW t \in Threads, Call(t) \/ Section(t)
    PROVE  th'[t].op # "reindex" /\ th'[t].pc \notin ReindexPcs
<1> DEFINE Goal == th'[t].op # "reindex" /\ th'[t].pc \notin ReindexPcs
<1>0. th \in [Threads -> Thread]  BY DEF SegmentInv, TypeOK
<1>r. th[t].pc \notin ReindexPcs /\ th[t].op # "reindex" /\ "reindex" \notin Calls[t]
  BY DEF HeldInv, NoReindexing
<1>1. Idle.op # "reindex" /\ Idle.pc \notin ReindexPcs
  BY DEF Idle, Serving, ReindexPcs
<1>2. \A op, arg, label :
          th' = [th EXCEPT ![t] = Serving(op, arg, label)]
             => (op # "reindex" /\ label \notin ReindexPcs => Goal)
  BY <1>0 DEF Serving
<1>3. \A label, docs, s, old :
          Continue(t, label, docs, s, old) /\ label \notin ReindexPcs => Goal
  BY <1>0, <1>r DEF Continue
<1>4. \A label : Goto(t, label) /\ label \notin ReindexPcs => Goal
  BY <1>3 DEF Goto
<1>5. ReturnOk(t) => Goal  BY <1>0, <1>1 DEF ReturnOk
<1>6. FlushReturns(t) => Goal  BY <1>5, <1>r DEF FlushReturns
<1>p. {"add", "del_buf", "del_seg", "drain", "alloc", "write", "publish", "truncate",
       "find", "m_alloc", "m_exec", "m_swap", "m_clean"} \cap ReindexPcs = {}
  BY DEF ReindexPcs
<1>7. CASE Call(t)
  <2>1. ASSUME NEW ids \in Batches, IndexAppend(t, ids) PROVE Goal
    BY <2>1, <1>2, <1>p DEF IndexAppend
  <2>2. ASSUME NEW ids, NEW k, NEW torn, IndexAppendFails(t, ids, k, torn) PROVE Goal
    BY <2>2, <1>r DEF IndexAppendFails
  <2>3. ASSUME NEW id, DeleteAppend(t, id) PROVE Goal
    BY <2>3, <1>2, <1>p DEF DeleteAppend
  <2>4. ASSUME NEW id, NEW k, NEW torn, DeleteAppendFails(t, id, k, torn) PROVE Goal
    BY <2>4, <1>r DEF DeleteAppendFails
  <2>5. ASSUME NEW op \in {"flush", "reindex"}, CallFlush(t, op) PROVE Goal
    <3>1. op = "flush"  BY <2>5, <1>r DEF CallFlush
    <3>. QED  BY <2>5, <3>1, <1>2, <1>p DEF CallFlush
  <2>. QED  BY <1>7, <2>1, <2>2, <2>3, <2>4, <2>5 DEF Call
<1>8. CASE Section(t)
  <2>1. CASE IndexAdd(t)  BY <2>1, <1>4, <1>5, <1>p DEF IndexAdd
  <2>2. CASE DeleteBuffered(t)  BY <2>2, <1>4, <1>p DEF DeleteBuffered
  <2>3. CASE DeleteInSegments(t)  BY <2>3, <1>5 DEF DeleteInSegments
  <2>4. CASE FlushDrain(t)  BY <2>4, <1>3, <1>6, <1>p DEF FlushDrain
  <2>5. CASE Allocate(t)
    <3>1. PICK hop \in {<<"alloc", "write">>, <<"m_alloc", "m_exec">>} :
              At(t, hop[1]) /\ Continue(t, hop[2], th[t].docs, nextSegSeq, th[t].old)
      BY <2>5, <1>r DEF Allocate, At, ReindexPcs
    <3>. QED  BY <3>1, <1>3, <1>p
  <2>6. CASE WriteSegment(t)
    BY <2>6, <1>4, <1>r, <1>p DEF WriteSegment, At, ReindexPcs
  <2>7. CASE FlushPublish(t)  BY <2>7, <1>3, <1>p DEF FlushPublish
  <2>8. CASE FlushTruncate(t)  BY <2>8, <1>4, <1>p DEF FlushTruncate
  <2>9. CASE MergeFind(t)  BY <2>9, <1>3, <1>6, <1>p DEF MergeFind
  <2>10. CASE MergeExecute(t)  BY <2>10, <1>3, <1>p DEF MergeExecute
  <2>11. CASE MergeSwap(t)  BY <2>11, <1>4, <1>p DEF MergeSwap
  <2>12. CASE MergeClean(t)  BY <2>12, <1>6 DEF MergeClean
  <2>13. ~(\/ ReindexCollect(t) \/ ReindexOldIds(t) \/ ReindexSwap(t)
           \/ ReindexClean(t) \/ ReindexTruncate(t))
    BY <1>r DEF ReindexCollect, ReindexOldIds, ReindexSwap, ReindexClean,
                ReindexTruncate, At, ReindexPcs
  <2>. QED  BY <1>8, <2>1, <2>2, <2>3, <2>4, <2>5, <2>6, <2>7, <2>8, <2>9, <2>10,
               <2>11, <2>12, <2>13 DEF Section
<1>. QED  BY <1>7, <1>8

\* Accepting a call, or failing to log it, changes neither the buffer nor the
\* segments.
LEMMA HeldCall ==
    ASSUME SegmentInv, HeldInv, NEW t \in Threads, Call(t)
    PROVE  (\A d : Held(d) => Held(d)') /\ Promised' \subseteq Promised
<1> DEFINE Goal == (\A d : Held(d) => Held(d)') /\ Promised' \subseteq Promised
<1>0. th \in [Threads -> Thread]  BY DEF SegmentInv, TypeOK
<1>o. OthersKept(t)  BY ThreadSteps
<1>1. ASSUME bufDocs' = bufDocs, segs' = segs, th[t].pc = "idle",
             Promised' \subseteq Promised
      PROVE  Goal
  <2>1. \A d : InFlush(t, d) => InFlush(t, d)'  BY <1>1 DEF InFlush
  <2>. QED  BY <1>1, <1>o, <2>1, HeldUnchanged
<1>2. ASSUME NEW ids \in Batches, IndexAppend(t, ids) PROVE Goal
  <2>1. Promised' \subseteq Promised  BY <1>0, <1>2, PromisedCall DEF IndexAppend
  <2>. QED  BY <1>1, <1>2, <2>1 DEF IndexAppend, At, bufVars, segVars
<1>3. ASSUME NEW ids, NEW k, NEW torn, IndexAppendFails(t, ids, k, torn) PROVE Goal
  <2>1. Promised' = Promised  BY <1>3 DEF IndexAppendFails, Promised
  <2>. QED  BY <1>1, <1>3, <2>1 DEF IndexAppendFails, At, bufVars, segVars
<1>4. ASSUME NEW id, DeleteAppend(t, id) PROVE Goal
  <2>1. Promised' \subseteq Promised  BY <1>0, <1>4, PromisedCall DEF DeleteAppend
  <2>. QED  BY <1>1, <1>4, <2>1 DEF DeleteAppend, At, bufVars, segVars
<1>5. ASSUME NEW id, NEW k, NEW torn, DeleteAppendFails(t, id, k, torn) PROVE Goal
  <2>1. Promised' = Promised  BY <1>5 DEF DeleteAppendFails, Promised
  <2>. QED  BY <1>1, <1>5, <2>1 DEF DeleteAppendFails, At, bufVars, segVars
<1>6. ASSUME NEW op \in {"flush", "reindex"}, CallFlush(t, op) PROVE Goal
  <2>1. Promised' \subseteq Promised  BY <1>0, <1>6, PromisedCall DEF CallFlush
  <2>. QED  BY <1>1, <1>6, <2>1 DEF CallFlush, At, bufVars, segVars
<1>. QED  BY <1>2, <1>3, <1>4, <1>5, <1>6 DEF Call

\* Of the failures only a bitmap that cannot be rewritten is left: the delete
\* returns an error.
LEMMA HeldFails ==
    ASSUME SegmentInv, HeldInv, NEW t \in Threads, SectionFails(t)
    PROVE  /\ \A d : Held(d) => Held(d)'
           /\ Promised' \subseteq Promised
           /\ th'[t].op # "reindex" /\ th'[t].pc \notin ReindexPcs
<1>0. th \in [Threads -> Thread]  BY DEF SegmentInv, TypeOK
<1>o. OthersKept(t)  BY ThreadSteps
<1>1. DeleteBitmapFails(t)
  BY DEF SectionFails, WriteFails, TruncateFails, CleanFails, Fault, HeldInv, MemoryKept
<1>2. th[t].pc = "del_seg" /\ bufDocs' = bufDocs /\ segs' = segs /\ ReturnErr(t)
  BY <1>1 DEF DeleteBitmapFails, At, bufVars
<1>3. Promised' \subseteq Promised  BY <1>0, <1>2, PromisedKept
<1>4. \A d : InFlush(t, d) => InFlush(t, d)'  BY <1>2 DEF InFlush
<1>5. \A d : Held(d) => Held(d)'  BY <1>o, <1>2, <1>4, HeldUnchanged
<1>6. th'[t].op # "reindex" /\ th'[t].pc \notin ReindexPcs
  BY <1>0, <1>2 DEF ReturnErr, Idle, Serving, ReindexPcs
<1>. QED  BY <1>3, <1>5, <1>6

\* HeldInv is inductive relative to SegmentInv.
LEMMA HeldInvStep == SegmentInv /\ HeldInv /\ [Next]_vars => HeldInv'
<1> SUFFICES ASSUME SegmentInv, HeldInv, [Next]_vars PROVE HeldInv'  OBVIOUS
<1>0. /\ NoReindexing /\ MemoryKept /\ up
      /\ \A u \in Threads : th[u].op # "reindex" /\ th[u].pc \notin ReindexPcs
      /\ \A d \in Promised : Held(d)
  BY DEF HeldInv
<1>1. ASSUME NEW t \in Threads, Call(t) \/ Section(t) \/ SectionFails(t)
      PROVE  HeldInv'
  <2>1. up' = up /\ OthersKept(t)  BY <1>1, ThreadSteps
  <2>2. th'[t].op # "reindex" /\ th'[t].pc \notin ReindexPcs
    BY <1>1, NeverReindexes, HeldFails
  <2>3. /\ \A d : Held(d) => Held(d)'
        /\ \A d \in Promised' : d \in Promised \/ Held(d)'
    BY <1>1, HeldCall, HeldSection, HeldFails
  <2>4. \A u \in Threads : th'[u].op # "reindex" /\ th'[u].pc \notin ReindexPcs
    BY <1>0, <2>1, <2>2 DEF OthersKept
  <2>5. \A d \in Promised' : Held(d)'  BY <1>0, <2>3
  <2>. QED  BY <1>0, <2>1, <2>4, <2>5 DEF HeldInv, NoReindexing, MemoryKept
<1>2. ~Crash  BY <1>0 DEF Crash, Fault, MemoryKept
<1>3. ~Open  BY <1>0 DEF Open
<1>4. CASE UNCHANGED vars
  <2>1. UNCHANGED <<up, th, bufDocs, segs, acked>>
    BY <1>4 DEF vars, bufVars, segVars, engineVars
  <2>. QED  BY <1>0, <2>1 DEF HeldInv, Promised, Held, Live, NoReindexing, MemoryKept
<1>. QED  BY <1>1, <1>2, <1>3, <1>4 DEF Next, Stop

\* However many threads index, delete, flush and merge at once, and although the
\* log and the deletion bitmaps may fail to be written, no acknowledged document
\* is dropped from memory: it is in the buffer, in the hands of a flush, or in a
\* listed segment.
THEOREM NothingDropped ==
    NoReindexing /\ MemoryKept => (Spec => []NothingVanishes)
<1>1. NoReindexing /\ MemoryKept /\ Init => HeldInv
  BY DEF Init, HeldInv, Promised, Idle, Serving, ReindexPcs
<1>2. HeldInv => NothingVanishes
  BY DEF HeldInv, NothingVanishes, Owed, Promised
<1>. QED  BY <1>1, <1>2, HeldInvStep, SegmentsSafe, PTL DEF Spec
-----------------------------------------------------------------------------
(* The log *)

\* A log without a torn record is read to its end.
LEMMA LogReadBack ==
    ASSUME walFile \in Seq(WalRecord), LogWhole
    PROVE  /\ DOMAIN ReadRecords(walFile) = DOMAIN walFile
           /\ \A i \in DOMAIN walFile : ReadRecords(walFile)[i] = walFile[i]
<1>1. ReadableLen(walFile) = Len(walFile)  BY WholeLogRead DEF LogWhole
<1>. QED  BY <1>1, ReadableProperties

\* append_batch keeps the records of the log and adds its entries.
LEMMA Appended ==
    ASSUME WalTypeOK, LogWhole, NEW entries \in Seq(WalEntry), AppendBatch(entries)
    PROVE  /\ LogWhole'
           /\ \A d : InLog(d) => InLog(d)'
           /\ \A d, i : i \in DOMAIN entries /\ entries[i] = IndexEntry(d) => InLog(d)'
           /\ \A id : DeletedInLog(id)' =>
                 \/ DeletedInLog(id)
                 \/ \E i \in DOMAIN entries : /\ entries[i].op = "delete"
                                              /\ entries[i].doc.id = id
<1> DEFINE new == Numbered(entries, nextSeq)
           n == Len(walFile)
<1>1. new \in Seq(WalRecord) /\ Len(new) = Len(entries)
  BY NumberedType DEF WalTypeOK
<1>2. walFile' = walFile \o new /\ walFile \in Seq(WalRecord)
  BY DEF AppendBatch, WalTypeOK
<1>3. \A i \in DOMAIN entries : i \in DOMAIN new /\ new[i].entry = entries[i] /\ new[i].ok
  BY DEF Numbered
<1>4. DOMAIN entries = 1..Len(entries) /\ DOMAIN new = 1..Len(new)  BY <1>1
<1>. HIDE DEF new
<1>5. /\ n \in Nat /\ DOMAIN walFile = 1..n
      /\ DOMAIN walFile' = 1..(n + Len(new)) /\ Len(new) \in Nat
  BY <1>1, <1>2
<1>6. \A i \in DOMAIN walFile : i \in DOMAIN walFile' /\ walFile'[i] = walFile[i]
  BY <1>1, <1>2, <1>5
<1>7. \A i \in DOMAIN new : i + n \in DOMAIN walFile' /\ walFile'[i + n] = new[i]
  BY <1>1, <1>2, <1>4, <1>5
<1>8. \A i \in DOMAIN walFile' : \/ i \in DOMAIN walFile /\ walFile'[i] = walFile[i]
                                 \/ i - n \in DOMAIN new /\ walFile'[i] = new[i - n]
  BY <1>1, <1>2, <1>4, <1>5
<1>. HIDE DEF n
<1>9. LogWhole'
  <2>1. DOMAIN new = DOMAIN entries  BY <1>1, <1>4
  <2>. QED  BY <1>3, <1>8, <2>1 DEF LogWhole
<1>10. \A d : InLog(d) => InLog(d)'  BY <1>6 DEF InLog
<1>11. \A d, i : i \in DOMAIN entries /\ entries[i] = IndexEntry(d) => InLog(d)'
  BY <1>3, <1>7 DEF InLog
<1>12. ASSUME NEW id, DeletedInLog(id)'
       PROVE  \/ DeletedInLog(id)
              \/ \E i \in DOMAIN entries : entries[i].op = "delete" /\ entries[i].doc.id = id
  <2>1. DOMAIN new = DOMAIN entries  BY <1>1, <1>4
  <2>2. PICK i \in DOMAIN walFile' :
            walFile'[i].entry.op = "delete" /\ walFile'[i].entry.doc.id = id
    BY <1>12 DEF DeletedInLog
  <2>3. CASE i \in DOMAIN walFile /\ walFile'[i] = walFile[i]
    BY <2>2, <2>3 DEF DeletedInLog
  <2>4. CASE i - n \in DOMAIN new /\ walFile'[i] = new[i - n]
    BY <1>3, <2>1, <2>2, <2>4
  <2>. QED  BY <1>8, <2>3, <2>4
<1>. QED  BY <1>9, <1>10, <1>11, <1>12

\* Promised documents are documents.
LEMMA PromisedType ==
    ASSUME TypeOK
    PROVE  Promised \in SUBSET Document
<1>1. \A t \in Threads : Range(th[t].arg) \in SUBSET Document
  <2> TAKE t \in Threads
  <2>1. th[t] \in Thread  BY DEF TypeOK
  <2>2. th[t].arg \in Seq(Document)  BY <2>1 DEF Thread
  <2>. QED  BY <2>2 DEF Range
<1>. QED  BY <1>1 DEF Promised, TypeOK

\* With decoded bitmaps a listed document is one that open() finds, and one that
\* the open reader returns.
LEMMA ListedIsHeld ==
    ASSUME SegmentInv, OnlyKills, NEW d, Listed(d)
    PROVE  InDirectory(d) /\ InSegment(d)
<1>1. PICK i \in DOMAIN segs : \E l \in DOMAIN segs[i].docs :
          segs[i].docs[l] = d /\ l \notin disk[segs[i].id].dead
  BY DEF Listed
<1>2. PICK l \in DOMAIN segs[i].docs :
          segs[i].docs[l] = d /\ l \notin disk[segs[i].id].dead
  BY <1>1
<1> DEFINE s == segs[i].id
<1>3. /\ s \in DOMAIN disk /\ disk[s].docs = segs[i].docs
      /\ segs[i].dead \subseteq disk[s].dead /\ disk[s].ok
  BY DEF SegmentInv, ListedOnDisk, OnlyKills
<1>. HIDE DEF s
<1>4. s \in ReadableIds /\ l \in Live(EntryOf(s)) /\ disk[s].docs[l] = d
  BY <1>2, <1>3 DEF ReadableIds, Live, EntryOf, s
<1>5. l \in Live(segs[i])  BY <1>2, <1>3 DEF Live, s
<1>. QED  BY <1>2, <1>4, <1>5 DEF InDirectory, InSegment

\* A step that keeps the list and the directories of listed segments keeps what
\* is listed.
LEMMA ListedUnchanged ==
    ASSUME segs' = segs,
           \A i \in DOMAIN segs : disk'[segs[i].id] = disk[segs[i].id]
    PROVE  \A d : Listed(d) => Listed(d)'
BY DEF Listed

\* A new entry whose directory was just written lists all its documents.
LEMMA ListedNew ==
    ASSUME NEW k, k \in DOMAIN segs', NEW s, NEW docs,
           segs'[k] = NewEntry(s, docs), disk'[s] = NewDir(docs)
    PROVE  \A d \in Range(docs) : Listed(d)'
<1>1. segs'[k].id = s /\ segs'[k].docs = docs /\ disk'[s].dead = {}
  BY DEF NewEntry, NewDir
<1>. QED  BY <1>1 DEF Listed, Range

-----------------------------------------------------------------------------
(* Survives, step by step *)

\* A step that keeps, for every document that stays due, its place in the log
\* and its place in memory or on disk.
LEMMA SurvivesKept ==
    ASSUME Survives, up, up' = up,
           \A d : Due(d)' =>
              /\ Due(d)
              /\ DeletedInLog(d.id)' => DeletedInLog(d.id)
              /\ InLog(d) => InLog(d)'
              /\ Buffered(d) => Buffered(d)' \/ Listed(d)'
              /\ Listed(d) => Listed(d)'
    PROVE  Survives'
<1> SUFFICES ASSUME NEW d, Due(d)'
             PROVE  /\ (InLog(d)' /\ Buffered(d)') \/ Listed(d)'
                    /\ DeletedInLog(d.id)' => InLog(d)'
  BY DEF Survives, Due
<1>1. /\ (InLog(d) /\ Buffered(d)) \/ Listed(d)
      /\ DeletedInLog(d.id) => InLog(d)
  BY DEF Survives, Due
<1>. QED  BY <1>1

\* Truncating the log when nothing is in memory alone.
LEMMA SurvivesTruncate ==
    ASSUME Survives, up, up' = up, walFile' = << >>,
           \A d : Due(d)' => Due(d),
           \A d : ~Buffered(d), segs' = segs, disk' = disk
    PROVE  Survives'
<1> SUFFICES ASSUME NEW d, Due(d)'
             PROVE  /\ Listed(d)'
                    /\ ~DeletedInLog(d.id)'
  BY DEF Survives, Due
<1>1. Listed(d)  BY DEF Survives, Due
<1>2. Listed(d)'  BY <1>1, ListedUnchanged
<1>3. ~DeletedInLog(d.id)'  BY DEF DeletedInLog
<1>. QED  BY <1>2, <1>3

\* A step that promises nothing new and clears nothing less keeps Due.
LEMMA DueKept ==
    ASSUME Promised' \subseteq Promised, cleared' = cleared
    PROVE  \A d : Due(d)' => Due(d)
BY DEF Due
\* The only client.
LEMMA Alone ==
    ASSUME DurableInv, NEW t \in Threads
    PROVE  \A u \in Threads : u = t
BY DEF DurableInv, OneClient

\* The program counters at which a flush has drained the buffer.
DrainedPcs == (FlushPcs \ {"drain"}) \cup ReindexPcs

\* What a section does to the log, the versions, the buffer and the call's own
\* documents.
LEMMA SectionEffects ==
    ASSUME SegmentInv, NEW t \in Threads, Section(t)
    PROVE  /\ acked' \subseteq acked \cup Range(th[t].arg)
           /\ th'[t].arg \in {th[t].arg, << >>}
           /\ clock' = clock
           /\ th'[t].pc # "add"
           /\ walFile' \in {walFile, << >>}
           /\ th'[t].pc \in DrainedPcs =>
                 bufDocs' = << >> \/ (th[t].pc \in DrainedPcs /\ bufDocs' = bufDocs)
<1> DEFINE Goal == /\ acked' \subseteq acked \cup Range(th[t].arg)
                   /\ th'[t].arg \in {th[t].arg, << >>}
                   /\ clock' = clock
                   /\ th'[t].pc # "add"
                   /\ walFile' \in {walFile, << >>}
                   /\ th'[t].pc \in DrainedPcs =>
                         bufDocs' = << >> \/ (th[t].pc \in DrainedPcs /\ bufDocs' = bufDocs)
<1>0. th \in [Threads -> Thread]  BY DEF SegmentInv, TypeOK
<1>p. /\ {"alloc", "write", "publish", "truncate", "find", "m_alloc", "m_exec", "m_swap",
          "m_clean", "r_collect", "r_alloc", "r_write", "r_old", "r_swap", "r_clean",
          "r_truncate"} \subseteq DrainedPcs
      /\ {"idle", "drain", "del_seg"} \cap DrainedPcs = {}
  BY DEF DrainedPcs, FlushPcs, ReindexPcs
<1>1. ReturnOk(t) => /\ acked' \subseteq acked \cup Range(th[t].arg)
                     /\ th'[t].arg = << >> /\ th'[t].pc = "idle"
  BY <1>0 DEF ReturnOk, Idle, Serving
<1>2. \A label, docs, s, old :
          Continue(t, label, docs, s, old) => th'[t].arg = th[t].arg /\ th'[t].pc = label
  BY <1>0, Moves
<1>3. \A label : Goto(t, label) => th'[t].arg = th[t].arg /\ th'[t].pc = label
  BY <1>0, Moves
<1>4. FlushReturns(t) => /\ acked' \subseteq acked \cup Range(th[t].arg)
                         /\ th'[t].arg \in {th[t].arg, << >>}
                         /\ th'[t].pc \in {"idle", "r_collect"}
  BY <1>1, <1>2 DEF FlushReturns
<1>5. CASE IndexAdd(t)
  <2>1. \/ ReturnOk(t)
        \/ Goto(t, "drain") /\ acked' = acked
    BY <1>5 DEF IndexAdd
  <2>. QED  BY <1>1, <1>3, <1>5, <1>p, <2>1 DEF IndexAdd, walVars
<1>6. CASE DeleteBuffered(t)
  BY <1>3, <1>6, <1>p DEF DeleteBuffered, walVars
<1>7. CASE DeleteInSegments(t)
  BY <1>1, <1>7, <1>p DEF DeleteInSegments, walVars
<1>8. CASE FlushDrain(t)
  <2>1. FlushReturns(t) \/ (Continue(t, "alloc", bufDocs, 0, {}) /\ acked' = acked)
    BY <1>8 DEF FlushDrain
  <2>2. bufDocs' = << >> /\ walFile' = walFile /\ clock' = clock
    BY <1>8 DEF FlushDrain, BufDrain, walVars
  <2>. QED  BY <1>2, <1>4, <2>1, <2>2
<1>9. CASE Allocate(t)
  <2>1. PICK hop \in {<<"alloc", "write">>, <<"m_alloc", "m_exec">>, <<"r_alloc", "r_write">>} :
            At(t, hop[1]) /\ Continue(t, hop[2], th[t].docs, nextSegSeq, th[t].old)
    BY <1>9 DEF Allocate
  <2>2. th[t].pc = hop[1] /\ th'[t].pc = hop[2] /\ th'[t].arg = th[t].arg
    BY <1>2, <2>1 DEF At
  <2>. QED  BY <1>9, <1>p, <2>2 DEF Allocate, walVars, bufVars
<1>10. CASE WriteSegment(t)
  BY <1>3, <1>10, <1>p DEF WriteSegment, At, walVars, bufVars
<1>11. CASE FlushPublish(t)
  BY <1>2, <1>11, <1>p DEF FlushPublish, At, walVars, bufVars
<1>12. CASE FlushTruncate(t)
  BY <1>3, <1>12, <1>p DEF FlushTruncate, Truncate, At, bufVars
<1>13. CASE MergeFind(t)
  <2>1. FlushReturns(t) \/ (Continue(t, "m_alloc", << >>, 0, FindMerges) /\ acked' = acked)
    BY <1>13 DEF MergeFind
  <2>. QED  BY <1>2, <1>4, <1>13, <1>p, <2>1 DEF MergeFind, At, walVars, bufVars
<1>14. CASE MergeExecute(t)
  <2>1. Continue(t, "m_swap", LiveDocsOf(th[t].old), th[t].seg, th[t].old)
    BY <1>14 DEF MergeExecute
  <2>. QED  BY <1>2, <1>14, <1>p, <2>1 DEF MergeExecute, At, walVars, bufVars
<1>15. CASE MergeSwap(t)
  BY <1>3, <1>15, <1>p DEF MergeSwap, At, walVars, bufVars
<1>16. CASE MergeClean(t)
  BY <1>4, <1>16, <1>p DEF MergeClean, At, walVars, bufVars
<1>17. CASE ReindexCollect(t)
  <2>1. \/ ReturnOk(t)
        \/ Continue(t, "r_alloc", LiveDocsOf(ListedIds), 0, {}) /\ acked' = acked
    BY <1>17 DEF ReindexCollect
  <2>. QED  BY <1>1, <1>2, <1>17, <1>p, <2>1 DEF ReindexCollect, At, walVars, bufVars
<1>18. CASE ReindexOldIds(t)
  BY <1>2, <1>18, <1>p DEF ReindexOldIds, At, walVars, bufVars
<1>19. CASE ReindexSwap(t)
  BY <1>3, <1>19, <1>p DEF ReindexSwap, At, walVars, bufVars
<1>20. CASE ReindexClean(t)
  BY <1>3, <1>20, <1>p DEF ReindexClean, At, walVars, bufVars
<1>21. CASE ReindexTruncate(t)
  BY <1>1, <1>21, <1>p DEF ReindexTruncate, Truncate, At, bufVars
<1>. QED  BY <1>5, <1>6, <1>7, <1>8, <1>9, <1>10, <1>11, <1>12, <1>13, <1>14, <1>15,
             <1>16, <1>17, <1>18, <1>19, <1>20, <1>21 DEF Section

\* So a section of the only client keeps the parts of DurableInv about them.
LEMMA SectionKeeps ==
    ASSUME SegmentInv, DurableInv, NEW t \in Threads, Section(t)
    PROVE  LogWhole' /\ VersionsSeen' /\ BufferTaken' /\ LoggedFirst'
<1>1. /\ acked' \subseteq acked \cup Range(th[t].arg)
      /\ th'[t].arg \in {th[t].arg, << >>}
      /\ clock' = clock /\ th'[t].pc # "add" /\ walFile' \in {walFile, << >>}
      /\ th'[t].pc \in DrainedPcs =>
            bufDocs' = << >> \/ (th[t].pc \in DrainedPcs /\ bufDocs' = bufDocs)
  BY SectionEffects
<1>2. \A u \in Threads : u = t  BY Alone
<1>3. LogWhole /\ VersionsSeen /\ BufferTaken  BY DEF DurableInv
<1>4. LogWhole'  BY <1>1, <1>3 DEF LogWhole
<1>5. Range(<< >>) = {}  BY DEF Range
<1>6. VersionsSeen'
  <2>1. \A d \in acked' : d.ver <= clock'  BY <1>1, <1>3 DEF VersionsSeen
  <2>2. Range(th'[t].arg) \subseteq Range(th[t].arg)  BY <1>1, <1>5
  <2>3. \A d \in Range(th'[t].arg) : d.ver <= clock'  BY <1>1, <1>3, <2>2 DEF VersionsSeen
  <2>. QED  BY <1>2, <2>1, <2>3 DEF VersionsSeen
<1>7. BufferTaken'
  <2>1. th[t].pc \in DrainedPcs => bufDocs = << >>  BY <1>3 DEF BufferTaken, DrainedPcs
  <2>2. th'[t].pc \in DrainedPcs => bufDocs' = << >>  BY <1>1, <2>1
  <2>. QED  BY <1>2, <2>2 DEF BufferTaken, DrainedPcs
<1>8. LoggedFirst'  BY <1>1, <1>2 DEF LoggedFirst
<1>. QED  BY <1>4, <1>6, <1>7, <1>8
\* reindex_self collects every listed document, and its only client lists no
\* other before the swap.
LEMMA SectionCovers ==
    ASSUME SegmentInv, DurableInv, NEW t \in Threads, Section(t)
    PROVE  ReindexCovers'
<1> DEFINE R == {"r_alloc", "r_write", "r_old", "r_swap"}
           C == \A i \in DOMAIN segs : \A l \in Live(segs[i]) :
                    segs[i].docs[l] \in Range(th[t].docs)
<1>0. th \in [Threads -> Thread] /\ segs \in Seq(Entry)
  BY DEF SegmentInv, TypeOK, SegTypeOK
<1>a. \A u \in Threads : u = t  BY Alone
<1>c. th[t].pc \in R => C  BY DEF DurableInv, ReindexCovers
<1>g. SUFFICES th'[t].pc \in R => C'  BY <1>a DEF ReindexCovers
<1>1. ASSUME th[t].pc \in R, th'[t].docs = th[t].docs, segs' = segs PROVE C'
  BY <1>1, <1>c DEF Live
<1>r. ReturnOk(t) \/ FlushReturns(t) => th'[t].pc \notin R
  BY <1>0, Moves
<1>2. CASE ReindexCollect(t)
  <2>1. CASE LiveDocsOf(ListedIds) = << >>
    BY <1>2, <1>r, <2>1 DEF ReindexCollect
  <2>2. CASE LiveDocsOf(ListedIds) # << >>
    <3>1. th'[t].docs = LiveDocsOf(ListedIds) /\ segs' = segs
      BY <1>0, <1>2, <2>2, Moves DEF ReindexCollect, segVars
    <3>2. \A i \in DOMAIN segs : segs[i].id \in ListedIds  BY DEF ListedIds
    <3>3. \A i \in DOMAIN segs : \A l \in Live(segs[i]) :
              segs[i].docs[l] \in Range(LiveDocsOf(ListedIds))
      BY <1>0, <3>2, LiveDocsProperties
    <3>. QED  BY <3>1, <3>3 DEF Live
  <2>. QED  BY <2>1, <2>2
<1>3. CASE Allocate(t)
  <2>1. PICK hop \in {<<"alloc", "write">>, <<"m_alloc", "m_exec">>, <<"r_alloc", "r_write">>} :
            At(t, hop[1]) /\ Continue(t, hop[2], th[t].docs, nextSegSeq, th[t].old)
    BY <1>3 DEF Allocate
  <2>2. /\ th[t].pc = hop[1] /\ th'[t].pc = hop[2] /\ th'[t].docs = th[t].docs
        /\ segs' = segs
    BY <1>0, <1>3, <2>1, Moves DEF At, Allocate, NextSegmentId
  <2>. QED  BY <1>1, <2>2
<1>4. CASE WriteSegment(t)
  <2>1. /\ th'[t].docs = th[t].docs /\ segs' = segs
        /\ \/ th[t].pc = "write" /\ th'[t].pc = "publish"
           \/ th[t].pc = "r_write" /\ th'[t].pc = "r_old"
    BY <1>0, <1>4, Moves DEF WriteSegment, At
  <2>. QED  BY <1>1, <2>1
<1>5. CASE ReindexOldIds(t)
  <2>1. th[t].pc = "r_old" /\ th'[t].docs = th[t].docs /\ segs' = segs
    BY <1>0, <1>5, Moves DEF ReindexOldIds, At, segVars
  <2>. QED  BY <1>1, <2>1
<1>. HIDE DEF C
<1>6. CASE \/ IndexAdd(t) \/ DeleteBuffered(t) \/ DeleteInSegments(t) \/ FlushDrain(t)
           \/ FlushPublish(t) \/ FlushTruncate(t)
  BY <1>0, <1>6, <1>r, Moves
     DEF IndexAdd, DeleteBuffered, DeleteInSegments, FlushDrain, FlushPublish, FlushTruncate
<1>7. CASE \/ MergeFind(t) \/ MergeSwap(t) \/ MergeClean(t)
           \/ ReindexSwap(t) \/ ReindexClean(t) \/ ReindexTruncate(t)
  BY <1>0, <1>7, <1>r, Moves
     DEF MergeFind, MergeSwap, MergeClean, ReindexSwap, ReindexClean, ReindexTruncate
<1>8. CASE MergeExecute(t)
  <2>1. Continue(t, "m_swap", LiveDocsOf(th[t].old), th[t].seg, th[t].old)
    BY <1>8 DEF MergeExecute
  <2>. QED  BY <1>0, <2>1, Moves
<1>. QED  BY <1>2, <1>3, <1>4, <1>5, <1>6, <1>7, <1>8 DEF Section

\* A replacement whose segment holds what the replaced ones hold, and whose
\* directory is on disk, keeps every document listed.
LEMMA ReplaceKeepsListed ==
    ASSUME SegmentInv, NEW t \in Threads, Built(t),
           ReplaceSegments(th[t].old, NewEntry(th[t].seg, th[t].docs)),
           \A i \in DOMAIN segs : segs[i].id \in th[t].old =>
              \A l \in Live(segs[i]) : segs[i].docs[l] \in Range(th[t].docs)
    PROVE  \A d : Listed(d) => Listed(d)'
<1> DEFINE e == NewEntry(th[t].seg, th[t].docs)
<1>0. th[t].docs \in Seq(Document) /\ th[t].seg \in Nat /\ segs \in Seq(Entry)
  BY ThreadFacts
<1>1. e \in Entry  BY <1>0, NewSegmentType
<1>2. disk' = disk /\ disk[th[t].seg] = NewDir(th[t].docs)
  BY DEF ReplaceSegments, SegmentInv, BuiltOnDisk
<1>. HIDE DEF e
<1>3. /\ \A i \in DOMAIN segs : segs[i].id \notin th[t].old =>
             \E k \in DOMAIN segs' : segs'[k] = segs[i]
      /\ \E k \in DOMAIN segs' : segs'[k] = e
  BY <1>0, <1>1, ReplacedSegs DEF e
<1>4. \A d \in Range(th[t].docs) : Listed(d)'
  <2>1. PICK k \in DOMAIN segs' : segs'[k] = e  BY <1>3
  <2>. QED  BY <1>2, <2>1, ListedNew DEF e
<1> SUFFICES ASSUME NEW d, Listed(d) PROVE Listed(d)'  OBVIOUS
<1>5. PICK i \in DOMAIN segs : \E l \in DOMAIN segs[i].docs :
          segs[i].docs[l] = d /\ l \notin disk[segs[i].id].dead
  BY DEF Listed
<1>6. PICK l \in DOMAIN segs[i].docs :
          segs[i].docs[l] = d /\ l \notin disk[segs[i].id].dead
  BY <1>5
<1>7. CASE segs[i].id \in th[t].old
  <2>1. l \in Live(segs[i])  BY <1>6 DEF SegmentInv, ListedOnDisk, Live
  <2>. QED  BY <1>4, <1>6, <1>7, <2>1
<1>8. CASE segs[i].id \notin th[t].old
  <2>1. PICK k \in DOMAIN segs' : segs'[k] = segs[i]  BY <1>3, <1>8
  <2>. QED  BY <1>2, <1>6, <2>1 DEF Listed
<1>. QED  BY <1>7, <1>8

\* Writing or removing directories of segments that are not listed.
LEMMA UnlistedDirs ==
    ASSUME SegmentInv, NEW t \in Threads, segs' = segs,
           \/ Building(t) /\ \E dir : disk' = WithDir(th[t].seg, dir)
           \/ th[t].pc \in CleanPcs /\ disk' = WithoutDirs(th[t].old)
           \/ disk' = disk
    PROVE  \A d : Listed(d) => Listed(d)'
<1>1. \A i \in DOMAIN segs : segs[i].id \in DOMAIN disk
  BY DEF SegmentInv, ListedOnDisk
<1>2. \A i \in DOMAIN segs : disk'[segs[i].id] = disk[segs[i].id]
  <2>1. CASE Building(t) /\ \E dir : disk' = WithDir(th[t].seg, dir)
    <3>1. \A i \in DOMAIN segs : segs[i].id # th[t].seg
      BY <2>1 DEF SegmentInv, BuildersApart
    <3>. QED  BY <1>1, <2>1, <3>1 DEF WithDir
  <2>2. CASE th[t].pc \in CleanPcs /\ disk' = WithoutDirs(th[t].old)
    <3>1. \A i \in DOMAIN segs : segs[i].id \notin th[t].old
      BY <2>2 DEF SegmentInv, RemovedUnlisted
    <3>. QED  BY <1>1, <2>2, <3>1 DEF WithoutDirs
  <2>. QED  BY <2>1, <2>2
<1>. QED  BY <1>2, ListedUnchanged
\* mark_deleted touches one document on disk, of the id it deletes.
LEMMA MarkDeletedListed ==
    ASSUME SegmentInv, NEW id \in DocIds, MarkDeleted(id)
    PROVE  segs' = segs /\ \A d : d.id # id /\ Listed(d) => Listed(d)'
<1>1. segs' = segs  BY DEF MarkDeleted, segVars
<1>2. CASE Deletable(docMap, id) /\ disk[docMap[id].seg].ok
  <2> DEFINE s == docMap[id].seg
             l == docMap[id].loc
  <2>1. disk' = WithDir(s, Marked(disk[s], {l}))  BY <1>2 DEF MarkDeleted
  <2>2. PICK j \in DOMAIN segs : segs[j].id = s /\ l \in CopiesOf(segs[j], id)
    BY <1>2 DEF Deletable, SegmentInv, DocMapSound
  <2>3. segs[j].docs[l].id = id  BY <2>2 DEF CopiesOf
  <2>. HIDE DEF s, l
  <2>4. ASSUME NEW d, d.id # id, Listed(d) PROVE Listed(d)'
    <3>1. PICK i \in DOMAIN segs : \E m \in DOMAIN segs[i].docs :
              segs[i].docs[m] = d /\ m \notin disk[segs[i].id].dead
      BY <2>4 DEF Listed
    <3>2. PICK m \in DOMAIN segs[i].docs :
              segs[i].docs[m] = d /\ m \notin disk[segs[i].id].dead
      BY <3>1
    <3>3. segs[i].id \in DOMAIN disk  BY DEF SegmentInv, ListedOnDisk
    <3>4. CASE segs[i].id = s
      <4>1. i = j  BY <2>2, <3>4 DEF SegmentInv, ListedOnDisk
      <4>2. m # l  BY <2>3, <2>4, <3>2, <4>1
      <4>3. disk'[s].dead = disk[s].dead \cup {l}  BY <2>1 DEF WithDir, Marked
      <4>4. m \notin disk'[segs[i].id].dead  BY <3>2, <3>4, <4>2, <4>3
      <4>. QED  BY <1>1, <3>2, <4>4 DEF Listed
    <3>5. CASE segs[i].id # s
      <4>1. disk'[segs[i].id] = disk[segs[i].id]  BY <2>1, <3>3, <3>5 DEF WithDir
      <4>. QED  BY <1>1, <3>2, <4>1 DEF Listed
    <3>. QED  BY <3>4, <3>5
  <2>. QED  BY <1>1, <2>4
<1>3. CASE ~(Deletable(docMap, id) /\ disk[docMap[id].seg].ok)
  <2>1. disk' = disk  BY <1>3 DEF MarkDeleted, segVars
  <2>. QED  BY <1>1, <2>1, ListedUnchanged
<1>. QED  BY <1>2, <1>3

\* Every section of the only client leaves each due document in the log and in
\* memory, or listed.
LEMMA SectionSurvives ==
    ASSUME SegmentInv, DurableInv, NEW t \in Threads, Section(t)
    PROVE  Survives'
<1>0. /\ th \in [Threads -> Thread] /\ Survives /\ up /\ up' = up /\ TypeOK
      /\ th[t].docs \in Seq(Document) /\ th[t].arg \in Seq(Document)
      /\ bufDocs \in Seq(Document) /\ th[t].seg \in Nat /\ segs \in Seq(Entry)
  BY ThreadFacts, ThreadSteps DEF SegmentInv, TypeOK, DurableInv, BufTypeOK
<1>a. \A u \in Threads : u = t  BY Alone
<1>b. \A d : Buffered(d) <=> d \in Range(bufDocs) \/ InFlush(t, d)
  BY <1>a DEF Buffered, InFlush
<1>bp. \A d : Buffered(d)' <=> d \in Range(bufDocs') \/ InFlush(t, d)'
  BY <1>a DEF Buffered, InFlush
<1>k. ASSUME Promised' \subseteq Promised, cleared' = cleared, walFile' = walFile,
             \A d : Buffered(d) => Buffered(d)' \/ Listed(d)',
             \A d : Listed(d) => Listed(d)'
      PROVE  Survives'
  <2>1. \A d : Due(d)' => Due(d)  BY <1>k, DueKept
  <2>2. /\ \A d : InLog(d) => InLog(d)'
        /\ \A id : DeletedInLog(id)' => DeletedInLog(id)
    BY <1>k DEF InLog, DeletedInLog
  <2>. QED  BY <1>0, <1>k, <2>1, <2>2, SurvivesKept
<1>1. CASE IndexAdd(t)
  <2>1. /\ th[t].pc = "add" /\ bufDocs' = bufDocs \o th[t].arg /\ segs' = segs /\ disk' = disk
        /\ walFile' = walFile /\ cleared' = cleared
    BY <1>1 DEF IndexAdd, At, BufAdd, segVars, walVars
  <2>2. Range(bufDocs') = Range(bufDocs) \cup Range(th[t].arg)
    BY <1>0, <2>1, RangeConcat
  <2>3. \A d : InLog(d)' <=> InLog(d)  BY <2>1 DEF InLog
  <2>4. \A id : DeletedInLog(id)' <=> DeletedInLog(id)  BY <2>1 DEF DeletedInLog
  <2>5. \A d : Listed(d) => Listed(d)'  BY <2>1, ListedUnchanged
  <2>6. \A d : Buffered(d) => Buffered(d)'
    BY <1>b, <1>bp, <2>1, <2>2 DEF InFlush
  <2>7. \A d \in Range(th[t].arg) : InLog(d)' /\ Buffered(d)'
    BY <1>bp, <2>1, <2>2, <2>3 DEF DurableInv, LoggedFirst
  <2>8. Promised' \subseteq Promised \cup Range(th[t].arg)  BY <1>1, PromisedAdd
  <2> SUFFICES ASSUME NEW d \in Promised', Due(d)'
               PROVE  /\ (InLog(d)' /\ Buffered(d)') \/ Listed(d)'
                      /\ DeletedInLog(d.id)' => InLog(d)'
    BY <1>0 DEF Survives
  <2>9. CASE d \in Range(th[t].arg)  BY <2>7, <2>9
  <2>10. CASE d \notin Range(th[t].arg)
    <3>1. Due(d)  BY <2>1, <2>8, <2>10 DEF Due
    <3>2. /\ (InLog(d) /\ Buffered(d)) \/ Listed(d)
          /\ DeletedInLog(d.id) => InLog(d)
      BY <1>0, <3>1 DEF Survives, Due
    <3>. QED  BY <2>3, <2>4, <2>5, <2>6, <3>2
  <2>. QED  BY <2>9, <2>10
<1>2. CASE DeleteBuffered(t)
  <2>1. /\ th[t].pc = "del_buf" /\ bufDocs' = bufDocs /\ segs' = segs /\ acked' = acked
        /\ disk' = disk /\ walFile' = walFile /\ cleared' = cleared
    BY <1>2 DEF DeleteBuffered, At, BufMarkDeleted, segVars, walVars
  <2>2. Promised' \subseteq Promised  BY <1>0, <1>2, <2>1, PromisedKept DEF DeleteBuffered
  <2>3. \A d : Buffered(d) => Buffered(d)'  BY <1>b, <1>bp, <2>1 DEF InFlush
  <2>4. \A d : Listed(d) => Listed(d)'  BY <2>1, ListedUnchanged
  <2>. QED  BY <1>k, <2>1, <2>2, <2>3, <2>4
<1>3. CASE DeleteInSegments(t)
  <2> DEFINE id == th[t].arg[1].id
  <2>0. Len(th[t].arg) = 1  BY <1>3 DEF DeleteInSegments, At, SegmentInv, DeleteArg
  <2>1. th[t].arg[1] \in Document  BY <1>0, <2>0
  <2>2. id \in DocIds  BY <2>1 DEF Document
  <2>3. /\ th[t].pc = "del_seg" /\ bufDocs' = bufDocs /\ walFile' = walFile
        /\ cleared' = [cleared EXCEPT ![id] = clock] /\ MarkDeleted(id)
    BY <1>3 DEF DeleteInSegments, At, walVars, bufVars
  <2>4. Promised' \subseteq Promised  BY <1>0, <1>3, <2>3, PromisedKept DEF DeleteInSegments
  <2>. HIDE DEF id
  <2>5. \A d : d.id # id /\ Listed(d) => Listed(d)'
    BY <2>2, <2>3, MarkDeletedListed
  <2>6. ASSUME NEW d, Due(d)' PROVE Due(d) /\ d.id # id
    <3>1. d \in Promised /\ d \in Document  BY <1>0, <2>4, <2>6, PromisedType DEF Due
    <3>2. d.ver <= clock /\ d.ver \in Nat /\ clock \in Nat /\ d.id \in DocIds
      BY <1>0, <3>1 DEF DurableInv, VersionsSeen, Promised, TypeOK, Document
    <3>3. cleared \in [DocIds -> Nat]  BY <1>0 DEF TypeOK
    <3>4. d.ver > cleared'[d.id]  BY <2>6 DEF Due
    <3>5. d.id # id  BY <2>2, <2>3, <3>2, <3>3, <3>4
    <3>6. cleared'[d.id] = cleared[d.id]  BY <2>3, <3>2, <3>3, <3>5
    <3>. QED  BY <3>1, <3>4, <3>5, <3>6 DEF Due
  <2>7. \A d : Buffered(d) => Buffered(d)'  BY <1>b, <1>bp, <2>3 DEF InFlush
  <2>8. /\ \A d : InLog(d) => InLog(d)'
        /\ \A x : DeletedInLog(x)' => DeletedInLog(x)
    BY <2>3 DEF InLog, DeletedInLog
  <2>. QED  BY <1>0, <2>5, <2>6, <2>7, <2>8, SurvivesKept
<1>4. CASE FlushDrain(t)
  <2>1. /\ th[t].pc = "drain" /\ segs' = segs /\ disk' = disk /\ walFile' = walFile
        /\ cleared' = cleared
    BY <1>4 DEF FlushDrain, At, segVars, walVars
  <2>2. Promised' \subseteq Promised  BY <1>0, <1>4, <2>1, PromisedKept DEF FlushDrain
  <2>3. \A d \in Range(bufDocs) : InFlush(t, d)'
    <3>1. CASE bufDocs = << >>  BY <3>1 DEF Range
    <3>2. CASE bufDocs # << >>
      <4>1. th'[t].pc = "alloc" /\ th'[t].docs = bufDocs
        BY <1>0, <1>4, <3>2, Moves DEF FlushDrain
      <4>. QED  BY <4>1 DEF InFlush
    <3>. QED  BY <3>1, <3>2
  <2>4. \A d : Buffered(d) => Buffered(d)'  BY <1>b, <1>bp, <2>1, <2>3 DEF InFlush
  <2>5. \A d : Listed(d) => Listed(d)'  BY <2>1, ListedUnchanged
  <2>. QED  BY <1>k, <2>1, <2>2, <2>4, <2>5
<1>5. CASE Allocate(t)
  <2>1. PICK hop \in {<<"alloc", "write">>, <<"m_alloc", "m_exec">>, <<"r_alloc", "r_write">>} :
            At(t, hop[1]) /\ Continue(t, hop[2], th[t].docs, nextSegSeq, th[t].old)
    BY <1>5 DEF Allocate
  <2>2. /\ th[t].pc = hop[1] /\ th'[t].pc = hop[2] /\ th'[t].docs = th[t].docs
        /\ th[t].pc # "add"
    BY <1>0, <2>1, Moves DEF At
  <2>3. /\ bufDocs' = bufDocs /\ segs' = segs /\ acked' = acked /\ disk' = disk
        /\ walFile' = walFile /\ cleared' = cleared
    BY <1>5 DEF Allocate, NextSegmentId, bufVars, walVars
  <2>4. Promised' \subseteq Promised  BY <1>0, <2>1, <2>2, <2>3, PromisedKept
  <2>5. \A d : InFlush(t, d) => InFlush(t, d)'  BY <2>2 DEF InFlush
  <2>6. \A d : Buffered(d) => Buffered(d)'  BY <1>b, <1>bp, <2>3, <2>5
  <2>7. \A d : Listed(d) => Listed(d)'  BY <2>3, ListedUnchanged
  <2>. QED  BY <1>k, <2>3, <2>4, <2>6, <2>7
<1>6. CASE WriteSegment(t)
  <2>1. /\ th'[t].docs = th[t].docs /\ segs' = segs /\ bufDocs' = bufDocs /\ acked' = acked
        /\ walFile' = walFile /\ cleared' = cleared
        /\ \/ th[t].pc = "write" /\ th'[t].pc = "publish"
           \/ th[t].pc = "r_write" /\ th'[t].pc = "r_old"
        /\ \E dir : disk' = WithDir(th[t].seg, dir)
    BY <1>0, <1>6, Moves DEF WriteSegment, At, bufVars, walVars
  <2>2. Promised' \subseteq Promised  BY <1>0, <1>6, <2>1, PromisedKept DEF WriteSegment
  <2>3. \A d : Buffered(d) => Buffered(d)'  BY <1>b, <1>bp, <2>1 DEF InFlush
  <2>4. Building(t)  BY <2>1 DEF Building, WritePcs
  <2>5. \A d : Listed(d) => Listed(d)'  BY <2>1, <2>4, UnlistedDirs
  <2>. QED  BY <1>k, <2>1, <2>2, <2>3, <2>5
<1>7. CASE FlushPublish(t)
  <2> DEFINE e == NewEntry(th[t].seg, th[t].docs)
  <2>1. /\ th[t].pc = "publish" /\ bufDocs' = bufDocs /\ acked' = acked /\ disk' = disk
        /\ walFile' = walFile /\ cleared' = cleared /\ AddSegment(e)
    BY <1>7 DEF FlushPublish, At, bufVars, walVars, AddSegment
  <2>2. Promised' \subseteq Promised  BY <1>0, <1>7, <2>1, PromisedKept DEF FlushPublish
  <2>3. e \in Entry  BY <1>0, NewSegmentType
  <2>4. disk'[th[t].seg] = NewDir(th[t].docs)
    BY <2>1 DEF SegmentInv, BuiltOnDisk, Built
  <2>. HIDE DEF e
  <2>5. /\ \A i \in DOMAIN segs : i \in DOMAIN segs' /\ segs'[i] = segs[i]
        /\ \E k \in DOMAIN segs' : segs'[k] = e
    BY <1>0, <2>1, <2>3, AddedSegs
  <2>6. \A d \in Range(th[t].docs) : Listed(d)'
    <3>1. PICK k \in DOMAIN segs' : segs'[k] = e  BY <2>5
    <3>. QED  BY <2>4, <3>1, ListedNew DEF e
  <2>7. \A d : Listed(d) => Listed(d)'  BY <2>1, <2>5 DEF Listed
  <2>8. \A d : Buffered(d) => Buffered(d)' \/ Listed(d)'
    BY <1>b, <1>bp, <2>1, <2>6 DEF InFlush
  <2>. QED  BY <1>k, <2>1, <2>2, <2>7, <2>8
<1>8. CASE FlushTruncate(t) \/ ReindexTruncate(t)
  <2>1. /\ th[t].pc \in {"truncate", "r_truncate"} /\ walFile' = << >> /\ segs' = segs
        /\ disk' = disk /\ cleared' = cleared
    BY <1>8 DEF FlushTruncate, ReindexTruncate, Truncate, At, segVars
  <2>2. Promised' \subseteq Promised
    <3>1. th[t].pc # "add"  BY <2>1
    <3>2. CASE FlushTruncate(t)  BY <1>0, <3>1, <3>2, PromisedKept DEF FlushTruncate
    <3>3. CASE ReindexTruncate(t)  BY <1>0, <3>1, <3>3, PromisedKept DEF ReindexTruncate
    <3>. QED  BY <1>8, <3>2, <3>3
  <2>3. bufDocs = << >>
    BY <2>1 DEF DurableInv, BufferTaken, FlushPcs, ReindexPcs
  <2>4. \A d : ~Buffered(d)  BY <1>b, <2>1, <2>3 DEF InFlush, Range
  <2>5. \A d : Due(d)' => Due(d)  BY <2>1, <2>2, DueKept
  <2>. QED  BY <1>0, <2>1, <2>4, <2>5, SurvivesTruncate
<1>9. CASE MergeFind(t) \/ ReindexCollect(t) \/ ReindexOldIds(t)
  <2>1. /\ th[t].pc \in {"find", "r_collect", "r_old"} /\ bufDocs' = bufDocs /\ segs' = segs
        /\ disk' = disk /\ walFile' = walFile /\ cleared' = cleared
    BY <1>9 DEF MergeFind, ReindexCollect, ReindexOldIds, At, segVars, bufVars, walVars
  <2>2. Promised' \subseteq Promised
    <3>1. th[t].pc # "add"  BY <2>1
    <3>2. CASE MergeFind(t)  BY <1>0, <3>1, <3>2, PromisedKept DEF MergeFind
    <3>3. CASE ReindexCollect(t)  BY <1>0, <3>1, <3>3, PromisedKept DEF ReindexCollect
    <3>4. CASE ReindexOldIds(t)  BY <1>0, <3>1, <3>4, PromisedKept DEF ReindexOldIds
    <3>. QED  BY <1>9, <3>2, <3>3, <3>4
  <2>3. \A d : Buffered(d) => Buffered(d)'  BY <1>b, <1>bp, <2>1 DEF InFlush
  <2>4. \A d : Listed(d) => Listed(d)'  BY <2>1, ListedUnchanged
  <2>. QED  BY <1>k, <2>1, <2>2, <2>3, <2>4
<1>10. CASE MergeExecute(t)
  <2>1. /\ th[t].pc = "m_exec" /\ bufDocs' = bufDocs /\ segs' = segs /\ acked' = acked
        /\ walFile' = walFile /\ cleared' = cleared
        /\ \E dir : disk' = WithDir(th[t].seg, dir)
    BY <1>10 DEF MergeExecute, At, bufVars, walVars
  <2>2. Promised' \subseteq Promised  BY <1>0, <1>10, <2>1, PromisedKept DEF MergeExecute
  <2>3. \A d : Buffered(d) => Buffered(d)'  BY <1>b, <1>bp, <2>1 DEF InFlush
  <2>4. Building(t)  BY <2>1 DEF Building, WritePcs
  <2>5. \A d : Listed(d) => Listed(d)'  BY <2>1, <2>4, UnlistedDirs
  <2>. QED  BY <1>k, <2>1, <2>2, <2>3, <2>5
<1>11. CASE MergeSwap(t) \/ ReindexSwap(t)
  <2>1. /\ th[t].pc \in {"m_swap", "r_swap"} /\ bufDocs' = bufDocs /\ acked' = acked
        /\ walFile' = walFile /\ cleared' = cleared
        /\ ReplaceSegments(th[t].old, NewEntry(th[t].seg, th[t].docs))
    BY <1>11 DEF MergeSwap, ReindexSwap, At, bufVars, walVars
  <2>2. Promised' \subseteq Promised
    <3>1. th[t].pc # "add"  BY <2>1
    <3>. QED  BY <1>0, <1>11, <2>1, <3>1, PromisedKept DEF MergeSwap, ReindexSwap
  <2>3. \A d : Buffered(d) => Buffered(d)'  BY <1>b, <1>bp, <2>1 DEF InFlush
  <2>4. \A i \in DOMAIN segs : segs[i].id \in th[t].old =>
            \A l \in Live(segs[i]) : segs[i].docs[l] \in Range(th[t].docs)
    BY <2>1 DEF SegmentInv, MergeCovers, DurableInv, ReindexCovers
  <2>5. Built(t)  BY <2>1 DEF Built
  <2>6. \A d : Listed(d) => Listed(d)'  BY <2>1, <2>4, <2>5, ReplaceKeepsListed
  <2>. QED  BY <1>k, <2>1, <2>2, <2>3, <2>6
<1>12. CASE MergeClean(t) \/ ReindexClean(t)
  <2>1. /\ th[t].pc \in CleanPcs /\ bufDocs' = bufDocs /\ segs' = segs
        /\ walFile' = walFile /\ cleared' = cleared /\ disk' = WithoutDirs(th[t].old)
    BY <1>12 DEF MergeClean, ReindexClean, At, CleanPcs, bufVars, walVars
  <2>2. Promised' \subseteq Promised
    <3>1. th[t].pc # "add"  BY <2>1 DEF CleanPcs
    <3>2. CASE MergeClean(t)  BY <1>0, <3>1, <3>2, PromisedKept DEF MergeClean
    <3>3. CASE ReindexClean(t)  BY <1>0, <3>1, <3>3, PromisedKept DEF ReindexClean
    <3>. QED  BY <1>12, <3>2, <3>3
  <2>3. \A d : Buffered(d) => Buffered(d)'
    BY <1>b, <1>bp, <2>1 DEF InFlush, CleanPcs
  <2>4. \A d : Listed(d) => Listed(d)'  BY <2>1, UnlistedDirs
  <2>. QED  BY <1>k, <2>1, <2>2, <2>3, <2>4
<1>. QED  BY <1>1, <1>2, <1>3, <1>4, <1>5, <1>6, <1>7, <1>8, <1>9, <1>10, <1>11, <1>12
          DEF Section
-----------------------------------------------------------------------------
(* Calls, kills and restarts *)

\* The documents of an index call carry versions above the clock, up to its
\* new value, and each has an entry in what the call appends to the log.
LEMMA StampedDocs ==
    ASSUME NEW ids \in Batches, clock \in Nat
    PROVE  /\ \A d \in Range(Stamped(ids)) : d.ver <= clock + Len(ids)
           /\ \A d \in Range(Stamped(ids)) : \E i \in DOMAIN IndexEntries(Stamped(ids)) :
                 IndexEntries(Stamped(ids))[i] = IndexEntry(d)
           /\ \A i \in DOMAIN IndexEntries(Stamped(ids)) :
                 IndexEntries(Stamped(ids))[i].op = "index"
<1> DEFINE docs == Stamped(ids)
<1>1. /\ Len(ids) \in Nat /\ docs \in Seq(Document)
      /\ Len(IndexEntries(docs)) = Len(ids)
  BY StampedType
<1>2. DOMAIN docs = 1..Len(ids) /\ \A i \in 1..Len(ids) : docs[i].ver = clock + i
  BY DEF Stamped
<1>3. Len(docs) = Len(ids)  BY <1>1, <1>2
<1>. HIDE DEF docs
<1>4. /\ DOMAIN IndexEntries(docs) = 1..Len(docs)
      /\ \A i \in 1..Len(docs) : IndexEntries(docs)[i] = IndexEntry(docs[i])
  BY DEF IndexEntries
<1>5. \A d \in Range(docs) : d.ver <= clock + Len(ids)  BY <1>1, <1>2 DEF Range
<1>6. \A d \in Range(docs) : \E i \in DOMAIN IndexEntries(docs) :
          IndexEntries(docs)[i] = IndexEntry(d)
  BY <1>2, <1>3, <1>4 DEF Range
<1>7. \A i \in DOMAIN IndexEntries(docs) : IndexEntries(docs)[i].op = "index"
  BY <1>4 DEF IndexEntry
<1>. QED  BY <1>5, <1>6, <1>7 DEF docs

\* Accepting a call preserves DurableInv: the log is written before anything
\* else changes.
LEMMA DurableCall ==
    ASSUME SegmentInv, DurableInv, NEW t \in Threads, Call(t)
    PROVE  DurableInv'
<1>0. /\ th \in [Threads -> Thread] /\ up /\ up' = up /\ TypeOK /\ WalTypeOK
      /\ clock \in Nat /\ cleared \in [DocIds -> Nat] /\ acked \in SUBSET Document
  BY ThreadSteps DEF SegmentInv, TypeOK
<1>a. \A u \in Threads : u = t  BY Alone
<1>i. /\ OneClient /\ OnlyKills /\ LogWhole /\ VersionsSeen /\ BufferTaken
      /\ LoggedFirst /\ ReindexCovers /\ Survives
  BY DEF DurableInv
<1>c. OneClient' /\ OnlyKills'  BY <1>i DEF OneClient, OnlyKills
<1>k. ASSUME th[t].pc = "idle", bufDocs' = bufDocs, segs' = segs, disk' = disk
      PROVE  /\ \A d : Listed(d) => Listed(d)'
             /\ \A d : Buffered(d) => Buffered(d)'
  <2>1. \A d : Listed(d) => Listed(d)'  BY <1>k, ListedUnchanged
  <2>2. \A d : ~InFlush(t, d)  BY <1>k DEF InFlush
  <2>3. \A d : Buffered(d) => Buffered(d)'  BY <1>a, <1>k, <2>2 DEF Buffered, InFlush
  <2>. QED  BY <2>1, <2>3
<1>q. ASSUME th'[t].pc \in {"add", "del_buf", "drain"} PROVE BufferTaken' /\ ReindexCovers'
  BY <1>a, <1>q DEF BufferTaken, ReindexCovers, FlushPcs, ReindexPcs
<1>1. ASSUME NEW ids \in Batches, IndexAppend(t, ids) PROVE DurableInv'
  <2> DEFINE docs == Stamped(ids)
             entries == IndexEntries(docs)
  <2>1. /\ th[t].pc = "idle" /\ bufDocs' = bufDocs /\ segs' = segs /\ disk' = disk
        /\ acked' = acked /\ cleared' = cleared /\ clock' = clock + Len(ids)
        /\ AppendBatch(entries) /\ th' = [th EXCEPT ![t] = Serving("index", docs, "add")]
    BY <1>1 DEF IndexAppend, At, bufVars, segVars
  <2>2. Len(ids) \in Nat /\ entries \in Seq(WalEntry)  BY <1>0, StampedType
  <2>3. /\ \A d \in Range(docs) : d.ver <= clock + Len(ids)
        /\ \A d \in Range(docs) : \E i \in DOMAIN entries : entries[i] = IndexEntry(d)
        /\ \A i \in DOMAIN entries : entries[i].op = "index"
    BY <1>0, StampedDocs
  <2>4. th'[t].pc = "add" /\ th'[t].arg = docs  BY <1>0, <2>1 DEF Serving
  <2>5. Promised' \subseteq Promised  BY <1>0, <2>1, PromisedCall
  <2>. HIDE DEF docs, entries
  <2>6. /\ LogWhole'
        /\ \A d : InLog(d) => InLog(d)'
        /\ \A d, i : i \in DOMAIN entries /\ entries[i] = IndexEntry(d) => InLog(d)'
        /\ \A id : DeletedInLog(id)' => DeletedInLog(id)
                     \/ \E i \in DOMAIN entries : /\ entries[i].op = "delete"
                                                  /\ entries[i].doc.id = id
    BY <1>0, <1>i, <2>1, <2>2, Appended
  <2>7. VersionsSeen'
    <3>1. \A d \in acked' : d.ver <= clock'
      <4> TAKE d \in acked'
      <4>1. d.ver \in Nat /\ d.ver <= clock  BY <1>0, <1>i, <2>1 DEF VersionsSeen, Document
      <4>. QED  BY <1>0, <2>1, <2>2, <4>1
    <3>. QED  BY <1>a, <2>1, <2>3, <2>4, <3>1 DEF VersionsSeen
  <2>8. LoggedFirst'  BY <1>a, <2>3, <2>4, <2>6 DEF LoggedFirst
  <2>9. \A d : Due(d)' => Due(d)  BY <2>1, <2>5, DueKept
  <2>10. \A id : DeletedInLog(id)' => DeletedInLog(id)  BY <2>3, <2>6
  <2>11. Survives'  BY <1>0, <1>i, <1>k, <2>1, <2>6, <2>9, <2>10, SurvivesKept
  <2>. QED  BY <1>c, <1>q, <2>4, <2>6, <2>7, <2>8, <2>11 DEF DurableInv
<1>2. ASSUME NEW id \in DocIds, DeleteAppend(t, id) PROVE DurableInv'
  <2> DEFINE e == DeleteEntry(id)
  <2>1. /\ th[t].pc = "idle" /\ bufDocs' = bufDocs /\ segs' = segs /\ disk' = disk
        /\ acked' = acked /\ cleared' = [cleared EXCEPT ![id] = clock'] /\ clock' = clock + 1
        /\ AppendBatch(<<e>>) /\ th' = [th EXCEPT ![t] = Serving("delete", <<e.doc>>, "del_buf")]
    BY <1>2 DEF DeleteAppend, At, bufVars, segVars
  <2>2. e \in WalEntry /\ e.doc.id = id /\ e.doc.ver = 0
    BY DEF DeleteEntry, WalEntry, Document
  <2>3. th'[t].pc = "del_buf" /\ th'[t].arg = <<e.doc>>  BY <1>0, <2>1 DEF Serving
  <2>4. Promised' \subseteq Promised  BY <1>0, <2>1, PromisedCall
  <2>. HIDE DEF e
  <2>5. <<e>> \in Seq(WalEntry) /\ \A i \in DOMAIN <<e>> : <<e>>[i] = e  BY <2>2
  <2>6. /\ LogWhole'
        /\ \A d : InLog(d) => InLog(d)'
        /\ \A x : DeletedInLog(x)' => DeletedInLog(x)
                     \/ \E i \in DOMAIN <<e>> : /\ <<e>>[i].op = "delete"
                                                /\ <<e>>[i].doc.id = x
    BY <1>0, <1>i, <2>1, <2>5, Appended
  <2>7. VersionsSeen'
    <3>1. \A d \in acked' : d.ver <= clock'
      <4> TAKE d \in acked'
      <4>1. d.ver \in Nat /\ d.ver <= clock  BY <1>0, <1>i, <2>1 DEF VersionsSeen, Document
      <4>. QED  BY <1>0, <2>1, <4>1
    <3>2. \A d \in Range(<<e.doc>>) : d = e.doc  BY DEF Range
    <3>3. 0 <= clock'  BY <1>0, <2>1
    <3>. QED  BY <1>a, <2>2, <2>3, <3>1, <3>2, <3>3 DEF VersionsSeen
  <2>8. LoggedFirst'  BY <1>a, <2>3 DEF LoggedFirst
  <2>9. ASSUME NEW d, Due(d)' PROVE Due(d) /\ d.id # id
    <3>1. d \in Promised /\ d \in Document  BY <1>0, <2>4, <2>9, PromisedType DEF Due
    <3>2. d.ver <= clock /\ d.ver \in Nat /\ d.id \in DocIds
      BY <1>i, <3>1 DEF VersionsSeen, Promised, Document
    <3>3. d.ver > cleared'[d.id]  BY <2>9 DEF Due
    <3>4. d.id # id  BY <1>0, <2>1, <3>2, <3>3
    <3>5. cleared'[d.id] = cleared[d.id]  BY <1>0, <2>1, <3>2, <3>4
    <3>. QED  BY <3>1, <3>3, <3>4, <3>5 DEF Due
  <2>10. \A x : x # id /\ DeletedInLog(x)' => DeletedInLog(x)  BY <2>2, <2>5, <2>6
  <2>11. Survives'  BY <1>0, <1>i, <1>k, <2>1, <2>6, <2>9, <2>10, SurvivesKept
  <2>. QED  BY <1>c, <1>q, <2>3, <2>6, <2>7, <2>8, <2>11 DEF DurableInv
<1>3. ASSUME NEW op \in {"flush", "reindex"}, CallFlush(t, op) PROVE DurableInv'
  <2>1. /\ th[t].pc = "idle" /\ bufDocs' = bufDocs /\ segs' = segs /\ disk' = disk
        /\ acked' = acked /\ cleared' = cleared /\ clock' = clock + 1
        /\ walFile' = walFile /\ th' = [th EXCEPT ![t] = Serving(op, << >>, "drain")]
    BY <1>3 DEF CallFlush, At, bufVars, segVars, walVars
  <2>2. th'[t].pc = "drain" /\ th'[t].arg = << >>  BY <1>0, <2>1 DEF Serving
  <2>3. Promised' \subseteq Promised  BY <1>0, <2>1, PromisedCall
  <2>4. LogWhole' /\ (\A d : InLog(d) => InLog(d)')
        /\ (\A id : DeletedInLog(id)' => DeletedInLog(id))
    BY <1>i, <2>1 DEF LogWhole, InLog, DeletedInLog
  <2>5. VersionsSeen'
    <3>1. \A d \in acked' : d.ver <= clock'
      <4> TAKE d \in acked'
      <4>1. d.ver \in Nat /\ d.ver <= clock  BY <1>0, <1>i, <2>1 DEF VersionsSeen, Document
      <4>. QED  BY <1>0, <2>1, <4>1
    <3>2. Range(<< >>) = {}  BY DEF Range
    <3>. QED  BY <1>a, <2>2, <3>1, <3>2 DEF VersionsSeen
  <2>6. LoggedFirst'  BY <1>a, <2>2 DEF LoggedFirst
  <2>7. \A d : Due(d)' => Due(d)  BY <2>1, <2>3, DueKept
  <2>8. Survives'  BY <1>0, <1>i, <1>k, <2>1, <2>4, <2>7, SurvivesKept
  <2>. QED  BY <1>c, <1>q, <2>2, <2>4, <2>5, <2>6, <2>8 DEF DurableInv
<1>4. ASSUME NEW ids, NEW k, NEW torn PROVE ~IndexAppendFails(t, ids, k, torn)
  BY <1>i DEF IndexAppendFails, Fault, OnlyKills
<1>5. ASSUME NEW id, NEW k, NEW torn PROVE ~DeleteAppendFails(t, id, k, torn)
  BY <1>i DEF DeleteAppendFails, Fault, OnlyKills
<1>. QED  BY <1>1, <1>2, <1>3, <1>4, <1>5 DEF Call

\* A kill leaves the directories of listed segments as they were.
LEMMA CrashKeepsListed ==
    ASSUME SegmentInv, OnlyKills, Crash, NEW d, Listed(d)
    PROVE  InDirectory(d)'
<1> DEFINE W == {u \in Threads : th[u].pc \in WritePcs}
           writing == {th[t].seg : t \in W}
           cleaners == {t \in Threads : th[t].pc \in CleanPcs}
           doomed == DOMAIN disk \cap UNION {th[t].old : t \in cleaners}
<1>1. PICK partial \in SUBSET writing, fate \in [doomed -> Remains] :
          disk' = [s \in partial \cup
                            (DOMAIN disk \ {x \in doomed : fate[x] = "gone"}) |->
                         IF s \in partial THEN PartialDir
                         ELSE IF s \in doomed THEN Left(disk[s], fate[s])
                         ELSE disk[s]]
  BY DEF Crash
<1>2. PICK i \in DOMAIN segs : \E l \in DOMAIN segs[i].docs :
          segs[i].docs[l] = d /\ l \notin disk[segs[i].id].dead
  BY DEF Listed
<1>3. PICK l \in DOMAIN segs[i].docs :
          segs[i].docs[l] = d /\ l \notin disk[segs[i].id].dead
  BY <1>2
<1>9. PICK s : s = segs[i].id  OBVIOUS
<1>4. s \in DOMAIN disk /\ disk[s].docs = segs[i].docs /\ disk[s].ok
  BY <1>9 DEF SegmentInv, ListedOnDisk, OnlyKills
<1>5. s \notin writing
  <2>1. \A t \in W : Building(t)  BY DEF Building
  <2>. QED  BY <1>9, <2>1 DEF SegmentInv, BuildersApart
<1>6. s \notin doomed  BY <1>9 DEF SegmentInv, RemovedUnlisted
<1>. HIDE DEF writing, doomed
<1>7. s \in DOMAIN disk' /\ disk'[s] = disk[s]  BY <1>1, <1>4, <1>5, <1>6
<1>8. s \in ReadableIds' /\ l \in Live(EntryOf(s))' /\ disk'[s].docs[l] = d
  BY <1>3, <1>4, <1>7, <1>9 DEF ReadableIds, Live, EntryOf
<1>. QED  BY <1>8 DEF InDirectory

\* A kill preserves DurableInv: the log and the listed directories stay.
LEMMA DurableCrash ==
    ASSUME SegmentInv, DurableInv, Crash
    PROVE  DurableInv'
<1>0. /\ OneClient /\ OnlyKills /\ LogWhole /\ VersionsSeen /\ Survives
  BY DEF DurableInv
<1>1. /\ up /\ up' = FALSE /\ walFile' = walFile /\ acked' = acked /\ clock' = clock
      /\ cleared' = cleared /\ bufDocs' = << >>
  BY DEF Crash
<1>2. \A t \in Threads : th'[t] = Idle  BY CrashDisk
<1>3. Idle.pc = "idle" /\ Idle.op = "none" /\ Idle.arg = << >>  BY DEF Idle, Serving
<1>4. OneClient' /\ OnlyKills' /\ LogWhole'
  BY <1>0, <1>1 DEF OneClient, OnlyKills, LogWhole
<1>5. VersionsSeen'
  <2>1. Range(<< >>) = {}  BY DEF Range
  <2>. QED  BY <1>0, <1>1, <1>2, <1>3, <2>1 DEF VersionsSeen
<1>6. BufferTaken'  BY <1>1 DEF BufferTaken
<1>7. LoggedFirst' /\ ReindexCovers'  BY <1>2, <1>3 DEF LoggedFirst, ReindexCovers
<1>8. Survives'
  <2>1. Promised' = acked  BY <1>1, <1>2, <1>3 DEF Promised
  <2> SUFFICES ASSUME NEW d \in Promised', Due(d)'
               PROVE  /\ InLog(d)' \/ InDirectory(d)'
                      /\ DeletedInLog(d.id)' => InLog(d)'
    BY <1>1 DEF Survives
  <2>2. Due(d)  BY <1>1, <2>1 DEF Due, Promised
  <2>3. /\ (InLog(d) /\ Buffered(d)) \/ Listed(d)
        /\ DeletedInLog(d.id) => InLog(d)
    BY <1>0, <1>1, <2>2 DEF Survives, Due
  <2>4. InLog(d)' <=> InLog(d)  BY <1>1 DEF InLog
  <2>5. DeletedInLog(d.id)' <=> DeletedInLog(d.id)  BY <1>1 DEF DeletedInLog
  <2>6. Listed(d) => InDirectory(d)'  BY <1>0, CrashKeepsListed
  <2>. QED  BY <2>3, <2>4, <2>5, <2>6
<1>. QED  BY <1>4, <1>5, <1>6, <1>7, <1>8 DEF DurableInv
\* The replay of the log puts every logged document into the buffer and deletes
\* only the ids that the log deletes.
LEMMA ReplayLog ==
    ASSUME SegmentInv, LogWhole, Open
    PROVE  /\ \A d \in Document : InLog(d) => d \in Range(bufDocs')
           /\ \E ids : /\ OpenAndReplayDeletes(ids)
                       /\ \A id \in ids : id \in DocIds /\ DeletedInLog(id)
<1> DEFINE log     == ReadRecords(walFile)
           entries == [i \in DOMAIN log |-> log[i].entry.doc]
           indexed == {i \in DOMAIN log : log[i].entry.op = "index"}
           deleted == {log[i].entry.doc.id : i \in DOMAIN log \ indexed}
<1>1. walFile \in Seq(WalRecord)  BY DEF SegmentInv, TypeOK, WalTypeOK
<1>2. log \in Seq(WalRecord)  BY <1>1, ReadableProperties
<1>3. DOMAIN log = DOMAIN walFile /\ \A i \in DOMAIN walFile : log[i] = walFile[i]
  BY <1>1, LogReadBack
<1>4. OpenAndReplayDeletes(deleted) /\ bufDocs' = Retain(entries, indexed)
  BY DEF Open
<1>. HIDE DEF log
<1>5. \A i \in DOMAIN log : /\ log[i].entry.op \in {"index", "delete"}
                            /\ log[i].entry.doc \in Document
  <2> TAKE i \in DOMAIN log
  <2>1. log[i] \in WalRecord  BY <1>2
  <2>2. log[i].entry \in WalEntry  BY <2>1 DEF WalRecord
  <2>. QED  BY <2>2 DEF WalEntry
<1>6. \A id \in deleted : id \in DocIds /\ DeletedInLog(id)
  BY <1>3, <1>5 DEF DeletedInLog, Document
<1>7. entries \in Seq(Document) /\ indexed \in SUBSET DOMAIN entries
  BY <1>2, <1>5
<1>8. \A d \in Document : InLog(d) => \E i \in indexed : entries[i] = d
  BY <1>3 DEF InLog, IndexEntry
<1>. HIDE DEF entries, indexed, deleted
<1>9. \A i \in indexed : \E k \in DOMAIN Retain(entries, indexed) :
          Retain(entries, indexed)[k] = entries[i]
  BY <1>7, RetainProperties
<1>10. \A d \in Document : InLog(d) => d \in Range(bufDocs')
  BY <1>4, <1>8, <1>9 DEF Range
<1>. QED  BY <1>4, <1>6, <1>10

\* SegmentList::open lists every readable document whose id is not deleted by
\* the replay.
LEMMA OpenLists ==
    ASSUME SegTypeOK, NEW ids, ids \subseteq DocIds, OpenAndReplayDeletes(ids),
           NEW d, d.id \notin ids, InDirectory(d)
    PROVE  Listed(d)'
<1>1. /\ segs' = OpenedSegs
      /\ disk' = [s \in DOMAIN disk |-> Marked(disk[s], LocsIn(OpenedMap, ids, s))]
  BY DEF OpenAndReplayDeletes
<1>2. PICK s \in ReadableIds : \E l \in Live(EntryOf(s)) : disk[s].docs[l] = d
  BY DEF InDirectory
<1>3. PICK l \in Live(EntryOf(s)) : disk[s].docs[l] = d  BY <1>2
<1>4. PICK k \in DOMAIN OpenedSegs : OpenedSegs[k] = EntryOf(s)
  BY OpenedSegsProperties
<1>5. /\ segs'[k].id = s /\ segs'[k].docs = disk[s].docs
      /\ l \in DOMAIN disk[s].docs /\ l \notin disk[s].dead
  BY <1>1, <1>3, <1>4 DEF EntryOf, Live
<1>6. s \in DOMAIN disk  BY DEF ReadableIds
<1>7. disk'[s].dead = disk[s].dead \cup LocsIn(OpenedMap, ids, s)
  BY <1>1, <1>6 DEF Marked
<1>8. l \notin LocsIn(OpenedMap, ids, s)
  <2> SUFFICES ASSUME NEW id \in ids, OpenedMap[id] # NoLoc, OpenedMap[id].seg = s,
                      OpenedMap[id].loc = l
               PROVE  FALSE
    BY DEF LocsIn
  <2>1. l \in CopiesOf(EntryOf(s), id)  BY OpenedMapProperties
  <2>2. disk[s].docs[l].id = id  BY <2>1 DEF CopiesOf, EntryOf
  <2>. QED  BY <1>3, <2>2
<1>. QED  BY <1>1, <1>3, <1>4, <1>5, <1>7, <1>8 DEF Listed

\* A restart preserves DurableInv: what the log has is in the buffer again, what
\* only the directories have is listed again.
LEMMA DurableOpen ==
    ASSUME SegmentInv, DurableInv, Open
    PROVE  DurableInv'
<1>0. /\ OneClient /\ OnlyKills /\ LogWhole /\ VersionsSeen /\ Survives /\ TypeOK /\ SegTypeOK
  BY DEF DurableInv, SegmentInv, TypeOK
<1>1. /\ ~up /\ up' = TRUE /\ walFile' = walFile /\ acked' = acked /\ clock' = clock
      /\ cleared' = cleared /\ th' = th
  BY DEF Open, WalOpen
<1>2. \A t \in Threads : th[t] = Idle  BY <1>1 DEF SegmentInv, DownIsEmpty
<1>3. Idle.pc = "idle" /\ Idle.op = "none"  BY DEF Idle, Serving
<1>4. OneClient' /\ OnlyKills' /\ LogWhole'
  BY <1>0, <1>1 DEF OneClient, OnlyKills, LogWhole
<1>5. VersionsSeen'  BY <1>0, <1>1 DEF VersionsSeen
<1>6. \A t \in Threads : th'[t].pc = "idle"  BY <1>1, <1>2, <1>3
<1>7. BufferTaken' /\ LoggedFirst' /\ ReindexCovers'
  BY <1>6 DEF BufferTaken, LoggedFirst, ReindexCovers, FlushPcs, ReindexPcs
<1>8. Survives'
  <2>1. Promised' = Promised  BY <1>1 DEF Promised
  <2> SUFFICES ASSUME NEW d \in Promised', Due(d)'
               PROVE  /\ (InLog(d)' /\ Buffered(d)') \/ Listed(d)'
                      /\ DeletedInLog(d.id)' => InLog(d)'
    BY <1>1 DEF Survives
  <2>2. Due(d) /\ d \in Document  BY <1>0, <1>1, <2>1, PromisedType DEF Due
  <2>3. /\ InLog(d) \/ InDirectory(d)
        /\ DeletedInLog(d.id) => InLog(d)
    BY <1>0, <1>1, <2>2 DEF Survives, Due
  <2>4. InLog(d)' <=> InLog(d)  BY <1>1 DEF InLog
  <2>5. DeletedInLog(d.id)' <=> DeletedInLog(d.id)  BY <1>1 DEF DeletedInLog
  <2>6. CASE InLog(d)
    <3>1. d \in Range(bufDocs')  BY <1>0, <2>2, <2>6, ReplayLog
    <3>. QED  BY <2>4, <2>6, <3>1 DEF Buffered
  <2>7. CASE ~InLog(d)
    <3>1. PICK ids : /\ OpenAndReplayDeletes(ids)
                     /\ \A id \in ids : id \in DocIds /\ DeletedInLog(id)
      BY <1>0, ReplayLog
    <3>2. d.id \notin ids /\ InDirectory(d) /\ ids \subseteq DocIds  BY <2>3, <2>7, <3>1
    <3>3. Listed(d)'  BY <1>0, <3>1, <3>2, OpenLists
    <3>. QED  BY <2>3, <2>5, <2>7, <3>3
  <2>. QED  BY <2>6, <2>7
<1>. QED  BY <1>4, <1>5, <1>7, <1>8 DEF DurableInv

-----------------------------------------------------------------------------
\* DurableInv is inductive relative to SegmentInv.
LEMMA DurableInvStep == SegmentInv /\ DurableInv /\ [Next]_vars => DurableInv'
<1> SUFFICES ASSUME SegmentInv, DurableInv, [Next]_vars PROVE DurableInv'  OBVIOUS
<1>0. OneClient /\ OnlyKills  BY DEF DurableInv
<1>1. ASSUME NEW t \in Threads, Call(t) PROVE DurableInv'
  BY <1>1, DurableCall
<1>2. ASSUME NEW t \in Threads, Section(t) PROVE DurableInv'
  <2>1. OneClient' /\ OnlyKills'  BY <1>0 DEF OneClient, OnlyKills
  <2>. QED  BY <1>2, <2>1, SectionKeeps, SectionCovers, SectionSurvives DEF DurableInv
<1>3. ASSUME NEW t \in Threads PROVE ~SectionFails(t)
  BY <1>0 DEF SectionFails, DeleteBitmapFails, WriteFails, TruncateFails, CleanFails,
              Fault, OnlyKills
<1>4. CASE Crash  BY <1>4, DurableCrash
<1>5. CASE Open  BY <1>5, DurableOpen
<1>6. CASE UNCHANGED vars
  <2>1. UNCHANGED <<up, th, bufDocs, segs, disk, walFile, acked, cleared, clock>>
    BY <1>6 DEF vars, bufVars, segVars, walVars, engineVars
  <2>2. /\ OneClient' /\ OnlyKills' /\ LogWhole' /\ VersionsSeen' /\ BufferTaken'
        /\ LoggedFirst' /\ ReindexCovers'
    BY <2>1 DEF DurableInv, OneClient, OnlyKills, LogWhole, VersionsSeen, BufferTaken,
                LoggedFirst, ReindexCovers, InLog, Live
  <2>3. Survives'
    BY <2>1 DEF DurableInv, Survives, Due, Promised, InLog, DeletedInLog, Buffered, Listed,
                InDirectory, ReadableIds, Live, EntryOf
  <2>. QED  BY <2>2, <2>3 DEF DurableInv
<1>. QED  BY <1>1, <1>2, <1>3, <1>4, <1>5, <1>6 DEF Next, Stop

\* A new shard served by one client satisfies it.
LEMMA DurableInvInit == OneClient /\ OnlyKills /\ Init => DurableInv
<1> SUFFICES ASSUME OneClient, OnlyKills, Init PROVE DurableInv  OBVIOUS
<1>1. /\ walFile = << >> /\ acked = {} /\ bufDocs = << >>
      /\ \A t \in Threads : th[t].pc = "idle" /\ th[t].op = "none" /\ th[t].arg = << >>
  BY DEF Init, WalInit, BufInit, Idle, Serving
<1>2. Range(<< >>) = {}  BY DEF Range
<1>3. Promised = {}  BY <1>1 DEF Promised
<1>4. LogWhole /\ VersionsSeen /\ BufferTaken /\ LoggedFirst /\ ReindexCovers
  BY <1>1, <1>2 DEF LogWhole, VersionsSeen, BufferTaken, LoggedFirst, ReindexCovers
<1>5. Survives  BY <1>3 DEF Survives
<1>. QED  BY <1>4, <1>5 DEF DurableInv

\* The invariant gives both promises.
LEMMA DurableInvGives == SegmentInv /\ DurableInv => Durable /\ NothingVanishes
<1> SUFFICES ASSUME SegmentInv, DurableInv PROVE Durable /\ NothingVanishes  OBVIOUS
<1>0. OnlyKills /\ LogWhole /\ Survives /\ walFile \in Seq(WalRecord)
  BY DEF DurableInv, SegmentInv, TypeOK, WalTypeOK
<1> SUFFICES ASSUME NEW d \in acked, Owed(d)
             PROVE  Recoverable(d) /\ (up => Held(d))
  BY DEF Durable, NothingVanishes
<1>1. Due(d) /\ d \in Promised  BY DEF Owed, Due, Promised
<1>2. /\ up  => (InLog(d) /\ Buffered(d)) \/ Listed(d)
      /\ ~up => InLog(d) \/ InDirectory(d)
  BY <1>0, <1>1 DEF Survives
<1>3. Listed(d) => InDirectory(d) /\ InSegment(d)  BY <1>0, ListedIsHeld
<1>4. InLog(d) \/ InDirectory(d)  BY <1>2, <1>3
<1>5. InLog(d) => \E i \in DOMAIN ReadRecords(walFile) : walFile[i].entry = IndexEntry(d)
  BY <1>0, LogReadBack DEF InLog
<1>6. Recoverable(d)  BY <1>4, <1>5 DEF Recoverable, InDirectory
<1>7. up => Held(d)  BY <1>2, <1>3 DEF Held, Buffered, InSegment
<1>. QED  BY <1>6, <1>7

\* "Every write is persisted before ack", for one client at a time: whatever it
\* calls, whatever the buffer and merge settings, and however often the process
\* is killed between two sections of a call and opened again, every acknowledged
\* document that was not deleted is in the log or in a readable directory.
THEOREM AckedSurvives == OneClient /\ OnlyKills => (Spec => []Durable)
<1>1. SegmentInv /\ DurableInv => Durable  BY DurableInvGives
<1>. QED  BY <1>1, DurableInvInit, DurableInvStep, SegmentsSafe, PTL DEF Spec

\* And whenever the process serves and no call is running, reindexing and
\* restarts included, a search finds the document, unless a deletion mark that
\* the buffer has for its id hides it (search, restore_wal, DeletionBuffer).
THEOREM AckedServed == OneClient /\ OnlyKills => (Spec => []FoundBetweenCalls)
<1>1. SegmentInv /\ DurableInv => FoundBetweenCalls
  <2>. SUFFICES ASSUME SegmentInv, DurableInv, Quiescent,
                       NEW d \in acked, Owed(d), d.id \notin bufDeleted
                PROVE  d \in Searched
    BY DEF FoundBetweenCalls
  <2>1. up /\ \A t \in Threads : th[t].pc = "idle"  BY DEF Quiescent
  <2>2. Held(d)  BY <2>1, DurableInvGives DEF NothingVanishes
  <2>3. CASE d \in Range(bufDocs)
    <3>1. PICK i \in DOMAIN bufDocs : bufDocs[i] = d  BY <2>3 DEF Range
    <3>. QED  BY <3>1 DEF Searched, LiveInBuffer
  <2>4. CASE \E i \in DOMAIN segs : \E l \in Live(segs[i]) : segs[i].docs[l] = d
    <3>0. PICK i \in DOMAIN segs : \E l \in Live(segs[i]) : segs[i].docs[l] = d  BY <2>4
    <3>1. PICK l \in Live(segs[i]) : segs[i].docs[l] = d  BY <3>0
    <3>2. <<i, l>> \in {i} \X Live(segs[i])  BY <3>1
    <3>3. <<i, l>> \in UNION {{j} \X Live(segs[j]) : j \in DOMAIN segs}  BY <3>2
    <3>4. segs[<<i, l>>[1]].docs[<<i, l>>[2]] = d  BY <3>1
    <3>. QED  BY <3>3, <3>4 DEF Searched
  <2>. QED  BY <2>1, <2>2, <2>3, <2>4 DEF Held
<1>. QED  BY <1>1, DurableInvInit, DurableInvStep, SegmentsSafe, PTL DEF Spec
-----------------------------------------------------------------------------
(* Lists without repetition *)

\* Gather takes elements at the given positions only, and repeats none that is at
\* one position only.
LEMMA GatherOnce ==
    ASSUME NEW P \in SUBSET (Nat \X Nat), IsFiniteSet(P), NEW rows
    PROVE  /\ \A k \in DOMAIN Gather(rows, P) :
                 \E p \in P : Gather(rows, P)[k] = rows[p[1]][p[2]]
           /\ (\A p, q \in P : rows[p[1]][p[2]] = rows[q[1]][q[2]] => p = q)
                 => IsInjective(Gather(rows, P))
<1> DEFINE n == Cardinality(P)
<1>1. /\ \A k \in 1..n : Nth(P, k) \in P
      /\ \A j, k \in 1..n : Nth(P, j) = Nth(P, k) => j = k
  BY NthProperties
<1>2. /\ DOMAIN Gather(rows, P) = 1..n
      /\ \A k \in 1..n : Gather(rows, P)[k] = rows[Nth(P, k)[1]][Nth(P, k)[2]]
  BY DEF Gather
<1>. HIDE DEF n
<1>3. ASSUME \A p, q \in P : rows[p[1]][p[2]] = rows[q[1]][q[2]] => p = q,
             NEW j \in 1..n, NEW k \in 1..n, Gather(rows, P)[j] = Gather(rows, P)[k]
      PROVE  j = k
  <2>1. Nth(P, j) = Nth(P, k)  BY <1>1, <1>2, <1>3
  <2>. QED  BY <1>1, <2>1
<1>4. \A k \in DOMAIN Gather(rows, P) :
          \E p \in P : Gather(rows, P)[k] = rows[p[1]][p[2]]
  BY <1>1, <1>2
<1>. QED  BY <1>2, <1>3, <1>4 DEF IsInjective

\* The documents execute_merge and reindex_self copy: each once, and each from a
\* segment of the group.
LEMMA LiveDocsOnce ==
    ASSUME segs \in Seq(Entry), SegsOnce, NEW S
    PROVE  /\ LiveDocsOf(S) \in Seq(Document)
           /\ IsInjective(LiveDocsOf(S))
           /\ \A d \in Range(LiveDocsOf(S)) : \E i \in DOMAIN segs :
                 segs[i].id \in S /\ d \in Range(segs[i].docs)
<1> DEFINE rows == [i \in DOMAIN segs |-> segs[i].docs]
           P == LivePositions(S)
<1>1. P \in SUBSET (Nat \X Nat) /\ IsFiniteSet(P)  BY LivePositionsFinite
<1>2. \A p \in P : /\ p[1] \in DOMAIN segs /\ segs[p[1]].id \in S
                   /\ p[2] \in DOMAIN segs[p[1]].docs
                   /\ rows[p[1]][p[2]] = segs[p[1]].docs[p[2]]
  BY DEF LivePositions, Live
<1>3. LiveDocsOf(S) = Gather(rows, P)  BY DEF LiveDocsOf, LivePositions
<1>4. ASSUME NEW p \in P, NEW q \in P, rows[p[1]][p[2]] = rows[q[1]][q[2]]
      PROVE  p = q
  <2> DEFINE d == segs[p[1]].docs[p[2]]
  <2>1. d = segs[q[1]].docs[q[2]]  BY <1>2, <1>4
  <2>2. d \in Range(segs[p[1]].docs) /\ d \in Range(segs[q[1]].docs)
    BY <1>2, <2>1 DEF Range
  <2>3. p[1] = q[1]  BY <1>2, <2>2 DEF SegsOnce, Apart
  <2>4. p[2] = q[2]
    <3>1. IsInjective(segs[p[1]].docs)  BY <1>2 DEF SegsOnce
    <3>2. \A a, b \in DOMAIN segs[p[1]].docs :
              segs[p[1]].docs[a] = segs[p[1]].docs[b] => a = b
      BY <3>1 DEF IsInjective
    <3>3. /\ p[2] \in DOMAIN segs[p[1]].docs /\ q[2] \in DOMAIN segs[p[1]].docs
          /\ segs[p[1]].docs[p[2]] = segs[p[1]].docs[q[2]]
      BY <1>2, <2>1, <2>3
    <3>. QED  BY <3>2, <3>3
  <2>5. p = <<p[1], p[2]>> /\ q = <<q[1], q[2]>>  BY <1>1
  <2>. QED  BY <2>3, <2>4, <2>5
<1>. HIDE DEF rows, P
<1>5. IsInjective(Gather(rows, P))  BY <1>1, <1>4, GatherOnce
<1>6. ASSUME NEW d \in Range(Gather(rows, P))
      PROVE  \E i \in DOMAIN segs : segs[i].id \in S /\ d \in Range(segs[i].docs)
  <2>1. PICK k \in DOMAIN Gather(rows, P) : Gather(rows, P)[k] = d  BY <1>6 DEF Range
  <2>2. PICK p \in P : d = rows[p[1]][p[2]]  BY <1>1, <2>1, GatherOnce
  <2>. QED  BY <1>2, <2>2 DEF Range
<1>. QED  BY <1>3, <1>5, <1>6, LiveDocsProperties

\* The numbered documents of a batch are new and all different.
LEMMA StampedOnce ==
    ASSUME NEW ids \in Batches, clock \in Nat
    PROVE  /\ IsInjective(Stamped(ids))
           /\ \A d \in Range(Stamped(ids)) :
                 d.ver \in Nat /\ clock < d.ver /\ d.ver <= clock + Len(ids)
<1>1. Len(ids) \in Nat  BY StampedType
<1>2. /\ DOMAIN Stamped(ids) = 1..Len(ids)
      /\ \A i \in 1..Len(ids) : Stamped(ids)[i].ver = clock + i
  BY DEF Stamped
<1>3. \A i, j \in 1..Len(ids) : clock + i = clock + j => i = j  BY <1>1
<1>4. IsInjective(Stamped(ids))  BY <1>2, <1>3 DEF IsInjective
<1>5. ASSUME NEW d \in Range(Stamped(ids))
      PROVE  d.ver \in Nat /\ clock < d.ver /\ d.ver <= clock + Len(ids)
  <2>1. PICK i \in 1..Len(ids) : Stamped(ids)[i] = d  BY <1>2 DEF Range
  <2>2. d.ver = clock + i  BY <1>2, <2>1
  <2>. QED  BY <1>1, <2>2
<1>. QED  BY <1>4, <1>5

\* Two lists without repetition that share nothing, one behind the other.
LEMMA JoinedOnce ==
    ASSUME NEW s \in Seq(Document), NEW u \in Seq(Document),
           IsInjective(s), IsInjective(u), Apart(u, s)
    PROVE  /\ IsInjective(s \o u)
           /\ Range(s \o u) = Range(s) \cup Range(u)
<1>1. /\ Len(s) \in Nat /\ DOMAIN s = 1..Len(s)
      /\ Len(u) \in Nat /\ DOMAIN u = 1..Len(u)
      /\ DOMAIN (s \o u) = 1..(Len(s) + Len(u))
  OBVIOUS
<1>2. \A k \in DOMAIN (s \o u) :
          \/ k \in DOMAIN s /\ (s \o u)[k] = s[k]
          \/ k \notin DOMAIN s /\ k - Len(s) \in DOMAIN u /\ (s \o u)[k] = u[k - Len(s)]
  BY <1>1
<1>3. \A k \in DOMAIN s : k \in DOMAIN (s \o u) /\ (s \o u)[k] = s[k]  BY <1>1
<1>4. \A k \in DOMAIN u : Len(s) + k \in DOMAIN (s \o u) /\ (s \o u)[Len(s) + k] = u[k]
  BY <1>1
<1>5. ASSUME NEW j \in DOMAIN (s \o u), NEW k \in DOMAIN (s \o u), (s \o u)[j] = (s \o u)[k]
      PROVE  j = k
  <2>1. CASE j \in DOMAIN s /\ k \in DOMAIN s
    BY <1>3, <1>5, <2>1 DEF IsInjective
  <2>2. CASE j \notin DOMAIN s /\ k \notin DOMAIN s
    <3>1. j - Len(s) = k - Len(s)  BY <1>2, <1>5, <2>2 DEF IsInjective
    <3>2. j \in Nat /\ k \in Nat  BY <1>1
    <3>. QED  BY <1>1, <3>1, <3>2
  <2>3. CASE j \in DOMAIN s /\ k \notin DOMAIN s
    BY <1>2, <1>3, <1>5, <2>3 DEF Apart, Range
  <2>4. CASE j \notin DOMAIN s /\ k \in DOMAIN s
    BY <1>2, <1>3, <1>5, <2>4 DEF Apart, Range
  <2>. QED  BY <2>1, <2>2, <2>3, <2>4
<1>6. Range(s \o u) = Range(s) \cup Range(u)
  <2>1. ASSUME NEW d \in Range(s \o u) PROVE d \in Range(s) \cup Range(u)
    BY <1>2 DEF Range
  <2>2. ASSUME NEW d \in Range(s) PROVE d \in Range(s \o u)  BY <1>3 DEF Range
  <2>3. ASSUME NEW d \in Range(u) PROVE d \in Range(s \o u)  BY <1>4 DEF Range
  <2>. QED  BY <2>1, <2>2, <2>3
<1>. QED  BY <1>5, <1>6 DEF IsInjective
-----------------------------------------------------------------------------
(* Steps *)

\* The documents of listed segments.
SegDocs == UNION {Range(segs[i].docs) : i \in DOMAIN segs}

\* The types the steps need.
LEMMA OnceTypes ==
    ASSUME SegmentInv, NEW t \in Threads
    PROVE  /\ th \in [Threads -> Thread]
           /\ clock \in Nat /\ faults \in Nat /\ up \in BOOLEAN
           /\ bufDocs \in Seq(Document)
           /\ segs \in Seq(Entry)
           /\ th[t].docs \in Seq(Document) /\ th[t].arg \in Seq(Document)
           /\ \A d \in Range(bufDocs) \cup SegDocs \cup Range(th[t].docs) \cup Range(th[t].arg) :
                 d.ver \in Nat
<1>1. /\ th \in [Threads -> Thread] /\ clock \in Nat /\ faults \in Nat /\ up \in BOOLEAN
      /\ bufDocs \in Seq(Document)
  BY DEF SegmentInv, TypeOK, BufTypeOK
<1>2. /\ segs \in Seq(Entry)
      /\ th[t].docs \in Seq(Document) /\ th[t].arg \in Seq(Document)
  BY ThreadFacts
<1>3. \A i \in DOMAIN segs : segs[i].docs \in Seq(Document)
  <2> TAKE i \in DOMAIN segs
  <2>1. segs[i] \in Entry  BY <1>2
  <2>. QED  BY <2>1 DEF Entry
<1>4. ASSUME NEW s \in Seq(Document), NEW d \in Range(s) PROVE d.ver \in Nat
  <2>1. PICK k \in DOMAIN s : s[k] = d  BY <1>4 DEF Range
  <2>2. d \in Document  BY <2>1
  <2>. QED  BY <2>2 DEF Document
<1>5. \A d \in SegDocs : d.ver \in Nat  BY <1>3, <1>4 DEF SegDocs
<1>. QED  BY <1>1, <1>2, <1>4, <1>5

\* One client: what holds of t holds of every thread.
LEMMA OneThread ==
    ASSUME OneClient, NEW t \in Threads
    PROVE  Threads = {t}
BY DEF OneClient

\* Steps that leave the list alone and do not add to the buffer.
LEMMA QuietOnce ==
    ASSUME SegmentInv, OneClient, OnePlace, NEW t \in Threads,
           segs' = segs, bufDocs' \in {bufDocs, << >>}, up' = up,
           clock' \in Nat, clock <= clock',
           Range(th'[t].docs) \subseteq Range(th[t].docs) \cup Range(bufDocs) \cup SegDocs,
           \A d \in Range(th'[t].arg) : d \in Range(th[t].arg) \/ d.ver <= clock',
           CallOnce(t)'
    PROVE  OnePlace'
<1>0. /\ clock \in Nat
      /\ \A d \in Range(bufDocs) \cup SegDocs \cup Range(th[t].docs) \cup Range(th[t].arg) :
             d.ver \in Nat
  BY OnceTypes
<1>1. Threads = {t}  BY OneThread
<1>2. \A d \in Range(bufDocs) \cup SegDocs \cup Range(th[t].docs) \cup Range(th[t].arg) :
          d.ver <= clock
  BY DEF OnePlace, VersionsGiven, SegDocs
<1>3. \A d \in Range(bufDocs) \cup SegDocs \cup Range(th[t].docs) \cup Range(th[t].arg) :
          d.ver <= clock'
  BY <1>0, <1>2
<1>4. Range(bufDocs') \subseteq Range(bufDocs)  BY DEF Range
<1>5. VersionsGiven'
  <2>1. \A d \in Range(bufDocs') : d.ver <= clock'  BY <1>3, <1>4
  <2>2. \A i \in DOMAIN segs' : \A d \in Range(segs'[i].docs) : d.ver <= clock'
    BY <1>3 DEF SegDocs
  <2>3. \A d \in Range(th'[t].docs) \cup Range(th'[t].arg) : d.ver <= clock'
    BY <1>3
  <2>. QED  BY <1>1, <2>1, <2>2, <2>3 DEF VersionsGiven
<1>6. SegsOnce'  BY DEF OnePlace, SegsOnce
<1>7. BufOnce'
  <2>1. IsInjective(bufDocs')  BY DEF OnePlace, BufOnce, IsInjective
  <2>. QED  BY <1>4, <2>1 DEF OnePlace, BufOnce, Apart
<1>. QED  BY <1>1, <1>5, <1>6, <1>7 DEF OnePlace

\* Steps that list a segment of new documents, or in place of those that held them.
LEMMA ListOnce ==
    ASSUME SegmentInv, OneClient, OnePlace, NEW t \in Threads,
           NEW kept \in Seq(Entry), NEW s \in Nat,
           segs' = Append(kept, NewEntry(s, th[t].docs)),
           \A k \in DOMAIN kept : \E i \in DOMAIN segs :
               kept[k] = segs[i] /\ Apart(segs[i].docs, th[t].docs),
           \A j, k \in DOMAIN kept : kept[j] = kept[k] => j = k,
           bufDocs = << >>, bufDocs' = bufDocs, up' = up, clock' = clock,
           Range(th'[t].docs) \subseteq Range(th[t].docs),
           Range(th'[t].arg) \subseteq Range(th[t].arg),
           CallOnce(t)'
    PROVE  OnePlace'
<1> DEFINE new == NewEntry(s, th[t].docs)
           n == Len(kept)
<1>0. th[t].docs \in Seq(Document) /\ new \in Entry  BY OnceTypes, NewSegmentType
<1>1. Threads = {t}  BY OneThread
<1>2. new.docs = th[t].docs /\ new.dead = {}  BY DEF NewEntry
<1>. HIDE DEF new
<1>3. /\ n \in Nat /\ DOMAIN kept = 1..n /\ DOMAIN segs' = 1..(n + 1)
      /\ segs'[n + 1] = new /\ \A k \in 1..n : segs'[k] = kept[k]
  BY <1>0 DEF new
<1>4. \A k \in DOMAIN segs' : k = n + 1 \/ (k \in DOMAIN kept /\ segs'[k] = kept[k])
  BY <1>3
<1>5. SegsOnce'
  <2>1. ASSUME NEW k \in DOMAIN segs'
        PROVE  segs'[k].dead = {} /\ IsInjective(segs'[k].docs)
    <3>1. CASE k = n + 1
      BY <1>2, <1>3, <3>1 DEF OnePlace, CallOnce
    <3>2. CASE k \in DOMAIN kept /\ segs'[k] = kept[k]
      BY <3>2 DEF OnePlace, SegsOnce
    <3>. QED  BY <1>4, <3>1, <3>2
  <2>2. ASSUME NEW k \in DOMAIN kept
        PROVE  Apart(kept[k].docs, new.docs) /\ Apart(new.docs, kept[k].docs)
    BY <1>2 DEF Apart
  <2>3. ASSUME NEW j \in DOMAIN kept, NEW k \in DOMAIN kept, j # k
        PROVE  Apart(kept[j].docs, kept[k].docs)
    <3>1. PICK x \in DOMAIN segs : kept[j] = segs[x]  OBVIOUS
    <3>2. PICK y \in DOMAIN segs : kept[k] = segs[y]  OBVIOUS
    <3>3. x # y  BY <2>3, <3>1, <3>2
    <3>. QED  BY <3>1, <3>2, <3>3 DEF OnePlace, SegsOnce
  <2>4. ASSUME NEW j \in DOMAIN segs', NEW k \in DOMAIN segs', j # k
        PROVE  Apart(segs'[j].docs, segs'[k].docs)
    <3>1. CASE j = n + 1
      <4>1. k \in DOMAIN kept /\ segs'[k] = kept[k]  BY <1>4, <2>4, <3>1
      <4>. QED  BY <1>3, <2>2, <3>1, <4>1
    <3>2. CASE k = n + 1
      <4>1. j \in DOMAIN kept /\ segs'[j] = kept[j]  BY <1>4, <2>4, <3>2
      <4>. QED  BY <1>3, <2>2, <3>2, <4>1
    <3>3. CASE j # n + 1 /\ k # n + 1  BY <1>4, <2>3, <2>4, <3>3
    <3>. QED  BY <3>1, <3>2, <3>3
  <2>. QED  BY <2>1, <2>4 DEF SegsOnce, Apart
<1>6. BufOnce'  BY DEF OnePlace, BufOnce, Apart, Range, IsInjective
<1>7. VersionsGiven'
  <2>1. \A k \in DOMAIN segs' : \A d \in Range(segs'[k].docs) : d.ver <= clock
    <3>1. \A d \in Range(new.docs) : d.ver <= clock
      BY <1>2 DEF OnePlace, VersionsGiven
    <3>2. \A k \in DOMAIN kept : \A d \in Range(kept[k].docs) : d.ver <= clock
      BY DEF OnePlace, VersionsGiven
    <3>. QED  BY <1>3, <1>4, <3>1, <3>2
  <2>2. \A d \in Range(th'[t].docs) \cup Range(th'[t].arg) : d.ver <= clock
    BY DEF OnePlace, VersionsGiven
  <2>3. \A d \in Range(bufDocs') : d.ver <= clock  BY DEF OnePlace, VersionsGiven
  <2>. QED  BY <1>1, <2>1, <2>2, <2>3 DEF VersionsGiven
<1>. QED  BY <1>1, <1>5, <1>6, <1>7 DEF OnePlace
-----------------------------------------------------------------------------
(* Action by action *)

LEMMA EmptyOnce == IsInjective(<< >>) /\ Range(<< >>) = {}
BY DEF IsInjective, Range

\* Program counters at which a call has nothing to list, before its flush drained
\* the buffer and after.
LEMMA RestingCall ==
    ASSUME NEW t \in Threads, IsInjective(th'[t].docs),
           \/ th'[t].pc \in {"idle", "del_buf", "del_seg", "drain"}
           \/ /\ th'[t].pc \in {"truncate", "find", "m_alloc", "m_exec", "m_clean",
                                "r_collect", "r_alloc", "r_write", "r_old", "r_clean",
                                "r_truncate"}
              /\ bufDocs' = << >>
    PROVE  CallOnce(t)'
BY DEF CallOnce, FlushPcs, ReindexPcs

\* A flush is done, or goes on in reindex_self.
LEMMA ReturnOnce ==
    ASSUME th \in [Threads -> Thread], NEW t \in Threads
    PROVE  /\ ReturnOk(t) => th'[t].docs = << >> /\ th'[t].arg = << >> /\ th'[t].pc = "idle"
           /\ FlushReturns(t) => /\ th'[t].docs = << >>
                                 /\ th'[t].arg \in {th[t].arg, << >>}
                                 /\ th'[t].pc \in {"idle", "r_collect"}
<1>1. Idle.docs = << >> /\ Idle.arg = << >> /\ Idle.pc = "idle"  BY DEF Idle, Serving
<1>2. ReturnOk(t) => th'[t].docs = << >> /\ th'[t].arg = << >> /\ th'[t].pc = "idle"
  BY <1>1, Moves
<1>. QED  BY <1>2, Moves DEF FlushReturns

\* The call at hand has been drained when its program counter says so.
LEMMA DrainedEmpty ==
    ASSUME OnePlace, NEW t \in Threads,
           th[t].pc \in {"alloc", "write", "publish", "truncate", "find", "m_alloc",
                         "m_exec", "m_swap", "m_clean", "r_collect", "r_alloc", "r_write",
                         "r_old", "r_swap", "r_clean", "r_truncate"}
    PROVE  bufDocs = << >>
BY DEF OnePlace, CallOnce, FlushPcs, ReindexPcs

\* Accepting a call.
LEMMA CallsOnce ==
    ASSUME SegmentInv, OneClient, OnePlace, NEW t \in Threads, Call(t), faults' = faults
    PROVE  OnePlace'
<1>0. /\ th \in [Threads -> Thread] /\ clock \in Nat /\ faults \in Nat
      /\ \A d \in Range(bufDocs) \cup SegDocs : d.ver \in Nat
  BY OnceTypes
<1>e. IsInjective(<< >>) /\ Range(<< >>) = {}  BY EmptyOnce
<1>1. ASSUME NEW ids \in Batches, IndexAppend(t, ids) PROVE OnePlace'
  <2> DEFINE new == Stamped(ids)
  <2>1. /\ segs' = segs /\ bufDocs' = bufDocs /\ up' = up
        /\ clock' = clock + Len(ids) /\ Len(ids) \in Nat
    BY <1>1, StampedType DEF IndexAppend, segVars, bufVars
  <2>2. th'[t].docs = << >> /\ th'[t].arg = new /\ th'[t].pc = "add"
    BY <1>0, <1>1 DEF IndexAppend, Serving
  <2>3. /\ IsInjective(new)
        /\ \A d \in Range(new) : d.ver \in Nat /\ clock < d.ver /\ d.ver <= clock'
    BY <1>0, <2>1, StampedOnce
  <2>. HIDE DEF new
  <2>4. \A d \in Range(bufDocs) \cup SegDocs : d.ver <= clock
    BY DEF OnePlace, VersionsGiven, SegDocs
  <2>5. \A d \in Range(bufDocs) \cup SegDocs : d \notin Range(new)
    BY <1>0, <2>3, <2>4
  <2>6. CallOnce(t)'
    BY <1>e, <2>1, <2>2, <2>3, <2>5 DEF CallOnce, Apart, SegDocs, FlushPcs, ReindexPcs
  <2>7. clock' \in Nat /\ clock <= clock'  BY <1>0, <2>1
  <2>. QED  BY <1>e, <2>1, <2>2, <2>3, <2>6, <2>7, QuietOnce
<1>2. ASSUME NEW id \in DocIds, DeleteAppend(t, id) PROVE OnePlace'
  <2>1. /\ segs' = segs /\ bufDocs' = bufDocs /\ up' = up /\ clock' = clock + 1
        /\ th'[t].docs = << >> /\ th'[t].arg = <<DeleteEntry(id).doc>> /\ th'[t].pc = "del_buf"
    BY <1>0, <1>2 DEF DeleteAppend, Serving, segVars, bufVars
  <2>2. \A d \in Range(th'[t].arg) : d.ver = 0  BY <2>1 DEF Range, DeleteEntry
  <2>3. clock' \in Nat /\ clock <= clock' /\ 0 <= clock'  BY <1>0, <2>1
  <2>4. CallOnce(t)'  BY <1>e, <2>1, RestingCall
  <2>. QED  BY <1>e, <2>1, <2>2, <2>3, <2>4, QuietOnce
<1>3. ASSUME NEW op, CallFlush(t, op) PROVE OnePlace'
  <2>1. /\ segs' = segs /\ bufDocs' = bufDocs /\ up' = up /\ clock' = clock + 1
        /\ th'[t].docs = << >> /\ th'[t].arg = << >> /\ th'[t].pc = "drain"
    BY <1>0, <1>3 DEF CallFlush, Serving, segVars, bufVars
  <2>2. clock' \in Nat /\ clock <= clock'  BY <1>0, <2>1
  <2>3. CallOnce(t)'  BY <1>e, <2>1, RestingCall
  <2>. QED  BY <1>e, <2>1, <2>2, <2>3, QuietOnce
<1>4. ASSUME NEW ids \in Batches, NEW k, NEW torn, IndexAppendFails(t, ids, k, torn)
      PROVE  FALSE
  BY <1>0, <1>4 DEF IndexAppendFails, Fault
<1>5. ASSUME NEW id, NEW k, NEW torn, DeleteAppendFails(t, id, k, torn)
      PROVE  FALSE
  BY <1>0, <1>5 DEF DeleteAppendFails, Fault
<1>. QED  BY <1>1, <1>2, <1>3, <1>4, <1>5 DEF Call
\* Sections of index, delete and flush before a segment is listed.
LEMMA BufferSectionsOnce ==
    ASSUME SegmentInv, OneClient, OnePlace, NEW t \in Threads,
           IndexAdd(t) \/ DeleteBuffered(t) \/ DeleteInSegments(t) \/ FlushDrain(t)
    PROVE  OnePlace'
<1>0. /\ th \in [Threads -> Thread] /\ clock \in Nat /\ bufDocs \in Seq(Document)
      /\ th[t].arg \in Seq(Document)
  BY OnceTypes
<1>e. IsInjective(<< >>) /\ Range(<< >>) = {}  BY EmptyOnce
<1>c. clock \in Nat /\ clock <= clock  BY <1>0
<1>i. IsInjective(th[t].docs)  BY DEF OnePlace, CallOnce
<1>1. CASE IndexAdd(t)
  <2>1. /\ th[t].pc = "add" /\ segs' = segs /\ up' = up /\ clock' = clock
        /\ bufDocs' = bufDocs \o th[t].arg
        /\ Goto(t, "drain") \/ ReturnOk(t)
    BY <1>1 DEF IndexAdd, At, BufAdd, segVars
  <2>2. /\ IsInjective(th[t].arg) /\ Apart(th[t].arg, bufDocs)
        /\ \A i \in DOMAIN segs : Apart(segs[i].docs, th[t].arg)
    BY <2>1 DEF OnePlace, CallOnce
  <2>3. IsInjective(bufDocs)  BY DEF OnePlace, BufOnce
  <2>4. IsInjective(bufDocs') /\ Range(bufDocs') = Range(bufDocs) \cup Range(th[t].arg)
    BY <1>0, <2>1, <2>2, <2>3, JoinedOnce
  <2>5. /\ th'[t].docs \in {th[t].docs, << >>} /\ th'[t].arg \in {th[t].arg, << >>}
        /\ th'[t].pc \in {"idle", "drain"}
    BY <1>0, <2>1, Moves, ReturnOnce
  <2>6. CallOnce(t)'  BY <1>e, <1>i, <2>5, RestingCall
  <2>7. BufOnce'
    BY <2>1, <2>2, <2>4 DEF OnePlace, BufOnce, Apart
  <2>8. SegsOnce'  BY <2>1 DEF OnePlace, SegsOnce
  <2>9. Threads = {t}  BY OneThread
  <2>10. VersionsGiven'
    <3>1. \A d \in Range(bufDocs) \cup Range(th[t].arg) \cup Range(th[t].docs) : d.ver <= clock
      BY DEF OnePlace, VersionsGiven
    <3>2. \A d \in Range(th'[t].docs) \cup Range(th'[t].arg) : d.ver <= clock
      BY <1>e, <2>5, <3>1
    <3>3. \A i \in DOMAIN segs : \A d \in Range(segs[i].docs) : d.ver <= clock
      BY DEF OnePlace, VersionsGiven
    <3>. QED  BY <2>1, <2>4, <2>9, <3>1, <3>2, <3>3 DEF VersionsGiven
  <2>. QED  BY <2>1, <2>6, <2>7, <2>8, <2>9, <2>10 DEF OnePlace
<1>2. CASE DeleteBuffered(t)
  <2>1. /\ segs' = segs /\ bufDocs' = bufDocs /\ up' = up /\ clock' = clock
        /\ Goto(t, "del_seg")
    BY <1>2 DEF DeleteBuffered, BufMarkDeleted, segVars
  <2>2. th'[t].docs = th[t].docs /\ th'[t].arg = th[t].arg /\ th'[t].pc = "del_seg"
    BY <1>0, <2>1, Moves
  <2>3. CallOnce(t)'  BY <1>i, <2>2, RestingCall
  <2>. QED  BY <1>c, <2>1, <2>2, <2>3, QuietOnce
<1>3. CASE DeleteInSegments(t)
  <2>1. /\ segs' = segs /\ bufDocs' = bufDocs /\ up' = up /\ clock' = clock
        /\ ReturnOk(t)
    BY <1>3 DEF DeleteInSegments, MarkDeleted, bufVars, segVars
  <2>2. th'[t].docs = << >> /\ th'[t].arg = << >> /\ th'[t].pc = "idle"
    BY <1>0, <2>1, ReturnOnce
  <2>3. CallOnce(t)'  BY <1>e, <2>2, RestingCall
  <2>. QED  BY <1>c, <1>e, <2>1, <2>2, <2>3, QuietOnce
<1>4. CASE FlushDrain(t)
  <2>1. /\ segs' = segs /\ bufDocs' = << >> /\ up' = up /\ clock' = clock
        /\ FlushReturns(t) \/ Continue(t, "alloc", bufDocs, 0, {})
    BY <1>4 DEF FlushDrain, BufDrain, segVars
  <2>2. CASE FlushReturns(t)
    <3>1. /\ th'[t].docs = << >> /\ th'[t].arg \in {th[t].arg, << >>}
          /\ th'[t].pc \in {"idle", "r_collect"}
      BY <1>0, <2>2, ReturnOnce
    <3>2. CallOnce(t)'  BY <1>e, <2>1, <3>1, RestingCall
    <3>. QED  BY <1>c, <1>e, <2>1, <3>1, <3>2, QuietOnce
  <2>3. CASE Continue(t, "alloc", bufDocs, 0, {})
    <3>1. th'[t].docs = bufDocs /\ th'[t].arg = th[t].arg /\ th'[t].pc = "alloc"
      BY <1>0, <2>3, Moves
    <3>2. CallOnce(t)'
      BY <2>1, <3>1 DEF CallOnce, OnePlace, BufOnce, FlushPcs, ReindexPcs
    <3>. QED  BY <1>c, <2>1, <3>1, <3>2, QuietOnce
  <2>. QED  BY <2>1, <2>2, <2>3
<1>. QED  BY <1>1, <1>2, <1>3, <1>4

\* Sections that allocate, write, truncate, choose and clean: the list stays.
LEMMA UnlistedSectionsOnce ==
    ASSUME SegmentInv, OneClient, OnePlace, NEW t \in Threads,
           \/ Allocate(t) \/ WriteSegment(t) \/ FlushTruncate(t)
           \/ MergeFind(t) \/ MergeClean(t)
           \/ ReindexOldIds(t) \/ ReindexClean(t) \/ ReindexTruncate(t)
    PROVE  OnePlace'
<1>0. th \in [Threads -> Thread] /\ clock \in Nat  BY OnceTypes
<1>e. IsInjective(<< >>) /\ Range(<< >>) = {}  BY EmptyOnce
<1>i. IsInjective(th[t].docs)  BY DEF OnePlace, CallOnce
<1>1. segs' = segs /\ bufDocs' = bufDocs /\ up' = up /\ clock' = clock
  BY DEF Allocate, NextSegmentId, WriteSegment, FlushTruncate, MergeFind, MergeClean,
         ReindexOldIds, ReindexClean, ReindexTruncate, bufVars, segVars
<1>2. clock' \in Nat /\ clock <= clock'  BY <1>0, <1>1
<1>q. ASSUME th'[t].docs \in {th[t].docs, << >>}, th'[t].arg \in {th[t].arg, << >>},
             CallOnce(t)'
      PROVE  OnePlace'
  BY <1>1, <1>2, <1>e, <1>q, QuietOnce
<1>3. CASE Allocate(t)
  <2>1. PICK hop \in {<<"alloc", "write">>, <<"m_alloc", "m_exec">>, <<"r_alloc", "r_write">>} :
            At(t, hop[1]) /\ Continue(t, hop[2], th[t].docs, nextSegSeq, th[t].old)
    BY <1>3 DEF Allocate
  <2>2. /\ th[t].pc = hop[1] /\ th'[t].pc = hop[2]
        /\ th'[t].docs = th[t].docs /\ th'[t].arg = th[t].arg
    BY <1>0, <2>1, Moves DEF At
  <2>3. bufDocs = << >>  BY <2>2, DrainedEmpty
  <2>4. CASE hop = <<"alloc", "write">>
    <3>1. CallOnce(t)'
      BY <1>1, <2>2, <2>3, <2>4 DEF OnePlace, CallOnce
    <3>. QED  BY <1>q, <2>2, <3>1
  <2>5. CASE hop # <<"alloc", "write">>
    <3>1. th'[t].pc \in {"m_exec", "r_write"}  BY <2>2, <2>5
    <3>2. CallOnce(t)'  BY <1>1, <1>i, <2>2, <2>3, <3>1, RestingCall
    <3>. QED  BY <1>q, <2>2, <3>2
  <2>. QED  BY <2>4, <2>5
<1>4. CASE WriteSegment(t)
  <2>1. \/ th[t].pc = "write" /\ Goto(t, "publish")
        \/ th[t].pc = "r_write" /\ Goto(t, "r_old")
    BY <1>4 DEF WriteSegment, At
  <2>2. /\ th'[t].docs = th[t].docs /\ th'[t].arg = th[t].arg
        /\ \/ th[t].pc = "write" /\ th'[t].pc = "publish"
           \/ th[t].pc = "r_write" /\ th'[t].pc = "r_old"
    BY <1>0, <2>1, Moves
  <2>3. bufDocs = << >>  BY <2>2, DrainedEmpty
  <2>4. CASE th[t].pc = "write" /\ th'[t].pc = "publish"
    <3>1. CallOnce(t)'
      BY <1>1, <2>2, <2>3, <2>4 DEF OnePlace, CallOnce
    <3>. QED  BY <1>q, <2>2, <3>1
  <2>5. CASE th'[t].pc = "r_old"
    <3>1. CallOnce(t)'  BY <1>1, <1>i, <2>2, <2>3, <2>5, RestingCall
    <3>. QED  BY <1>q, <2>2, <3>1
  <2>. QED  BY <2>2, <2>4, <2>5
<1>5. CASE FlushTruncate(t)
  <2>1. th[t].pc = "truncate" /\ Goto(t, "find")  BY <1>5 DEF FlushTruncate, At
  <2>2. th'[t].docs = th[t].docs /\ th'[t].arg = th[t].arg /\ th'[t].pc = "find"
    BY <1>0, <2>1, Moves
  <2>3. bufDocs = << >>  BY <2>1, DrainedEmpty
  <2>4. CallOnce(t)'  BY <1>1, <1>i, <2>2, <2>3, RestingCall
  <2>. QED  BY <1>q, <2>2, <2>4
<1>6. CASE MergeFind(t)
  <2>1. /\ th[t].pc = "find"
        /\ FlushReturns(t) \/ Continue(t, "m_alloc", << >>, 0, FindMerges)
    BY <1>6 DEF MergeFind, At
  <2>2. /\ th'[t].docs = << >> /\ th'[t].arg \in {th[t].arg, << >>}
        /\ th'[t].pc \in {"idle", "r_collect", "m_alloc"}
    BY <1>0, <2>1, Moves, ReturnOnce
  <2>3. bufDocs = << >>  BY <2>1, DrainedEmpty
  <2>4. CallOnce(t)'  BY <1>1, <1>e, <2>2, <2>3, RestingCall
  <2>. QED  BY <1>q, <2>2, <2>4
<1>7. CASE MergeClean(t)
  <2>1. th[t].pc = "m_clean" /\ FlushReturns(t)  BY <1>7 DEF MergeClean, At
  <2>2. /\ th'[t].docs = << >> /\ th'[t].arg \in {th[t].arg, << >>}
        /\ th'[t].pc \in {"idle", "r_collect"}
    BY <1>0, <2>1, ReturnOnce
  <2>3. bufDocs = << >>  BY <2>1, DrainedEmpty
  <2>4. CallOnce(t)'  BY <1>1, <1>e, <2>2, <2>3, RestingCall
  <2>. QED  BY <1>q, <2>2, <2>4
<1>8. CASE ReindexOldIds(t)
  <2>1. th[t].pc = "r_old" /\ Continue(t, "r_swap", th[t].docs, th[t].seg, ListedIds)
    BY <1>8 DEF ReindexOldIds, At
  <2>2. /\ th'[t].docs = th[t].docs /\ th'[t].arg = th[t].arg
        /\ th'[t].pc = "r_swap" /\ th'[t].old = ListedIds
    BY <1>0, <2>1, Moves
  <2>3. bufDocs = << >>  BY <2>1, DrainedEmpty
  <2>4. ListedIds' = ListedIds  BY <1>1 DEF ListedIds
  <2>5. CallOnce(t)'  BY <1>1, <1>i, <2>2, <2>3, <2>4 DEF CallOnce
  <2>. QED  BY <1>q, <2>2, <2>5
<1>9. CASE ReindexClean(t)
  <2>1. th[t].pc = "r_clean" /\ Goto(t, "r_truncate")  BY <1>9 DEF ReindexClean, At
  <2>2. th'[t].docs = th[t].docs /\ th'[t].arg = th[t].arg /\ th'[t].pc = "r_truncate"
    BY <1>0, <2>1, Moves
  <2>3. bufDocs = << >>  BY <2>1, DrainedEmpty
  <2>4. CallOnce(t)'  BY <1>1, <1>i, <2>2, <2>3, RestingCall
  <2>. QED  BY <1>q, <2>2, <2>4
<1>10. CASE ReindexTruncate(t)
  <2>1. ReturnOk(t)  BY <1>10 DEF ReindexTruncate
  <2>2. th'[t].docs = << >> /\ th'[t].arg = << >> /\ th'[t].pc = "idle"
    BY <1>0, <2>1, ReturnOnce
  <2>3. CallOnce(t)'  BY <1>e, <2>2, RestingCall
  <2>. QED  BY <1>q, <2>2, <2>3
<1>. QED  BY <1>3, <1>4, <1>5, <1>6, <1>7, <1>8, <1>9, <1>10
\* Sections that copy the documents of listed segments.
LEMMA CopyingSectionsOnce ==
    ASSUME SegmentInv, OneClient, OnePlace, NEW t \in Threads,
           MergeExecute(t) \/ ReindexCollect(t)
    PROVE  OnePlace'
<1>0. th \in [Threads -> Thread] /\ clock \in Nat /\ segs \in Seq(Entry)  BY OnceTypes
<1>e. IsInjective(<< >>) /\ Range(<< >>) = {}  BY EmptyOnce
<1>1. segs' = segs /\ bufDocs' = bufDocs /\ up' = up /\ clock' = clock
  BY DEF MergeExecute, ReindexCollect, bufVars, segVars
<1>2. clock' \in Nat /\ clock <= clock'  BY <1>0, <1>1
<1>3. ASSUME NEW S
      PROVE  /\ IsInjective(LiveDocsOf(S))
             /\ Range(LiveDocsOf(S)) \subseteq SegDocs
             /\ \A i \in DOMAIN segs : segs[i].id \notin S =>
                   Apart(segs[i].docs, LiveDocsOf(S))
  <2>1. /\ IsInjective(LiveDocsOf(S))
        /\ \A d \in Range(LiveDocsOf(S)) : \E i \in DOMAIN segs :
              segs[i].id \in S /\ d \in Range(segs[i].docs)
    BY <1>0, LiveDocsOnce DEF OnePlace
  <2>2. Range(LiveDocsOf(S)) \subseteq SegDocs  BY <2>1 DEF SegDocs
  <2>3. ASSUME NEW i \in DOMAIN segs, segs[i].id \notin S
        PROVE  Apart(segs[i].docs, LiveDocsOf(S))
    <3>1. \A j \in DOMAIN segs : segs[j].id \in S => Apart(segs[i].docs, segs[j].docs)
      BY <2>3 DEF OnePlace, SegsOnce
    <3>. QED  BY <2>1, <3>1 DEF Apart
  <2>. QED  BY <2>1, <2>2, <2>3
<1>4. CASE MergeExecute(t)
  <2> DEFINE docs == LiveDocsOf(th[t].old)
  <2>1. th[t].pc = "m_exec" /\ Continue(t, "m_swap", docs, th[t].seg, th[t].old)
    BY <1>4 DEF MergeExecute, At
  <2>. HIDE DEF docs
  <2>2. /\ th'[t].docs = docs /\ th'[t].arg = th[t].arg
        /\ th'[t].pc = "m_swap" /\ th'[t].old = th[t].old
    BY <1>0, <2>1, Moves
  <2>3. bufDocs = << >>  BY <2>1, DrainedEmpty
  <2>4. /\ IsInjective(docs) /\ Range(docs) \subseteq SegDocs
        /\ \A i \in DOMAIN segs : segs[i].id \notin th[t].old => Apart(segs[i].docs, docs)
    BY <1>3 DEF docs
  <2>5. CallOnce(t)'  BY <1>1, <2>2, <2>3, <2>4 DEF CallOnce
  <2>. QED  BY <1>1, <1>2, <2>2, <2>4, <2>5, QuietOnce
<1>5. CASE ReindexCollect(t)
  <2> DEFINE docs == LiveDocsOf(ListedIds)
  <2>1. th[t].pc = "r_collect" /\ (ReturnOk(t) \/ Continue(t, "r_alloc", docs, 0, {}))
    BY <1>5 DEF ReindexCollect, At
  <2>. HIDE DEF docs
  <2>2. /\ th'[t].docs \in {docs, << >>} /\ th'[t].arg \in {th[t].arg, << >>}
        /\ th'[t].pc \in {"idle", "r_alloc"}
    BY <1>0, <2>1, Moves, ReturnOnce
  <2>3. bufDocs = << >>  BY <2>1, DrainedEmpty
  <2>4. IsInjective(docs) /\ Range(docs) \subseteq SegDocs  BY <1>3 DEF docs
  <2>5. CallOnce(t)'  BY <1>1, <1>e, <2>2, <2>3, <2>4, RestingCall
  <2>. QED  BY <1>1, <1>2, <1>e, <2>2, <2>4, <2>5, QuietOnce
<1>. QED  BY <1>4, <1>5

\* Sections that list a segment: its documents are new to the list, or were in the
\* segments it replaces.
LEMMA ListingSectionsOnce ==
    ASSUME SegmentInv, OneClient, OnePlace, NEW t \in Threads,
           FlushPublish(t) \/ MergeSwap(t) \/ ReindexSwap(t)
    PROVE  OnePlace'
<1>0. th \in [Threads -> Thread] /\ segs \in Seq(Entry) /\ th[t].seg \in Nat
  BY OnceTypes, ThreadFacts
<1>e. IsInjective(<< >>) /\ Range(<< >>) = {}  BY EmptyOnce
<1>i. IsInjective(th[t].docs)  BY DEF OnePlace, CallOnce
<1>1. bufDocs' = bufDocs /\ up' = up /\ clock' = clock
  BY DEF FlushPublish, MergeSwap, ReindexSwap, bufVars
<1>2. \A i, j \in DOMAIN segs : segs[i] = segs[j] => i = j
  BY DEF SegmentInv, ListedOnDisk
<1>3. CASE FlushPublish(t)
  <2>1. /\ th[t].pc = "publish" /\ Continue(t, "truncate", << >>, 0, {})
        /\ segs' = Append(segs, NewEntry(th[t].seg, th[t].docs))
    BY <1>3 DEF FlushPublish, AddSegment, At
  <2>2. th'[t].docs = << >> /\ th'[t].arg = th[t].arg /\ th'[t].pc = "truncate"
    BY <1>0, <2>1, Moves
  <2>3. bufDocs = << >>  BY <2>1, DrainedEmpty
  <2>4. CallOnce(t)'  BY <1>1, <1>e, <2>2, <2>3, RestingCall
  <2>5. \A k \in DOMAIN segs : \E i \in DOMAIN segs :
            segs[k] = segs[i] /\ Apart(segs[i].docs, th[t].docs)
    BY <2>1 DEF OnePlace, CallOnce
  <2>. QED  BY <1>0, <1>1, <1>2, <1>e, <2>1, <2>2, <2>3, <2>4, <2>5, ListOnce
<1>4. CASE MergeSwap(t) \/ ReindexSwap(t)
  <2> DEFINE Keep == {i \in DOMAIN segs : segs[i].id \notin th[t].old}
             kept == Retain(segs, Keep)
  <2>1. /\ th[t].pc \in {"m_swap", "r_swap"}
        /\ Goto(t, "m_clean") \/ Goto(t, "r_clean")
        /\ segs' = Append(kept, NewEntry(th[t].seg, th[t].docs))
    BY <1>4 DEF MergeSwap, ReindexSwap, ReplaceSegments, At
  <2>2. Keep \in SUBSET DOMAIN segs  OBVIOUS
  <2>3. \A i \in Keep : Apart(segs[i].docs, th[t].docs)
    <3>1. CASE th[t].pc = "m_swap"  BY <3>1 DEF OnePlace, CallOnce
    <3>2. CASE th[t].pc = "r_swap"
      <4>1. ListedIds \subseteq th[t].old  BY <3>2 DEF OnePlace, CallOnce
      <4>2. Keep = {}  BY <4>1 DEF ListedIds
      <4>. QED  BY <4>2
    <3>. QED  BY <2>1, <3>1, <3>2
  <2>. HIDE DEF Keep
  <2>4. /\ kept \in Seq(Entry)
        /\ \A k \in DOMAIN kept : \E i \in Keep : kept[k] = segs[i]
        /\ \A j, k \in DOMAIN kept : kept[j] = kept[k] => j = k
    <3>1. \A i, j \in Keep : segs[i] = segs[j] => i = j  BY <1>2, <2>2
    <3>. QED  BY <1>0, <2>2, <3>1, RetainProperties
  <2>. HIDE DEF kept
  <2>5. \A k \in DOMAIN kept : \E i \in DOMAIN segs :
            kept[k] = segs[i] /\ Apart(segs[i].docs, th[t].docs)
    BY <2>2, <2>3, <2>4
  <2>6. /\ th'[t].docs = th[t].docs /\ th'[t].arg = th[t].arg
        /\ th'[t].pc \in {"m_clean", "r_clean"}
    BY <1>0, <2>1, Moves
  <2>7. bufDocs = << >>  BY <2>1, DrainedEmpty
  <2>8. CallOnce(t)'  BY <1>1, <1>i, <2>6, <2>7, RestingCall
  <2>. QED  BY <1>0, <1>1, <2>1, <2>4, <2>5, <2>6, <2>7, <2>8, ListOnce
<1>. QED  BY <1>3, <1>4

\* Every step keeps the invariant; a failure ends its reach.
LEMMA OnceInvStep ==
    ASSUME SegmentInv, OnceInv, [Next]_vars
    PROVE  OnceInv'
<1>1. OneClient /\ (faults = 0 => OnePlace)  BY DEF OnceInv
<1>2. OneClient'  BY <1>1 DEF OneClient
<1>3. ASSUME faults' = 0 PROVE OnePlace'
  <2>0. faults \in Nat  BY DEF SegmentInv, TypeOK
  <2>1. ASSUME NEW t \in Threads, Call(t) PROVE OnePlace'
    <3>1. faults' = faults \/ faults' = faults + 1
      BY <2>1 DEF Call, IndexAppend, IndexAppendFails, DeleteAppend, DeleteAppendFails,
                  CallFlush, Fault
    <3>2. faults = 0 /\ faults' = faults  BY <1>3, <2>0, <3>1
    <3>. QED  BY <1>1, <2>1, <3>2, CallsOnce
  <2>2. ASSUME NEW t \in Threads, Section(t) PROVE OnePlace'
    <3>1. faults' = faults
      BY <2>2 DEF Section, IndexAdd, DeleteBuffered, DeleteInSegments, FlushDrain, Allocate,
                  WriteSegment, FlushPublish, FlushTruncate, MergeFind, MergeExecute,
                  MergeSwap, MergeClean, ReindexCollect, ReindexOldIds, ReindexSwap,
                  ReindexClean, ReindexTruncate
    <3>2. OnePlace  BY <1>1, <1>3, <3>1
    <3>. QED  BY <1>1, <2>2, <3>2, BufferSectionsOnce, UnlistedSectionsOnce,
                 CopyingSectionsOnce, ListingSectionsOnce DEF Section
  <2>3. ASSUME NEW t \in Threads, SectionFails(t) PROVE FALSE
    BY <1>3, <2>0, <2>3 DEF SectionFails, DeleteBitmapFails, WriteFails, TruncateFails,
                            CleanFails, Fault
  <2>4. ~Crash  BY <1>3, <2>0 DEF Crash, Fault
  <2>5. ~Open
    <3>1. ASSUME Open PROVE FALSE
      <4>1. faults' = faults /\ ~up  BY <3>1 DEF Open
      <4>. QED  BY <1>1, <1>3, <4>1 DEF OnePlace
    <3>. QED  BY <3>1
  <2>6. CASE UNCHANGED vars
    <3>1. OnePlace  BY <1>1, <1>3, <2>6 DEF vars, engineVars
    <3>. QED
      BY <2>6, <3>1 DEF vars, engineVars, bufVars, segVars, OnePlace, SegsOnce, BufOnce,
                        CallOnce, VersionsGiven, ListedIds, Apart
  <2>. QED  BY <2>1, <2>2, <2>3, <2>4, <2>5, <2>6 DEF Next, Stop
<1>. QED  BY <1>2, <1>3 DEF OnceInv

\* In one place means at most one hit.
LEMMA OneHit ==
    ASSUME SegmentInv, OnePlace
    PROVE  \A d \in Searched : Hits(d) <= 1
<1> SUFFICES ASSUME NEW d PROVE Hits(d) <= 1  OBVIOUS
<1> DEFINE P == UNION {{i} \X Live(segs[i]) : i \in DOMAIN segs}
           A == {p \in P : segs[p[1]].docs[p[2]] = d}
           B == {i \in LiveInBuffer : bufDocs[i] = d}
<1>1. \A p \in A : /\ p = <<p[1], p[2]>> /\ p[1] \in DOMAIN segs
                   /\ p[2] \in DOMAIN segs[p[1]].docs
                   /\ segs[p[1]].docs[p[2]] = d /\ d \in Range(segs[p[1]].docs)
  BY DEF Live, Range
<1>2. \A i \in B : i \in DOMAIN bufDocs /\ bufDocs[i] = d /\ d \in Range(bufDocs)
  BY DEF LiveInBuffer, Range
<1>3. ASSUME NEW p \in A, NEW q \in A PROVE p = q
  <2>1. p[1] = q[1]  BY <1>1 DEF OnePlace, SegsOnce, Apart
  <2>2. IsInjective(segs[p[1]].docs)  BY <1>1 DEF OnePlace, SegsOnce
  <2>3. \A a, b \in DOMAIN segs[p[1]].docs :
            segs[p[1]].docs[a] = segs[p[1]].docs[b] => a = b
    BY <2>2 DEF IsInjective
  <2>4. p[2] = q[2]  BY <1>1, <2>1, <2>3
  <2>. QED  BY <1>1, <2>1, <2>4
<1>4. ASSUME NEW i \in B, NEW j \in B PROVE i = j
  BY <1>2 DEF OnePlace, BufOnce, IsInjective
<1>5. A = {} \/ B = {}
  BY <1>1, <1>2 DEF OnePlace, BufOnce, Apart
<1>6. Hits(d) = Cardinality(A) + Cardinality(B)  BY DEF Hits
<1>. HIDE DEF A, B
<1>7. Cardinality(A) = 0 \/ Cardinality(A) = 1
  <2>1. CASE A = {}  BY <2>1, FS_EmptySet
  <2>2. CASE A # {}
    <3>1. PICK p \in A : A = {p}  BY <1>3, <2>2
    <3>. QED  BY <3>1, FS_Singleton
  <2>. QED  BY <2>1, <2>2
<1>8. Cardinality(B) = 0 \/ Cardinality(B) = 1
  <2>1. CASE B = {}  BY <2>1, FS_EmptySet
  <2>2. CASE B # {}
    <3>1. PICK i \in B : B = {i}  BY <1>4, <2>2
    <3>. QED  BY <3>1, FS_Singleton
  <2>. QED  BY <2>1, <2>2
<1>9. Cardinality(A) = 0 \/ Cardinality(B) = 0  BY <1>5, FS_EmptySet
<1>. QED  BY <1>6, <1>7, <1>8, <1>9

\* With one client at a time, whatever it indexes, deletes, flushes, merges and
\* reindexes, searches meet at most one copy of each write before the first
\* failure (flush, run_merge, reindex_self, search).  Two writes of one id are
\* two documents here: index() does not replace the flushed copy.
THEOREM NoWriteTwice == OneClient => (Spec => []EachWriteOnce)
<1>1. OneClient /\ Init => OnceInv
  <2> SUFFICES ASSUME OneClient, Init PROVE OnePlace  BY DEF OnceInv
  <2>1. segs = << >> /\ bufDocs = << >> /\ up /\ th = [t \in Threads |-> Idle]
    BY DEF Init, SegInit, BufInit
  <2>2. Idle.docs = << >> /\ Idle.arg = << >> /\ Idle.pc = "idle"  BY DEF Idle, Serving
  <2>3. IsInjective(<< >>) /\ Range(<< >>) = {}  BY EmptyOnce
  <2>. QED  BY <2>1, <2>2, <2>3 DEF OnePlace, SegsOnce, BufOnce, CallOnce, VersionsGiven,
                                    FlushPcs, ReindexPcs
<1>2. SegmentInv /\ OnceInv => EachWriteOnce
  BY OneHit DEF OnceInv, EachWriteOnce
<1>3. SegmentInv /\ OnceInv /\ [Next]_vars => OnceInv'  BY OnceInvStep
<1>. QED  BY <1>1, <1>2, <1>3, SegmentsSafe, PTL DEF Spec
=============================================================================
