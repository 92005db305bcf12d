--------------------------- MODULE QueryProperties ----------------------------
(***************************************************************************)
(* What a search on a shard must return, said over the documents alone:    *)
(* no posting list, no column, no cursor and no block occurs in the        *)
(* reference definitions.                                                  *)
(***************************************************************************)
EXTENDS QueryExecutor

Text(s, d) == ToSet(Docs(s)[d].title) \cup ToSet(Docs(s)[d].desc)

Vocabulary(s) == UNION {Text(s, d) : d \in DOMAIN Docs(s)}

\* Typos are looked for only if no document of the segment, deleted or not, has
\* a word that begins with the token.
Has(s, d, q) ==
    \/ \E t \in Text(s, d) : IsPrefix(q, t)
    \/ /\ \A t \in Vocabulary(s) : ~IsPrefix(q, t)
       /\ req.typo /\ Len(q) > 4
       /\ \E t \in Text(s, d) : EditDistance(t, q) <= (IF Len(q) <= 6 THEN 1 ELSE 2)

AttributeOf(d, f) == CASE f = "category" -> d.category [] f = "brand" -> d.brand
                       [] f = "price" -> d.price [] f = "stock" -> d.stock

Satisfies(d, f) ==
    LET v == AttributeOf(d, f.field) IN
    /\ v # Absent
    /\ CASE f.kind = "eq" -> v = f.value
         [] f.kind = "in" -> v \in f.values
         [] f.kind = "range" -> /\ f.gte = Absent \/ v >= f.gte
                                /\ f.lte = Absent \/ v <= f.lte

Eligible(s) ==
    {d \in DOMAIN Docs(s) \ segments[s].deleted :
        \A f \in req.filters : Satisfies(Docs(s)[d], f)}

Begins(s, d, q) == \E t \in Text(s, d) : IsPrefix(q, t)

\* The documents with all tokens, or with a word that begins with one: the OR
\* fallback tolerates no typos.
AllTokens(s) == {d \in Eligible(s) : \A q \in ToSet(req.query) : Has(s, d, q)}

AnyToken(s) == {d \in Eligible(s) : \E q \in ToSet(req.query) : Begins(s, d, q)}

FallsBack(s) == Len(req.query) > 1 /\ AllTokens(s) = {}

\* How many live documents have the word; 1 for a word the segment does not know.
Df(s) ==
    [q \in ToSet(req.query) |->
        IF q \in Vocabulary(s) THEN Cardinality({d \in Live(s) : q \in Text(s, d)})
        ELSE 1]

\* A document found through n tokens gets its score n times in the OR fallback.
OrScore(s, d) ==
    TextScore(s, d, FALSE, Df(s))
        * Cardinality({i \in DOMAIN req.query : Has(s, d, req.query[i])})

\* The documents segment s should contribute, with their scores.  A query that
\* has no tokens, stop words for instance, finds nothing.
Wanted(s) ==
    IF ~req.asked THEN [d \in Eligible(s) |-> 1]
    ELSE IF req.query = << >> THEN << >>
    ELSE IF FallsBack(s) THEN [d \in AnyToken(s) |-> OrScore(s, d)]
    ELSE [d \in AllTokens(s) |-> BoostedScore(s, d, Df(s))]

\* The bounds of the blocks that hold d, of the tokens that have it.
BoundsFor(s, d) ==
    [i \in {k \in DOMAIN req.query : Has(s, d, req.query[k])} |->
        LET pl == MergePostings(RawLists(s, req.query[i]))
            at == CHOOSE n \in DOMAIN pl : pl[n].doc = d
        IN  Bounds(s, req.query[i])[(at - 1) \div BlockSize + 1]]

\* The block bounds are what the pruning takes them for: at least the score, and
\* for a heap that never fills, as in the OR fallback below, not 0.
BoundsHold(s) ==
    req.query # << >> =>
        /\ \A d \in AllTokens(s) : SumFunction(BoundsFor(s, d)) >= BoostedScore(s, d, Df(s))
        /\ FallsBack(s) =>
              \A d \in AnyToken(s) : \A i \in DOMAIN BoundsFor(s, d) : BoundsFor(s, d)[i] > 0

\* A heap of K hits overflows without harm only where it keeps the best by the
\* final score: not when sorting by a field, and not in the OR fallback, where
\* each token has its own heap.
HeapSuffices(s) ==
    req.sort.order # "score" \/ FallsBack(s) => Cardinality(DOMAIN Wanted(s)) <= K

Done == phase = "done"

-----------------------------------------------------------------------------
\* The page is the requested part of all the documents that match, in the
\* requested order, wherever cursors jumped, blocks were skipped, the heap
\* overflowed or a segment fell back to OR.  Three provisos: the block bounds are
\* upper bounds, no segment has more than K matches when sorting by a field, nor
\* when it falls back to OR (execute, wand_top_k, TopNCollector::collect,
\* MultiSegmentSearcher::search).  Each segment falls back on its own.
PageExact ==
    (Done /\ \A s \in DOMAIN segments : BoundsHold(s) /\ HeapSuffices(s)) =>
        LET all == UNION {Hits(s, Wanted(s)) : s \in DOMAIN segments}
            before(h) == {m \in all : Before(m, h)}
            after(h)  == {m \in all : Before(h, m)}
            n == Cardinality(all)
        IN  /\ Len(page) = Max({0, Min({req.limit, n - req.offset})})
            /\ Cardinality(ToSet(page)) = Len(page)
            /\ \A i \in DOMAIN page :
                  /\ page[i] \in all
                  /\ Cardinality(before(page[i])) < req.offset + i
                  /\ req.offset + i <= n - Cardinality(after(page[i]))

\* No hit is a deleted document or one a filter excludes, and unless the
\* response says or_fallback every hit has all the tokens
\* (build_filter_bitmap, the column filters, retrieval_mode).
HitsAsked ==
    \A h \in scored :
        /\ h.doc \in Eligible(h.seg)
        /\ (Done /\ ~fallback) => \A q \in ToSet(req.query) : Has(h.seg, h.doc, q)

\* Count and facets of the response describe exactly the hits collected over all
\* segments, although each segment numbers values and documents on its own
\* (aggregate_counts, merged_aggs, total_hits).
FacetsAgree ==
    LET having(v) == {h \in scored :
                         AttributeOf(Docs(h.seg)[h.doc], req.aggregate) = v}
    IN  /\ total = Cardinality(scored)
        /\ \A v \in DOMAIN aggs : aggs[v] = Cardinality(having(v))
        /\ \A h \in scored :
              AttributeOf(Docs(h.seg)[h.doc], req.aggregate) \in DOMAIN aggs \cup {Absent}

\* What is read back for a term is one posting per document that contains it, in
\* document order, with its number of occurrences up to MaxTf (add_term, encode,
\* decode).
IndexFaithful ==
    phase = "segment" => \A s \in DOMAIN segments : \A t \in Vocabulary(s) :
        LET pl == GetPostings(Index(s), t)
            n(d) == CountIn(Docs(s)[d].title, LAMBDA x : x = t)
                        + CountIn(Docs(s)[d].desc, LAMBDA x : x = t)
        IN  /\ {pl[i].doc : i \in DOMAIN pl} = {d \in DOMAIN Docs(s) : t \in Text(s, d)}
            /\ \A i, j \in DOMAIN pl : i < j => pl[i].doc < pl[j].doc
            /\ \A i \in DOMAIN pl : pl[i].tf = Min({n(pl[i].doc), MaxTf})

\* Every search returns: each way through the WAND loop moves a cursor
\* (wand_top_k).
SearchEnds == <>Done

\* "No doc in these blocks can beat the threshold." (wand.rs, step 4): where
\* the AND loop skips ahead, no document it passes over scores higher than the
\* threshold.
SkippedCannotCompete ==
    (phase = "and" /\ Candidate /\ NotCompetitive(K)) =>
        \A d \in AllTokens(seg) :
            (d >= Pivot /\ \A n \in NextBlockDocs(AtPivot) : d < n)
                => AndScore(seg, d) <= Threshold(K)

\* "OR fallback triggers on zero AND results; does not trigger when AND has
\* results" (spec/003-query-understanding/tasks.md): no response is marked
\* or_fallback although a document has all the tokens (execute, per segment).
FallbackOnlyIfNothing ==
    (Done /\ fallback) => \A s \in DOMAIN segments : AllTokens(s) = {}
=============================================================================
