----------------------------- MODULE QueryExecutor ----------------------------
(***************************************************************************)
(* One search on a shard: MultiSegmentSearcher::search                     *)
(* (crates/query/src/multi.rs), QueryExecutor (executor.rs), the WAND loop *)
(* (Wand) and TopNCollector (collector.rs), over segments as               *)
(* SegmentWriter writes them (Postings, Columns).                          *)
(*                                                                         *)
(*   segment -> and -> segment              the tokens have a common hit   *)
(*           -> and -> or -> token -> or    otherwise, token by token      *)
(*           -> collect -> done             after the last segment         *)
(*                                                                         *)
(* The analyzer has split texts and query into terms; a query that was     *)
(* asked, but of which it leaves nothing, is not the empty query.  A       *)
(* segment is its documents and the bitmap of deleted ones it was opened   *)
(* with.                                                                   *)
(***************************************************************************)
EXTENDS Wand, Columns

CONSTANTS
    Corpora,       \* the lists of segments that are searched
    Requests,
    TitleBoost,
    DescBoost,
    KMin,          \* 200 in the code
    KFactor        \* 10 in the code

VARIABLES
    segments,      \* the segments searched
    req,           \* the request
    seg,           \* the current segment
    phase,
    tok,           \* the current token of the OR fallback
    orScore,       \* score_map: scores so far in the OR fallback
    scored,        \* all_scored: hits of the segments so far
    total,         \* total_hits
    aggs,          \* merged_aggs
    fallback,      \* any_or_fallback
    page,          \* the hits of the response
    turn           \* alternates, so that a turn that changes nothing is a step

qVars == <<segments, req, seg, phase, tok, orScore, scored, total, aggs,
           fallback, page>>

vars == <<qVars, wandVars, turn>>

\* SegmentWriter::write, then SegmentReader::open.  The average length in the
\* block headers is that of title and description together.
Opened(c) ==
    [docs    |-> c.docs,
     deleted |-> c.deleted,
     index   |-> ReadIndex(WriteIndex(c.docs, [sum |-> Len(Occurrences(c.docs)),
                                               n   |-> Len(c.docs)])),
     cols    |-> ColumnsOf(c.docs)]

Init ==
    /\ segments \in {[i \in DOMAIN c |-> Opened(c[i])] : c \in Corpora}
    /\ req \in Requests
    /\ seg = 1
    /\ phase = "segment"
    /\ tok = 1
    /\ orScore = << >>
    /\ scored = {}
    /\ total = 0
    /\ aggs = << >>
    /\ fallback = FALSE
    /\ page = << >>
    /\ turn = 0
    /\ lists = << >>
    /\ bounds = << >>
    /\ pos = << >>
    /\ heap = {}

-----------------------------------------------------------------------------
Docs(s) == segments[s].docs

\* all_live_docs
Live(s) == DOMAIN Docs(s) \ segments[s].deleted

Index(s) == segments[s].index
Cols(s) == segments[s].cols

TextFields == {"title", "desc"}

Field(d, f) == IF f = "title" THEN d.title ELSE d.desc

Boost(f) == IF f = "title" THEN TitleBoost ELSE DescBoost

\* SegmentStatistics::compute; 1 and 8 replace an average of no documents.
AvgLength(s, f, default) ==
    IF Live(s) = {} THEN [sum |-> default, n |-> 1]
    ELSE [sum |-> SumFunction([d \in Live(s) |-> Len(Field(Docs(s)[d], f))]),
          n   |-> Cardinality(Live(s))]

IdfOf(s, df) == Idf[Cardinality(Live(s))][df]

\* SegmentReader::search_term without the deleted documents.
SearchTerm(s, t) ==
    SelectSeq(GetPostings(Index(s), t), LAMBDA p : p.doc \in Live(s))

\* Up to 4 letters no typo in the dictionary, up to 6 one, then two.
FuzzyTerms(s, q) ==
    IF ~req.typo \/ Len(q) <= 4 THEN {}
    ELSE {t \in FuzzySearch(Index(s), q, IF Len(q) <= 6 THEN 1 ELSE 2) :
             SearchTerm(s, t) # << >>}

\* The terms a token stands for: those it is a prefix of (it itself among
\* them), or else, if typos are tolerated, similar ones.
RawTerms(s, q) ==
    IF PrefixSearch(Index(s), q) # {} THEN PrefixSearch(Index(s), q)
    ELSE FuzzyTerms(s, q)

RawLists(s, q) ==
    LET terms == SetToSeq(RawTerms(s, q))
    IN  [i \in DOMAIN terms |-> SearchTerm(s, terms[i])]

TotalDf(s, q) == Len(FlattenSeq(RawLists(s, q)))

\* The bounds of TermCursor::block_upper_bound for each block of the merged list.
Bounds(s, q) ==
    LET blocks == RebuildBlocks(MergePostings(RawLists(s, q)), AvgLength(s, "title", 8))
    IN  [b \in DOMAIN blocks |->
            (3 * IdfOf(s, TotalDf(s, q)) *
                (TitleBoost * blocks[b] + DescBoost * ((22 * Scale) \div 10))) \div 2]

-----------------------------------------------------------------------------
\* build_filter_bitmap
PassFilter(s) ==
    LET bits(f) == IF f.kind = "eq" THEN FilterEq(Cols(s), f.field, f.value)
                   ELSE IF f.kind = "in" THEN FilterIn(Cols(s), f.field, f.values)
                   ELSE FilterRange(Cols(s), f.field, f.gte, f.lte)
    IN  {d \in Live(s) : \A f \in req.filters : d \in bits(f)}

CountIn(text, Test(_)) == Cardinality({i \in DOMAIN text : Test(text[i])})

\* Documents that have the very token; 1 if the dictionary does not have it.
ExactDf(s) ==
    [q \in ToSet(req.query) |->
        IF q \in DOMAIN Index(s) THEN Len(SearchTerm(s, q)) ELSE 1]

\* Score of token q, which df[q] documents have, in one field: by prefix, else
\* by similarity if it counts.
FieldScore(s, d, f, q, typo, df) ==
    LET text == Field(Docs(s)[d], f)
        tf   == CountIn(text, LAMBDA t : IsPrefix(q, t))
        near == CountIn(text, LAMBDA t :
                    EditDistance(t, q) <= (IF Len(q) <= 4 THEN 1 ELSE 2))
        n    == IF tf > 0 THEN tf ELSE IF typo /\ Len(q) >= 3 THEN near ELSE 0
    IN  Boost(f) * IdfOf(s, df[q]) * Impact(n, Len(text), AvgLength(s, f, 1))

TextScore(s, d, typo, df) ==
    FoldLeft(LAMBDA sum, q : sum + FieldScore(s, d, "title", q, typo, df)
                                 + FieldScore(s, d, "desc", q, typo, df), 0, req.query)

\* All tokens among the first three of the title.
LeadsTitle(s, d) ==
    LET title == Docs(s)[d].title IN
    \A q \in ToSet(req.query) :
        \E i \in DOMAIN title : i <= 3 /\ IsPrefix(q, title[i])

BoostedScore(s, d, df) ==
    LET score == TextScore(s, d, req.typo, df)
    IN  IF LeadsTitle(s, d) THEN (score * 3) \div 2 ELSE score

\* The closures given to wand_top_k, 0 for None.
AndScore(s, d) == IF d \in PassFilter(s) THEN BoostedScore(s, d, ExactDf(s)) ELSE 0

OrTokenScore(s, d) ==
    IF d \in PassFilter(s) THEN TextScore(s, d, FALSE, ExactDf(s)) ELSE 0

-----------------------------------------------------------------------------
K == Max({req.offset + req.limit, req.limit * KFactor, KMin})

\* sort_value; an attribute a document lacks sorts as minus infinity.
SortValue(s, d) ==
    LET doc == Docs(s)[d] IN
    IF req.sort.field = "price" THEN doc.price
    ELSE IF doc.stock = Absent THEN -1 ELSE doc.stock

Hits(s, results) ==
    {[seg |-> s, doc |-> d, score |-> results[d], key |-> SortValue(s, d)] :
        d \in DOMAIN results}

AddCounts(a, b) ==
    [v \in DOMAIN a \cup DOMAIN b |->
        (IF v \in DOMAIN a THEN a[v] ELSE 0) + (IF v \in DOMAIN b THEN b[v] ELSE 0)]

\* The end of QueryExecutor::execute, and the loop body of search() around it.
EndSegment(results, or) ==
    /\ scored' = scored \cup Hits(seg, results)
    /\ total' = total + Cardinality(DOMAIN results)
    /\ aggs' = AddCounts(aggs, AggregateCounts(Cols(seg), req.aggregate,
                                               DOMAIN results))
    /\ fallback' = (fallback \/ or)
    /\ seg' = seg + 1
    /\ phase' = "segment"
    /\ tok' = 1
    /\ orScore' = << >>
    /\ NoWand
    /\ UNCHANGED <<segments, req, page>>

ResultOf(h) == [d \in {e[2] : e \in h} |-> (CHOOSE e \in h : e[2] = d)[1]]

\* OR fallback after an AND without results.
AfterAnd(results) ==
    IF results = << >> /\ Len(req.query) > 1
    THEN /\ phase' = "or"
         /\ NoWand
         /\ UNCHANGED <<segments, req, seg, tok, orScore, scored, total, aggs,
                        fallback, page>>
    ELSE EndSegment(results, FALSE)

-----------------------------------------------------------------------------
\* An empty query matches every live document that passes the filters.
MatchAll ==
    /\ phase = "segment"
    /\ seg <= Len(segments)
    /\ ~req.asked
    /\ EndSegment([d \in PassFilter(seg) |-> 1], FALSE)

\* A query without tokens, or with one that nothing stands for.
TokenUnknown ==
    /\ phase = "segment"
    /\ seg <= Len(segments)
    /\ req.asked
    /\ req.query = << >> \/ \E q \in ToSet(req.query) : RawTerms(seg, q) = {}
    /\ AfterAnd(<< >>)

StartAnd ==
    /\ phase = "segment"
    /\ seg <= Len(segments)
    /\ req.query # << >>
    /\ \A q \in ToSet(req.query) : RawTerms(seg, q) # {}
    /\ phase' = "and"
    /\ StartWand([i \in DOMAIN req.query |-> MergePostings(RawLists(seg, req.query[i]))],
                 [i \in DOMAIN req.query |-> Bounds(seg, req.query[i])])
    /\ UNCHANGED <<segments, req, seg, tok, orScore, scored, total, aggs,
                   fallback, page>>

\* A turn of the loop that scores nothing.
Jump ==
    /\ phase \in {"and", "token"}
    /\ Realign \/ SkipBlocks(K)
    /\ UNCHANGED qVars

AndStep ==
    /\ phase = "and"
    /\ Evaluate(K, AndScore(seg, Pivot))
    /\ UNCHANGED qVars

EndAnd ==
    /\ phase = "and"
    /\ WandReturns(K)
    /\ AfterAnd(ResultOf(heap))

\* score_query_or_fallback: the next token, unless nothing stands for it.
StartToken ==
    /\ phase = "or"
    /\ tok <= Len(req.query)
    /\ IF RawTerms(seg, req.query[tok]) = {}
       THEN tok' = tok + 1 /\ UNCHANGED <<phase, wandVars>>
       ELSE /\ phase' = "token"
            /\ StartWand(<<MergePostings(RawLists(seg, req.query[tok]))>>,
                         <<Bounds(seg, req.query[tok])>>)
            /\ UNCHANGED tok
    /\ UNCHANGED <<segments, req, seg, orScore, scored, total, aggs, fallback, page>>

TokenStep ==
    /\ phase = "token"
    /\ Evaluate(K, OrTokenScore(seg, Pivot))
    /\ UNCHANGED qVars

EndToken ==
    /\ phase = "token"
    /\ WandReturns(K)
    /\ orScore' = AddCounts(orScore, ResultOf(heap))
    /\ phase' = "or"
    /\ tok' = tok + 1
    /\ NoWand
    /\ UNCHANGED <<segments, req, seg, scored, total, aggs, fallback, page>>

EndOr ==
    /\ phase = "or"
    /\ tok > Len(req.query)
    /\ EndSegment(orScore, TRUE)

\* Does hit a come before b?
Before(a, b) ==
    IF req.sort.order = "score" THEN a.score > b.score
    ELSE IF req.sort.order = "asc" THEN a.key < b.key
    ELSE a.key > b.key

\* TopNCollector::collect: sorted, hits that compare equal in any order, and one
\* page of it.
Collect ==
    /\ phase = "segment"
    /\ seg > Len(segments)
    /\ \E hits \in SetToSeqs(scored) :
          /\ \A i, j \in DOMAIN hits : i < j => ~Before(hits[j], hits[i])
          /\ page' = SubSeq(hits, req.offset + 1,
                            Min({req.offset + req.limit, Len(hits)}))
    /\ phase' = "done"
    /\ UNCHANGED <<segments, req, seg, tok, orScore, scored, total, aggs, fallback,
                   wandVars>>

Search ==
    \/ MatchAll \/ TokenUnknown
    \/ StartAnd \/ Jump \/ AndStep \/ EndAnd
    \/ StartToken \/ TokenStep \/ EndToken \/ EndOr
    \/ Collect

Next == Search /\ turn' = 1 - turn

\* The thread of the search goes on until the search has returned: WF_vars(Next)
\* with what enables Next written out.
Spec == Init /\ [][Next]_vars /\ ([]<>(phase = "done") \/ []<><<Next>>_vars)
=============================================================================
