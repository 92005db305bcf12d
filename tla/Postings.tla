------------------------------- MODULE Postings -------------------------------
(***************************************************************************)
(* Posting lists and the inverted index of a segment:                      *)
(* crates/index/src/posting.rs and inverted.rs, and the BM25 arithmetic    *)
(* they share with crates/query/src/scorer.rs.                             *)
(*                                                                         *)
(* A term is a sequence of letters.  Floating point numbers are integers   *)
(* scaled by Scale, rounded down; an average is a pair of sum and count.   *)
(* Document numbers count from 1.                                          *)
(***************************************************************************)
EXTENDS Naturals, Sequences, SequencesExt, FiniteSets, FiniteSetsExt

CONSTANTS
    BlockSize,     \* BLOCK_SIZE, 64 in the code
    MaxTf,         \* u8::MAX
    VarintBase,    \* 128 in the code
    Idf            \* Idf[n][df], scaled: ln is external

ASSUME PostingsAssumption ==
    /\ BlockSize \in Nat \ {0}
    /\ MaxTf \in Nat \ {0}
    /\ VarintBase \in Nat \ {0, 1}

Scale == 1000

SaturatingAdd(a, b) == IF a + b > MaxTf THEN MaxTf ELSE a + b

-----------------------------------------------------------------------------
\* InvertedIndexWriter::add_term
AddTerm(index, term, doc, len) ==
    LET pl == index[term] IN
    [index EXCEPT ![term] =
        IF pl # << >> /\ Last(pl).doc = doc
        THEN [pl EXCEPT ![Len(pl)].tf = SaturatingAdd(@, 1)]
        ELSE Append(pl, [doc |-> doc, tf |-> 1, dl |-> len])]

\* SegmentWriter::write: the tokens of the text fields of the documents, each
\* with the combined length of its document.
Occurrences(docs) ==
    FlattenSeq([i \in DOMAIN docs |->
        LET text == docs[i].title \o docs[i].desc
        IN  [j \in DOMAIN text |-> [term |-> text[j], doc |-> i, len |-> Len(text)]]])

\* A term without postings is not in the dictionary.
InvertedIndex(docs) ==
    LET occ == Occurrences(docs) IN
    FoldLeft(LAMBDA idx, o : AddTerm(idx, o.term, o.doc, o.len),
             [t \in {occ[i].term : i \in DOMAIN occ} |-> << >>], occ)

-----------------------------------------------------------------------------
\* bm25_impact and Bm25Scorer::term_score with k1 = 1.2, b = 0.75
Impact(tf, dl, avg) ==
    LET sum == IF avg.sum < avg.n THEN avg.n ELSE avg.sum
    IN  (22 * Scale * tf * sum) \div (10 * tf * sum + 3 * sum + 9 * dl * avg.n)

NumBlocks(pl) == (Len(pl) + BlockSize - 1) \div BlockSize

\* PostingList::rebuild_blocks
RebuildBlocks(pl, avg) ==
    [b \in 1 .. NumBlocks(pl) |->
        Max({Impact(pl[i].tf, pl[i].dl, avg) :
                i \in {j \in DOMAIN pl : (j - 1) \div BlockSize = b - 1}})]

\* PostingList::merge
MergePostings(lists) ==
    LET all    == FlattenSeq(lists)
        docs   == SetToSortSeq({all[i].doc : i \in DOMAIN all}, <)
        of(d)  == SelectSeq(all, LAMBDA p : p.doc = d)
    IN  [i \in DOMAIN docs |->
            FoldLeft(LAMBDA p, q : [p EXCEPT !.tf = SaturatingAdd(@, q.tf)],
                     Head(of(docs[i])), Tail(of(docs[i])))]

-----------------------------------------------------------------------------
\* encode_varint: low digits first, all but the last one marked.
EncodeVarint[v \in Nat] ==
    IF v < VarintBase THEN <<v>>
    ELSE <<VarintBase + (v % VarintBase)>> \o EncodeVarint[v \div VarintBase]

\* decode_varint: the number at off and the place after it.
DecodeVarint(data, off) ==
    LET end == Min({i \in off .. Len(data) : data[i] < VarintBase})
    IN  [value |-> FoldLeft(LAMBDA r, x : r * VarintBase + (x % VarintBase), 0,
                            Reverse(SubSeq(data, off, end))),
         next  |-> end + 1]

\* Mutant: the delta is taken to the first document.
EncodePostingsFromFirst(pl, blocks) ==
    EncodeVarint[Len(blocks)] \o blocks \o EncodeVarint[Len(pl)] \o
    FlattenSeq([i \in DOMAIN pl |->
        EncodeVarint[pl[i].doc - (IF i = 1 THEN 0 ELSE pl[1].doc)]
            \o EncodeVarint[pl[i].tf] \o EncodeVarint[pl[i].dl]])

\* PostingList::encode: block headers, then the postings with the difference
\* between their document numbers.  A header is one word here, four bytes there.
EncodePostings(pl, blocks) ==
    EncodeVarint[Len(blocks)] \o blocks \o EncodeVarint[Len(pl)] \o
    FlattenSeq([i \in DOMAIN pl |->
        EncodeVarint[pl[i].doc - (IF i = 1 THEN 0 ELSE pl[i - 1].doc)]
            \o EncodeVarint[pl[i].tf] \o EncodeVarint[pl[i].dl]])

\* PostingList::decode: past the headers the numbers stand one after the other,
\* first how many postings there are, then three for each.
DecodePostings(data) ==
    LET header == DecodeVarint(data, 1)
        start  == header.next + header.value
        ends   == {i \in start .. Len(data) : data[i] < VarintBase}
        begins == {start} \cup {i + 1 : i \in ends \ {Len(data)}}
        nth(i) == CHOOSE b \in begins : Cardinality({x \in begins : x < b}) = i - 1
        number == [i \in 1 .. Cardinality(ends) |-> DecodeVarint(data, nth(i)).value]
    IN  [p \in 1 .. number[1] |->
            [doc |-> SumFunction([i \in 1 .. p |-> number[3 * i - 1]]),
             tf  |-> number[3 * p],
             dl  |-> number[3 * p + 1]]]

-----------------------------------------------------------------------------
\* InvertedIndexWriter::write, with the posting file as a function of the term:
\* the term dictionary is a finite state transducer (external).
WriteIndex(docs, avg) ==
    LET index == InvertedIndex(docs) IN
    [t \in DOMAIN index |-> EncodePostings(index[t], RebuildBlocks(index[t], avg))]

\* InvertedIndexReader::read_at for every term
ReadIndex(disk) == [t \in DOMAIN disk |-> DecodePostings(disk[t])]

\* get_postings and prefix_search
GetPostings(index, term) == IF term \in DOMAIN index THEN index[term] ELSE << >>

PrefixSearch(index, prefix) == {t \in DOMAIN index : IsPrefix(prefix, t)}

\* edit_distance, and the Levenshtein automaton of fuzzy_search (external).
EditDistance(a, b) ==
    LET dp[i \in 0 .. Len(a), j \in 0 .. Len(b)] ==
            IF i = 0 THEN j
            ELSE IF j = 0 THEN i
            ELSE IF a[i] = b[j] THEN dp[i - 1, j - 1]
            ELSE 1 + Min({dp[i - 1, j], dp[i, j - 1], dp[i - 1, j - 1]})
    IN  dp[Len(a), Len(b)]

FuzzySearch(index, term, dist) == {t \in DOMAIN index : EditDistance(t, term) <= dist}
=============================================================================
