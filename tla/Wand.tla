--------------------------------- MODULE Wand ---------------------------------
(***************************************************************************)
(* Conjunctive Block-Max WAND, crates/query/src/wand.rs: one action per    *)
(* way through the body of the loop in wand_top_k.  The score of a         *)
(* document (0 for None) and k come from the executor.                     *)
(***************************************************************************)
EXTENDS Postings

VARIABLES
    lists,    \* lists[c]: the postings of TermCursor c
    bounds,   \* bounds[c][b]: upper bound of block b of cursor c
    pos,      \* pos[c]: position of cursor c
    heap      \* TopKHeap: the best <<score, doc>> so far

wandVars == <<lists, bounds, pos, heap>>

NoWand == lists' = << >> /\ bounds' = << >> /\ pos' = << >> /\ heap' = {}

\* TermCursor::new for each list
StartWand(L, B) ==
    /\ lists' = L
    /\ bounds' = B
    /\ pos' = [c \in DOMAIN L |-> 1]
    /\ heap' = {}

-----------------------------------------------------------------------------
Cursors == DOMAIN lists

Exhausted(p) == \E c \in Cursors : p[c] > Len(lists[c])

DocAt(p, c) == lists[c][p[c]].doc

\* TermCursor::advance_to for every cursor.
AdvanceTo(p, target) ==
    [c \in Cursors |->
        p[c] + Cardinality({i \in p[c] .. Len(lists[c]) : lists[c][i].doc < target})]

\* The highest document of the cursors, and the cursors moved there.
Pivot == Max({DocAt(pos, c) : c \in Cursors})

AtPivot == AdvanceTo(pos, Pivot)

Agree(p) == \A c, k \in Cursors : DocAt(p, c) = DocAt(p, k)

BlockOf(p, c) == (p[c] - 1) \div BlockSize + 1

\* TermCursor::block_upper_bound, summed over the cursors.
BlockBound(p) == SumFunction([c \in Cursors |-> bounds[c][BlockOf(p, c)]])

\* Mutant: the first document of the block the cursor is in.
NextBlockDocsSame(p) ==
    {lists[c][(BlockOf(p, c) - 1) * BlockSize + 1].doc :
        c \in {k \in Cursors : BlockOf(p, k) * BlockSize < Len(lists[k])}}

\* TermCursor::next_block_doc_id of the cursors that are not in their last block.
NextBlockDocs(p) ==
    {lists[c][BlockOf(p, c) * BlockSize + 1].doc :
        c \in {k \in Cursors : BlockOf(p, k) * BlockSize < Len(lists[k])}}

Lower(a, b) == a[1] < b[1] \/ (a[1] = b[1] /\ a[2] < b[2])

\* TopKHeap::threshold and push
Threshold(k) == IF Cardinality(heap) < k THEN 0 ELSE Min({e[1] : e \in heap})

Push(e, k) ==
    LET all == heap \cup {e} IN
    IF Cardinality(all) > k
    THEN all \ {CHOOSE x \in all : \A y \in all : x = y \/ Lower(x, y)}
    ELSE all

-----------------------------------------------------------------------------
\* A list has ended: before the cursors are aligned, or by aligning them.
OutOfPostings == IF Exhausted(pos) THEN TRUE ELSE Exhausted(AtPivot)

\* A cursor jumped past the pivot.
Realign ==
    /\ ~OutOfPostings
    /\ ~Agree(AtPivot)
    /\ pos' = AtPivot
    /\ UNCHANGED <<lists, bounds, heap>>

Candidate == ~OutOfPostings /\ Agree(AtPivot)

\* The block-max test.
NotCompetitive(k) == BlockBound(AtPivot) <= Threshold(k)

\* Mutant: the first block that is not worth reading ends the loop.
WandReturnsEarly(k) ==
    \/ OutOfPostings
    \/ Candidate /\ NotCompetitive(k)

\* return heap.into_vec(), also when all cursors are in their last block and it
\* is not worth reading.
WandReturns(k) ==
    \/ OutOfPostings
    \/ Candidate /\ NotCompetitive(k) /\ NextBlockDocs(AtPivot) = {}

\* On to the first of the next blocks.
SkipBlocks(k) ==
    LET next == NextBlockDocs(AtPivot) IN
    /\ Candidate
    /\ NotCompetitive(k)
    /\ next # {}
    /\ pos' = AdvanceTo(AtPivot, Min(next))
    /\ UNCHANGED <<lists, bounds, heap>>

\* The pivot, which scores s, is offered to the heap and passed; s is 0 where
\* score_fn returns None, and only there.
Evaluate(k, s) ==
    /\ Candidate
    /\ ~NotCompetitive(k)
    /\ heap' = IF s > Threshold(k) THEN Push(<<s, Pivot>>, k) ELSE heap
    /\ pos' = AdvanceTo(AtPivot, Pivot + 1)
    /\ UNCHANGED <<lists, bounds>>
=============================================================================
