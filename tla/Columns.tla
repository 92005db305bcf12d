------------------------------- MODULE Columns --------------------------------
(***************************************************************************)
(* The column store of a segment, crates/index/src/column.rs: what         *)
(* SegmentWriter::write puts into it, the filters and the aggregation.     *)
(* Ordinals and document numbers count from 1, so 0 can stand for the      *)
(* sentinel u32::MAX.                                                      *)
(***************************************************************************)
EXTENDS Integers, Sequences, SequencesExt, FiniteSets, FiniteSetsExt

\* An attribute a document does not have, or has with another type.
CONSTANT Absent

Missing == 0

EmptyKeyword == [dict |-> << >>, ords |-> << >>]
EmptyNumeric == [values |-> << >>, present |-> << >>]

OrdinalOf(dict, v) == CHOOSE i \in DOMAIN dict : dict[i] = v

\* KeywordColumnWriter::add and add_missing
AddKeyword(col, v) ==
    IF v = Absent THEN [col EXCEPT !.ords = Append(@, Missing)]
    ELSE IF v \in ToSet(col.dict)
    THEN [col EXCEPT !.ords = Append(@, OrdinalOf(col.dict, v))]
    ELSE [dict |-> Append(col.dict, v),
          ords |-> Append(col.ords, Len(col.dict) + 1)]

\* NumericColumnWriter::add and add_missing
AddNumber(col, v) ==
    [values  |-> Append(col.values, IF v = Absent THEN 0 ELSE v),
     present |-> Append(col.present, v # Absent)]

\* ColumnStore as SegmentWriter::write fills it.
ColumnsOf(docs) ==
    [category |-> FoldLeft(LAMBDA c, d : AddKeyword(c, d.category), EmptyKeyword, docs),
     brand    |-> FoldLeft(LAMBDA c, d : AddKeyword(c, d.brand), EmptyKeyword, docs),
     price    |-> FoldLeft(LAMBDA c, d : AddNumber(c, d.price), EmptyNumeric, docs),
     stock    |-> FoldLeft(LAMBDA c, d : AddNumber(c, d.stock), EmptyNumeric, docs)]

KeywordFields == {"category", "brand"}
NumericFields == {"price", "stock"}

-----------------------------------------------------------------------------
\* filter_in; filter_eq is the case of one value.
FilterIn(cols, field, values) ==
    IF field \notin KeywordFields THEN {}
    ELSE LET col     == cols[field]
             targets == {i \in DOMAIN col.dict : col.dict[i] \in values}
         IN  {d \in DOMAIN col.ords : col.ords[d] \in targets}

FilterEq(cols, field, value) == FilterIn(cols, field, {value})

\* Mutant: a missing value is compared like the 0.0 stored for it.
FilterRangeDense(cols, field, gte, lte) ==
    IF field \notin NumericFields THEN {}
    ELSE LET col == cols[field] IN
         {d \in DOMAIN col.values :
             /\ gte = Absent \/ col.values[d] >= gte
             /\ lte = Absent \/ col.values[d] <= lte}

\* filter_range; a bound may be absent.
FilterRange(cols, field, gte, lte) ==
    IF field \notin NumericFields THEN {}
    ELSE LET col == cols[field] IN
         {d \in DOMAIN col.values :
             /\ col.present[d]
             /\ gte = Absent \/ col.values[d] >= gte
             /\ lte = Absent \/ col.values[d] <= lte}

\* Mutant: every document of the segment is counted.
AggregateCountsAll(cols, field, matching) ==
    IF field \notin KeywordFields THEN << >>
    ELSE LET col  == cols[field]
             n(v) == Cardinality({d \in DOMAIN col.ords :
                                     col.ords[d] = OrdinalOf(col.dict, v)})
         IN  [v \in {w \in ToSet(col.dict) : n(w) > 0} |-> n(v)]

\* aggregate_counts: the values that occur in matching, with their number.
AggregateCounts(cols, field, matching) ==
    IF field \notin KeywordFields THEN << >>
    ELSE LET col  == cols[field]
             n(v) == Cardinality({d \in matching \cap DOMAIN col.ords :
                                     col.ords[d] = OrdinalOf(col.dict, v)})
         IN  [v \in {w \in ToSet(col.dict) : n(w) > 0} |-> n(v)]
=============================================================================
