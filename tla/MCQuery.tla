------------------------------- MODULE MCQuery --------------------------------
(***************************************************************************)
(* Queries for TLC: a first segment of four or five documents in blocks of *)
(* two postings, a dictionary in which one word begins with another, and   *)
(* one word that is found through a typo only.  D7 and D8 are about C, L   *)
(* hardly, so that a block of L is skipped and D8 behind it is the best.   *)
(***************************************************************************)
EXTENDS QueryProperties

A     == <<"a">>
AB    == <<"a", "b">>
C     == <<"c">>
Samsu == <<"s", "a", "m", "s", "u">>
Samsi == <<"s", "a", "m", "s", "i">>

Doc(title, desc, category, brand, price, stock) ==
    [title |-> title, desc |-> desc, category |-> category, brand |-> brand,
     price |-> price, stock |-> stock]

D1 == Doc(<<A>>, << >>, "x", Absent, 1, 2)
D2 == Doc(<<A, C>>, <<C, A>>, "y", "p", 2, Absent)
D3 == Doc(<<C>>, <<AB, A, C, C, C, C>>, "x", "p", 3, 1)
D4 == Doc(<<AB>>, <<C>>, "y", "q", 2, 3)
D5 == Doc(<<Samsu, A>>, << >>, "x", "q", 4, 2)

D7 == Doc(<<C, C, C>>, <<C>>, "x", "p", 5, 5)
D8 == Doc(<<C, C, C>>, <<C, C, C>>, "y", "q", 5, 5)
L  == Doc(<<A, C>>, <<A, A, A, A, A, A, A, A>>, "x", "p", 5, Absent)

Segment(docs, deleted) == [docs |-> docs, deleted |-> deleted]

Fours == {<<w, x, y, z>> : w, x, y, z \in {D1, D2, D3, D4}}

Fives == {<<D7, x, y, z, D8>> : x, y, z \in {D4, L}}

Books == {<<Segment(t, x), Segment(<<D5>>, {})>> : t \in Fours \cup Fives, x \in {{}, {2}}}

ByScore == [field |-> "price", order |-> "score"]
ByStock == [field |-> "stock", order |-> "desc"]
ByPrice == [field |-> "price", order |-> "asc"]

Ask(query, filters, sort, offset, limit, typo, aggregate) ==
    [asked |-> TRUE, query |-> query, filters |-> filters, sort |-> sort, offset |-> offset,
     limit |-> limit, typo |-> typo, aggregate |-> aggregate]

Asked ==
    {[Ask(<< >>, {[field |-> "stock", kind |-> "range", gte |-> Absent, lte |-> 2]},
          ByStock, 1, 2, FALSE, "brand") EXCEPT !.asked = FALSE],
     Ask(<< >>, {}, ByScore, 0, 1, FALSE, "category"),
     Ask(<<C>>, {}, ByScore, 0, 1, FALSE, "category"),
     Ask(<<A, C>>, {}, ByScore, 0, 1, FALSE, "category"),
     Ask(<<A, C>>, {[field |-> "brand", kind |-> "in", values |-> {"p", "q"}]},
         ByPrice, 0, 2, FALSE, "brand"),
     Ask(<<C, Samsi>>, {[field |-> "category", kind |-> "eq", value |-> "x"]},
         ByScore, 1, 1, TRUE, "category")}

\* 100 * ln((n + 1) / (df + 1/2)), not below 0.
LnTable ==
    [n \in 0 .. 5 |-> [df \in 0 .. 12 |->
        IF df > n THEN 0
        ELSE CASE n = 0 -> 69
               [] n = 1 -> <<138, 28>>[df + 1]
               [] n = 2 -> <<179, 69, 18>>[df + 1]
               [] n = 3 -> <<207, 98, 47, 13>>[df + 1]
               [] n = 4 -> <<230, 120, 69, 35, 10>>[df + 1]
               [] n = 5 -> <<248, 138, 87, 53, 28, 8>>[df + 1]]]
=============================================================================
