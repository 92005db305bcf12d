------------------------------- MODULE MCRouter -------------------------------
(***************************************************************************)
(* Router for TLC: two shards, the first with as many documents as a       *)
(* search asks it for, so that a copy or a batch pushes one out.           *)
(***************************************************************************)
EXTENDS Router

FourAndOne  == [d \in DocIds |-> IF d = 5 THEN 2 ELSE 1]
Bm25        == <<5, 3, 2, 1, 4>>
ByRanker    == <<1, 2, 4, 5, 3>>
Stock       == [z \in {"", "z"} |-> IF z = "z" THEN {1, 2, 4} ELSE DocIds]

InZone      == [zone |-> "z", offset |-> 0, limit |-> 1]
Anywhere    == [zone |-> "", offset |-> 0, limit |-> 1]
TooMany     == [zone |-> "", offset |-> 0, limit |-> 3]

Asked       == {InZone, Anywhere, TooMany}
\* 0 has no title, and as an item no proper id.
Written     == {[kind |-> "docs", items |-> {4, 5}], [kind |-> "docs", items |-> {0, 4}],
                [kind |-> "meli", items |-> {0, 5}]}

\* For the liveness run.
NothingWritten == {}
=============================================================================
