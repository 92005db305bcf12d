------------------------------- MODULE MCShard -------------------------------
(***************************************************************************)
(* ShardProperties for TLC: who calls what, and which batches are indexed. *)
(***************************************************************************)
EXTENDS ShardProperties, TLC

CONSTANTS a, b, t1, t2

OnlyA    == {<<a>>}
Singles  == {<<a>>, <<b>>}
WithPair == {<<a>>, <<b>>, <<a, b>>}

EveryCall    == [t \in Threads |-> Operations]
NoReindex    == [t \in Threads |-> Operations \ {"reindex"}]
IndexOnly    == [t \in Threads |-> {"index"}]

\* Ids and threads are interchangeable where Calls and Batches treat them alike.
Symmetric == Permutations({a, b}) \cup Permutations({t1, t2})
=============================================================================
