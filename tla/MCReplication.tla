----------------------------- MODULE MCReplication -----------------------------
(***************************************************************************)
(* Replication for TLC: who calls what, and which batches are indexed.     *)
(***************************************************************************)
EXTENDS Replication

CONSTANTS a, b, t1, t2, r

Singles == {<<i>> : i \in DocIds}
Twice   == {<<a>>, <<a, a>>}

EveryCall  == [t \in Writers |-> Operations]
IndexOnly  == [t \in Writers |-> {"index"}]
=============================================================================
