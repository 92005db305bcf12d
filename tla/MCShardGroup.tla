----------------------------- MODULE MCShardGroup -----------------------------
(***************************************************************************)
(* ShardGroup for TLC: a primary and a replica, read by two callers.       *)
(***************************************************************************)
EXTENDS ShardGroup

CONSTANTS p, r

PrimaryAndReplica == <<p, r>>
=============================================================================
