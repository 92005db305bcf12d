------------------------------ MODULE WalRecords ------------------------------
(***************************************************************************)
(* What wal.bin holds, and what reading it returns (crates/shard/src/      *)
(* wal.rs).                                                                *)
(*                                                                         *)
(* The file is a sequence of length-prefixed records.  A record cut short  *)
(* (by a crash or an I/O error during write_all) is an element with ok =   *)
(* FALSE: read_records cannot decode it and stops there.  (The bytes that  *)
(* follow could complete a torn record to one that decodes to a wrong      *)
(* document; not modelled.)                                                *)
(***************************************************************************)
EXTENDS ShardTypes

WalRecord == [seq : Nat, entry : WalEntry, ok : BOOLEAN]

\* read_records: the records up to the first one that cannot be decoded.
ReadableLen(f) == Max({n \in 0..Len(f) : \A i \in 1..n : f[i].ok})

ReadRecords(f) == SubSeq(f, 1, ReadableLen(f))

\* The sequence number open() continues from.
SeqAfter(f) == IF ReadableLen(f) = 0 THEN 0 ELSE f[ReadableLen(f)].seq + 1

Numbered(entries, from) ==
    [i \in 1..Len(entries) |->
        [seq |-> from + i - 1, entry |-> entries[i], ok |-> TRUE]]
=============================================================================
