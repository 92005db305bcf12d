--------------------------------- MODULE Wal ---------------------------------
(***************************************************************************)
(* The write-ahead log, crates/shard/src/wal.rs.                           *)
(*                                                                         *)
(* wal.bin is an append-only sequence of records (WalRecords) that is      *)
(* never trimmed to the last good one: whatever is appended behind a torn  *)
(* record stays there.                                                     *)
(*                                                                         *)
(* Each action is the whole method, run under ShardEngine's wal mutex.     *)
(***************************************************************************)
EXTENDS WalRecords

VARIABLES
    walFile,   \* content of wal.bin (durable)
    nextSeq    \* WriteAheadLog::next_seq (volatile)

walVars == <<walFile, nextSeq>>

WalTypeOK ==
    /\ walFile \in Seq(WalRecord)
    /\ nextSeq \in Nat

-----------------------------------------------------------------------------
WalInit == walFile = << >> /\ nextSeq = 0

\* WriteAheadLog::open on an existing file.
WalOpen == nextSeq' = SeqAfter(walFile) /\ UNCHANGED walFile

\* append / append_batch: one fsync covers the whole batch.
AppendBatch(entries) ==
    /\ walFile' = walFile \o Numbered(entries, nextSeq)
    /\ nextSeq' = nextSeq + Len(entries)

\* append_batch leaving early: the first k records are in the file, record
\* k+1 failed, with some of its bytes written (torn) or none.  With k equal to
\* the length of the batch it is the fsync that failed.  next_seq has already
\* been advanced for every record that was attempted.
AppendCut(entries, k, torn) ==
    LET whole == SubSeq(Numbered(entries, nextSeq), 1, k)
        tail  == IF torn THEN <<[seq   |-> nextSeq + k,
                                 entry |-> entries[k + 1],
                                 ok    |-> FALSE]>>
                         ELSE << >>
    IN  /\ k \in 0..Len(entries)
        /\ torn => k < Len(entries)
        /\ walFile' = walFile \o whole \o tail
        /\ nextSeq' = IF k < Len(entries) THEN nextSeq + k + 1 ELSE nextSeq + k

\* truncate: the file is emptied, the counter keeps its value.
Truncate == walFile' = << >> /\ UNCHANGED nextSeq
=============================================================================
