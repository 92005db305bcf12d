------------------------------ MODULE WriteBuffer ------------------------------
(***************************************************************************)
(* The in-memory write buffer, crates/shard/src/write_buffer.rs.           *)
(*                                                                         *)
(* current_size_bytes is abstracted to the number of buffered documents:   *)
(* every document weighs one unit and capacity_bytes is BufferCap units.   *)
(* The cached temporary segment (segment_reader, dirty) is rebuilt before  *)
(* every search whose buffer changed, so what a search sees of the buffer  *)
(* is a function of docs and deleted_ids: LiveInBuffer.                    *)
(***************************************************************************)
EXTENDS ShardTypes

CONSTANT BufferCap       \* write_buffer_size, in documents

ASSUME BufferCapAssumption == BufferCap \in Nat \ {0}

VARIABLES
    bufDocs,      \* WriteBuffer::docs
    bufDeleted    \* WriteBuffer::deleted_ids

bufVars == <<bufDocs, bufDeleted>>

BufTypeOK ==
    /\ bufDocs \in Seq(Document)
    /\ bufDeleted \in SUBSET DocIds

BufInit == bufDocs = << >> /\ bufDeleted = {}

-----------------------------------------------------------------------------
IsFull(docs) == Len(docs) >= BufferCap

\* rebuild_segment and all_docs: the buffered documents whose id is not marked
\* deleted.  The mark is by id, so it also hides a document added after it.
LiveInBuffer == {i \in DOMAIN bufDocs : bufDocs[i].id \notin bufDeleted}

\* add, for each document of a batch under one lock.
BufAdd(docs) ==
    /\ bufDocs' = bufDocs \o docs
    /\ UNCHANGED bufDeleted

\* mark_deleted
BufMarkDeleted(id) ==
    /\ bufDeleted' = bufDeleted \cup {id}
    /\ UNCHANGED bufDocs

\* drain: the caller takes the documents; the deletion marks are reset too.
BufDrain == bufDocs' = << >> /\ bufDeleted' = {}
=============================================================================
