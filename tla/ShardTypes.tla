------------------------------ MODULE ShardTypes ------------------------------
(***************************************************************************)
(* Values shared by the shard's modules: documents, WAL entries, and the   *)
(* order-preserving filter that Rust's iterator chains over a Vec compute. *)
(*                                                                         *)
(* A document (crates/core/src/types.rs) keeps only what the storage layer *)
(* tells apart: its global id, and a version number that stands for the    *)
(* content of one particular write of that id.  Title, description, price, *)
(* category and attributes never influence where a document is stored.     *)
(***************************************************************************)
EXTENDS Naturals, Sequences, FiniteSets, FiniteSetsExt

CONSTANT DocIds          \* the global document ids clients use

ASSUME DocIdsAssumption == IsFiniteSet(DocIds) /\ DocIds # {}

Document == [id : DocIds, ver : Nat]

\* WalEntry::Index(doc) and WalEntry::Delete(doc_id).  A delete names an id
\* only; its version is 0, which no write uses.
WalEntry == [op : {"index", "delete"}, doc : Document]

IndexEntry(d)  == [op |-> "index", doc |-> d]
DeleteEntry(i) == [op |-> "delete", doc |-> [id |-> i, ver |-> 0]]

-----------------------------------------------------------------------------
(***************************************************************************)
(* Filtering a Vec of Vecs.  A position is a pair <<i, l>>: element l of   *)
(* row i.  Gather(rows, P) is the sequence of the elements of rows at the  *)
(* positions P, row by row and in order within a row, which is what        *)
(* iter().flat_map(..).filter(..).collect() and Vec::retain produce.  It   *)
(* is written with ranks instead of recursion, so that TLAPS can use it.   *)
(***************************************************************************)
Before(p, q) == p[1] < q[1] \/ (p[1] = q[1] /\ p[2] < q[2])

Rank(P, p) == Cardinality({q \in P : Before(q, p)})

\* The k-th smallest position of the finite set P.
Nth(P, k) == CHOOSE p \in P : Rank(P, p) = k - 1

Gather(rows, P) ==
    [k \in 1..Cardinality(P) |-> rows[Nth(P, k)[1]][Nth(P, k)[2]]]

\* The elements of s whose index is in Keep, in order.
Retain(s, Keep) == Gather([i \in DOMAIN s |-> <<s[i]>>], Keep \X {1})

\* The elements of the finite set of numbers S in ascending order.
Ascending(S) == [k \in 1..Cardinality(S) |-> Nth(S \X {1}, k)[1]]
=============================================================================
