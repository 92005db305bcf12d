------------------------------ MODULE MCSuggest -------------------------------
(***************************************************************************)
(* Autocomplete for TLC: two shards share the terms W and Wi; W is itself  *)
(* a prefix of Wi.  The first shard has more terms than it may keep, and   *)
(* a document that repeats a word.                                         *)
(***************************************************************************)
EXTENDS SuggestEngine

W  == <<2>>
Wi == <<2, 1>>
X  == <<3>>

Texts == [d \in {1, 2, 3} |->
    CASE d = 1 -> [title |-> <<W, Wi, W>>, category |-> << >>]
      [] d = 2 -> [title |-> <<W>>, category |-> <<X>>]
      [] d = 3 -> [title |-> <<Wi, W>>, category |-> << >>]]

TwoAndOne == <<1, 1, 2>>

Written == <<<<1, 2, 3>>, <<2>>>>

Questions == {[prefix |-> W, limit |-> 5], [prefix |-> W, limit |-> 1],
              [prefix |-> << >>, limit |-> 1], [prefix |-> <<2, 1, 1>>, limit |-> 1]}
=============================================================================
