----------------------------- MODULE SuggestEngine -----------------------------
(***************************************************************************)
(* Autocomplete: the suggest shards (crates/suggest/src), the router's     *)
(* writes to them and questions of them (fan_out_suggest_write and suggest *)
(* in crates/router/src/router.rs), the flush task of the server process   *)
(* and the HTTP handler (crates/server/src/main.rs).                       *)
(*                                                                         *)
(* A term is a sequence of letters, and a letter a number, so that terms   *)
(* have the order of the index.  Texts are their words, in lower case.     *)
(***************************************************************************)
EXTENDS Naturals, Sequences, SequencesExt, FiniteSets, FiniteSetsExt

CONSTANTS
    Docs,
    Words,          \* Words[d][f]: the words of the field f of d
    Shards,
    ShardOf,        \* jump_consistent_hash of an id (external to this module)
    MinFrequency,   \* min_doc_frequency
    MaxTerms,       \* max_terms_per_shard, 0 for no limit
    Batches,        \* Batches[n]: the documents of the n-th write
    Asked,          \* the [prefix, limit] users ask for
    MaxPrefix,      \* 100 in the handler
    MaxLimit,       \* 20 in the handler
    Users,
    MaxCrashes,     \* bound: crashes of suggest shards
    MaxCalls        \* bound: Flush calls

ASSUME SuggestAssumption ==
    /\ MinFrequency \in Nat /\ MaxTerms \in Nat
    /\ MaxPrefix \in Nat /\ MaxLimit \in Nat \ {0}
    /\ MaxCrashes \in Nat /\ MaxCalls \in Nat
    /\ IsFiniteSet(Docs) /\ IsFiniteSet(Shards)
    /\ ShardOf \in [Docs -> Shards]
    /\ \A d \in Docs : /\ IsFiniteSet(DOMAIN Words[d])
                      /\ \A f \in DOMAIN Words[d] : Words[d][f] \in Seq(Seq(Nat))
    /\ Batches \in Seq(Seq(Docs))
    /\ \A r \in Asked : r \in [prefix : Seq(Nat), limit : Nat]

\* The task on the 5 second ticker, and a Flush call.
Flushers == {"ticker", "rpc"}

TermsOf(d) == UNION {ToSet(Words[d][f]) : f \in DOMAIN Words[d]}

Terms == UNION {TermsOf(d) : d \in Docs}

Fields == UNION {DOMAIN Words[d] : d \in Docs}

\* The document d has the term t in its field f.
Has(d, f, t) == f \in DOMAIN Words[d] /\ t \in ToSet(Words[d][f])

VARIABLES
    up,        \* up[s]: the process of s runs
    counts,    \* counts[s]: SuggestIndexBuilder, 0 for a term it has not met
    index,     \* index[s]: SuggestIndex, as it is queried
    flush,     \* flush[s][f]: a snapshot that f has taken and not published
    tasks,     \* detached tasks writing to a shard
    ask,       \* ask[u]: the question of u and what the shards said
    fed,       \* history: fed[s][d] deliveries of d since s was started
    writes,
    crashes,
    calls

vars == <<up, counts, index, flush, tasks, ask, fed, writes, crashes, calls>>

-----------------------------------------------------------------------------
\* Mutant: every occurrence counts.
AddAllWords(cnt, docs) ==
    [t \in Terms |-> cnt[t] + Cardinality(
        UNION {{<<j, f, i>> : i \in {x \in DOMAIN Words[docs[j]][f] :
                                        Words[docs[j]][f][x] = t}} :
               j \in DOMAIN docs, f \in Fields})]

\* SuggestShardEngine::bulk and add_document: a term counts once for each field of
\* each document that has it.
AddAll(cnt, docs) ==
    [t \in Terms |->
        cnt[t] + Cardinality({p \in (DOMAIN docs) \X Fields : Has(docs[p[1]], p[2], t)})]

Precedes(t, u) ==
    \/ t # u /\ IsPrefix(t, u)
    \/ \E i \in DOMAIN t \cap DOMAIN u :
          t[i] < u[i] /\ \A j \in 1 .. i - 1 : t[j] = u[j]

Lexicographic == {p \in Terms \X Terms : Precedes(p[1], p[2])}

\* The place of x among the elements of S, and S as a list: sort_by for the order R.
Rank(S, R, x) == Cardinality({y \in S : <<y, x>> \in R})

InOrder(S, R) ==
    [k \in 1 .. Cardinality(S) |-> CHOOSE x \in S : Rank(S, R, x) = k - 1]

\* An index, from the terms kept and their counts; the score of a term is
\* freq / max.
NewIndex(kept, cnt) ==
    [freq |-> [t \in kept |-> cnt[t]],
     max  |-> Max({1} \cup {cnt[t] : t \in kept})]

EmptyIndex == NewIndex({}, << >>)

\* The n elements of S that rank first by value, whichever they are among equals.
Best(S, value(_), n) ==
    {T \in SUBSET S : /\ Cardinality(T) = Min({n, Cardinality(S)})
                      /\ \A t \in T, u \in S \ T : value(t) >= value(u)}

\* What SuggestIndexBuilder::snapshot may return.
Snapshots(cnt) ==
    LET met  == {t \in Terms : cnt[t] > 0 /\ cnt[t] >= MinFrequency}
        most == IF MaxTerms = 0 THEN Cardinality(met) ELSE MaxTerms
    IN  {NewIndex(kept, cnt) : kept \in Best(met, LAMBDA t : cnt[t], most)}

Entry(idx, t) == [term |-> t, num |-> idx.freq[t], den |-> idx.max]

\* The list an index is, as SuggestIndex::new has sorted it.
SortedTerms(idx) == InOrder(DOMAIN idx.freq, Lexicographic)

\* Mutant: the range starts behind the prefix itself.
MatchesAfter(idx, prefix) ==
    LET terms == SortedTerms(idx)
        start == Cardinality({i \in DOMAIN terms :
                                 terms[i] = prefix \/ Precedes(terms[i], prefix)}) + 1
    IN  {terms[i] : i \in {j \in start .. Len(terms) :
            \A k \in start .. j : IsPrefix(prefix, terms[k])}}

\* partition_point and take_while in SuggestIndex::query
Matches(idx, prefix) ==
    LET terms == SortedTerms(idx)
        start == Cardinality({i \in DOMAIN terms : Precedes(terms[i], prefix)}) + 1
    IN  {terms[i] : i \in {j \in start .. Len(terms) :
            \A k \in start .. j : IsPrefix(prefix, terms[k])}}

\* What SuggestIndex::query may return.
Query(idx, prefix, limit) ==
    IF prefix = << >> \/ limit = 0 THEN {{}}
    ELSE {{Entry(idx, t) : t \in T} :
             T \in Best(Matches(idx, prefix), LAMBDA t : idx.freq[t], limit)}

-----------------------------------------------------------------------------
Higher(a, b) == a.num * b.den > b.num * a.den

\* The map of the best entry per term, sorted and truncated, in Router::suggest.
Merged(entries, limit) ==
    LET best   == {e \in entries : \A x \in entries : x.term = e.term => ~Higher(x, e)}
        before(a, b) == Higher(a, b) \/ (~Higher(b, a) /\ Precedes(a.term, b.term))
        terms  == {e.term : e \in best}
        \* two shards may have the same score as different fractions
        one(t) == CHOOSE e \in best : e.term = t
        kept   == {one(t) : t \in terms}
        sorted == InOrder(kept, {p \in kept \X kept : before(p[1], p[2])})
    IN  SubSeq(sorted, 1, Min({limit, Len(sorted)}))

Waiting == [st |-> "wait", entries |-> {}, idx |-> EmptyIndex]

Idle == [pc |-> "idle", req |-> [prefix |-> << >>, limit |-> 0],
         got |-> [s \in Shards |-> Waiting], out |-> << >>]

Zero == [t \in Terms |-> 0]

Never == [d \in Docs |-> 0]

NoFlush == [f \in Flushers |-> {}]

Init ==
    /\ up = [s \in Shards |-> TRUE]
    /\ counts = [s \in Shards |-> Zero]
    /\ index = [s \in Shards |-> EmptyIndex]
    /\ flush = [s \in Shards |-> NoFlush]
    /\ tasks = {}
    /\ ask = [u \in Users |-> Idle]
    /\ fed = [s \in Shards |-> Never]
    /\ writes = 0
    /\ crashes = 0
    /\ calls = 0

-----------------------------------------------------------------------------
\* fan_out_suggest_write, as index and bulk_index call it: one detached task per
\* shard that has documents in the batch.
Write ==
    LET batch   == Batches[writes + 1]
        part(s) == [j \in {i \in DOMAIN batch : ShardOf[batch[i]] = s} |-> batch[j]]
    IN
    /\ writes < Len(Batches)
    /\ writes' = writes + 1
    /\ tasks' = tasks \cup {[write |-> writes, shard |-> s, docs |-> part(s)] :
                               s \in {x \in Shards : DOMAIN part(x) # {}}}
    /\ UNCHANGED <<up, counts, index, flush, ask, fed, crashes, calls>>

\* SuggestShardEngine::bulk under the builder's write lock; whether its answer
\* arrives before the timeout makes no difference.
Deliver(k) ==
    /\ up[k.shard]
    /\ tasks' = tasks \ {k}
    /\ counts' = [counts EXCEPT ![k.shard] = AddAll(@, k.docs)]
    /\ fed' = [fed EXCEPT ![k.shard] =
                  [d \in Docs |-> @[d] + Cardinality({j \in DOMAIN k.docs : k.docs[j] = d})]]
    /\ UNCHANGED <<up, index, flush, ask, writes, crashes, calls>>

\* An error or a timeout: the write is counted in a metric and forgotten.
Drop(k) ==
    /\ tasks' = tasks \ {k}
    /\ UNCHANGED <<up, counts, index, flush, ask, fed, writes, crashes, calls>>

\* Mutant: no new snapshot while the number of terms is the same.
SnapshotIfGrown(s, f) ==
    /\ up[s]
    /\ flush[s][f] = {}
    /\ f = "rpc" => calls < MaxCalls
    /\ calls' = IF f = "rpc" THEN calls + 1 ELSE calls
    /\ \E idx \in Snapshots(counts[s]) :
          /\ Cardinality(DOMAIN idx.freq) # Cardinality(DOMAIN index[s].freq)
          /\ flush' = [flush EXCEPT ![s][f] = {idx}]
    /\ UNCHANGED <<up, counts, index, tasks, ask, fed, writes, crashes>>

\* SuggestShardEngine::flush, the snapshot under the builder's read lock ...
Snapshot(s, f) ==
    /\ up[s]
    /\ flush[s][f] = {}
    /\ f = "rpc" => calls < MaxCalls
    /\ calls' = IF f = "rpc" THEN calls + 1 ELSE calls
    /\ \E idx \in Snapshots(counts[s]) :
          flush' = [flush EXCEPT ![s][f] = {idx}]
    /\ UNCHANGED <<up, counts, index, tasks, ask, fed, writes, crashes>>

\* ... and its publication under the index's write lock.
Publish(s, f) ==
    /\ \E idx \in flush[s][f] : index' = [index EXCEPT ![s] = idx]
    /\ flush' = [flush EXCEPT ![s][f] = {}]
    /\ UNCHANGED <<up, counts, tasks, ask, fed, writes, crashes, calls>>

\* Nothing of a suggest shard is on disk.
Crash(s) ==
    /\ up[s]
    /\ crashes < MaxCrashes
    /\ crashes' = crashes + 1
    /\ up' = [up EXCEPT ![s] = FALSE]
    /\ counts' = [counts EXCEPT ![s] = Zero]
    /\ index' = [index EXCEPT ![s] = EmptyIndex]
    /\ flush' = [flush EXCEPT ![s] = NoFlush]
    /\ fed' = [fed EXCEPT ![s] = Never]
    /\ UNCHANGED <<tasks, ask, writes, calls>>

Restart(s) ==
    /\ ~up[s]
    /\ up' = [up EXCEPT ![s] = TRUE]
    /\ UNCHANGED <<counts, index, flush, tasks, ask, fed, writes, crashes, calls>>

-----------------------------------------------------------------------------
\* limit.clamp(1, 20)
Clamp(n) == Max({1, Min({n, MaxLimit})})

\* The HTTP handler: no text gets no suggestion, too long a text an error.
Turned(u, r) ==
    /\ ask[u].pc # "wait"
    /\ r.prefix = << >> \/ Len(r.prefix) > MaxPrefix
    /\ ask' = [ask EXCEPT ![u] =
                  [Idle EXCEPT !.pc = IF r.prefix = << >> THEN "done" ELSE "rejected"]]
    /\ UNCHANGED <<up, counts, index, flush, tasks, fed, writes, crashes, calls>>

\* Router::suggest asks every shard at once.
Suggest(u, r) ==
    /\ ask[u].pc # "wait"
    /\ r.prefix # << >> /\ Len(r.prefix) <= MaxPrefix
    /\ ask' = [ask EXCEPT ![u] =
                  [Idle EXCEPT !.pc = "wait",
                               !.req = [r EXCEPT !.limit = Clamp(@)]]]
    /\ UNCHANGED <<up, counts, index, flush, tasks, fed, writes, crashes, calls>>

\* SuggestShardEngine::suggest on the index of the moment.
ShardAnswers(u, s) ==
    /\ ask[u].pc = "wait"
    /\ ask[u].got[s].st = "wait"
    /\ up[s]
    /\ \E entries \in Query(index[s], ask[u].req.prefix, ask[u].req.limit) :
          ask' = [ask EXCEPT ![u].got[s] =
                     [st |-> "ok", entries |-> entries, idx |-> index[s]]]
    /\ UNCHANGED <<up, counts, index, flush, tasks, fed, writes, crashes, calls>>

\* An error or suggest_query_timeout: the shard's terms are missing.
ShardTimesOut(u, s) ==
    /\ ask[u].pc = "wait"
    /\ ask[u].got[s].st = "wait"
    /\ ask' = [ask EXCEPT ![u].got[s].st = "failed"]
    /\ UNCHANGED <<up, counts, index, flush, tasks, fed, writes, crashes, calls>>

\* join_all, merge and answer.
Answer(u) ==
    LET got == ask[u].got IN
    /\ ask[u].pc = "wait"
    /\ \A s \in Shards : got[s].st # "wait"
    /\ ask' = [ask EXCEPT ![u] =
                  [Idle EXCEPT !.pc = "done",
                               !.out = Merged(UNION {got[s].entries : s \in Shards},
                                              ask[u].req.limit)]]
    /\ UNCHANGED <<up, counts, index, flush, tasks, fed, writes, crashes, calls>>

-----------------------------------------------------------------------------
Next ==
    \/ Write
    \/ \E k \in tasks : Deliver(k) \/ Drop(k)
    \/ \E s \in Shards : Crash(s) \/ Restart(s)
    \/ \E s \in Shards, f \in Flushers : Snapshot(s, f) \/ Publish(s, f)
    \/ \E u \in Users, r \in Asked : Turned(u, r) \/ Suggest(u, r)
    \/ \E u \in Users, s \in Shards : ShardAnswers(u, s) \/ ShardTimesOut(u, s)
    \/ \E u \in Users : Answer(u)

Spec == Init /\ [][Next]_vars

\* The ticker ticks and a flush that was begun ends; nothing else has to happen.
Fairness ==
    /\ \A s \in Shards : WF_vars(Snapshot(s, "ticker"))
    /\ \A s \in Shards, f \in Flushers : WF_vars(Publish(s, f))

FairSpec == Spec /\ Fairness

-----------------------------------------------------------------------------
Suggestion == [term : Terms, num : Nat, den : Nat \ {0}]

IndexType(idx) ==
    /\ DOMAIN idx.freq \subseteq Terms
    /\ \A t \in DOMAIN idx.freq : idx.freq[t] \in Nat
    /\ idx.max \in Nat \ {0}

\* The documents of the task k are some of its write.
TaskType(k) ==
    /\ k.write \in 0 .. writes - 1
    /\ k.shard \in Shards
    /\ DOMAIN k.docs \subseteq DOMAIN Batches[k.write + 1]
    /\ \A j \in DOMAIN k.docs : k.docs[j] \in Docs

\* What the shard said, and the index it had then.
ReplyType(y) ==
    /\ y = [st |-> y.st, entries |-> y.entries, idx |-> y.idx]
    /\ y.st \in {"wait", "ok", "failed"}
    /\ y.entries \subseteq Suggestion
    /\ IndexType(y.idx)

QuestionType(q) ==
    /\ q = [pc |-> q.pc, req |-> q.req, got |-> q.got, out |-> q.out]
    /\ q.pc \in {"idle", "wait", "done", "rejected"}
    /\ q.req \in [prefix : Seq(Nat), limit : Nat]
    /\ DOMAIN q.got = Shards
    /\ \A s \in Shards : ReplyType(q.got[s])
    /\ q.out \in Seq(Suggestion)

TypeOK ==
    /\ up \in [Shards -> BOOLEAN]
    /\ counts \in [Shards -> [Terms -> Nat]]
    /\ DOMAIN index = Shards
    /\ \A s \in Shards : IndexType(index[s])
    /\ DOMAIN flush = Shards
    /\ \A s \in Shards : /\ DOMAIN flush[s] = Flushers
                         /\ \A f \in Flushers : \A x, y \in flush[s][f] :
                               x = y /\ IndexType(x)
    /\ \A k \in tasks : TaskType(k)
    /\ DOMAIN ask = Users
    /\ \A u \in Users : QuestionType(ask[u])
    /\ fed \in [Shards -> [Docs -> Nat]]
    /\ writes \in 0 .. Len(Batches)
    /\ crashes \in 0 .. MaxCrashes
    /\ calls \in 0 .. MaxCalls

\* Every entry with the prefix in the indexes of the shards that answered.
AllEntries(r, got) ==
    UNION {{Entry(got[s].idx, t) :
               t \in {x \in DOMAIN got[s].idx.freq : IsPrefix(r.prefix, x)}} :
           s \in {x \in Shards : got[x].st = "ok"}}

Exact(r, got, out) ==
    LET all   == AllEntries(r, got)
        terms == {e.term : e \in all}
    IN  /\ Len(out) = Min({r.limit, Cardinality(terms)})
        /\ Cardinality({out[i].term : i \in DOMAIN out}) = Len(out)
        /\ \A i \in DOMAIN out :
              /\ out[i] \in all
              /\ \A e \in all : e.term = out[i].term => ~Higher(e, out[i])
              /\ \A j \in 1 .. i - 1 : ~Higher(out[i], out[j])
              /\ \A e \in all : Higher(e, out[i]) =>
                    \E j \in 1 .. i - 1 : out[j].term = e.term

\* The answer to a question is as good as if the router had seen the whole index
\* of every shard that answered, as it was then: as many terms as there are, up
\* to the limit; every one with the best score any of these shards gives it; and
\* no other term with a higher score, although each shard sends its own best
\* ones only and terms are spread over shards (SuggestIndex::query,
\* Router::suggest).
SuggestExact ==
    [][\A u \in Users : (ask[u].pc = "wait" /\ ask'[u].pc = "done") =>
        Exact(ask[u].req, ask[u].got, ask'[u].out)]_vars

\* The fields with the term t of documents that s got since it was started.
FieldsFed(s, t) ==
    {p \in Docs \X Fields : fed[s][p[1]] > 0 /\ Has(p[1], p[2], t)}

\* As long as a shard has got no document twice since it was started, no term it
\* suggests, or is about to, has a higher frequency than there are fields of
\* documents it got that contain the term, however flushes, crashes and late
\* writes interleave (add_document, flush).
FrequencyDeserved ==
    \A s \in Shards : (\A d \in Docs : fed[s][d] <= 1) =>
        \A idx \in {index[s]} \cup UNION {flush[s][f] : f \in Flushers} :
            \A t \in DOMAIN idx.freq : idx.freq[t] <= Cardinality(FieldsFed(s, t))

\* What is suggested catches up with what was counted, for good once the writes
\* have stopped: a flush that publishes an older snapshot over a newer one is
\* repaired by the next tick (flush, the background flush task).
EventuallyFresh ==
    \A s \in Shards : <>[](up[s] => index[s] \in Snapshots(counts[s]))

\* "If all suggest shards are unavailable, the endpoint returns 503"
\* (spec/008-autocomplete/requirements.md): a question gets a list only if some
\* shard runs or did answer (Router::suggest, the handler suggest).
AllDownIsAnError ==
    [][\A u \in Users : (ask[u].pc = "wait" /\ ask'[u].pc = "done") =>
        \E s \in Shards : up[s] \/ ask[u].got[s].st = "ok"]_vars
-----------------------------------------------------------------------------
(***************************************************************************)
(* What SuggestProofs needs besides: snapshots are taken from counts that  *)
(* are deserved, and the router holds the best terms of an index.          *)
(***************************************************************************)
CountsDeserved ==
    \A s \in Shards : (\A d \in Docs : fed[s][d] <= 1) =>
        \A t \in Terms : counts[s][t] <= Cardinality(FieldsFed(s, t))

\* got is what the shards said to r so far.
SoundAnswers(r, got) ==
    \A s \in Shards :
        IF got[s].st = "ok" THEN got[s].entries \in Query(got[s].idx, r.prefix, r.limit)
                            ELSE got[s].entries = {}

AnswersSound ==
    \A u \in Users : ask[u].pc = "wait" =>
        /\ ask[u].req.prefix # << >> /\ ask[u].req.limit # 0
        /\ SoundAnswers(ask[u].req, ask[u].got)
=============================================================================
