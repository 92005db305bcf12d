----------------------------- MODULE RouterProofs -----------------------------
(***************************************************************************)
(* Proofs about the router, for any documents, shards, scores, zones,      *)
(* requests, batches, callers and writers: a response for a zone shows     *)
(* only its stock (ZoneRespected), a bulk write that returns Ok has stored *)
(* and counted its documents (BulkOkStored), and an undisturbed search is  *)
(* exact (ExactWhenClean).                                                 *)
(***************************************************************************)
EXTENDS Router, ShardTypesProofs

-----------------------------------------------------------------------------
(* Sorting, filtering and pages *)

Scores == {f \in [DocIds -> Nat] : \A d, e \in DocIds : f[d] = f[e] => d = e}

\* Both scores order the documents.
LEMMA ScoresOrder == Score \in Scores /\ RankScore \in Scores
BY RouterAssumption DEF Scores

\* A set of documents is finite.
LEMMA DocsFinite ==
    ASSUME NEW S \in SUBSET DocIds
    PROVE  IsFiniteSet(S) /\ Cardinality(S) \in Nat
<1>1. IsFiniteSet(S)  BY DocIdsAssumption, FS_Subset
<1>. QED  BY <1>1, FS_CardinalityType

\* A part of a finite set of hits is one, with no more hits.
LEMMA PartFinite ==
    ASSUME NEW S \in HitSets, NEW T \in SUBSET S
    PROVE  /\ T \in HitSets
           /\ Cardinality(S) \in Nat /\ Cardinality(T) \in Nat
           /\ Cardinality(T) <= Cardinality(S)
           /\ Cardinality(T) = Cardinality(S) => T = S
<1>1. IsFiniteSet(S) /\ S \in SUBSET Copy  BY DEF HitSets
<1>2. IsFiniteSet(T) /\ Cardinality(T) <= Cardinality(S)
      /\ (Cardinality(S) = Cardinality(T) => S = T)
  BY <1>1, FS_Subset
<1>3. Cardinality(S) \in Nat /\ Cardinality(T) \in Nat  BY <1>1, <1>2, FS_CardinalityType
<1>. QED  BY <1>1, <1>2, <1>3 DEF HitSets

\* Above orders the hits.
LEMMA AboveOrders ==
    ASSUME NEW f \in Scores, NEW g \in Copy, NEW h \in Copy
    PROVE  /\ ~Above(f, g, g)
           /\ ~(Above(f, g, h) /\ Above(f, h, g))
           /\ Above(f, g, h) \/ Above(f, h, g) \/ g = h
           /\ \A k \in Copy : Above(f, g, h) /\ Above(f, h, k) => Above(f, g, k)
<1>1. \A x \in Copy : x[1] \in DocIds /\ f[x[1]] \in Nat /\ x[2] \in Nat /\ x = <<x[1], x[2]>>
  BY DEF Copy, Scores
<1>2. \A x, y \in Copy : f[x[1]] = f[y[1]] => x[1] = y[1]  BY <1>1 DEF Scores
<1>3. ~Above(f, g, g)  BY <1>1 DEF Above
<1>4. ~(Above(f, g, h) /\ Above(f, h, g))  BY <1>1 DEF Above
<1>5. Above(f, g, h) \/ Above(f, h, g) \/ g = h
  <2>1. g[1] = h[1] => g[2] < h[2] \/ h[2] < g[2] \/ g = h  BY <1>1
  <2>2. g[1] # h[1] => f[g[1]] > f[h[1]] \/ f[h[1]] > f[g[1]]  BY <1>1, <1>2
  <2>. QED  BY <2>1, <2>2 DEF Above
<1>6. ASSUME NEW k \in Copy, Above(f, g, h), Above(f, h, k) PROVE Above(f, g, k)
  BY <1>1, <1>6 DEF Above
<1>. QED  BY <1>3, <1>4, <1>5, <1>6

\* What is ahead of a hit is part of the set, without the hit.
LEMMA AheadFinite ==
    ASSUME NEW S \in HitSets, NEW f \in Scores, NEW d \in S
    PROVE  /\ Ahead(S, f, d) \in HitSets
           /\ Cardinality(Ahead(S, f, d)) \in Nat
           /\ Cardinality(Ahead(S, f, d)) < Cardinality(S)
<1>1. Ahead(S, f, d) \in SUBSET S  BY DEF Ahead
<1>2. d \notin Ahead(S, f, d)  BY AboveOrders DEF Ahead, HitSets
<1>. QED  BY <1>1, <1>2, PartFinite

\* Of two hits the one that comes first has fewer ahead of it.
LEMMA AheadMonotonic ==
    ASSUME NEW S \in HitSets, NEW f \in Scores,
           NEW d \in S, NEW e \in S, Above(f, d, e)
    PROVE  Cardinality(Ahead(S, f, d)) < Cardinality(Ahead(S, f, e))
<1> DEFINE A == Ahead(S, f, d)
           B == Ahead(S, f, e)
<1>0. S \in SUBSET Copy  BY DEF HitSets
<1>1. A \in SUBSET B
  <2> SUFFICES ASSUME NEW x \in A PROVE x \in B  OBVIOUS
  <2>1. x \in S /\ Above(f, x, d)  BY DEF Ahead
  <2>2. Above(f, x, e)  BY <1>0, <2>1, AboveOrders
  <2>. QED  BY <2>1, <2>2 DEF Ahead
<1>2. d \in B /\ d \notin A  BY <1>0, AboveOrders DEF Ahead
<1>3. B \in HitSets  BY AheadFinite
<1>. HIDE DEF A, B
<1>4. Cardinality(A) < Cardinality(B)
  <2>1. /\ Cardinality(A) \in Nat /\ Cardinality(B) \in Nat
        /\ Cardinality(A) <= Cardinality(B)
        /\ Cardinality(A) = Cardinality(B) => A = B
    BY <1>1, <1>3, PartFinite
  <2>. QED  BY <1>2, <2>1
<1>. QED  BY <1>4 DEF A, B

\* The number of hits ahead says which hit it is.
LEMMA AheadInjective ==
    ASSUME NEW S \in HitSets, NEW f \in Scores, NEW d \in S, NEW e \in S,
           Cardinality(Ahead(S, f, d)) = Cardinality(Ahead(S, f, e))
    PROVE  d = e
<1> SUFFICES ASSUME d # e PROVE FALSE  OBVIOUS
<1>1. Above(f, d, e) \/ Above(f, e, d)  BY AboveOrders DEF HitSets
<1>2. Cardinality(Ahead(S, f, d)) \in Nat  BY AheadFinite
<1>. QED  BY <1>1, <1>2, AheadMonotonic

\* Every place of the order is taken.
LEMMA AheadSurjective ==
    ASSUME NEW S \in HitSets, NEW f \in Scores, NEW k \in 1..Cardinality(S)
    PROVE  \E d \in S : Cardinality(Ahead(S, f, d)) = k - 1
<1> DEFINE n == Cardinality(S)
           r == [d \in S |-> Cardinality(Ahead(S, f, d)) + 1]
<1>1. IsFiniteSet(S) /\ n \in Nat  BY PartFinite DEF HitSets
<1>2. ASSUME NEW d \in S
      PROVE  Cardinality(Ahead(S, f, d)) \in Nat /\ Cardinality(Ahead(S, f, d)) < n
  BY AheadFinite
<1>3. r \in [S -> 1..n]  BY <1>1, <1>2
<1>4. \A d, e \in S : r[d] = r[e] => d = e
  <2> TAKE d, e \in S
  <2> HAVE r[d] = r[e]
  <2>1. Cardinality(Ahead(S, f, d)) = Cardinality(Ahead(S, f, e))  BY <1>2
  <2>. QED  BY <2>1, AheadInjective
<1>5. r \in Injection(S, 1..n)  BY <1>3, <1>4 DEF Injection, IsInjective
<1>6. IsFiniteSet(1..n) /\ Cardinality(1..n) = n
  <2>1. Cardinality(1..n) = IF 1 > n THEN 0 ELSE n - 1 + 1  BY <1>1, FS_Interval
  <2>2. IsFiniteSet(1..n)  BY <1>1, FS_Interval
  <2>. QED  BY <1>1, <2>1, <2>2
<1>7. r \in Surjection(S, 1..n)  BY <1>5, <1>6, FS_Injection
<1>8. PICK d \in S : r[d] = k  BY <1>7 DEF Surjection
<1>. QED  BY <1>2, <1>8

\* InOrder lists every hit of the set once, the best score first.
LEMMA InOrderProperties ==
    ASSUME NEW S \in HitSets, NEW f \in Scores
    PROVE  /\ InOrder(S, f) \in Seq(S)
           /\ DOMAIN InOrder(S, f) = 1..Cardinality(S)
           /\ Cardinality(S) \in Nat
           /\ \A k \in 1..Cardinality(S) :
                 /\ InOrder(S, f)[k] \in S
                 /\ Cardinality(Ahead(S, f, InOrder(S, f)[k])) = k - 1
           /\ \A d \in S : \E k \in 1..Cardinality(S) : InOrder(S, f)[k] = d
           /\ \A j, k \in 1..Cardinality(S) :
                 j < k <=> Above(f, InOrder(S, f)[j], InOrder(S, f)[k])
<1> DEFINE n == Cardinality(S)
           Place(d) == Cardinality(Ahead(S, f, d))
           s == [k \in 1..n |-> CHOOSE d \in S : Place(d) = k - 1]
<1>1. n \in Nat  BY PartFinite
<1>2. ASSUME NEW k \in 1..n PROVE s[k] \in S /\ Place(s[k]) = k - 1
  <2>1. \E d \in S : Place(d) = k - 1  BY AheadSurjective
  <2>. HIDE DEF Place
  <2>. QED  BY <2>1
<1>3. InOrder(S, f) = s /\ DOMAIN s = 1..n  BY DEF InOrder
<1>4. s \in Seq(S)
  <2>1. s \in [1..n -> S]
    <3>1. s = [k \in 1..n |-> s[k]]  OBVIOUS
    <3>. HIDE DEF s
    <3>. QED  BY <1>2, <3>1
  <2>. HIDE DEF s, n
  <2>. QED  BY <1>1, <2>1
<1>5. ASSUME NEW d \in S PROVE \E k \in 1..n : s[k] = d
  <2>1. Place(d) \in Nat /\ Place(d) < n  BY AheadFinite
  <2>2. Place(d) + 1 \in 1..n  BY <1>1, <2>1
  <2>3. s[Place(d) + 1] \in S /\ Place(s[Place(d) + 1]) = Place(d)
    <3>. PICK k : k = Place(d) + 1  OBVIOUS
    <3>1. s[k] \in S /\ Place(s[k]) = k - 1  BY <1>2, <2>2
    <3>. HIDE DEF s, Place
    <3>. QED  BY <2>1, <3>1
  <2>4. s[Place(d) + 1] = d  BY <2>3, AheadInjective
  <2>. QED  BY <2>2, <2>4
<1>6. ASSUME NEW j \in 1..n, NEW k \in 1..n
      PROVE  j < k <=> Above(f, s[j], s[k])
  <2>1. s[j] \in S /\ s[k] \in S /\ Place(s[j]) = j - 1 /\ Place(s[k]) = k - 1
    BY <1>2
  <2>2. Above(f, s[j], s[k]) => Place(s[j]) < Place(s[k])  BY <2>1, AheadMonotonic
  <2>3. Above(f, s[k], s[j]) => Place(s[k]) < Place(s[j])  BY <2>1, AheadMonotonic
  <2>4. Above(f, s[j], s[k]) \/ Above(f, s[k], s[j]) \/ s[j] = s[k]
    BY <2>1, AboveOrders DEF HitSets
  <2>. HIDE DEF s, Place
  <2>. QED  BY <1>1, <2>1, <2>2, <2>3, <2>4
<1>. QED  BY <1>1, <1>2, <1>3, <1>4, <1>5, <1>6

\* The hits of a list whose id is in A, in the list's order.
Kept(s, A) == Retain(s, {k \in DOMAIN s : s[k][1] \in A})

\* The hits of a set whose id is in A.
Of(C, A) == {h \in C : h[1] \in A}

\* Filtering keeps hits of the list only, and only those asked for.
LEMMA KeptFrom ==
    ASSUME NEW s \in Seq(Copy), NEW A
    PROVE  Kept(s, A) \in Seq(Copy) /\ IdsOf(Kept(s, A)) \subseteq A
<1> DEFINE Keep == {k \in DOMAIN s : s[k][1] \in A}
<1>1. Keep \in SUBSET DOMAIN s  OBVIOUS
<1>2. Retain(s, Keep) \in Seq(Copy)  BY <1>1, RetainProperties
<1>3. \A k \in DOMAIN Retain(s, Keep) : \E i \in Keep : Retain(s, Keep)[k] = s[i]
  BY <1>1, RetainProperties
<1>4. \A k \in DOMAIN Retain(s, Keep) : Retain(s, Keep)[k][1] \in A  BY <1>3
<1>. QED  BY <1>2, <1>4 DEF IdsOf, Kept

\* Filtering a sorted list is sorting what passes the filter.
LEMMA KeptInOrder ==
    ASSUME NEW C \in HitSets, NEW A, NEW f \in Scores
    PROVE  Kept(InOrder(C, f), A) = InOrder(Of(C, A), f)
<1>. PICK s : s = InOrder(C, f)  OBVIOUS
<1>. PICK m : m = Cardinality(C)  OBVIOUS
<1>. PICK B : B = Of(C, A)  OBVIOUS
<1> DEFINE Keep == {k \in DOMAIN s : s[k][1] \in A}
           P == Keep \X {1}
           n == Cardinality(P)
<1>0. /\ B \in HitSets /\ B \subseteq C /\ C \subseteq Copy
      /\ \A h \in C : h \in B <=> h[1] \in A
  <2>1. B \in SUBSET C  BY DEF Of
  <2>. QED  BY <2>1, PartFinite DEF Of, HitSets
<1>1. /\ s \in Seq(C) /\ DOMAIN s = 1..m /\ m \in Nat
      /\ \A d \in C : \E k \in 1..m : s[k] = d
      /\ \A k \in 1..m : s[k] \in C
      /\ \A j, k \in 1..m : j < k <=> Above(f, s[j], s[k])
  BY InOrderProperties
<1>3. \A j, k \in 1..m : s[j] = s[k] => j = k
  <2> TAKE j, k \in 1..m
  <2> HAVE s[j] = s[k]
  <2>1. s[j] \in Copy /\ ~Above(f, s[j], s[k]) /\ ~Above(f, s[k], s[j])
    BY <1>0, <1>1, AboveOrders
  <2>2. ~(j < k) /\ ~(k < j)  BY <1>1, <2>1
  <2>. QED  BY <1>1, <2>2
<1>4. Keep \in SUBSET Nat /\ IsFiniteSet(Keep) /\ Keep \subseteq 1..m
  <2>1. IsFiniteSet(1..m)  BY <1>1, FS_Interval
  <2>. QED  BY <1>1, <2>1, FS_Subset
<1>5. P \in SUBSET (Nat \X Nat) /\ IsFiniteSet(P) /\ n = Cardinality(Keep) /\ n \in Nat
  BY <1>4, Column
<1>6. n = Cardinality(B)
  <2> DEFINE g == [k \in Keep |-> s[k]]
  <2>1. g \in [Keep -> B]  BY <1>0, <1>1, <1>4
  <2>2. \A x, y \in Keep : g[x] = g[y] => x = y  BY <1>3, <1>4
  <2>3. \A d \in B : \E k \in Keep : g[k] = d  BY <1>0, <1>1
  <2>4. g \in Bijection(Keep, B)
    BY <2>1, <2>2, <2>3 DEF Bijection, Injection, Surjection, IsInjective
  <2>5. ExistsBijection(Keep, B)  BY <2>4 DEF ExistsBijection
  <2>. QED  BY <1>4, <1>5, <2>5, FS_Bijection
<1>7. ASSUME NEW k \in 1..n
      PROVE  LET d == s[Nth(P, k)[1]]
             IN  d \in B /\ Cardinality(Ahead(B, f, d)) = k - 1
  <2>. PICK p : p = Nth(P, k)  OBVIOUS
  <2>1. p \in P /\ Rank(P, p) = k - 1  BY <1>5, NthProperties
  <2>. PICK i : i = p[1]  OBVIOUS
  <2>2. i \in Keep /\ p = <<i, 1>>  BY <2>1
  <2> DEFINE Q == {q \in P : Before(q, p)}
             T == Ahead(B, f, s[i])
             g == [q \in Q |-> s[q[1]]]
  <2>3. \A q \in P : q[1] \in Keep /\ q[2] = 1 /\ q = <<q[1], 1>>  OBVIOUS
  <2>4. \A q \in Q : q[1] < i
    <3> TAKE q \in Q
    <3>1. Before(q, p) /\ q[2] = 1 /\ p[2] = 1 /\ p[1] = i  BY <2>2, <2>3
    <3>. QED  BY <3>1 DEF Before
  <2>5. g \in [Q -> T]
    <3> SUFFICES ASSUME NEW q \in Q PROVE s[q[1]] \in T  OBVIOUS
    <3>1. q[1] \in 1..m /\ i \in 1..m /\ s[q[1]][1] \in A  BY <1>4, <2>2, <2>3
    <3>2. Above(f, s[q[1]], s[i])  BY <1>1, <2>4, <3>1
    <3>3. s[q[1]] \in B  BY <1>0, <1>1, <3>1
    <3>. QED  BY <3>2, <3>3 DEF Ahead
  <2>6. \A x, y \in Q : g[x] = g[y] => x = y
    <3> TAKE x, y \in Q
    <3> HAVE g[x] = g[y]
    <3>1. x[1] \in 1..m /\ y[1] \in 1..m  BY <1>4, <2>3
    <3>2. x[1] = y[1]  BY <1>3, <3>1
    <3>. QED  BY <2>3, <3>2
  <2>7. ASSUME NEW d \in T PROVE \E q \in Q : g[q] = d
    <3>1. d \in B /\ Above(f, d, s[i])  BY DEF Ahead
    <3>2. PICK j \in 1..m : s[j] = d  BY <1>0, <1>1, <3>1
    <3>3. j \in Keep  BY <1>0, <1>1, <3>1, <3>2
    <3>4. j < i  BY <1>1, <1>4, <2>2, <3>1, <3>2
    <3>5. <<j, 1>> \in Q  BY <2>2, <3>3, <3>4 DEF Before
    <3>6. g[<<j, 1>>] = d  BY <3>2, <3>5
    <3>. QED  BY <3>5, <3>6
  <2>8. ExistsBijection(Q, T)
    <3>1. g \in Bijection(Q, T)
      BY <2>5, <2>6, <2>7 DEF Bijection, Injection, Surjection, IsInjective
    <3>. QED  BY <3>1 DEF ExistsBijection
  <2>9. Q \in SUBSET P  OBVIOUS
  <2>10. IsFiniteSet(Q)
    <3>. HIDE DEF P, Q
    <3>. QED  BY <1>5, <2>9, FS_Subset
  <2>11. Cardinality(T) = Cardinality(Q)  BY <2>8, <2>10, FS_Bijection
  <2>12. s[i] \in B  BY <1>0, <1>1, <1>4, <2>2
  <2>. QED  BY <2>1, <2>11, <2>12 DEF Rank
<1>8. ASSUME NEW k \in 1..n
      PROVE  s[Nth(P, k)[1]] = CHOOSE d \in B : Cardinality(Ahead(B, f, d)) = k - 1
  <2>. PICK d : d = s[Nth(P, k)[1]]  OBVIOUS
  <2>1. d \in B /\ Cardinality(Ahead(B, f, d)) = k - 1  BY <1>7
  <2>2. \A e \in B : Cardinality(Ahead(B, f, e)) = k - 1 => e = d
    BY <1>0, <2>1, AheadInjective
  <2>. QED  BY <2>1, <2>2
<1>9. Kept(s, A) = [k \in 1..n |-> s[Nth(P, k)[1]]]
  <2> DEFINE rows == [i \in DOMAIN s |-> <<s[i]>>]
  <2>1. Kept(s, A) = [k \in 1..n |-> rows[Nth(P, k)[1]][Nth(P, k)[2]]]
    BY DEF Kept, Retain, Gather
  <2>2. ASSUME NEW k \in 1..n PROVE rows[Nth(P, k)[1]][Nth(P, k)[2]] = s[Nth(P, k)[1]]
    <3>1. Nth(P, k) \in P  BY <1>5, NthProperties
    <3>2. \A p \in P : rows[p[1]][p[2]] = s[p[1]]  OBVIOUS
    <3>. QED  BY <3>1, <3>2
  <2>. HIDE DEF rows, P, n
  <2>. QED  BY <2>1, <2>2
<1>10. InOrder(B, f) =
         [k \in 1..n |-> CHOOSE d \in B : Cardinality(Ahead(B, f, d)) = k - 1]
  BY <1>6 DEF InOrder
<1>11. Kept(s, A) = InOrder(B, f)  BY <1>8, <1>9, <1>10
<1>. QED  BY <1>11

\* A page of a list shows hits of the list only.
LEMMA PageFrom ==
    ASSUME NEW hits \in Seq(Copy), NEW q \in Requests
    PROVE  Page(hits, q) \in Seq(Copy) /\ IdsOf(Page(hits, q)) \subseteq IdsOf(hits)
<1>. PICK a : a = q.offset + 1  OBVIOUS
<1>. PICK b : b = IF q.offset + q.limit < Len(hits) THEN q.offset + q.limit ELSE Len(hits)
  OBVIOUS
<1>1. a \in Nat \ {0} /\ b \in Nat /\ b <= Len(hits) /\ Len(hits) \in Nat
  BY RouterAssumption
<1>2. Page(hits, q) = SubSeq(hits, a, b)  BY DEF Page
<1>3. SubSeq(hits, a, b) = [i \in 1..(b - a + 1) |-> hits[i + a - 1]]
  BY <1>1
<1>4. ASSUME NEW i \in 1..(b - a + 1) PROVE i + a - 1 \in 1..Len(hits)
  BY <1>1
<1>5. DOMAIN hits = 1..Len(hits)  OBVIOUS
<1>6. SubSeq(hits, a, b) \in Seq(Copy)  BY <1>1
<1>. PICK t : t = SubSeq(hits, a, b)  OBVIOUS
<1>7. DOMAIN t = 1..(b - a + 1) /\ \A i \in DOMAIN t : t[i] = hits[i + a - 1]
  BY <1>3
<1>8. \A i \in DOMAIN t : t[i][1] \in IdsOf(hits)  BY <1>4, <1>5, <1>7 DEF IdsOf
<1>9. IdsOf(t) \subseteq IdsOf(hits)
  <2>. HIDE DEF IdsOf
  <2>1. \A x \in IdsOf(t) : \E i \in DOMAIN t : x = t[i][1]  BY DEF IdsOf
  <2>. QED  BY <1>8, <2>1
<1>10. Page(hits, q) = t  BY <1>2
<1>. QED  BY <1>6, <1>9, <1>10

\* A finite non-empty set of numbers has a minimum.
LEMMA MinProperties ==
    ASSUME NEW S \in SUBSET Nat, IsFiniteSet(S), S # {}
    PROVE  Min(S) \in S
<1> DEFINE P == S \X {1}
           n == Cardinality(S)
<1>1. P \in SUBSET (Nat \X Nat) /\ IsFiniteSet(P) /\ Cardinality(P) = n /\ n \in Nat
  BY Column
<1>2. n # 0  BY FS_EmptySet
<1>3. 1 \in 1..Cardinality(P)  BY <1>1, <1>2
<1>4. PICK p \in P : Rank(P, p) = 1 - 1  BY <1>1, <1>3, RankSurjective
<1>5. ASSUME NEW y \in S PROVE p[1] <= y
  <2> SUFFICES ASSUME p[1] > y PROVE FALSE  BY <1>1
  <2> DEFINE q == <<y, 1>>
  <2>1. q \in P  OBVIOUS
  <2>2. Before(q, p)  BY <1>1 DEF Before
  <2>3. Rank(P, q) < Rank(P, p)  BY <1>1, <2>1, <2>2, RankMonotonic
  <2>4. Rank(P, q) \in Nat  BY <1>1, <2>1, RankBounded
  <2>. QED  BY <1>1, <1>4, <2>3, <2>4
<1>6. p[1] \in S /\ \A y \in S : p[1] =< y  BY <1>5
<1>. QED  BY <1>6 DEF Min

\* What the configured strategy leaves of a list.
LEMMA FilteredFrom ==
    ASSUME NEW hits \in Seq(Copy), NEW zone \in Zones, NEW ok \in BOOLEAN
    PROVE  /\ Filtered(hits, zone, ok) \in Seq(Copy)
           /\ (zone # "" /\ Strategy # "noop" /\ ok)
                 => IdsOf(Filtered(hits, zone, ok)) \subseteq Available[zone]
<1> DEFINE A == Available[zone]
<1>1. Kept(hits, A) \in Seq(Copy) /\ IdsOf(Kept(hits, A)) \subseteq A  BY KeptFrom
<1>2. StaticApply(hits, zone) = Kept(hits, A)  BY DEF StaticApply, Kept
<1>3. RegionStockApply(hits, zone, ok) = IF hits = << >> \/ ~ok THEN hits ELSE Kept(hits, A)
  BY DEF RegionStockApply, Kept
<1>4. CASE zone = "" \/ Strategy = "noop"
  <2>1. Filtered(hits, zone, ok) = hits  BY <1>4 DEF Filtered
  <2>. QED  BY <1>4, <2>1
<1>5. CASE zone # "" /\ Strategy = "static"
  <2>1. Filtered(hits, zone, ok) = StaticApply(hits, zone)  BY <1>5 DEF Filtered
  <2>. QED  BY <1>1, <1>2, <2>1
<1>6. CASE zone # "" /\ Strategy = "region_stock"
  <2>1. Filtered(hits, zone, ok) = RegionStockApply(hits, zone, ok)  BY <1>6 DEF Filtered
  <2>2. IdsOf(<< >>) = {}  BY DEF IdsOf
  <2>. HIDE DEF A
  <2>3. hits = << >> => IdsOf(hits) \subseteq A  BY <2>2
  <2>. QED  BY <1>1, <1>3, <2>1, <2>3 DEF A
<1>. QED  BY <1>4, <1>5, <1>6, RouterAssumption

\* A strategy that works turns the ranked candidates into the ranked candidates
\* in stock.
LEMMA FilteredInOrder ==
    ASSUME NEW C \in HitSets, NEW q \in Requests
    PROVE  Filtered(InOrder(C, RankScore), q.zone, TRUE)
               = InOrder(Of(C, InStock(q)), RankScore)
<1>. PICK zone \in Zones : zone = q.zone  BY RouterAssumption
<1>. PICK hits : hits = InOrder(C, RankScore)  OBVIOUS
<1>0. hits \in Seq(C) /\ DOMAIN hits = 1..Cardinality(C) /\ Cardinality(C) \in Nat
  BY ScoresOrder, InOrderProperties
<1>1. Kept(hits, Available[zone]) = InOrder(Of(C, Available[zone]), RankScore)
  BY ScoresOrder, KeptInOrder
<1>2. CASE zone = "" \/ Strategy = "noop"
  <2>1. \A h \in C : h[1] \in DocIds  BY DEF HitSets, Copy
  <2>2. InStock(q) = DocIds  BY <1>2 DEF InStock
  <2>3. Of(C, InStock(q)) = C  BY <2>1, <2>2 DEF Of
  <2>. QED  BY <1>2, <2>3 DEF Filtered
<1>3. CASE zone # "" /\ Strategy = "static"
  <2>1. InStock(q) = Available[zone]  BY <1>3 DEF InStock
  <2>2. Filtered(hits, zone, TRUE) = Kept(hits, Available[zone])
    BY <1>3 DEF Filtered, StaticApply, Kept
  <2>. QED  BY <1>1, <2>1, <2>2
<1>4. CASE zone # "" /\ Strategy = "region_stock"
  <2>1. InStock(q) = Available[zone]  BY <1>4 DEF InStock
  <2>2. Filtered(hits, zone, TRUE)
          = IF hits = << >> THEN hits ELSE Kept(hits, Available[zone])
    BY <1>4 DEF Filtered, RegionStockApply, Kept
  <2>3. CASE hits = << >>
    <3>1. DOMAIN hits = {}  BY <2>3
    <3>2. Cardinality(C) = 0  BY <1>0, <3>1
    <3>3. IsFiniteSet(C)  BY DEF HitSets
    <3>4. C = {}  BY <3>2, <3>3, FS_EmptySet
    <3>5. Of(C, InStock(q)) = C  BY <3>4 DEF Of
    <3>. QED  BY <2>2, <2>3, <3>5
  <2>4. CASE hits # << >>  BY <1>1, <2>1, <2>2, <2>4
  <2>. QED  BY <2>3, <2>4
<1>. QED  BY <1>2, <1>3, <1>4, RouterAssumption
-----------------------------------------------------------------------------
(* Types *)

\* The initial and idle values have their types.
LEMMA Idle ==
    /\ NoSearch \in SearchState
    /\ NoSearch.got \in [Shards -> Answer]
    /\ NoResponse \in Response
    /\ NoCached \in CacheEntry
    /\ NoBulk \in BulkState
<1>1. (CHOOSE q \in Requests : TRUE) \in Requests  BY RouterAssumption
<1>2. << >> \in Seq(Copy)  OBVIOUS
<1>3. NoSearch \in SearchState
  <2>1. {} \in HitSets  BY FS_EmptySet DEF HitSets
  <2>. QED  BY <1>1, <1>2, <2>1 DEF NoSearch, SearchState, Answer
<1>4. NoSearch.got \in [Shards -> Answer]  BY <1>3 DEF SearchState
<1>5. NoResponse \in Response  BY <1>1, <1>2 DEF NoResponse, Response
<1>6. NoCached \in CacheEntry  BY <1>2, RouterAssumption DEF NoCached, CacheEntry
<1>7. NoBulk \in BulkState  BY DEF NoBulk, BulkState
<1>. QED  BY <1>3, <1>4, <1>5, <1>6, <1>7

\* No copies are copies.
LEMMA NoneStored == NoCopies \in Amount
BY DEF NoCopies, Amount

\* The system starts with the types of TypeOK.
LEMMA TypeInit == Init => TypeOK
<1> SUFFICES ASSUME Init PROVE TypeOK  OBVIOUS
<1>1. ASSUME NEW s \in Shards PROVE OpenedWith(OfShard(Preloaded, s)) \in Store
  <2>. PICK D : D = OfShard(Preloaded, s)  OBVIOUS
  <2>1. D \in SUBSET DocIds  BY RouterAssumption DEF OfShard
  <2>2. OneEach(D) \in Amount  BY DEF OneEach, Amount
  <2>. QED  BY <2>1, <2>2, NoneStored DEF OpenedWith, Store
<1>2. held \in [Shards -> [Endpoints -> Store]]  BY <1>1 DEF Init
<1>3. lag \in [Shards -> Seq(Pending)]  BY DEF Init
<1>. QED  BY <1>2, <1>3, Idle DEF TypeOK, Init

\* What an endpoint shows is a finite set of hits of ids it knows of.
LEMMA CopiesFinite ==
    ASSUME TypeOK, NEW s \in Shards, NEW e \in Endpoints
    PROVE  Copies(held[s][e]) \in HitSets
<1>. PICK st : st = held[s][e]  OBVIOUS
<1>1. st \in Store  BY DEF TypeOK
<1>2. \A d \in DocIds : Shown(st, d) \in Nat  BY <1>1 DEF Shown, Store, Amount
<1> DEFINE Of1(d) == {d} \X (1..Shown(st, d))
           parts == {Of1(d) : d \in DocIds}
<1>3. ASSUME NEW d \in DocIds PROVE IsFiniteSet(Of1(d))
  <2>. PICK n \in Nat : n = Shown(st, d)  BY <1>2
  <2>1. IsFiniteSet(1..n)  BY FS_Interval
  <2>2. IsFiniteSet({d})  BY FS_Singleton
  <2>3. IsFiniteSet({d} \X (1..n))  BY <2>1, <2>2, FS_Product
  <2>. QED  BY <2>3
<1>4. IsFiniteSet(parts)
  <2> DEFINE g == [d \in DocIds |-> Of1(d)]
  <2>1. g \in Surjection(DocIds, parts)
    <3>. HIDE DEF Of1
    <3>. QED  BY DEF Surjection
  <2>. HIDE DEF g, parts
  <2>. QED  BY <2>1, DocIdsAssumption, FS_Surjection
<1>5. \A P \in parts : IsFiniteSet(P)  BY <1>3
<1>6. IsFiniteSet(UNION parts)
  <2>. HIDE DEF parts
  <2>. QED  BY <1>4, <1>5, FS_UNION
<1>7. Copies(st) = UNION parts  BY DEF Copies
<1>8. UNION parts \in SUBSET Copy  BY <1>2 DEF Copy
<1>. QED  BY <1>6, <1>7, <1>8 DEF HitSets

\* What a shard answers is a finite set of hits.
LEMMA FoundTyped ==
    ASSUME TypeOK, NEW s \in Shards, NEW e \in Endpoints
    PROVE  TopOf(Copies(held[s][e]), ScatterLimit) \in HitSets
<1>1. TopOf(Copies(held[s][e]), ScatterLimit) \in SUBSET Copies(held[s][e])  BY DEF TopOf
<1>. QED  BY <1>1, CopiesFinite, PartFinite

\* The hits of a search are a finite set, whatever the shards answered.
LEMMA GatheredTyped ==
    ASSUME TypeOK, NEW c \in Callers
    PROVE  AllHits(c) \in HitSets
<1>. PICK G : G = srch[c].got  OBVIOUS
<1>0. G \in [Shards -> Answer]  BY DEF TypeOK, SearchState
<1>1. Healthy(c) \in SUBSET Shards /\ IsFiniteSet(Healthy(c))
  BY RouterAssumption, FS_Subset DEF Healthy
<1>. PICK H : H = Healthy(c)  OBVIOUS
<1> DEFINE parts == {G[s].found : s \in H}
           g == [s \in H |-> G[s].found]
<1>2. IsFiniteSet(parts)
  <2>1. g \in Surjection(H, parts)  BY DEF Surjection
  <2>. HIDE DEF g, parts
  <2>. QED  BY <1>1, <2>1, FS_Surjection
<1>3. \A P \in parts : IsFiniteSet(P) /\ P \in SUBSET Copy
  BY <1>0, <1>1 DEF Answer, HitSets
<1>4. IsFiniteSet(UNION parts) /\ UNION parts \in SUBSET Copy
  <2>. HIDE DEF parts
  <2>. QED  BY <1>2, <1>3, FS_UNION
<1>5. AllHits(c) = UNION parts  BY DEF AllHits
<1>. QED  BY <1>4, <1>5 DEF HitSets

\* The steps of a search keep the types.
LEMMA TypeSearch ==
    ASSUME TypeOK, NEW c \in Callers, Search(c) PROVE TypeOK'
<1>0. srch[c] \in SearchState /\ resp[c] \in Response  BY DEF TypeOK
<1>1. ASSUME NEW q \in Requests, Reject(c, q) PROVE TypeOK'
  <2>1. [NoResponse EXCEPT !.status = "rejected", !.req = q] \in Response
    BY Idle DEF Response
  <2>. QED  BY <1>1, <2>1 DEF Reject, TypeOK
<1>2. ASSUME NEW q \in Requests, RespondFromCache(c, q) PROVE TypeOK'
  <2>. PICK e : e = cache[KeyOf(q)]  OBVIOUS
  <2>1. e \in CacheEntry  BY DEF Keys, TypeOK
  <2>2. e.hits \in Seq(Copy)  BY <2>1 DEF CacheEntry
  <2>3. Page(e.hits, q) \in Seq(Copy)  BY <2>2, PageFrom
  <2>4. [status |-> "ok", req |-> q, hits |-> Page(e.hits, q),
         clean |-> FALSE, blind |-> e.blind] \in Response
    BY <2>1, <2>3 DEF Response, CacheEntry
  <2>. QED  BY <1>2, <2>4 DEF RespondFromCache, TypeOK
<1>3. ASSUME NEW q \in Requests, Scatter(c, q) PROVE TypeOK'
  <2>1. [NoSearch EXCEPT !.pc = "scatter", !.req = q, !.clean = TRUE] \in SearchState
    BY Idle DEF SearchState
  <2>. QED  BY <1>3, <2>1 DEF Scatter, TypeOK
<1>4. ASSUME NEW s \in Shards, ShardAnswers(c, s) PROVE TypeOK'
  <2>1. PICK e \in Endpoints :
          srch' = [srch EXCEPT ![c].got[s] =
                      [st |-> "ok", found |-> TopOf(Copies(held[s][e]), ScatterLimit)]]
    BY <1>4 DEF ShardAnswers
  <2>. PICK a : a = [st |-> "ok", found |-> TopOf(Copies(held[s][e]), ScatterLimit)]
    OBVIOUS
  <2>2. a \in Answer  BY FoundTyped DEF Answer, HitSets
  <2>3. [srch[c] EXCEPT !.got[s] = a] \in SearchState  BY <1>0, <2>2 DEF SearchState
  <2>4. srch' = [srch EXCEPT ![c] = [srch[c] EXCEPT !.got[s] = a]]  BY <2>1 DEF TypeOK
  <2>. QED  BY <1>4, <2>3, <2>4 DEF ShardAnswers, TypeOK
<1>5. ASSUME NEW s \in Shards, ShardFails(c, s) PROVE TypeOK'
  <2>0. [srch[c].got[s] EXCEPT !.st = "failed"] \in Answer
    BY <1>0 DEF SearchState, Answer
  <2>. PICK a \in Answer : a = [srch[c].got[s] EXCEPT !.st = "failed"]  BY <2>0
  <2>1. [srch[c] EXCEPT !.got[s] = a, !.clean = FALSE] \in SearchState
    BY <1>0 DEF SearchState
  <2>2. srch' = [srch EXCEPT ![c] =
                    [srch[c] EXCEPT !.got[s] = a, !.clean = FALSE]]
    BY <1>5 DEF ShardFails, TypeOK
  <2>. QED  BY <1>5, <2>1, <2>2 DEF ShardFails, Fault, TypeOK
<1>6. ASSUME GatherHits(c) PROVE TypeOK'
  <2>1. CASE Healthy(c) = {}
    <3>1. [NoResponse EXCEPT !.status = "error", !.req = srch[c].req] \in Response
      BY <1>0, Idle DEF Response, SearchState
    <3>. QED  BY <1>6, <2>1, <3>1, Idle DEF GatherHits, TypeOK
  <2>2. CASE Healthy(c) # {}
    <3>. PICK p : p = IF AllHits(c) = {} THEN "finish" ELSE "fetch"  OBVIOUS
    <3>1. [srch[c] EXCEPT !.pc = p] \in SearchState  BY <1>0 DEF SearchState
    <3>2. srch' = [srch EXCEPT ![c] = [srch[c] EXCEPT !.pc = p]]
      BY <1>6, <2>2 DEF GatherHits, TypeOK
    <3>. QED  BY <1>6, <2>2, <3>1, <3>2 DEF GatherHits, TypeOK
  <2>. QED  BY <2>1, <2>2
<1>7. ASSUME Fetch(c) PROVE TypeOK'
  <2>1. PICK pick \in [Shards -> Endpoints], lost \in SUBSET Shards :
          /\ IF lost = {} THEN UNCHANGED faults ELSE Fault
          /\ srch' = [srch EXCEPT ![c].pc = "rerank",
                                  ![c].docs = Fetched(AllHits(c), pick, lost),
                                  ![c].got = NoSearch.got,
                                  ![c].clean = @ /\ lost = {}]
    BY <1>7 DEF Fetch
  <2>. PICK C : C = Fetched(AllHits(c), pick, lost)  OBVIOUS
  <2>2. AllHits(c) \in HitSets  BY GatheredTyped
  <2>3. C \in HitSets
    <3>1. C \in SUBSET AllHits(c)  BY DEF Fetched
    <3>. QED  BY <2>2, <3>1, PartFinite
  <2>4. faults' \in Nat  BY <2>1 DEF Fault, TypeOK
  <2>. PICK b \in BOOLEAN : b = (srch[c].clean /\ lost = {})  OBVIOUS
  <2>. PICK g \in [Shards -> Answer] : g = NoSearch.got  BY Idle
  <2>5. [srch[c] EXCEPT !.pc = "rerank", !.docs = C, !.got = g, !.clean = b]
           \in SearchState
    BY <1>0, <2>3 DEF SearchState
  <2>6. srch' = [srch EXCEPT ![c] = [srch[c] EXCEPT !.pc = "rerank", !.docs = C,
                                        !.got = g, !.clean = b]]
    BY <2>1 DEF TypeOK
  <2>. QED  BY <1>7, <2>4, <2>5, <2>6 DEF Fetch, TypeOK
<1>8. ASSUME Rerank(c) PROVE TypeOK'
  <2>1. PICK ok \in BOOLEAN :
          /\ IF ok THEN UNCHANGED faults ELSE Fault
          /\ srch' = [srch EXCEPT ![c].pc = "finish",
                ![c].hits = RankedOrFallback(srch[c].docs, ok),
                ![c].docs = {},
                ![c].clean = @ /\ ok]
    BY <1>8 DEF Rerank
  <2>. PICK C : C = srch[c].docs  OBVIOUS
  <2>. PICK h : h = RankedOrFallback(srch[c].docs, ok)  OBVIOUS
  <2>2. C \in HitSets /\ C \in SUBSET Copy /\ {} \in HitSets
    BY <1>0, FS_EmptySet DEF SearchState, HitSets
  <2>3. InOrder(C, Score) \in Seq(C) /\ InOrder(C, RankScore) \in Seq(C)
    BY <2>2, ScoresOrder, InOrderProperties
  <2>4. h \in Seq(Copy)  BY <2>2, <2>3 DEF RankedOrFallback, RankerOrder
  <2>5. faults' \in Nat  BY <2>1 DEF Fault, TypeOK
  <2>6. [srch[c] EXCEPT !.pc = "finish", !.hits = h, !.docs = {},
                        !.clean = @ /\ ok] \in SearchState
    BY <1>0, <2>2, <2>4 DEF SearchState
  <2>7. srch' = [srch EXCEPT ![c] = [srch[c] EXCEPT !.pc = "finish", !.hits = h,
                                        !.docs = {}, !.clean = @ /\ ok]]
    BY <2>1 DEF TypeOK
  <2>. QED  BY <1>8, <2>5, <2>6, <2>7 DEF Rerank, TypeOK
<1>9. ASSUME Finish(c) PROVE TypeOK'
  <2>. PICK q : q = srch[c].req  OBVIOUS
  <2>. PICK h : h = srch[c].hits  OBVIOUS
  <2>0. q \in Requests /\ KeyOf(q) \in Keys /\ q.zone \in Zones /\ h \in Seq(Copy)
    BY <1>0, RouterAssumption DEF Keys, SearchState
  <2>1. PICK ok \in BOOLEAN :
          /\ IF ok THEN UNCHANGED faults ELSE Fault
          /\ cache' = [cache EXCEPT ![KeyOf(q)] =
                [age |-> 0, hits |-> Filtered(h, q.zone, ok), blind |-> ~ok]]
          /\ resp' = [resp EXCEPT ![c] =
                [status |-> "ok", req |-> q,
                 hits |-> Page(Filtered(h, q.zone, ok), q),
                 clean |-> srch[c].clean /\ ok, blind |-> ~ok]]
    BY <1>9 DEF Finish
  <2>2. Filtered(h, q.zone, ok) \in Seq(Copy)  BY <2>0, FilteredFrom
  <2>3. Page(Filtered(h, q.zone, ok), q) \in Seq(Copy)  BY <2>0, <2>2, PageFrom
  <2>4. faults' \in Nat  BY <2>1 DEF Fault, TypeOK
  <2>5. [age |-> 0, hits |-> Filtered(h, q.zone, ok), blind |-> ~ok] \in CacheEntry
    BY <2>2 DEF CacheEntry
  <2>6. [status |-> "ok", req |-> q, hits |-> Page(Filtered(h, q.zone, ok), q),
         clean |-> srch[c].clean /\ ok, blind |-> ~ok] \in Response
    BY <1>0, <2>0, <2>3 DEF Response, SearchState
  <2>7. cache' \in [Keys -> CacheEntry]  BY <2>0, <2>1, <2>5 DEF TypeOK
  <2>8. resp' \in [Callers -> Response]  BY <2>1, <2>6 DEF TypeOK
  <2>9. srch' \in [Callers -> SearchState]  BY <1>9, Idle DEF Finish, TypeOK
  <2>. QED  BY <1>9, <2>4, <2>7, <2>8, <2>9 DEF Finish, TypeOK
<1>. QED  BY <1>1, <1>2, <1>3, <1>4, <1>5, <1>6, <1>7, <1>8, <1>9 DEF Search
\* A change of what the shards hold leaves the searches well typed, and no search
\* in progress clean.
LEMMA SpoiledType ==
    ASSUME TypeOK
    PROVE  /\ Spoiled \in [Callers -> SearchState]
           /\ \A c \in Callers : /\ Spoiled[c].clean = FALSE
                                 /\ Spoiled[c].req = srch[c].req
<1>1. ASSUME NEW c \in Callers PROVE [srch[c] EXCEPT !.clean = FALSE] \in SearchState
  BY DEF TypeOK, SearchState
<1>2. ASSUME NEW c \in Callers
      PROVE  Spoiled[c].clean = FALSE /\ Spoiled[c].req = srch[c].req
  <2>1. srch[c] \in SearchState  BY DEF TypeOK
  <2>. QED  BY <2>1 DEF Spoiled, SearchState
<1>. QED  BY <1>1, <1>2 DEF Spoiled

\* The changes of what an endpoint holds keep its type; of an id that is not
\* deleted they lose nothing that counts as stored.
Stocked(st, d) == d \in st.located \/ st.buffered[d] > 0 \/ st.hands[d] > 0

LEMMA StoreSteps ==
    ASSUME NEW st \in Store, NEW docs \in SUBSET DocIds, NEW x \in DocIds
    PROVE  /\ Added(st, docs) \in Store
           /\ \A d \in DocIds : Stocked(st, d) => Stocked(Added(st, docs), d)
           /\ \A d \in docs : Stocked(Added(st, docs), d)
           /\ Deleted(st, x) \in Store
           /\ \A d \in DocIds \ {x} : Stocked(st, d) => Stocked(Deleted(st, x), d)
           /\ st.hands = NoCopies =>
                 /\ Drained(st) \in Store
                 /\ \A d \in DocIds : Stocked(st, d) => Stocked(Drained(st), d)
           /\ Published(st) \in Store
           /\ \A d \in DocIds : Stocked(st, d) => Stocked(Published(st), d)
<1>0. /\ st.flushed \in Amount /\ st.buffered \in Amount /\ st.hands \in Amount
      /\ st.located \in SUBSET DocIds /\ st.marked \in SUBSET DocIds
      /\ st = [flushed |-> st.flushed, located |-> st.located, buffered |-> st.buffered,
               marked |-> st.marked, hands |-> st.hands]
  BY DEF Store
<1>1. Added(st, docs) \in Store
      /\ (\A d \in DocIds : Stocked(st, d) => Stocked(Added(st, docs), d))
      /\ (\A d \in docs : Stocked(Added(st, docs), d))
  <2>. PICK o : o = OneEach(docs)  OBVIOUS
  <2>1. \A d \in DocIds : o[d] = IF d \in docs THEN 1 ELSE 0  BY DEF OneEach
  <2>. PICK b : b = [d \in DocIds |-> st.buffered[d] + o[d]]  OBVIOUS
  <2>2. b \in Amount /\ \A d \in DocIds : b[d] = st.buffered[d] + o[d]
    BY <1>0, <2>1 DEF Amount
  <2>3. Added(st, docs) = [st EXCEPT !.buffered = b]  BY DEF Added
  <2>4. Added(st, docs) \in Store  BY <2>2, <2>3 DEF Store
  <2>5. /\ Added(st, docs).located = st.located /\ Added(st, docs).hands = st.hands
        /\ Added(st, docs).buffered = b
    BY <1>0, <2>3
  <2>6. \A d \in DocIds : st.buffered[d] \in Nat /\ b[d] >= st.buffered[d]
                         /\ (d \in docs => b[d] > 0)
    BY <1>0, <2>1, <2>2 DEF Amount
  <2>. PICK new : new = Added(st, docs)  OBVIOUS
  <2>7. \A d \in DocIds : Stocked(st, d) => Stocked(new, d)
    <3> TAKE d \in DocIds
    <3>1. st.buffered[d] > 0 => b[d] > 0  BY <1>0, <2>2, <2>6 DEF Amount
    <3>2. new.located = st.located /\ new.hands = st.hands /\ new.buffered = b  BY <2>5
    <3>. QED  BY <3>1, <3>2 DEF Stocked
  <2>8. \A d \in docs : Stocked(new, d)  BY <2>5, <2>6 DEF Stocked
  <2>. QED  BY <2>4, <2>7, <2>8
<1>2. Deleted(st, x) \in Store
      /\ (\A d \in DocIds \ {x} : Stocked(st, d) => Stocked(Deleted(st, x), d))
  BY <1>0 DEF Deleted, Store, Stocked
<1>3. ASSUME st.hands = NoCopies
      PROVE  Drained(st) \in Store
             /\ (\A d \in DocIds : Stocked(st, d) => Stocked(Drained(st), d))
  <2>1. Drained(st) \in Store  BY <1>0, NoneStored DEF Drained, Store
  <2>2. Drained(st).located = st.located /\ Drained(st).hands = st.buffered
    BY <1>0 DEF Drained
  <2>3. \A d \in DocIds : ~(st.hands[d] > 0)  BY <1>3 DEF NoCopies
  <2>. QED  BY <2>1, <2>2, <2>3 DEF Stocked
<1>4. Published(st) \in Store
      /\ (\A d \in DocIds : Stocked(st, d) => Stocked(Published(st), d))
  <2>. PICK f : f = [d \in DocIds |-> st.flushed[d] + st.hands[d]]  OBVIOUS
  <2>. PICK l : l = st.located \cup {d \in DocIds : st.hands[d] > 0}  OBVIOUS
  <2>1. f \in Amount /\ l \in SUBSET DocIds  BY <1>0 DEF Amount
  <2>2. Published(st) = [st EXCEPT !.flushed = f, !.located = l, !.hands = NoCopies]
    BY DEF Published
  <2>3. Published(st) \in Store  BY <2>1, <2>2, NoneStored DEF Store
  <2>4. Published(st).located = l /\ Published(st).buffered = st.buffered
    BY <1>0, <2>2
  <2>. QED  BY <2>3, <2>4 DEF Stocked
<1>. QED  BY <1>1, <1>2, <1>3, <1>4

\* What an endpoint of the shards may hold after a change of one endpoint.
LEMMA HeldType ==
    ASSUME TypeOK, NEW s \in Shards, NEW e \in Endpoints, NEW st \in Store
    PROVE  [held EXCEPT ![s][e] = st] \in [Shards -> [Endpoints -> Store]]
BY DEF TypeOK

\* A queue with another entry.
LEMMA LagType ==
    ASSUME TypeOK, NEW s \in Shards, NEW p \in Pending
    PROVE  [lag EXCEPT ![s] = Append(@, p)] \in [Shards -> Seq(Pending)]
BY DEF TypeOK

\* A write keeps the types.
LEMMA StoredType ==
    ASSUME TypeOK, NEW s \in Shards, NEW docs \in SUBSET DocIds, Stored(s, docs)
    PROVE  /\ held' \in [Shards -> [Endpoints -> Store]]
           /\ lag' \in [Shards -> Seq(Pending)]
           /\ srch' \in [Callers -> SearchState]
           /\ held' = [held EXCEPT ![s]["primary"] = Added(held[s]["primary"], docs)]
<1>0. "primary" \in Endpoints /\ held[s]["primary"] \in Store
  BY DEF TypeOK, Endpoints
<1>. PICK st : st = Added(held[s]["primary"], docs)  OBVIOUS
<1>1. st \in Store
  <2>. PICK x \in DocIds : TRUE  BY DocIdsAssumption
  <2>. QED  BY <1>0, StoreSteps
<1>2. held' = [held EXCEPT ![s]["primary"] = st]  BY <1>0 DEF Stored, TypeOK
<1>3. [op |-> "index", docs |-> docs] \in Pending  BY DEF Pending
<1>4. lag' = [lag EXCEPT ![s] = Append(@, [op |-> "index", docs |-> docs])]  BY DEF Stored
<1>5. srch' = Spoiled  BY DEF Stored
<1>. QED  BY <1>0, <1>1, <1>2, <1>3, <1>4, <1>5, HeldType, LagType, SpoiledType

\* The shard a bulk write awaits next is one of its own.
LEMMA NextAwaited ==
    ASSUME NEW w \in Writers, Left(w) # {}
    PROVE  Min(Left(w)) \in Left(w)
<1>1. Left(w) \in SUBSET Nat /\ IsFiniteSet(Left(w))
  BY RouterAssumption, FS_Subset DEF Left
<1>. QED  BY <1>1, MinProperties

\* What AwaitTask does, case by case.
LEMMA AwaitCases ==
    ASSUME TypeOK, NEW w \in Writers, AwaitTask(w)
    PROVE  \/ /\ Left(w) = {}
              /\ bulk' = [bulk EXCEPT ![w] =
                    [bulk[w] EXCEPT !.pc = "idle", !.result = "ok"]]
           \/ \E s \in Left(w) :
                 bulk' = [bulk EXCEPT ![w] =
                       [bulk[w] EXCEPT !.pc = "idle", !.result = "error",
                                       !.task[s] = "none"]]
           \/ \E s \in Left(w) :
                 LET n == bulk[w].total + Cardinality(OfShard(bulk[w].docs, s)) IN
                 /\ bulk[w].task[s] = "ok"
                 /\ bulk' = [bulk EXCEPT ![w] =
                       [bulk[w] EXCEPT !.total = n, !.task[s] = "none"]]
<1>. PICK s : s = Min(Left(w))  OBVIOUS
<1>1. Left(w) # {} => s \in Left(w)  BY NextAwaited
<1>2. CASE /\ Left(w) = {}
           /\ bulk' = [bulk EXCEPT ![w].pc = "idle", ![w].result = "ok"]
  BY <1>2 DEF TypeOK
<1>3. CASE /\ Left(w) # {}
           /\ bulk' = [bulk EXCEPT ![w].pc = "idle", ![w].result = "error",
                                   ![w].task[s] = "none"]
  <2>1. bulk' = [bulk EXCEPT ![w] =
                    [bulk[w] EXCEPT !.pc = "idle", !.result = "error",
                                    !.task[s] = "none"]]
    BY <1>3 DEF TypeOK
  <2>. QED  BY <1>1, <1>3, <2>1
<1>4. CASE /\ Left(w) # {}
           /\ bulk[w].task[s] = "ok"
           /\ bulk' = [bulk EXCEPT
                 ![w].total = @ + Cardinality(OfShard(bulk[w].docs, s)),
                 ![w].task[s] = "none"]
  <2>. PICK m : m = Cardinality(OfShard(bulk[w].docs, s))  OBVIOUS
  <2>1. bulk' = [bulk EXCEPT ![w] =
                    [bulk[w] EXCEPT !.total = bulk[w].total + m, !.task[s] = "none"]]
    BY <1>4 DEF TypeOK
  <2>. QED  BY <1>1, <1>4, <2>1
<1>. QED  BY <1>2, <1>3, <1>4 DEF AwaitTask

\* The steps of a bulk write keep the types.
LEMMA TypeBulk ==
    ASSUME TypeOK, NEW w \in Writers, BulkStep(w) PROVE TypeOK'
<1>0. bulk[w] \in BulkState  BY DEF TypeOK
<1>1. ASSUME NEW s \in Shards, RunTask(w, s) PROVE TypeOK'
  <2>1. OfShard(bulk[w].docs, s) \in SUBSET DocIds  BY <1>0 DEF BulkState, OfShard
  <2>2. /\ held' \in [Shards -> [Endpoints -> Store]]
        /\ lag' \in [Shards -> Seq(Pending)]
        /\ srch' \in [Callers -> SearchState]
    <3>1. CASE Stored(s, OfShard(bulk[w].docs, s))  BY <2>1, <3>1, StoredType
    <3>2. CASE UNCHANGED <<held, lag, srch>>  BY <3>2 DEF TypeOK
    <3>. QED  BY <1>1, <3>1, <3>2 DEF RunTask
  <2>3. ASSUME NEW u \in {"ok", "failed"}, bulk' = [bulk EXCEPT ![w].task[s] = u]
        PROVE  bulk' \in [Writers -> BulkState]
    <3>1. [bulk[w] EXCEPT !.task[s] = u] \in BulkState  BY <1>0 DEF BulkState
    <3>. QED  BY <2>3, <3>1 DEF TypeOK
  <2>4. bulk' \in [Writers -> BulkState]  BY <1>1, <2>3 DEF RunTask
  <2>5. faults' \in Nat  BY <1>1 DEF RunTask, Fault, TypeOK
  <2>. QED  BY <1>1, <2>2, <2>4, <2>5 DEF TypeOK, RunTask
<1>2. ASSUME AwaitTask(w) PROVE TypeOK'
  <2>1. ASSUME NEW b \in BulkState, bulk' = [bulk EXCEPT ![w] = b] PROVE TypeOK'
    BY <1>2, <2>1 DEF TypeOK, AwaitTask
  <2>2. [bulk[w] EXCEPT !.pc = "idle", !.result = "ok"] \in BulkState
    BY <1>0 DEF BulkState
  <2>3. ASSUME NEW s \in Left(w)
        PROVE  [bulk[w] EXCEPT !.pc = "idle", !.result = "error", !.task[s] = "none"]
                  \in BulkState
    BY <1>0 DEF BulkState
  <2>4. ASSUME NEW s \in Left(w)
        PROVE  LET n == bulk[w].total + Cardinality(OfShard(bulk[w].docs, s))
               IN  [bulk[w] EXCEPT !.total = n, !.task[s] = "none"] \in BulkState
    <3>1. OfShard(bulk[w].docs, s) \in SUBSET DocIds  BY <1>0 DEF BulkState, OfShard
    <3>2. Cardinality(OfShard(bulk[w].docs, s)) \in Nat  BY <3>1, DocsFinite
    <3>. PICK n \in Nat : n = bulk[w].total + Cardinality(OfShard(bulk[w].docs, s))
      BY <1>0, <3>2 DEF BulkState
    <3>3. [bulk[w] EXCEPT !.total = n, !.task[s] = "none"] \in BulkState
      BY <1>0 DEF BulkState
    <3>. QED  BY <3>3
  <2>. QED  BY <1>2, <2>1, <2>2, <2>3, <2>4, AwaitCases
<1>. QED  BY <1>1, <1>2 DEF BulkStep

\* Every step keeps the types.
LEMMA TypeNext == TypeOK /\ [Next]_vars => TypeOK'
<1> SUFFICES ASSUME TypeOK, [Next]_vars PROVE TypeOK'  OBVIOUS
<1>1. ASSUME NEW w \in Writers, NEW b \in Batches, RejectBulk(w, b) PROVE TypeOK'
  <2>1. [bulk[w] EXCEPT !.result = "rejected"] \in BulkState  BY DEF TypeOK, BulkState
  <2>2. bulk' \in [Writers -> BulkState]  BY <1>1, <2>1 DEF TypeOK, RejectBulk
  <2>. QED  BY <1>1, <2>2 DEF TypeOK, RejectBulk
<1>2. ASSUME NEW w \in Writers, NEW b \in Batches, StartBulk(w, b) PROVE TypeOK'
  <2>. PICK docs \in SUBSET DocIds : docs = Mapped(b.items)  BY DEF Mapped
  <2>. PICK t \in [Shards -> {"none", "running", "ok", "failed"}] :
          t = [s \in Shards |-> IF OfShard(docs, s) = {} THEN "none" ELSE "running"]
    OBVIOUS
  <2>1. [NoBulk EXCEPT !.pc = "await", !.docs = docs, !.task = t] \in BulkState
    BY Idle DEF BulkState
  <2>2. bulk' = [bulk EXCEPT ![w] =
                    [NoBulk EXCEPT !.pc = "await", !.docs = docs, !.task = t]]
    BY <1>2 DEF StartBulk
  <2>. QED  BY <1>2, <2>1, <2>2 DEF TypeOK, StartBulk
<1>3. ASSUME NEW d \in Deletable, Index(d) PROVE TypeOK'
  <2>1. ShardOf[d] \in Shards /\ {d} \in SUBSET DocIds  BY RouterAssumption
  <2>2. /\ held' \in [Shards -> [Endpoints -> Store]]
        /\ lag' \in [Shards -> Seq(Pending)]
        /\ srch' \in [Callers -> SearchState]
    BY <1>3, <2>1, StoredType DEF Index
  <2>4. writes' \in Nat  BY <1>3 DEF TypeOK, Index
  <2>. QED  BY <1>3, <2>2, <2>4 DEF TypeOK, Index
<1>4. ASSUME NEW d \in Deletable, Delete(d) PROVE TypeOK'
  <2>. PICK s \in Shards : s = ShardOf[d]  BY RouterAssumption
  <2>. PICK st : st = Deleted(held[s]["primary"], d)  OBVIOUS
  <2>1. d \in DocIds /\ "primary" \in Endpoints  BY RouterAssumption DEF Endpoints
  <2>2. held[s]["primary"] \in Store  BY <2>1 DEF TypeOK
  <2>3. st \in Store
    <3>1. {} \in SUBSET DocIds  OBVIOUS
    <3>. QED  BY <2>1, <2>2, <3>1, StoreSteps
  <2>4. held' = [held EXCEPT ![s]["primary"] = st]  BY <1>4, <2>1 DEF Delete, TypeOK
  <2>5. held' \in [Shards -> [Endpoints -> Store]]  BY <2>1, <2>3, <2>4, HeldType
  <2>6. lag' \in [Shards -> Seq(Pending)]
    <3>1. [op |-> "delete", docs |-> {d}] \in Pending  BY <2>1 DEF Pending
    <3>2. lag' = [lag EXCEPT ![s] = Append(@, [op |-> "delete", docs |-> {d}])]
      BY <1>4 DEF Delete
    <3>. QED  BY <3>1, <3>2, LagType
  <2>7. srch' \in [Callers -> SearchState]  BY <1>4, SpoiledType DEF Delete
  <2>8. writes' \in Nat /\ dropped' \subseteq DocIds  BY <1>4, <2>1 DEF TypeOK, Delete
  <2>. QED  BY <1>4, <2>5, <2>6, <2>7, <2>8 DEF TypeOK, Delete
<1>5. ASSUME NEW s \in Shards, Replicate(s) PROVE TypeOK'
  <2>1. "replica" \in Endpoints /\ held[s]["replica"] \in Store
    BY DEF TypeOK, Endpoints
  <2>2. lag[s] \in Seq(Pending) /\ lag[s] # << >>  BY <1>5 DEF TypeOK, Replicate
  <2>3. Head(lag[s]) \in Pending /\ Tail(lag[s]) \in Seq(Pending)  BY <2>2
  <2>4. PICK d \in Head(lag[s]).docs :
          LET rest == Head(lag[s]).docs \ {d} IN
          /\ held' = [held EXCEPT ![s]["replica"] =
                IF Head(lag[s]).op = "index" THEN Added(@, {d}) ELSE Deleted(@, d)]
          /\ lag' = [lag EXCEPT ![s] =
                IF rest = {} THEN Tail(@) ELSE [@ EXCEPT ![1].docs = rest]]
    BY <1>5 DEF Replicate
  <2>5. d \in DocIds  BY <2>3 DEF Pending
  <2>. PICK st : st = IF Head(lag[s]).op = "index" THEN Added(held[s]["replica"], {d})
                      ELSE Deleted(held[s]["replica"], d)
    OBVIOUS
  <2>6. st \in Store
    <3>1. {d} \in SUBSET DocIds  BY <2>5
    <3>. QED  BY <2>1, <2>5, <3>1, StoreSteps
  <2>7. held' = [held EXCEPT ![s]["replica"] = st]  BY <2>1, <2>4 DEF TypeOK
  <2>8. held' \in [Shards -> [Endpoints -> Store]]  BY <2>1, <2>6, <2>7, HeldType
  <2>. PICK rest : rest = Head(lag[s]).docs \ {d}  OBVIOUS
  <2>. PICK q : q = IF rest = {} THEN Tail(lag[s]) ELSE [lag[s] EXCEPT ![1].docs = rest]
    OBVIOUS
  <2>9. q \in Seq(Pending)
    <3>. PICK p : p = [lag[s][1] EXCEPT !.docs = rest]  OBVIOUS
    <3>1. lag[s][1] \in Pending /\ 1 \in DOMAIN lag[s]  BY <2>2
    <3>2. p \in Pending  BY <2>3, <3>1 DEF Pending
    <3>3. [lag[s] EXCEPT ![1] = p] \in Seq(Pending)  BY <2>2, <3>1, <3>2
    <3>4. [lag[s] EXCEPT ![1].docs = rest] = [lag[s] EXCEPT ![1] = p]  BY <3>1
    <3>. QED  BY <2>3, <3>3, <3>4
  <2>10. lag' = [lag EXCEPT ![s] = q]  BY <2>4 DEF TypeOK
  <2>11. lag' \in [Shards -> Seq(Pending)]  BY <2>9, <2>10 DEF TypeOK
  <2>. QED  BY <1>5, <2>8, <2>11, SpoiledType DEF TypeOK, Replicate
<1>5a. ASSUME NEW s \in Shards, NEW e \in Endpoints, FlushDrain(s, e) \/ FlushPublish(s, e)
       PROVE  TypeOK'
  <2>0. held[s][e] \in Store  BY DEF TypeOK
  <2>1. PICK st \in Store : held' = [held EXCEPT ![s][e] = st]
    <3>. PICK x \in DocIds : TRUE  BY DocIdsAssumption
    <3>0. {} \in SUBSET DocIds  OBVIOUS
    <3>1. CASE FlushDrain(s, e)
      <4>1. held[s][e].hands = NoCopies  BY <3>1 DEF FlushDrain
      <4>2. Drained(held[s][e]) \in Store  BY <2>0, <3>0, <4>1, StoreSteps
      <4>3. held' = [held EXCEPT ![s][e] = Drained(held[s][e])]
        BY <3>1 DEF FlushDrain, TypeOK
      <4>. QED  BY <4>2, <4>3
    <3>2. CASE FlushPublish(s, e)
      <4>1. Published(held[s][e]) \in Store  BY <2>0, <3>0, StoreSteps
      <4>2. held' = [held EXCEPT ![s][e] = Published(held[s][e])]
        BY <3>2 DEF FlushPublish, TypeOK
      <4>. QED  BY <4>1, <4>2
    <3>. QED  BY <1>5a, <3>1, <3>2
  <2>2. held' \in [Shards -> [Endpoints -> Store]]  BY <2>1, HeldType
  <2>3. srch' \in [Callers -> SearchState]
    BY <1>5a, SpoiledType DEF FlushDrain, FlushPublish
  <2>. QED  BY <1>5a, <2>2, <2>3 DEF TypeOK, FlushDrain, FlushPublish
<1>6. ASSUME Expire PROVE TypeOK'
  <2>1. ASSUME NEW k \in Keys PROVE [cache[k] EXCEPT !.age = @ + 1] \in CacheEntry
    <3>. PICK n \in Nat : n = cache[k].age + 1  BY DEF TypeOK, CacheEntry
    <3>1. [cache[k] EXCEPT !.age = n] \in CacheEntry  BY DEF TypeOK, CacheEntry
    <3>. QED  BY <3>1
  <2>2. cache' \in [Keys -> CacheEntry]  BY <1>6, <2>1, Idle DEF Expire
  <2>. QED  BY <1>6, <2>2 DEF TypeOK, Expire
<1>7. CASE UNCHANGED vars  BY <1>7 DEF TypeOK, vars
<1>. QED
  BY <1>1, <1>2, <1>3, <1>4, <1>5, <1>5a, <1>6, <1>7, TypeSearch, TypeBulk DEF Next
-----------------------------------------------------------------------------
(* Zones: what the cache and the responses show *)

\* Steps that neither respond nor touch the cache leave the zones respected.
LEMMA ZoneKept ==
    ASSUME CachedForZone, ZoneRespected, cache' = cache, resp' = resp
    PROVE  CachedForZone' /\ ZoneRespected'
BY DEF CachedForZone, ZoneRespected

\* A response with another status than ok shows nothing.
LEMMA ZoneOther ==
    ASSUME TypeOK, CachedForZone, ZoneRespected, cache' = cache,
           NEW c \in Callers, NEW r, resp' = [resp EXCEPT ![c] = r], r.status # "ok"
    PROVE  CachedForZone' /\ ZoneRespected'
<1>1. CachedForZone'  BY DEF CachedForZone
<1>2. \A x \in Callers : resp'[x] = IF x = c THEN r ELSE resp[x]  BY DEF TypeOK
<1>. QED  BY <1>1, <1>2 DEF ZoneRespected

\* A zone sees only its stock, in what is cached and in what is answered.
LEMMA ZoneSearch ==
    ASSUME TypeOK, CachedForZone, ZoneRespected, NEW c \in Callers, Search(c)
    PROVE  CachedForZone' /\ ZoneRespected'
<1>1. ASSUME NEW q \in Requests, Reject(c, q) PROVE CachedForZone' /\ ZoneRespected'
  <2>. PICK r : r = [NoResponse EXCEPT !.status = "rejected", !.req = q]  OBVIOUS
  <2>1. r.status # "ok"  BY Idle DEF Response
  <2>2. resp' = [resp EXCEPT ![c] = r] /\ cache' = cache  BY <1>1 DEF Reject
  <2>. QED  BY <2>1, <2>2, ZoneOther
<1>2. ASSUME NEW q \in Requests, RespondFromCache(c, q)
      PROVE  CachedForZone' /\ ZoneRespected'
  <2>. PICK e : e = cache[KeyOf(q)]  OBVIOUS
  <2>. PICK r : r = [status |-> "ok", req |-> q, hits |-> Page(e.hits, q),
                     clean |-> FALSE, blind |-> e.blind]  OBVIOUS
  <2>1. KeyOf(q) \in Keys /\ KeyOf(q).zone = q.zone  BY DEF Keys, KeyOf
  <2>2. e.hits \in Seq(Copy)  BY <2>1 DEF TypeOK, CacheEntry
  <2>3. IdsOf(r.hits) \subseteq IdsOf(e.hits)  BY <2>2, PageFrom
  <2>4. (Strategy # "noop" /\ q.zone # "" /\ ~e.blind)
           => IdsOf(r.hits) \subseteq Available[q.zone]
    BY <2>1, <2>3 DEF CachedForZone
  <2>5. resp' = [resp EXCEPT ![c] = r] /\ cache' = cache  BY <1>2 DEF RespondFromCache
  <2>6. \A x \in Callers : resp'[x] = IF x = c THEN r ELSE resp[x]  BY <2>5 DEF TypeOK
  <2>7. r.req = q /\ r.blind = e.blind  OBVIOUS
  <2>8. ZoneRespected'  BY <2>4, <2>6, <2>7 DEF ZoneRespected
  <2>. QED  BY <2>5, <2>8 DEF CachedForZone
<1>3. ASSUME GatherHits(c) PROVE CachedForZone' /\ ZoneRespected'
  <2>1. CASE Healthy(c) = {}
    <3>. PICK r : r = [NoResponse EXCEPT !.status = "error", !.req = srch[c].req]
      OBVIOUS
    <3>1. r.status # "ok"  BY Idle DEF Response
    <3>2. resp' = [resp EXCEPT ![c] = r] /\ cache' = cache  BY <1>3, <2>1 DEF GatherHits
    <3>. QED  BY <3>1, <3>2, ZoneOther
  <2>2. CASE Healthy(c) # {}  BY <1>3, <2>2, ZoneKept DEF GatherHits
  <2>. QED  BY <2>1, <2>2
<1>4. ASSUME Finish(c) PROVE CachedForZone' /\ ZoneRespected'
  <2>. PICK q : q = srch[c].req  OBVIOUS
  <2>. PICK k : k = KeyOf(q)  OBVIOUS
  <2>0. /\ q \in Requests /\ k \in Keys /\ k.zone = q.zone /\ q.zone \in Zones
        /\ srch[c].hits \in Seq(Copy)
    BY RouterAssumption DEF Keys, KeyOf, SearchState, TypeOK
  <2>1. PICK ok \in BOOLEAN :
          /\ cache' = [cache EXCEPT ![k] = [age |-> 0, blind |-> ~ok,
                           hits |-> Filtered(srch[c].hits, q.zone, ok)]]
          /\ resp' = [resp EXCEPT ![c] =
                [status |-> "ok", req |-> q,
                 hits |-> Page(Filtered(srch[c].hits, q.zone, ok), q),
                 clean |-> srch[c].clean /\ ok, blind |-> ~ok]]
    BY <1>4 DEF Finish
  <2>. PICK h : h = Filtered(srch[c].hits, q.zone, ok)  OBVIOUS
  <2>. PICK e : e = [age |-> 0, hits |-> h, blind |-> ~ok]  OBVIOUS
  <2>. PICK r : r = [status |-> "ok", req |-> q, hits |-> Page(h, q),
                     clean |-> srch[c].clean /\ ok, blind |-> ~ok]  OBVIOUS
  <2>2. /\ h \in Seq(Copy)
        /\ (q.zone # "" /\ Strategy # "noop" /\ ok) => IdsOf(h) \subseteq Available[q.zone]
    BY <2>0, FilteredFrom
  <2>3. IdsOf(Page(h, q)) \subseteq IdsOf(h)  BY <2>0, <2>2, PageFrom
  <2>4. e.hits = h /\ e.blind = ~ok /\ r.hits = Page(h, q) /\ r.blind = ~ok /\ r.req = q
    OBVIOUS
  <2>5. cache' = [cache EXCEPT ![k] = e] /\ resp' = [resp EXCEPT ![c] = r]  BY <2>1
  <2>6. \A x \in Keys : cache'[x] = IF x = k THEN e ELSE cache[x]  BY <2>5 DEF TypeOK
  <2>7. \A x \in Callers : resp'[x] = IF x = c THEN r ELSE resp[x]  BY <2>5 DEF TypeOK
  <2>8. CachedForZone'
    <3> SUFFICES ASSUME NEW x \in Keys, Strategy # "noop", x.zone # "", ~cache'[x].blind
                 PROVE  IdsOf(cache'[x].hits) \subseteq Available[x.zone]
      BY DEF CachedForZone
    <3>1. CASE x = k  BY <2>0, <2>2, <2>4, <2>6, <3>1
    <3>2. CASE x # k  BY <2>6, <3>2 DEF CachedForZone
    <3>. QED  BY <3>1, <3>2
  <2>9. ZoneRespected'
    <3> SUFFICES ASSUME NEW x \in Callers, Strategy # "noop",
                        resp'[x].status = "ok", resp'[x].req.zone # "", ~resp'[x].blind
                 PROVE  IdsOf(resp'[x].hits) \subseteq Available[resp'[x].req.zone]
      BY DEF ZoneRespected
    <3>1. CASE x = c  BY <2>2, <2>3, <2>4, <2>7, <3>1
    <3>2. CASE x # c  BY <2>7, <3>2 DEF ZoneRespected
    <3>. QED  BY <3>1, <3>2
  <2>. QED  BY <2>8, <2>9
<1>5. ASSUME NEW s \in Shards, ShardAnswers(c, s) \/ ShardFails(c, s)
      PROVE  CachedForZone' /\ ZoneRespected'
  BY <1>5, ZoneKept DEF ShardAnswers, ShardFails
<1>6. ASSUME NEW q \in Requests, Scatter(c, q) PROVE CachedForZone' /\ ZoneRespected'
  BY <1>6, ZoneKept DEF Scatter
<1>7. ASSUME Fetch(c) \/ Rerank(c) PROVE CachedForZone' /\ ZoneRespected'
  BY <1>7, ZoneKept DEF Fetch, Rerank
<1>. QED  BY <1>1, <1>2, <1>3, <1>4, <1>5, <1>6, <1>7 DEF Search

\* Also the other steps keep the zones apart.
LEMMA ZoneNext ==
    TypeOK /\ CachedForZone /\ ZoneRespected /\ [Next]_vars
        => CachedForZone' /\ ZoneRespected'
<1> SUFFICES ASSUME TypeOK, CachedForZone, ZoneRespected, [Next]_vars
             PROVE  CachedForZone' /\ ZoneRespected'
  OBVIOUS
<1>1. ASSUME Expire PROVE CachedForZone' /\ ZoneRespected'
  <2>1. ZoneRespected'  BY <1>1 DEF Expire, ZoneRespected
  <2>2. ASSUME NEW k \in Keys
        PROVE  cache'[k].hits = << >> \/
                  (cache'[k].hits = cache[k].hits /\ cache'[k].blind = cache[k].blind)
    <3>1. cache[k] \in CacheEntry  BY DEF TypeOK
    <3>2. cache'[k] = NoCached \/ cache'[k] = [cache[k] EXCEPT !.age = @ + 1]
      BY <1>1 DEF Expire
    <3>. QED  BY <3>1, <3>2 DEF NoCached, CacheEntry
  <2>3. IdsOf(<< >>) = {}  BY DEF IdsOf
  <2>4. ASSUME NEW k \in Keys, Strategy # "noop", k.zone # "", ~cache'[k].blind
        PROVE  IdsOf(cache'[k].hits) \subseteq Available[k.zone]
    <3>1. CASE cache'[k].hits = << >>  BY <2>3, <3>1
    <3>2. CASE cache'[k].hits = cache[k].hits /\ cache'[k].blind = cache[k].blind
      BY <2>4, <3>2 DEF CachedForZone
    <3>. QED  BY <2>2, <3>1, <3>2
  <2>5. CachedForZone'  BY <2>4 DEF CachedForZone
  <2>. QED  BY <2>1, <2>5
<1>2. ASSUME NEW w \in Writers, NEW b \in Batches, RejectBulk(w, b) \/ StartBulk(w, b)
      PROVE  CachedForZone' /\ ZoneRespected'
  BY <1>2, ZoneKept DEF RejectBulk, StartBulk
<1>3. ASSUME NEW w \in Writers, BulkStep(w) PROVE CachedForZone' /\ ZoneRespected'
  BY <1>3, ZoneKept DEF BulkStep, RunTask, AwaitTask
<1>4. ASSUME NEW d \in Deletable, Index(d) \/ Delete(d)
      PROVE  CachedForZone' /\ ZoneRespected'
  BY <1>4, ZoneKept DEF Index, Delete
<1>5. ASSUME NEW s \in Shards,
             Replicate(s) \/ \E e \in Endpoints : FlushDrain(s, e) \/ FlushPublish(s, e)
      PROVE  CachedForZone' /\ ZoneRespected'
  BY <1>5, ZoneKept DEF Replicate, FlushDrain, FlushPublish
<1>6. CASE UNCHANGED vars  BY <1>6, ZoneKept DEF vars
<1>. QED  BY <1>1, <1>2, <1>3, <1>4, <1>5, <1>6, ZoneSearch DEF Next
-----------------------------------------------------------------------------
(* What the shards hold, and bulk writes *)

\* What a step does to the documents on the shards: of an id that is not deleted
\* it loses nothing, and when it changes anything it spoils the searches.
HeldGood ==
    /\ dropped \subseteq dropped'
    /\ \A d \in DocIds \ dropped' : OnPrimary(d) => OnPrimary(d)'
    /\ held' = held \/ srch' = Spoiled

\* A step that changes one endpoint of one shard.
LEMMA OneEndpoint ==
    ASSUME TypeOK, NEW s \in Shards, NEW e \in Endpoints, NEW st,
           held' = [held EXCEPT ![s][e] = st], srch' = Spoiled, dropped \subseteq dropped',
           \A d \in DocIds \ dropped' :
               (ShardOf[d] = s /\ Stocked(held[s][e], d)) => Stocked(st, d)
    PROVE  HeldGood
<1>1. \A x \in Shards, y \in Endpoints :
         held'[x][y] = IF x = s /\ y = e THEN st ELSE held[x][y]
  BY DEF TypeOK
<1>2. ASSUME NEW d \in DocIds, d \notin dropped', OnPrimary(d) PROVE OnPrimary(d)'
  <2>. PICK x \in Shards : x = ShardOf[d]  BY RouterAssumption
  <2>0. "primary" \in Endpoints  BY DEF Endpoints
  <2>. PICK old : old = held[x]["primary"]  OBVIOUS
  <2>. PICK new : new = held'[x]["primary"]  OBVIOUS
  <2>1. Stocked(old, d)  BY <1>2 DEF OnPrimary, Stocked
  <2>2. CASE x = s /\ e = "primary"
    <3>1. new = st  BY <1>1, <2>0, <2>2
    <3>2. Stocked(new, d)  BY <1>2, <2>1, <2>2, <3>1
    <3>. QED  BY <3>2 DEF OnPrimary, Stocked
  <2>3. CASE ~(x = s /\ e = "primary")
    <3>1. new = old  BY <1>1, <2>0, <2>3
    <3>2. Stocked(new, d)  BY <2>1, <3>1
    <3>. QED  BY <3>2 DEF OnPrimary, Stocked
  <2>. QED  BY <2>2, <2>3
<1>. QED  BY <1>2 DEF HeldGood

\* A write is such a step.
LEMMA StoredGood ==
    ASSUME TypeOK, NEW s \in Shards, NEW docs \in SUBSET DocIds, Stored(s, docs),
           dropped' = dropped
    PROVE  HeldGood /\ \A d \in docs : ShardOf[d] = s => OnPrimary(d)'
<1>0. "primary" \in Endpoints /\ held[s]["primary"] \in Store
  BY DEF TypeOK, Endpoints
<1>. PICK x \in DocIds : TRUE  BY DocIdsAssumption
<1>. PICK st : st = Added(held[s]["primary"], docs)  OBVIOUS
<1>1. /\ \A d \in DocIds : Stocked(held[s]["primary"], d) => Stocked(st, d)
      /\ \A d \in docs : Stocked(st, d)
  BY <1>0, StoreSteps
<1>2. held' = [held EXCEPT ![s]["primary"] = st] /\ srch' = Spoiled
  BY StoredType DEF Stored
<1>3. HeldGood  BY <1>0, <1>1, <1>2, OneEndpoint
<1>4. held'[s]["primary"] = st  BY <1>0, <1>2 DEF TypeOK
<1>5. ASSUME NEW d \in docs, ShardOf[d] = s PROVE OnPrimary(d)'
  <2>. PICK new : new = held'[s]["primary"]  OBVIOUS
  <2>1. Stocked(new, d)  BY <1>1, <1>4
  <2>. QED  BY <1>5, <2>1 DEF OnPrimary, Stocked
<1>. QED  BY <1>3, <1>5

\* Every step is good.
LEMMA HeldSteps ==
    ASSUME TypeOK, [Next]_vars
    PROVE  HeldGood
<1>1. ASSUME held' = held, dropped' = dropped PROVE HeldGood
  BY <1>1 DEF HeldGood, OnPrimary
<1>3. ASSUME NEW c \in Callers, Search(c) PROVE HeldGood
  <2>1. held' = held /\ dropped' = dropped
    BY <1>3 DEF Search, Reject, RespondFromCache, Scatter, ShardAnswers, ShardFails,
                GatherHits, Fetch, Rerank, Finish
  <2>. QED  BY <1>1, <2>1
<1>4. ASSUME NEW w \in Writers, NEW b \in Batches, RejectBulk(w, b) \/ StartBulk(w, b)
      PROVE  HeldGood
  <2>1. held' = held /\ dropped' = dropped  BY <1>4 DEF RejectBulk, StartBulk
  <2>. QED  BY <1>1, <2>1
<1>5. ASSUME NEW w \in Writers, BulkStep(w) PROVE HeldGood
  <2>1. CASE AwaitTask(w)
    <3>1. held' = held /\ dropped' = dropped  BY <2>1 DEF AwaitTask
    <3>. QED  BY <1>1, <3>1
  <2>2. ASSUME NEW s \in Shards, RunTask(w, s) PROVE HeldGood
    <3>. PICK docs : docs = OfShard(bulk[w].docs, s)  OBVIOUS
    <3>1. docs \in SUBSET DocIds  BY DEF OfShard, TypeOK, BulkState
    <3>2. dropped' = dropped /\ (held' = held \/ Stored(s, docs))
      BY <2>2 DEF RunTask
    <3>. QED  BY <1>1, <3>1, <3>2, StoredGood
  <2>. QED  BY <1>5, <2>1, <2>2 DEF BulkStep
<1>6. ASSUME NEW d \in Deletable, Index(d) PROVE HeldGood
  <2>1. ShardOf[d] \in Shards /\ {d} \in SUBSET DocIds  BY RouterAssumption
  <2>2. Stored(ShardOf[d], {d}) /\ dropped' = dropped  BY <1>6 DEF Index
  <2>. QED  BY <2>1, <2>2, StoredGood
<1>7. ASSUME NEW d \in Deletable, Delete(d) PROVE HeldGood
  <2>. PICK s \in Shards : s = ShardOf[d]  BY RouterAssumption
  <2>. PICK st : st = Deleted(held[s]["primary"], d)  OBVIOUS
  <2>1. d \in DocIds /\ {} \in SUBSET DocIds /\ "primary" \in Endpoints
    BY RouterAssumption DEF Endpoints
  <2>2. held[s]["primary"] \in Store  BY <2>1 DEF TypeOK
  <2>3. \A x \in DocIds \ {d} : Stocked(held[s]["primary"], x) => Stocked(st, x)
    BY <2>1, <2>2, StoreSteps
  <2>4. held' = [held EXCEPT ![s]["primary"] = st] /\ srch' = Spoiled
        /\ dropped' = dropped \cup {d}
    BY <1>7, <2>1 DEF Delete, TypeOK
  <2>. QED  BY <2>1, <2>3, <2>4, OneEndpoint
<1>8. ASSUME NEW s \in Shards, Replicate(s) PROVE HeldGood
  <2>0. "replica" \in Endpoints /\ "replica" # "primary"  BY DEF Endpoints
  <2>1. PICK st : held' = [held EXCEPT ![s]["replica"] = st]
    BY <1>8, <2>0 DEF Replicate, TypeOK
  <2>2. srch' = Spoiled /\ dropped' = dropped  BY <1>8 DEF Replicate
  <2>3. \A x \in Shards : held'[x]["primary"] = held[x]["primary"]
    BY <2>0, <2>1 DEF TypeOK, Endpoints
  <2>4. \A d \in DocIds : OnPrimary(d) => OnPrimary(d)'
    BY <2>3, RouterAssumption DEF OnPrimary
  <2>. QED  BY <2>2, <2>4 DEF HeldGood
<1>9. ASSUME NEW s \in Shards, NEW e \in Endpoints, FlushDrain(s, e) PROVE HeldGood
  <2>. PICK x \in DocIds : TRUE  BY DocIdsAssumption
  <2>. PICK st : st = Drained(held[s][e])  OBVIOUS
  <2>0. {} \in SUBSET DocIds /\ held[s][e] \in Store /\ held[s][e].hands = NoCopies
    BY <1>9 DEF FlushDrain, TypeOK
  <2>1. \A d \in DocIds : Stocked(held[s][e], d) => Stocked(st, d)  BY <2>0, StoreSteps
  <2>2. held' = [held EXCEPT ![s][e] = st] /\ srch' = Spoiled /\ dropped' = dropped
    BY <1>9 DEF FlushDrain, TypeOK
  <2>. QED  BY <2>1, <2>2, OneEndpoint
<1>10. ASSUME NEW s \in Shards, NEW e \in Endpoints, FlushPublish(s, e) PROVE HeldGood
  <2>. PICK x \in DocIds : TRUE  BY DocIdsAssumption
  <2>. PICK st : st = Published(held[s][e])  OBVIOUS
  <2>0. {} \in SUBSET DocIds /\ held[s][e] \in Store  BY DEF TypeOK
  <2>1. \A d \in DocIds : Stocked(held[s][e], d) => Stocked(st, d)  BY <2>0, StoreSteps
  <2>2. held' = [held EXCEPT ![s][e] = st] /\ srch' = Spoiled /\ dropped' = dropped
    BY <1>10 DEF FlushPublish, TypeOK
  <2>. QED  BY <2>1, <2>2, OneEndpoint
<1>11. ASSUME Expire \/ UNCHANGED vars PROVE HeldGood
  <2>1. held' = held /\ dropped' = dropped  BY <1>11 DEF Expire, vars
  <2>. QED  BY <1>1, <2>1
<1>. QED  BY <1>3, <1>4, <1>5, <1>6, <1>7, <1>8, <1>9, <1>10, <1>11 DEF Next

\* Writes and deletes of others do not invalidate what a bulk write has counted.
LEMMA AccountedKept ==
    ASSUME TypeOK, [Next]_vars, NEW b \in BulkState, Accounted(b)
    PROVE  Accounted(b)'
<1>1. /\ dropped \subseteq dropped'
      /\ \A d \in DocIds \ dropped' : OnPrimary(d) => OnPrimary(d)'
  BY HeldSteps DEF HeldGood
<1>2. b.docs \subseteq DocIds  BY DEF BulkState
<1>3. \A d \in b.docs \ dropped' : d \in DocIds \ dropped' /\ d \in b.docs \ dropped
  BY <1>1, <1>2
<1>4. Awaited(b)' = Awaited(b)  BY DEF Awaited
<1>. QED  BY <1>1, <1>3, <1>4 DEF Accounted

\* A step of the bulk write w itself.
LEMMA AccountedStep ==
    ASSUME TypeOK, [Next]_vars, BulksAccounted,
           NEW w \in Writers, NEW b \in BulkState,
           bulk' = [bulk EXCEPT ![w] = b], Accounted(b)'
    PROVE  BulksAccounted'
<1>1. ASSUME NEW x \in Writers PROVE Accounted(bulk[x])'
  <2>. PICK r : r = bulk'[x]  OBVIOUS
  <2>1. Accounted(r)'
    <3>1. CASE x = w  BY <3>1 DEF TypeOK
    <3>2. CASE x # w
      <4>1. r = bulk[x] /\ r \in BulkState  BY <3>2 DEF TypeOK
      <4>2. Accounted(r)  BY <4>1 DEF BulksAccounted
      <4>. QED  BY <4>1, <4>2, AccountedKept
    <3>. QED  BY <3>1, <3>2
  <2>. QED  BY <2>1 DEF Accounted, OnPrimary, Awaited
<1>. QED  BY <1>1 DEF BulksAccounted
\* Bulk writes stay accounted for.
LEMMA BulkNext ==
    TypeOK /\ BulksAccounted /\ [Next]_vars => BulksAccounted'
<1> SUFFICES ASSUME TypeOK, BulksAccounted, [Next]_vars
             PROVE  BulksAccounted'
  OBVIOUS
<1>1. ASSUME bulk' = bulk PROVE BulksAccounted'
  <2>1. ASSUME NEW x \in Writers PROVE Accounted(bulk[x])'
    <3>. PICK r : r = bulk[x]  OBVIOUS
    <3>1. r \in BulkState /\ Accounted(r)  BY DEF TypeOK, BulksAccounted
    <3>2. Accounted(r)'  BY <3>1, AccountedKept
    <3>. QED  BY <1>1, <3>2 DEF Accounted, OnPrimary, Awaited
  <2>. QED  BY <2>1 DEF BulksAccounted
<1>2. ASSUME NEW w \in Writers, NEW b \in Batches, RejectBulk(w, b) PROVE BulksAccounted'
  <2>. PICK r : r = [bulk[w] EXCEPT !.result = "rejected"]  OBVIOUS
  <2>1. bulk[w] \in BulkState /\ bulk[w].pc = "idle"  BY <1>2 DEF TypeOK, RejectBulk
  <2>2. r \in BulkState /\ r.pc = "idle" /\ r.result = "rejected"  BY <2>1 DEF BulkState
  <2>3. bulk' = [bulk EXCEPT ![w] = r]  BY <1>2 DEF RejectBulk, TypeOK
  <2>4. Accounted(r)'  BY <2>2 DEF Accounted
  <2>. QED  BY <2>2, <2>3, <2>4, AccountedStep
<1>3. ASSUME NEW w \in Writers, NEW b \in Batches, StartBulk(w, b) PROVE BulksAccounted'
  <2>. PICK docs \in SUBSET DocIds : docs = Mapped(b.items)  BY DEF Mapped
  <2>. PICK t \in [Shards -> {"none", "running", "ok", "failed"}] :
          t = [s \in Shards |-> IF OfShard(docs, s) = {} THEN "none" ELSE "running"]
    OBVIOUS
  <2>. PICK r : r = [NoBulk EXCEPT !.pc = "await", !.docs = docs, !.task = t]  OBVIOUS
  <2>1. bulk' = [bulk EXCEPT ![w] = r]  BY <1>3 DEF StartBulk
  <2>2. r \in BulkState  BY Idle DEF BulkState
  <2>3. r.result = "none" /\ r.total = 0 /\ r.docs = docs /\ r.task = t  BY DEF NoBulk
  <2>4. \A d \in docs : t[ShardOf[d]] = "running"  BY RouterAssumption DEF OfShard
  <2>5. Awaited(r) = {}  BY <2>3, <2>4 DEF Awaited
  <2>6. Cardinality(Awaited(r)) = 0  BY <2>5, FS_EmptySet
  <2>7. Accounted(r)'
    <3>1. Awaited(r)' = Awaited(r)  BY DEF Awaited
    <3>. QED  BY <2>3, <2>4, <2>6, <3>1 DEF Accounted
  <2>. QED  BY <2>1, <2>2, <2>7, AccountedStep
<1>4. ASSUME NEW w \in Writers, NEW s \in Shards, RunTask(w, s) PROVE BulksAccounted'
  <2>. PICK o : o = bulk[w]  OBVIOUS
  <2>0. o \in BulkState /\ Accounted(o) /\ o.task[s] = "running"
    BY <1>4 DEF TypeOK, BulksAccounted, RunTask
  <2>1. Accounted(o)'  BY <2>0, AccountedKept
  <2>2. o.result # "ok"  BY <2>0 DEF Accounted
  <2>3. ASSUME NEW u \in {"ok", "failed"}, bulk' = [bulk EXCEPT ![w].task[s] = u],
               \A d \in o.docs \ dropped' : (ShardOf[d] = s /\ u = "ok") => OnPrimary(d)'
        PROVE  BulksAccounted'
    <3>. PICK r : r = [o EXCEPT !.task[s] = u]  OBVIOUS
    <3>1. bulk' = [bulk EXCEPT ![w] = r]  BY <2>3 DEF TypeOK
    <3>2. r \in BulkState  BY <2>0 DEF BulkState
    <3>3. /\ r.docs = o.docs /\ r.pc = o.pc /\ r.total = o.total /\ r.result = o.result
          /\ \A x \in Shards : r.task[x] = IF x = s THEN u ELSE o.task[x]
      BY <2>0 DEF BulkState
    <3>4. \A d \in o.docs : ShardOf[d] \in Shards  BY <2>0, RouterAssumption DEF BulkState
    <3>5. Awaited(r) = Awaited(o)  BY <2>0, <3>3, <3>4 DEF Awaited
    <3>6. Accounted(r)'
      <4>1. Awaited(r)' = Awaited(r) /\ Awaited(o)' = Awaited(o)  BY DEF Awaited
      <4>2. ASSUME NEW d \in r.docs \ dropped', r.pc = "await",
                   r.task[ShardOf[d]] \in {"none", "ok"}
            PROVE  OnPrimary(d)'
        <5>1. CASE ShardOf[d] = s  BY <2>3, <3>3, <4>2, <5>1
        <5>2. CASE ShardOf[d] # s  BY <2>1, <3>3, <3>4, <4>2, <5>2 DEF Accounted
        <5>. QED  BY <5>1, <5>2
      <4>. QED  BY <2>1, <2>2, <3>3, <3>5, <4>1, <4>2 DEF Accounted
    <3>. QED  BY <3>1, <3>2, <3>6, AccountedStep
  <2>4. CASE Stored(s, OfShard(bulk[w].docs, s))
             /\ bulk' = [bulk EXCEPT ![w].task[s] = "ok"]
    <3>1. OfShard(o.docs, s) \in SUBSET DocIds  BY <2>0 DEF OfShard, BulkState
    <3>2. dropped' = dropped  BY <1>4 DEF RunTask
    <3>3. \A d \in OfShard(o.docs, s) : ShardOf[d] = s => OnPrimary(d)'
      BY <2>4, <3>1, <3>2, StoredGood
    <3>4. \A d \in o.docs : ShardOf[d] = s => OnPrimary(d)'  BY <3>3 DEF OfShard
    <3>. QED  BY <2>3, <2>4, <3>4
  <2>5. CASE bulk' = [bulk EXCEPT ![w].task[s] = "failed"]  BY <2>3, <2>5
  <2>. QED  BY <1>4, <2>4, <2>5 DEF RunTask
<1>5. ASSUME NEW w \in Writers, AwaitTask(w) PROVE BulksAccounted'
  <2>. PICK o : o = bulk[w]  OBVIOUS
  <2>0. o \in BulkState /\ Accounted(o) /\ o.pc = "await"
    BY <1>5 DEF TypeOK, BulksAccounted, AwaitTask
  <2>1. Accounted(o)'  BY <2>0, AccountedKept
  <2>2. o.docs \subseteq DocIds /\ \A d \in o.docs : ShardOf[d] \in Shards
    BY <2>0, RouterAssumption DEF BulkState
  <2>3. Awaited(o)' = Awaited(o)  BY DEF Awaited
  <2>4. CASE /\ Left(w) = {}
             /\ bulk' = [bulk EXCEPT ![w] = [bulk[w] EXCEPT !.pc = "idle", !.result = "ok"]]
    <3>. PICK r : r = [o EXCEPT !.pc = "idle", !.result = "ok"]  OBVIOUS
    <3>1. bulk' = [bulk EXCEPT ![w] = r]  BY <2>4
    <3>2. /\ r \in BulkState /\ r.pc = "idle"
          /\ r.docs = o.docs /\ r.task = o.task /\ r.total = o.total
      BY <2>0 DEF BulkState
    <3>3. \A s \in Shards : o.task[s] = "none"  BY <2>0, <2>4 DEF Left, BulkState
    <3>4. Awaited(o) = o.docs  BY <2>2, <3>3 DEF Awaited
    <3>5. Accounted(r)'  BY <2>0, <2>1, <2>2, <2>3, <3>2, <3>3, <3>4 DEF Accounted
    <3>. QED  BY <3>1, <3>2, <3>5, AccountedStep
  <2>5. ASSUME NEW s \in Left(w),
               bulk' = [bulk EXCEPT ![w] = [bulk[w] EXCEPT !.pc = "idle",
                                  !.result = "error", !.task[s] = "none"]]
        PROVE  BulksAccounted'
    <3>. PICK r : r = [o EXCEPT !.pc = "idle", !.result = "error", !.task[s] = "none"]
      OBVIOUS
    <3>1. bulk' = [bulk EXCEPT ![w] = r]  BY <2>5
    <3>2. r \in BulkState /\ r.pc = "idle" /\ r.result = "error"  BY <2>0 DEF BulkState
    <3>3. Accounted(r)'  BY <3>2 DEF Accounted
    <3>. QED  BY <3>1, <3>2, <3>3, AccountedStep
  <2>6. ASSUME NEW s \in Left(w), bulk[w].task[s] = "ok",
               bulk' = [bulk EXCEPT ![w] =
                  [bulk[w] EXCEPT
                     !.total = bulk[w].total + Cardinality(OfShard(bulk[w].docs, s)),
                     !.task[s] = "none"]]
        PROVE  BulksAccounted'
    <3>. PICK D : D = OfShard(o.docs, s)  OBVIOUS
    <3>. PICK n : n = o.total + Cardinality(D)  OBVIOUS
    <3>. PICK r : r = [o EXCEPT !.total = n, !.task[s] = "none"]  OBVIOUS
    <3>0. s \in Shards /\ o.task[s] = "ok"  BY <2>6 DEF Left
    <3>1. bulk' = [bulk EXCEPT ![w] = r]  BY <2>6
    <3>2. /\ D \in SUBSET DocIds /\ Awaited(o) \in SUBSET DocIds
          /\ D \cap Awaited(o) = {}
      BY <2>2, <3>0 DEF OfShard, Awaited
    <3>3. /\ IsFiniteSet(D) /\ Cardinality(D) \in Nat
          /\ IsFiniteSet(Awaited(o)) /\ Cardinality(Awaited(o)) \in Nat
      BY <3>2, DocsFinite
    <3>4. o.total = Cardinality(Awaited(o)) /\ o.result = "none"  BY <2>0 DEF Accounted
    <3>5. n \in Nat  BY <3>3, <3>4
    <3>6. r \in BulkState  BY <2>0, <3>5 DEF BulkState
    <3>7. /\ r.docs = o.docs /\ r.pc = o.pc /\ r.total = n /\ r.result = o.result
          /\ \A x \in Shards : r.task[x] = IF x = s THEN "none" ELSE o.task[x]
      BY <2>0 DEF BulkState
    <3>8. Awaited(r) = Awaited(o) \cup D  BY <2>2, <3>7 DEF Awaited, OfShard
    <3>9. Cardinality(Awaited(r)) = n
      <4>1. Cardinality(Awaited(o) \cup D) = Cardinality(Awaited(o)) + Cardinality(D)
                - Cardinality(Awaited(o) \cap D)
        BY <3>3, FS_Union
      <4>2. Cardinality(Awaited(o) \cap D) = 0
        <5>1. Awaited(o) \cap D = {}  BY <3>2
        <5>. QED  BY <5>1, FS_EmptySet
      <4>. PICK i \in Nat : i = Cardinality(Awaited(o))  BY <3>3
      <4>. PICK j \in Nat : j = Cardinality(D)  BY <3>3
      <4>3. Cardinality(Awaited(r)) = i + j - 0  BY <3>8, <4>1, <4>2, Zenon
      <4>4. n = i + j  BY <3>4, Zenon
      <4>5. i + j - 0 = i + j  OBVIOUS
      <4>. QED  BY <4>3, <4>4, <4>5, Zenon
    <3>10. Accounted(r)'
      <4>1. Awaited(r)' = Awaited(r)  BY DEF Awaited
      <4>2. ASSUME NEW d \in r.docs \ dropped', r.task[ShardOf[d]] \in {"none", "ok"}
            PROVE  OnPrimary(d)'
        <5>1. o.task[ShardOf[d]] \in {"none", "ok"}  BY <2>2, <3>0, <3>7, <4>2
        <5>2. \A x \in o.docs \ dropped' :
                 o.task[ShardOf[x]] \in {"none", "ok"} => OnPrimary(x)'
          BY <2>0, <2>1 DEF Accounted
        <5>3. d \in o.docs \ dropped'  BY <3>7
        <5>. QED  BY <5>1, <5>2, <5>3
      <4>. QED  BY <3>4, <3>7, <3>9, <4>1, <4>2 DEF Accounted
    <3>. QED  BY <3>1, <3>6, <3>10, AccountedStep
  <2>. QED  BY <1>5, <2>4, <2>5, <2>6, AwaitCases
<1>6. ASSUME NEW c \in Callers, Search(c) PROVE bulk' = bulk
  BY <1>6 DEF Search, Reject, RespondFromCache, Scatter, ShardAnswers, ShardFails,
              GatherHits, Fetch, Rerank, Finish
<1>7. ASSUME (\E d \in Deletable : Index(d) \/ Delete(d))
             \/ (\E s \in Shards : Replicate(s)) \/ Expire \/ UNCHANGED vars
             \/ (\E s \in Shards, e \in Endpoints : FlushDrain(s, e) \/ FlushPublish(s, e))
      PROVE  bulk' = bulk
  BY <1>7 DEF Index, Delete, Replicate, FlushDrain, FlushPublish, Expire, vars
<1>. QED  BY <1>1, <1>2, <1>3, <1>4, <1>5, <1>6, <1>7 DEF Next, BulkStep
-----------------------------------------------------------------------------
(* Undisturbed searches *)

\* Undisturbed, one stage of a search at a time.
LEMMA UndisturbedFetch ==
    ASSUME NEW y, y.pc = "fetch", NEW from \in [Shards -> Endpoints],
           \A s \in Shards :
              /\ y.got[s].st = "ok"
              /\ y.got[s].found = TopOf(Copies(held[s][from[s]]), ScatterLimit)
    PROVE  Undisturbed(y)
<1>1. /\ y.pc # "scatter"
      /\ y.pc \notin {"rerank", "finish"}
  OBVIOUS
<1>2. \E f \in [Shards -> Endpoints] : \A s \in Shards :
         /\ y.got[s].st = "ok"
         /\ y.got[s].found = TopOf(Copies(held[s][f[s]]), ScatterLimit)
  OBVIOUS
<1>. QED  BY <1>1, <1>2, Zenon DEF Undisturbed

LEMMA UndisturbedFinish ==
    ASSUME NEW y, y.pc = "finish"
    PROVE  Undisturbed(y) <=>
              \E from, pick \in [Shards -> Endpoints] :
                 y.hits = InOrder(Fetched(Candidate(from), pick, {}), RankScore)
<1>1. y.pc # "scatter" /\ y.pc # "fetch" /\ y.pc # "rerank"
  OBVIOUS
<1>. QED  BY <1>1, Zenon DEF Undisturbed

\* It depends on no other state than the shards'.
LEMMA UndisturbedHeld ==
    ASSUME NEW y, held' = held
    PROVE  Undisturbed(y)' <=> Undisturbed(y)
<1>1. \A f \in [Shards -> Endpoints] : Candidate(f)' = Candidate(f)
  BY DEF Candidate
<1>2. \A f, g \in [Shards -> Endpoints] :
         Fetched(Candidate(f), g, {})' = Fetched(Candidate(f), g, {})
  BY <1>1 DEF Fetched
<1>. QED  BY <1>1, <1>2 DEF Undisturbed

\* A step that leaves the shards alone leaves the other searches undisturbed.
LEMMA CleanStep ==
    ASSUME TypeOK, CleanSoFar, held' = held, NEW c \in Callers, NEW y,
           srch' = [srch EXCEPT ![c] = y], y.clean => Undisturbed(y)
    PROVE  CleanSoFar'
<1>1. ASSUME NEW x \in Callers, srch'[x].clean PROVE Undisturbed(srch[x])'
  <2>. PICK r : r = srch'[x]  OBVIOUS
  <2>1. Undisturbed(r)
    <3>1. CASE x = c  BY <1>1, <3>1 DEF TypeOK
    <3>2. CASE x # c  BY <1>1, <3>2 DEF TypeOK, CleanSoFar
    <3>. QED  BY <3>1, <3>2
  <2>2. Undisturbed(r)'  BY <2>1, UndisturbedHeld
  <2>. QED  BY <2>2 DEF Undisturbed
<1>. QED  BY <1>1 DEF CleanSoFar

\* A step that touches neither shards nor searches.
LEMMA CleanKept ==
    ASSUME CleanSoFar, held' = held, srch' = srch
    PROVE  CleanSoFar'
<1>1. ASSUME NEW x \in Callers, srch'[x].clean PROVE Undisturbed(srch[x])'
  <2>. PICK r : r = srch'[x]  OBVIOUS
  <2>1. Undisturbed(r)  BY <1>1 DEF CleanSoFar
  <2>2. Undisturbed(r)'  BY <2>1, UndisturbedHeld
  <2>. QED  BY <2>2 DEF Undisturbed
<1>. QED  BY <1>1 DEF CleanSoFar

\* Nothing to sort.
LEMMA InOrderEmpty == InOrder({}, RankScore) = << >>
<1>1. Cardinality({}) = 0 /\ {} \in HitSets  BY FS_EmptySet DEF HitSets
<1>2. InOrder({}, RankScore) \in Seq({}) /\ DOMAIN InOrder({}, RankScore) = 1..0
  BY <1>1, ScoresOrder, InOrderProperties
<1>. QED  BY <1>2

\* Searches that are clean stay undisturbed.
LEMMA CleanSearch ==
    ASSUME TypeOK, CleanSoFar, NEW c \in Callers, Search(c)
    PROVE  CleanSoFar'
<1>. PICK x : x = srch[c]  OBVIOUS
<1>0. x \in SearchState /\ (x.clean => Undisturbed(x))  BY DEF TypeOK, CleanSoFar
<1>2. ASSUME NEW q \in Requests, Reject(c, q) \/ RespondFromCache(c, q) PROVE CleanSoFar'
  BY <1>2, CleanKept DEF Reject, RespondFromCache
<1>3. ASSUME NEW q \in Requests, Scatter(c, q) PROVE CleanSoFar'
  <2>. PICK y : y = [NoSearch EXCEPT !.pc = "scatter", !.req = q, !.clean = TRUE]
    OBVIOUS
  <2>1. srch' = [srch EXCEPT ![c] = y] /\ held' = held  BY <1>3 DEF Scatter
  <2>2. /\ y.pc = "scatter" /\ y.hits = << >>
        /\ \A s \in Shards : y.got[s].st = "wait"
    BY DEF NoSearch
  <2>3. y.clean => Undisturbed(y)  BY <2>2 DEF Undisturbed
  <2>. QED  BY <2>1, <2>3, CleanStep
<1>4. ASSUME NEW s \in Shards, ShardAnswers(c, s) PROVE CleanSoFar'
  <2>1. PICK e \in Endpoints :
          srch' = [srch EXCEPT ![c].got[s] =
                      [st |-> "ok", found |-> TopOf(Copies(held[s][e]), ScatterLimit)]]
    BY <1>4 DEF ShardAnswers
  <2>. PICK a : a = [st |-> "ok", found |-> TopOf(Copies(held[s][e]), ScatterLimit)]
    OBVIOUS
  <2>. PICK y : y = [x EXCEPT !.got[s] = a]  OBVIOUS
  <2>2. srch' = [srch EXCEPT ![c] = y] /\ held' = held
    BY <1>4, <2>1 DEF ShardAnswers, TypeOK
  <2>3. /\ y.pc = x.pc /\ y.hits = x.hits /\ y.clean = x.clean /\ x.pc = "scatter"
        /\ \A u \in Shards : y.got[u] = IF u = s THEN a ELSE x.got[u]
    BY <1>0, <1>4 DEF SearchState, ShardAnswers
  <2>4. a.st = "ok" /\ a.found = TopOf(Copies(held[s][e]), ScatterLimit)  OBVIOUS
  <2>5. y.clean => Undisturbed(y)
    <3> SUFFICES ASSUME y.clean PROVE Undisturbed(y)  OBVIOUS
    <3>1. Undisturbed(x)  BY <1>0, <2>3
    <3>2. x.hits = << >>
          /\ \A u \in Shards :
                /\ x.got[u].st # "failed"
                /\ x.got[u].st = "ok" =>
                      \E z \in Endpoints :
                          x.got[u].found = TopOf(Copies(held[u][z]), ScatterLimit)
      BY <2>3, <3>1 DEF Undisturbed
    <3>3. ASSUME NEW u \in Shards
          PROVE  /\ y.got[u].st # "failed"
                 /\ y.got[u].st = "ok" =>
                      \E z \in Endpoints :
                          y.got[u].found = TopOf(Copies(held[u][z]), ScatterLimit)
      <4>1. CASE u = s  BY <2>3, <2>4, <4>1
      <4>2. CASE u # s
        <5>1. y.got[u] = x.got[u]  BY <2>3, <4>2
        <5>. QED  BY <3>2, <5>1
      <4>. QED  BY <4>1, <4>2
    <3>. QED  BY <2>3, <3>2, <3>3 DEF Undisturbed
  <2>. QED  BY <2>2, <2>5, CleanStep
<1>5. ASSUME NEW s \in Shards, ShardFails(c, s) PROVE CleanSoFar'
  <2>. PICK a : a = [x.got[s] EXCEPT !.st = "failed"]  OBVIOUS
  <2>. PICK y : y = [x EXCEPT !.got[s] = a, !.clean = FALSE]  OBVIOUS
  <2>1. srch' = [srch EXCEPT ![c] = y] /\ held' = held
    BY <1>5 DEF ShardFails, TypeOK
  <2>2. ~y.clean  BY <1>0 DEF SearchState
  <2>. QED  BY <2>1, <2>2, CleanStep
<1>6. ASSUME GatherHits(c) PROVE CleanSoFar'
  <2>1. CASE Healthy(c) = {}
    <3>1. srch' = [srch EXCEPT ![c] = NoSearch] /\ held' = held
      BY <1>6, <2>1 DEF GatherHits
    <3>2. ~NoSearch.clean  BY DEF NoSearch
    <3>. QED  BY <3>1, <3>2, CleanStep
  <2>2. CASE Healthy(c) # {}
    <3>. PICK p : p = IF AllHits(c) = {} THEN "finish" ELSE "fetch"  OBVIOUS
    <3>. PICK y : y = [x EXCEPT !.pc = p]  OBVIOUS
    <3>1. srch' = [srch EXCEPT ![c] = y] /\ held' = held
      BY <1>6, <2>2 DEF GatherHits, TypeOK
    <3>2. /\ x.pc = "scatter" /\ \A s \in Shards : x.got[s].st # "wait"
      BY <1>6 DEF GatherHits
    <3>3. y.pc = p /\ y.hits = x.hits /\ y.got = x.got /\ y.clean = x.clean
      BY <1>0 DEF SearchState
    <3>4. y.clean => Undisturbed(y)
      <4> SUFFICES ASSUME y.clean PROVE Undisturbed(y)  OBVIOUS
      <4>1. Undisturbed(x)  BY <1>0, <3>3
      <4>2. x.hits = << >>
            /\ \A s \in Shards :
                  /\ x.got[s].st # "failed"
                  /\ x.got[s].st = "ok" =>
                        \E z \in Endpoints :
                            x.got[s].found = TopOf(Copies(held[s][z]), ScatterLimit)
        BY <3>2, <4>1 DEF Undisturbed
      <4>3. \A s \in Shards : x.got[s].st = "ok"
        BY <1>0, <3>2, <4>2 DEF SearchState, Answer
      <4>4. PICK from \in [Shards -> Endpoints] : \A s \in Shards :
               x.got[s].found = TopOf(Copies(held[s][from[s]]), ScatterLimit)
        <5>. PICK f : f = [s \in Shards |-> CHOOSE z \in Endpoints :
                            x.got[s].found = TopOf(Copies(held[s][z]), ScatterLimit)]
          OBVIOUS
        <5>1. \A s \in Shards :
                 /\ f[s] \in Endpoints
                 /\ x.got[s].found = TopOf(Copies(held[s][f[s]]), ScatterLimit)
          BY <4>2, <4>3
        <5>2. f \in [Shards -> Endpoints]  BY <5>1
        <5>. QED  BY <5>1, <5>2
      <4>5. from \in [Shards -> Endpoints]  OBVIOUS
      <4>6. AllHits(c) = Candidate(from)
        <5>1. Healthy(c) = Shards  BY <4>3 DEF Healthy
        <5>2. AllHits(c) = UNION {x.got[s].found : s \in Shards}
          BY <5>1 DEF AllHits
        <5>3. {x.got[s].found : s \in Shards}
                 = {TopOf(Copies(held[s][from[s]]), ScatterLimit) : s \in Shards}
          BY <4>4
        <5>. QED  BY <5>2, <5>3 DEF Candidate
      <4>7. CASE AllHits(c) = {}
        <5>1. Fetched(Candidate(from), from, {}) = {}  BY <4>6, <4>7 DEF Fetched
        <5>2. y.hits = InOrder(Fetched(Candidate(from), from, {}), RankScore)
          BY <3>3, <4>2, <5>1, InOrderEmpty
        <5>3. y.pc = "finish"  BY <3>3, <4>7
        <5>. QED  BY <4>5, <5>2, <5>3 DEF Undisturbed
      <4>8. CASE AllHits(c) # {}
        <5>1. y.pc = "fetch"  BY <3>3, <4>8
        <5>2. \A s \in Shards :
                 /\ y.got[s].st = "ok"
                 /\ y.got[s].found = TopOf(Copies(held[s][from[s]]), ScatterLimit)
          BY <3>3, <4>3, <4>4
        <5>. QED  BY <4>5, <5>1, <5>2, UndisturbedFetch
      <4>. QED  BY <4>7, <4>8
    <3>. QED  BY <3>1, <3>4, CleanStep
  <2>. QED  BY <2>1, <2>2
<1>7. ASSUME Fetch(c) PROVE CleanSoFar'
  <2>1. PICK pick \in [Shards -> Endpoints], lost \in SUBSET Shards :
          srch' = [srch EXCEPT ![c].pc = "rerank",
                               ![c].docs = Fetched(AllHits(c), pick, lost),
                               ![c].got = NoSearch.got,
                               ![c].clean = @ /\ lost = {}]
    BY <1>7 DEF Fetch
  <2>. PICK C : C = Fetched(AllHits(c), pick, lost)  OBVIOUS
  <2>. PICK b \in BOOLEAN : b = (x.clean /\ lost = {})  OBVIOUS
  <2>. PICK g : g = NoSearch.got  OBVIOUS
  <2>. PICK y : y = [x EXCEPT !.pc = "rerank", !.docs = C, !.got = g, !.clean = b]
    OBVIOUS
  <2>2. srch' = [srch EXCEPT ![c] = y] /\ held' = held
    BY <1>7, <2>1 DEF Fetch, TypeOK
  <2>3. y.pc = "rerank" /\ y.docs = C /\ y.clean = b  BY <1>0 DEF SearchState
  <2>4. y.clean => Undisturbed(y)
    <3> SUFFICES ASSUME y.clean PROVE Undisturbed(y)  OBVIOUS
    <3>1. Undisturbed(x) /\ lost = {} /\ x.pc = "fetch"  BY <1>0, <1>7, <2>3 DEF Fetch
    <3>2. PICK from \in [Shards -> Endpoints] : \A s \in Shards :
              /\ x.got[s].st = "ok"
              /\ x.got[s].found = TopOf(Copies(held[s][from[s]]), ScatterLimit)
      BY <3>1 DEF Undisturbed
    <3>3. AllHits(c) = Candidate(from)  BY <3>2 DEF AllHits, Healthy, Candidate
    <3>4. y.docs = Fetched(Candidate(from), pick, {})  BY <2>3, <3>1, <3>3
    <3>. QED  BY <2>3, <3>4 DEF Undisturbed
  <2>. QED  BY <2>2, <2>4, CleanStep
<1>8. ASSUME Rerank(c) PROVE CleanSoFar'
  <2>1. PICK ok \in BOOLEAN :
          srch' = [srch EXCEPT ![c].pc = "finish",
                ![c].hits = RankedOrFallback(srch[c].docs, ok),
                ![c].docs = {},
                ![c].clean = @ /\ ok]
    BY <1>8 DEF Rerank
  <2>. PICK h : h = RankedOrFallback(x.docs, ok)  OBVIOUS
  <2>. PICK b \in BOOLEAN : b = (x.clean /\ ok)  OBVIOUS
  <2>. PICK y : y = [x EXCEPT !.pc = "finish", !.hits = h, !.docs = {}, !.clean = b]
    OBVIOUS
  <2>2. srch' = [srch EXCEPT ![c] = y] /\ held' = held
    BY <1>8, <2>1 DEF Rerank, TypeOK
  <2>3. y.pc = "finish" /\ y.hits = h /\ y.clean = b  BY <1>0 DEF SearchState
  <2>4. y.clean => Undisturbed(y)
    <3> SUFFICES ASSUME y.clean PROVE Undisturbed(y)  OBVIOUS
    <3>1. Undisturbed(x) /\ ok /\ x.pc = "rerank"  BY <1>0, <1>8, <2>3 DEF Rerank
    <3>2. PICK from \in [Shards -> Endpoints], pick \in [Shards -> Endpoints] :
              x.docs = Fetched(Candidate(from), pick, {})
      BY <3>1 DEF Undisturbed
    <3>3. y.hits = InOrder(Fetched(Candidate(from), pick, {}), RankScore)
      BY <2>3, <3>1, <3>2 DEF RankedOrFallback, RankerOrder
    <3>. QED  BY <2>3, <3>3 DEF Undisturbed
  <2>. QED  BY <2>2, <2>4, CleanStep
<1>9. ASSUME Finish(c) PROVE CleanSoFar'
  <2>1. srch' = [srch EXCEPT ![c] = NoSearch] /\ held' = held  BY <1>9 DEF Finish
  <2>2. ~NoSearch.clean  BY DEF NoSearch
  <2>. QED  BY <2>1, <2>2, CleanStep
<1>. QED  BY <1>2, <1>3, <1>4, <1>5, <1>6, <1>7, <1>8, <1>9 DEF Search

\* Also the other steps leave clean searches undisturbed: a change of what the
\* shards hold leaves none.
LEMMA CleanNext ==
    TypeOK /\ CleanSoFar /\ [Next]_vars => CleanSoFar'
<1> SUFFICES ASSUME TypeOK, CleanSoFar, [Next]_vars PROVE CleanSoFar'
  OBVIOUS
<1>1. ASSUME srch' = Spoiled PROVE CleanSoFar'
  <2>1. \A c \in Callers : ~srch'[c].clean  BY <1>1, SpoiledType
  <2>. QED  BY <2>1 DEF CleanSoFar
<1>2. ASSUME held' = held, srch' = srch PROVE CleanSoFar'
  BY <1>2, CleanKept
<1>3. held' = held \/ srch' = Spoiled  BY HeldSteps DEF HeldGood
<1>4. (\E c \in Callers : Search(c)) \/ srch' = srch \/ srch' = Spoiled
  BY DEF Next, vars, RejectBulk, StartBulk, BulkStep, RunTask, AwaitTask, Index, Delete,
         Stored, Replicate, FlushDrain, FlushPublish, Expire
<1>. QED  BY <1>1, <1>2, <1>3, <1>4, CleanSearch
-----------------------------------------------------------------------------
(* The theorems *)

\* The system starts in the invariant.
LEMMA InvInit == Init => RouterInv
<1> SUFFICES ASSUME Init PROVE RouterInv  OBVIOUS
<1>1. TypeOK  BY TypeInit
<1>3. CachedForZone
  <2>1. \A k \in Keys : cache[k].hits = << >>  BY DEF Init, NoCached
  <2>2. IdsOf(<< >>) = {}  BY DEF IdsOf
  <2>. QED  BY <2>1, <2>2 DEF CachedForZone
<1>4. ZoneRespected  BY DEF Init, NoResponse, ZoneRespected
<1>5. CleanSoFar  BY DEF Init, NoSearch, CleanSoFar
<1>6. BulksAccounted  BY DEF Init, NoBulk, BulksAccounted, Accounted
<1>. QED  BY <1>1, <1>3, <1>4, <1>5, <1>6 DEF RouterInv

\* The invariant is inductive.
LEMMA InvNext == RouterInv /\ [Next]_vars => RouterInv'
<1> SUFFICES ASSUME RouterInv, [Next]_vars PROVE RouterInv'  OBVIOUS
<1> USE DEF RouterInv
<1>1. TypeOK'  BY TypeNext
<1>3. CachedForZone' /\ ZoneRespected'  BY ZoneNext
<1>4. CleanSoFar'  BY CleanNext
<1>5. BulksAccounted'  BY BulkNext
<1>. QED  BY <1>1, <1>3, <1>4, <1>5

\* The invariant holds throughout.
LEMMA Invariant == Spec => []RouterInv
BY InvInit, InvNext, PTL DEF Spec

\* A response for a zone, fresh or from the cache, shows only what the zone has
\* in stock, unless the stock service failed when the list was made, whatever
\* the strategy, the requests, the cache's lifetime and the failures (Router::search,
\* AvailabilityStrategy::apply, QueryCacheKey).
THEOREM ZonesKeptApart == Spec => []ZoneRespected
<1>1. RouterInv => ZoneRespected  BY DEF RouterInv
<1>. QED  BY <1>1, Invariant, PTL

\* A bulk write that returns Ok has stored every document of its batch that
\* was not deleted since on its shard's primary, and has counted each once,
\* however tasks, failures and other writers interleave (Router::bulk_index).
THEOREM BulkOkMeansStored == Spec => []BulkOkStored
<1>1. RouterInv => BulkOkStored
  BY DEF RouterInv, BulksAccounted, Accounted, OnPrimary, BulkOkStored
<1>. QED  BY <1>1, Invariant, PTL

\* The candidates are a finite set of hits, and none of the best hits overall is
\* missing from them: a hit with few hits ahead of it overall has no more ahead of
\* it on its shard.
LEMMA CandidatesComplete ==
    ASSUME TypeOK, NEW from \in [Shards -> Endpoints]
    PROVE  /\ Candidate(from) \in HitSets
           /\ TopOf(Everything(from), ScatterLimit) \subseteq Candidate(from)
<1>. PICK all : all = Everything(from)  OBVIOUS
<1>1. \A s \in Shards : Copies(held[s][from[s]]) \in HitSets  BY CopiesFinite
<1> DEFINE parts == {Copies(held[s][from[s]]) : s \in Shards}
           g == [s \in Shards |-> Copies(held[s][from[s]])]
<1>2. IsFiniteSet(parts)
  <2>1. g \in Surjection(Shards, parts)  BY DEF Surjection
  <2>. HIDE DEF g, parts
  <2>. QED  BY <2>1, RouterAssumption, FS_Surjection
<1>3. \A P \in parts : IsFiniteSet(P) /\ P \in SUBSET Copy  BY <1>1 DEF HitSets
<1>4. IsFiniteSet(UNION parts) /\ UNION parts \in SUBSET Copy
  <2>. HIDE DEF parts
  <2>. QED  BY <1>2, <1>3, FS_UNION
<1>5. all = UNION parts  BY DEF Everything
<1>6. all \in HitSets  BY <1>4, <1>5 DEF HitSets
<1>7. \A s \in Shards : Copies(held[s][from[s]]) \in SUBSET all  BY DEF Everything
<1>8. Candidate(from) \in SUBSET all  BY <1>7 DEF Candidate, TopOf
<1>9. Candidate(from) \in HitSets  BY <1>6, <1>8, PartFinite
<1>10. ASSUME NEW h \in TopOf(all, ScatterLimit) PROVE h \in Candidate(from)
  <2>1. h \in all /\ Cardinality(Ahead(all, Score, h)) < ScatterLimit  BY DEF TopOf
  <2>2. PICK s \in Shards : h \in Copies(held[s][from[s]])  BY <2>1 DEF Everything
  <2>. PICK S : S = Copies(held[s][from[s]])  OBVIOUS
  <2>3. Ahead(S, Score, h) \in SUBSET Ahead(all, Score, h)  BY <1>7 DEF Ahead
  <2>4. Ahead(all, Score, h) \in HitSets  BY <1>6, <2>1, AheadFinite, ScoresOrder
  <2>5. /\ Cardinality(Ahead(all, Score, h)) \in Nat
        /\ Cardinality(Ahead(S, Score, h)) \in Nat
        /\ Cardinality(Ahead(S, Score, h)) <= Cardinality(Ahead(all, Score, h))
    BY <2>3, <2>4, PartFinite
  <2>6. ScatterLimit \in Nat
    <3>1. Candidates * 1 \in Nat /\ Candidates * 3 \in Nat  BY RouterAssumption
    <3>. QED  BY <3>1 DEF ScatterLimit
  <2>7. Cardinality(Ahead(S, Score, h)) < ScatterLimit  BY <2>1, <2>5, <2>6
  <2>8. h \in TopOf(S, ScatterLimit)  BY <2>2, <2>7 DEF TopOf
  <2>. QED  BY <2>8 DEF Candidate
<1>. QED  BY <1>9, <1>10

\* What an undisturbed search answers is exact.
LEMMA ExactStep ==
    ASSUME RouterInv, [Next]_vars, NEW c \in Callers, resp'[c] # resp[c], resp'[c].clean
    PROVE  Exact(resp'[c].req, resp'[c].hits)
<1>0. TypeOK /\ CleanSoFar  BY DEF RouterInv
<1>1. ASSUME NEW x \in Callers, NEW r, ~r.clean, resp' = [resp EXCEPT ![x] = r]
      PROVE  FALSE
  BY <1>0, <1>1 DEF TypeOK
<1>2. ~NoResponse.clean /\ NoResponse \in Response  BY Idle DEF NoResponse
<1>3. PICK x \in Callers : Search(x) /\ resp' # resp
  BY DEF Next, vars, RejectBulk, StartBulk, BulkStep, RunTask, AwaitTask, Index, Delete,
         Stored, Replicate, FlushDrain, FlushPublish, Expire
<1>4. ASSUME NEW q \in Requests, Reject(x, q) PROVE FALSE
  <2>1. ~[NoResponse EXCEPT !.status = "rejected", !.req = q].clean  BY <1>2 DEF Response
  <2>. QED  BY <1>1, <1>4, <2>1 DEF Reject
<1>5. ASSUME NEW q \in Requests, RespondFromCache(x, q) PROVE FALSE
  <2>. PICK r : r = [status |-> "ok", req |-> q, hits |-> Page(cache[KeyOf(q)].hits, q),
                     clean |-> FALSE, blind |-> cache[KeyOf(q)].blind]  OBVIOUS
  <2>1. ~r.clean /\ resp' = [resp EXCEPT ![x] = r]  BY <1>5 DEF RespondFromCache
  <2>. QED  BY <1>1, <2>1
<1>6. ASSUME GatherHits(x) PROVE FALSE
  <2>1. Healthy(x) = {}  BY <1>3, <1>6 DEF GatherHits
  <2>. PICK r : r = [NoResponse EXCEPT !.status = "error", !.req = srch[x].req]  OBVIOUS
  <2>2. ~r.clean  BY <1>2 DEF Response
  <2>3. resp' = [resp EXCEPT ![x] = r]  BY <1>6, <2>1 DEF GatherHits
  <2>. QED  BY <1>1, <2>2, <2>3
<1>7. Finish(x)
  BY <1>3, <1>4, <1>5, <1>6 DEF Search, Scatter, ShardAnswers, ShardFails, Fetch, Rerank
<1>. PICK q : q = srch[x].req  OBVIOUS
<1>8. PICK ok \in BOOLEAN :
        resp' = [resp EXCEPT ![x] =
                [status |-> "ok", req |-> q,
                 hits |-> Page(Filtered(srch[x].hits, q.zone, ok), q),
                 clean |-> srch[x].clean /\ ok, blind |-> ~ok]]
  BY <1>7 DEF Finish
<1>. PICK h : h = Page(Filtered(srch[x].hits, q.zone, ok), q)  OBVIOUS
<1>. PICK b \in BOOLEAN : b = (srch[x].clean /\ ok)  OBVIOUS
<1>. PICK r : r = [status |-> "ok", req |-> q, hits |-> h, clean |-> b, blind |-> ~ok]
  OBVIOUS
<1>9. resp' = [resp EXCEPT ![x] = r] /\ r.clean = b /\ r.req = q /\ r.hits = h  BY <1>8
<1>10. b  BY <1>1, <1>9
<1>11. c = x /\ resp'[c] = r  BY <1>0, <1>9 DEF TypeOK
<1>12. srch[x].clean /\ ok = TRUE  BY <1>10
<1>13. PICK from \in [Shards -> Endpoints], pick \in [Shards -> Endpoints] :
          srch[x].hits = InOrder(Fetched(Candidate(from), pick, {}), RankScore)
  <2>1. Undisturbed(srch[x])  BY <1>0, <1>12 DEF CleanSoFar
  <2>2. srch[x].pc = "finish"  BY <1>7 DEF Finish
  <2>. QED  BY <2>1, <2>2, UndisturbedFinish
<1>. PICK C : C = Fetched(Candidate(from), pick, {})  OBVIOUS
<1>14. /\ Candidate(from) \in HitSets
       /\ TopOf(Everything(from), ScatterLimit) \subseteq Candidate(from)
  BY <1>0, CandidatesComplete
<1>15. q \in Requests  BY <1>0 DEF TypeOK, SearchState
<1>16. C \in HitSets
  <2>1. C \in SUBSET Candidate(from)  BY DEF Fetched
  <2>. QED  BY <1>14, <2>1, PartFinite
<1>17. Filtered(srch[x].hits, q.zone, ok) = InOrder(Of(C, InStock(q)), RankScore)
  BY <1>12, <1>13, <1>15, <1>16, FilteredInOrder
<1>18. h = Page(InOrder(Of(C, InStock(q)), RankScore), q)  BY <1>17
<1>19. Exact(q, h)  BY <1>14, <1>18 DEF Exact, Of
<1>. QED  BY <1>9, <1>11, <1>19

\* A search during which nothing failed and nothing changed on the shards returns
\* the page that sorting and filtering the candidates of one choice of endpoints
\* gives, all of them and nothing else, for every distribution over shards, every
\* scoring, stock and page: no shard's cut-off, no re-ranking, no filter and no page
\* boundary loses a copy or shows one out of place (Router::search steps 1 to 9).
\* Copies of one id, and copies of a deleted id in an open reader, are candidates
\* like any other, as in the code.
THEOREM CleanSearchesExact == Spec => ExactWhenClean
<1>1. RouterInv /\ [Next]_vars =>
        [\A c \in Callers : (resp'[c] # resp[c] /\ resp'[c].clean) =>
              Exact(resp'[c].req, resp'[c].hits)]_vars
  BY ExactStep
<1>. QED  BY <1>1, Invariant, PTL DEF Spec, ExactWhenClean
=============================================================================
