--------------------------- MODULE ShardTypesProofs ---------------------------
(***************************************************************************)
(* What Gather, Retain, Ascending and Max return.  Ranks under Before are  *)
(* an injection of a finite set of positions into 1..Cardinality, hence a  *)
(* bijection: every position is picked exactly once.  And what reading and *)
(* numbering the records of the log returns.                               *)
(***************************************************************************)
EXTENDS WalRecords, FiniteSetTheorems, TLAPS

\* The earlier of two positions has the smaller rank.
LEMMA RankMonotonic ==
    ASSUME NEW P \in SUBSET (Nat \X Nat), IsFiniteSet(P),
           NEW p \in P, NEW q \in P, Before(p, q)
    PROVE  Rank(P, p) < Rank(P, q)
<1> DEFINE A == {x \in P : Before(x, p)}
           B == {x \in P : Before(x, q)}
<1>1. A \subseteq B /\ p \in B /\ p \notin A
  <2>1. p \notin A  BY DEF Before
  <2>2. ASSUME NEW x \in A PROVE x \in B  BY DEF Before
  <2>. QED  BY <2>1, <2>2
<1>2. B \in SUBSET P  OBVIOUS
<1>3. IsFiniteSet(B)  BY <1>2, FS_Subset
<1>4. IsFiniteSet(A) /\ Cardinality(A) <= Cardinality(B) /\ Cardinality(A) # Cardinality(B)
  <2>1. A \in SUBSET B  BY <1>1
  <2>2. A # B  BY <1>1
  <2>. QED  BY <1>3, <2>1, <2>2, FS_Subset
<1>5. Cardinality(A) \in Nat /\ Cardinality(B) \in Nat
  BY <1>3, <1>4, FS_CardinalityType
<1>. QED  BY <1>4, <1>5 DEF Rank

\* Before is a strict total order on positions.
LEMMA BeforeTotal ==
    ASSUME NEW p \in Nat \X Nat, NEW q \in Nat \X Nat, p # q
    PROVE  Before(p, q) \/ Before(q, p)
BY DEF Before

\* A position has fewer positions before it than there are positions.
LEMMA RankBounded ==
    ASSUME NEW P \in SUBSET (Nat \X Nat), IsFiniteSet(P), NEW p \in P
    PROVE  /\ Cardinality(P) \in Nat
           /\ Rank(P, p) \in Nat
           /\ Rank(P, p) < Cardinality(P)
<1> DEFINE A == {x \in P : Before(x, p)}
<1>1. A \in SUBSET P /\ p \notin A  BY DEF Before
<1>2. A # P  BY <1>1
<1>3. IsFiniteSet(A) /\ Cardinality(A) <= Cardinality(P) /\ Cardinality(P) # Cardinality(A)
  BY <1>1, <1>2, FS_Subset
<1>4. Cardinality(A) \in Nat /\ Cardinality(P) \in Nat
  BY <1>3, FS_CardinalityType
<1>. QED  BY <1>3, <1>4 DEF Rank

\* Distinct positions have distinct ranks.
LEMMA RankInjective ==
    ASSUME NEW P \in SUBSET (Nat \X Nat), IsFiniteSet(P),
           NEW p \in P, NEW q \in P, Rank(P, p) = Rank(P, q)
    PROVE  p = q
<1> SUFFICES ASSUME p # q PROVE FALSE  OBVIOUS
<1>1. Before(p, q) \/ Before(q, p)  BY BeforeTotal
<1>2. Rank(P, p) \in Nat /\ Rank(P, q) \in Nat  BY RankBounded
<1>. QED  BY <1>1, <1>2, RankMonotonic

\* Every rank below the cardinality is the rank of some position.
LEMMA RankSurjective ==
    ASSUME NEW P \in SUBSET (Nat \X Nat), IsFiniteSet(P),
           NEW k \in 1..Cardinality(P)
    PROVE  \E p \in P : Rank(P, p) = k - 1
<1> DEFINE n == Cardinality(P)
           r == [p \in P |-> Rank(P, p) + 1]
<1>1. n \in Nat  BY FS_CardinalityType
<1>2. r \in [P -> 1..n]
  <2>1. ASSUME NEW p \in P PROVE Rank(P, p) + 1 \in 1..n
    BY <1>1, RankBounded
  <2>. QED  BY <2>1
<1>3. \A p, q \in P : r[p] = r[q] => p = q
  <2> SUFFICES ASSUME NEW p \in P, NEW q \in P, r[p] = r[q] PROVE p = q
    OBVIOUS
  <2>1. Rank(P, p) \in Nat /\ Rank(P, q) \in Nat  BY RankBounded
  <2>2. Rank(P, p) = Rank(P, q)  BY <2>1
  <2>. QED  BY <2>2, RankInjective
<1>4. r \in Injection(P, 1..n)  BY <1>2, <1>3 DEF Injection, IsInjective
<1>5. IsFiniteSet(1..n) /\ Cardinality(1..n) = n
  BY <1>1, FS_Interval
<1>6. r \in Surjection(P, 1..n)  BY <1>4, <1>5, FS_Injection
<1>7. PICK p \in P : r[p] = k  BY <1>6 DEF Surjection
<1>8. Rank(P, p) \in Nat  BY RankBounded
<1>. QED  BY <1>7, <1>8

\* Nth enumerates the positions.
LEMMA NthProperties ==
    ASSUME NEW P \in SUBSET (Nat \X Nat), IsFiniteSet(P)
    PROVE  /\ \A k \in 1..Cardinality(P) :
                 Nth(P, k) \in P /\ Rank(P, Nth(P, k)) = k - 1
           /\ \A p \in P : \E k \in 1..Cardinality(P) : Nth(P, k) = p
           /\ \A j, k \in 1..Cardinality(P) : Nth(P, j) = Nth(P, k) => j = k
<1>1. ASSUME NEW k \in 1..Cardinality(P)
      PROVE  Nth(P, k) \in P /\ Rank(P, Nth(P, k)) = k - 1
  BY RankSurjective DEF Nth
<1>2. ASSUME NEW p \in P PROVE \E k \in 1..Cardinality(P) : Nth(P, k) = p
  <2>1. /\ Cardinality(P) \in Nat
        /\ Rank(P, p) \in Nat
        /\ Rank(P, p) < Cardinality(P)
    BY RankBounded
  <2> DEFINE k == Rank(P, p) + 1
  <2>2. k \in 1..Cardinality(P) /\ k - 1 = Rank(P, p)  BY <2>1
  <2>3. Nth(P, k) \in P /\ Rank(P, Nth(P, k)) = Rank(P, p)  BY <1>1, <2>2
  <2>4. Nth(P, k) = p  BY <2>3, RankInjective
  <2>. QED  BY <2>2, <2>4
<1>3. ASSUME NEW j \in 1..Cardinality(P), NEW k \in 1..Cardinality(P),
             Nth(P, j) = Nth(P, k)
      PROVE  j = k
  <2>1. Cardinality(P) \in Nat  BY FS_CardinalityType
  <2>2. j - 1 = k - 1  BY <1>1, <1>3
  <2>. QED  BY <2>1, <2>2
<1>. QED  BY <1>1, <1>2, <1>3

\* A finite set of indices, seen as positions of a one-column table.
LEMMA Column ==
    ASSUME NEW S \in SUBSET Nat, IsFiniteSet(S)
    PROVE  /\ S \X {1} \in SUBSET (Nat \X Nat)
           /\ IsFiniteSet(S \X {1})
           /\ Cardinality(S \X {1}) = Cardinality(S)
           /\ Cardinality(S) \in Nat
<1>1. IsFiniteSet({1}) /\ Cardinality({1}) = 1  BY FS_Singleton
<1>2. Cardinality(S) \in Nat  BY FS_CardinalityType
<1>3. IsFiniteSet(S \X {1}) /\ Cardinality(S \X {1}) = Cardinality(S) * 1
  BY <1>1, FS_Product
<1>4. S \X {1} \in SUBSET (Nat \X Nat)
  <2>1. 1 \in Nat  OBVIOUS
  <2>2. \A x \in S \X {1} : x \in Nat \X Nat  BY <2>1
  <2>. QED  BY <2>2
<1>5. Cardinality(S) * 1 = Cardinality(S)  BY <1>2
<1>. QED  BY <1>2, <1>3, <1>4, <1>5

\* A finite non-empty set of numbers has a maximum.
LEMMA MaxProperties ==
    ASSUME NEW S \in SUBSET Nat, IsFiniteSet(S), S # {}
    PROVE  Max(S) \in S /\ \A y \in S : y <= Max(S)
<1> DEFINE P == S \X {1}
           n == Cardinality(S)
<1>1. P \in SUBSET (Nat \X Nat) /\ IsFiniteSet(P) /\ Cardinality(P) = n /\ n \in Nat
  BY Column
<1>2. n # 0  BY FS_EmptySet
<1>3. n \in 1..Cardinality(P)  BY <1>1, <1>2
<1>4. PICK p \in P : Rank(P, p) = n - 1  BY <1>1, <1>3, RankSurjective
<1>5. ASSUME NEW y \in S PROVE y <= p[1]
  <2> SUFFICES ASSUME y > p[1] PROVE FALSE  BY <1>1
  <2> DEFINE q == <<y, 1>>
  <2>1. q \in P  OBVIOUS
  <2>2. Before(p, q)  BY <1>1 DEF Before
  <2>3. Rank(P, p) < Rank(P, q)  BY <1>1, <2>1, <2>2, RankMonotonic
  <2>4. Rank(P, q) \in Nat /\ Rank(P, q) < n  BY <1>1, <2>1, RankBounded
  <2>. QED  BY <1>1, <1>4, <2>3, <2>4
<1>6. p[1] \in S /\ \A y \in S : p[1] >= y  BY <1>5
<1>. QED  BY <1>6 DEF Max

\* Gather picks exactly the elements at the given positions.
LEMMA GatherProperties ==
    ASSUME NEW P \in SUBSET (Nat \X Nat), IsFiniteSet(P), NEW rows, NEW D,
           \A p \in P : rows[p[1]][p[2]] \in D
    PROVE  /\ Gather(rows, P) \in Seq(D)
           /\ \A p \in P : rows[p[1]][p[2]] \in Range(Gather(rows, P))
<1> DEFINE n == Cardinality(P)
           g == [k \in 1..n |-> rows[Nth(P, k)[1]][Nth(P, k)[2]]]
<1>1. n \in Nat  BY FS_CardinalityType
<1>2. \A k \in 1..n : Nth(P, k) \in P  BY NthProperties
<1>3. g \in [1..n -> D]  BY <1>2
<1>4. g \in Seq(D)  BY <1>1, <1>3
<1>5. ASSUME NEW p \in P PROVE rows[p[1]][p[2]] \in Range(g)
  <2>1. PICK k \in 1..n : Nth(P, k) = p  BY NthProperties
  <2>2. g[k] = rows[p[1]][p[2]] /\ k \in DOMAIN g  BY <2>1
  <2>. QED  BY <2>2 DEF Range
<1>. QED  BY <1>4, <1>5 DEF Gather

\* Retain keeps the elements at the indices Keep, each once.
LEMMA RetainProperties ==
    ASSUME NEW D, NEW s \in Seq(D), NEW Keep \in SUBSET DOMAIN s
    PROVE  /\ Retain(s, Keep) \in Seq(D)
           /\ \A i \in Keep : \E k \in DOMAIN Retain(s, Keep) : Retain(s, Keep)[k] = s[i]
           /\ \A k \in DOMAIN Retain(s, Keep) : \E i \in Keep : Retain(s, Keep)[k] = s[i]
           /\ (\A i, j \in Keep : s[i] = s[j] => i = j) =>
                 \A j, k \in DOMAIN Retain(s, Keep) :
                    Retain(s, Keep)[j] = Retain(s, Keep)[k] => j = k
<1> DEFINE P == Keep \X {1}
           n == Cardinality(P)
           rows == [i \in DOMAIN s |-> <<s[i]>>]
           g == [k \in 1..n |-> rows[Nth(P, k)[1]][Nth(P, k)[2]]]
<1>0. DOMAIN s = 1..Len(s) /\ Len(s) \in Nat  OBVIOUS
<1>1. Keep \in SUBSET Nat /\ IsFiniteSet(Keep)
  <2>1. IsFiniteSet(1..Len(s))  BY <1>0, FS_Interval
  <2>. QED  BY <1>0, <2>1, FS_Subset
<1>2. P \in SUBSET (Nat \X Nat) /\ IsFiniteSet(P) /\ n \in Nat  BY <1>1, Column
<1>3. \A p \in P : rows[p[1]][p[2]] = s[p[1]] /\ p[1] \in Keep  OBVIOUS
<1>4. \A k \in 1..n : Nth(P, k) \in P  BY <1>2, NthProperties
<1>5. \A k \in 1..n : g[k] = s[Nth(P, k)[1]] /\ Nth(P, k)[1] \in Keep
  BY <1>3, <1>4
<1>6. Retain(s, Keep) = g /\ g = [k \in 1..n |-> g[k]]  BY DEF Retain, Gather
<1>7. \A i \in Keep : \E k \in 1..n : Nth(P, k)[1] = i
  <2> TAKE i \in Keep
  <2>1. <<i, 1>> \in P  OBVIOUS
  <2>2. PICK k \in 1..n : Nth(P, k) = <<i, 1>>  BY <1>2, <2>1, NthProperties
  <2>. QED  BY <2>2
<1>8. \A j, k \in 1..n : Nth(P, j)[1] = Nth(P, k)[1] => j = k
  <2> TAKE j, k \in 1..n
  <2> HAVE Nth(P, j)[1] = Nth(P, k)[1]
  <2>1. Nth(P, j) \in P /\ Nth(P, k) \in P  BY <1>4
  <2>2. Nth(P, j) = Nth(P, k)  BY <2>1
  <2>. QED  BY <1>2, <2>2, NthProperties
<1>. HIDE DEF P, n, rows, g
<1>9. g \in [1..n -> D]
  <2>1. \A k \in 1..n : g[k] \in D  BY <1>5
  <2>. QED  BY <1>6, <2>1
<1>10. g \in Seq(D) /\ DOMAIN g = 1..n  BY <1>2, <1>9
<1>. QED  BY <1>5, <1>6, <1>7, <1>8, <1>10

\* Ascending lists every element of the set once.
LEMMA AscendingProperties ==
    ASSUME NEW S \in SUBSET Nat, IsFiniteSet(S)
    PROVE  /\ Ascending(S) \in Seq(S)
           /\ \A x \in S : \E k \in DOMAIN Ascending(S) : Ascending(S)[k] = x
           /\ \A j, k \in DOMAIN Ascending(S) :
                 Ascending(S)[j] = Ascending(S)[k] => j = k
<1> DEFINE P == S \X {1}
           n == Cardinality(S)
           g == [k \in 1..n |-> Nth(P, k)[1]]
<1>1. P \in SUBSET (Nat \X Nat) /\ IsFiniteSet(P) /\ Cardinality(P) = n /\ n \in Nat
  BY Column
<1>2. \A k \in 1..n : Nth(P, k) \in P  BY <1>1, NthProperties
<1>3. g \in [1..n -> S]  BY <1>2
<1>4. g \in Seq(S) /\ DOMAIN g = 1..n
  <2>. HIDE DEF g, n
  <2>. QED  BY <1>1, <1>3
<1>5. ASSUME NEW x \in S PROVE \E k \in 1..n : g[k] = x
  <2>1. <<x, 1>> \in P  OBVIOUS
  <2>2. PICK k \in 1..n : Nth(P, k) = <<x, 1>>  BY <1>1, <2>1, NthProperties
  <2>. QED  BY <2>2
<1>6. ASSUME NEW j \in 1..n, NEW k \in 1..n, g[j] = g[k] PROVE j = k
  <2>1. Nth(P, j) = Nth(P, k)  BY <1>2, <1>6
  <2>. QED  BY <1>1, <2>1, NthProperties
<1>. QED  BY <1>4, <1>5, <1>6 DEF Ascending
\* Ascending lists the set in ascending order.
LEMMA AscendingOrder ==
    ASSUME NEW S \in SUBSET Nat, IsFiniteSet(S)
    PROVE  \A j, k \in DOMAIN Ascending(S) : j < k => Ascending(S)[j] < Ascending(S)[k]
<1> DEFINE P == S \X {1}
           n == Cardinality(S)
<1>1. P \in SUBSET (Nat \X Nat) /\ IsFiniteSet(P) /\ Cardinality(P) = n /\ n \in Nat
  BY Column
<1>2. \A k \in 1..n : Nth(P, k) \in P /\ Rank(P, Nth(P, k)) = k - 1  BY <1>1, NthProperties
<1>3. DOMAIN Ascending(S) = 1..n /\ \A k \in 1..n : Ascending(S)[k] = Nth(P, k)[1]
  BY DEF Ascending
<1>. HIDE DEF n, P
<1> SUFFICES ASSUME NEW j \in 1..n, NEW k \in 1..n, j < k PROVE Nth(P, j)[1] < Nth(P, k)[1]
  BY <1>3
<1>. USE DEF P
<1> DEFINE p == Nth(P, j)
           q == Nth(P, k)
<1>4. /\ p \in P /\ q \in P /\ p \in Nat \X Nat /\ q \in Nat \X Nat
      /\ p[1] \in Nat /\ q[1] \in Nat /\ p[2] = 1 /\ q[2] = 1
  BY <1>1, <1>2
<1>5. Rank(P, p) = j - 1 /\ Rank(P, q) = k - 1  BY <1>2
<1>. HIDE DEF p, q, P
<1>6. p # q  BY <1>1, <1>5
<1>7. ~Before(q, p)
  <2>1. Before(q, p) => Rank(P, q) < Rank(P, p)  BY <1>1, <1>4, RankMonotonic
  <2>. QED  BY <1>1, <1>5, <2>1
<1>8. Before(p, q)  BY <1>4, <1>6, <1>7, BeforeTotal
<1>9. p[1] < q[1]  BY <1>4, <1>8 DEF Before
<1>. QED  BY <1>9 DEF p, q

\* Retain keeps the order of the elements.
LEMMA RetainOrder ==
    ASSUME NEW D, NEW s \in Seq(D), NEW Keep \in SUBSET DOMAIN s
    PROVE  /\ Ascending(Keep) \in Seq(Keep)
           /\ DOMAIN Retain(s, Keep) = DOMAIN Ascending(Keep)
           /\ \A k \in DOMAIN Retain(s, Keep) :
                 /\ Ascending(Keep)[k] \in Keep
                 /\ Retain(s, Keep)[k] = s[Ascending(Keep)[k]]
           /\ \A j, k \in DOMAIN Retain(s, Keep) :
                 j < k => Ascending(Keep)[j] < Ascending(Keep)[k]
<1> DEFINE P == Keep \X {1}
           n == Cardinality(Keep)
           rows == [i \in DOMAIN s |-> <<s[i]>>]
<1>0. DOMAIN s = 1..Len(s) /\ Len(s) \in Nat  OBVIOUS
<1>1. Keep \in SUBSET Nat /\ IsFiniteSet(Keep)
  <2>1. IsFiniteSet(1..Len(s))  BY <1>0, FS_Interval
  <2>. QED  BY <1>0, <2>1, FS_Subset
<1>2. /\ P \in SUBSET (Nat \X Nat) /\ IsFiniteSet(P) /\ n \in Nat /\ Cardinality(P) = n
  BY <1>1, Column
<1>3. \A k \in 1..n : Nth(P, k) \in P  BY <1>2, NthProperties
<1>4. \A p \in P : rows[p[1]][p[2]] = s[p[1]] /\ p[1] \in Keep  OBVIOUS
<1>5. DOMAIN Ascending(Keep) = 1..n /\ \A k \in 1..n : Ascending(Keep)[k] = Nth(P, k)[1]
  BY DEF Ascending
<1>6. Retain(s, Keep) = [k \in 1..n |-> rows[Nth(P, k)[1]][Nth(P, k)[2]]]
  BY <1>2 DEF Retain, Gather
<1>7. DOMAIN Retain(s, Keep) = 1..n /\ \A k \in 1..n : Retain(s, Keep)[k] = s[Nth(P, k)[1]]
  BY <1>3, <1>4, <1>6
<1>8. Ascending(Keep) \in Seq(Keep)  BY <1>1, AscendingProperties
<1>9. \A j, k \in DOMAIN Ascending(Keep) : j < k => Ascending(Keep)[j] < Ascending(Keep)[k]
  BY <1>1, AscendingOrder
<1>. HIDE DEF P, n, rows
<1>10. \A k \in DOMAIN Ascending(Keep) : Ascending(Keep)[k] \in Keep  BY <1>8
<1>. QED  BY <1>5, <1>7, <1>8, <1>9, <1>10

\* A filter that keeps everything changes nothing.
LEMMA RetainAll ==
    ASSUME NEW D, NEW s \in Seq(D)
    PROVE  Retain(s, DOMAIN s) = s
<1> DEFINE n == Len(s)
           K == 1..n
           P == K \X {1}
           rows == [i \in DOMAIN s |-> <<s[i]>>]
<1>0. n \in Nat /\ DOMAIN s = K  OBVIOUS
<1>1. IsFiniteSet(K) /\ Cardinality(K) = n /\ K \in SUBSET Nat  BY <1>0, FS_Interval
<1>2. P \in SUBSET (Nat \X Nat) /\ IsFiniteSet(P) /\ Cardinality(P) = n  BY <1>1, Column
<1>3. ASSUME NEW k \in K PROVE Nth(P, k) = <<k, 1>>
  <2> DEFINE p == <<k, 1>>
             J == 1..(k - 1)
  <2>1. k \in Nat /\ k - 1 \in Nat /\ p \in P  BY <1>0
  <2>2. IsFiniteSet(J) /\ Cardinality(J) = k - 1 /\ J \in SUBSET Nat
    <3> DEFINE m == k - 1
    <3>1. m \in Nat  BY <2>1
    <3>. HIDE DEF m
    <3>2. IsFiniteSet(1..m) /\ Cardinality(1..m) = m  BY <3>1, FS_Interval
    <3>3. 1..m \in SUBSET Nat  OBVIOUS
    <3>. QED  BY <3>2, <3>3 DEF m
  <2>3. Cardinality(J \X {1}) = k - 1  BY <2>2, Column
  <2>4. {q \in P : Before(q, p)} = J \X {1}
    <3>1. ASSUME NEW q \in P, Before(q, p) PROVE q \in J \X {1}
      <4>1. q[1] \in K /\ q[2] = 1 /\ q = <<q[1], q[2]>>  OBVIOUS
      <4>2. q[1] < k  BY <2>1, <3>1, <4>1 DEF Before
      <4>3. q[1] \in J  BY <1>0, <2>1, <4>1, <4>2
      <4>. QED  BY <4>1, <4>3
    <3>2. ASSUME NEW q \in J \X {1} PROVE q \in P /\ Before(q, p)
      <4>1. q[1] \in J /\ q[2] = 1 /\ q = <<q[1], q[2]>>  OBVIOUS
      <4>2. q[1] < k /\ q[1] \in K  BY <1>0, <2>1, <4>1
      <4>. QED  BY <4>1, <4>2 DEF Before
    <3>. QED  BY <3>1, <3>2
  <2>5. Rank(P, p) = k - 1  BY <2>3, <2>4 DEF Rank
  <2>6. Nth(P, k) \in P /\ Rank(P, Nth(P, k)) = k - 1  BY <1>0, <1>2, NthProperties
  <2>. HIDE DEF p, P
  <2>7. Nth(P, k) = p  BY <1>2, <2>1, <2>5, <2>6, RankInjective
  <2>. QED  BY <2>7 DEF p
<1>4. Retain(s, DOMAIN s) = [k \in K |-> rows[Nth(P, k)[1]][Nth(P, k)[2]]]
  BY <1>0, <1>2 DEF Retain, Gather
<1>5. \A k \in K : rows[Nth(P, k)[1]][Nth(P, k)[2]] = s[k]
  <2> TAKE k \in K
  <2>0. Nth(P, k) = <<k, 1>>  BY <1>3
  <2>1. Nth(P, k)[1] = k /\ Nth(P, k)[2] = 1
    <3>. HIDE DEF P, K
    <3>. QED  BY <2>0
  <2>. HIDE DEF P, K
  <2>2. rows[k][1] = s[k]  BY <1>0
  <2>. QED  BY <2>1, <2>2
<1>6. Retain(s, DOMAIN s) = [k \in K |-> s[k]]
  <2>. HIDE DEF rows, P, K
  <2>. QED  BY <1>4, <1>5
<1>. QED  BY <1>0, <1>6
-----------------------------------------------------------------------------
(* Reading and numbering the records of the log *)

\* The readable prefix of the log is a prefix.
LEMMA ReadableProperties ==
    ASSUME NEW f \in Seq(WalRecord)
    PROVE  /\ ReadableLen(f) \in 0..Len(f)
           /\ \A i \in 1..ReadableLen(f) : f[i].ok
           /\ ReadRecords(f) \in Seq(WalRecord)
           /\ DOMAIN ReadRecords(f) = 1..ReadableLen(f)
           /\ \A i \in 1..ReadableLen(f) : ReadRecords(f)[i] = f[i]
<1> DEFINE N == {n \in 0..Len(f) : \A i \in 1..n : f[i].ok}
<1>1. Len(f) \in Nat  OBVIOUS
<1>2. N \in SUBSET Nat /\ 0 \in N  BY <1>1
<1>3. IsFiniteSet(N)
  <2>1. IsFiniteSet(0..Len(f)) /\ N \in SUBSET (0..Len(f))  BY <1>1, FS_Interval
  <2>. QED  BY <2>1, FS_Subset
<1>4. Max(N) \in N  BY <1>2, <1>3, MaxProperties
<1>5. ReadableLen(f) \in N  BY <1>4 DEF ReadableLen
<1>6. ReadableLen(f) \in 0..Len(f) /\ \A i \in 1..ReadableLen(f) : f[i].ok
  BY <1>5
<1>7. ReadRecords(f) = SubSeq(f, 1, ReadableLen(f))  BY DEF ReadRecords
<1>. QED  BY <1>1, <1>6, <1>7

\* The sequence number WriteAheadLog::open continues from is a number.
LEMMA SeqAfterType ==
    ASSUME NEW f \in Seq(WalRecord)
    PROVE  SeqAfter(f) \in Nat
<1>1. ReadableLen(f) \in 0..Len(f)  BY ReadableProperties
<1>2. CASE ReadableLen(f) # 0
  <2>1. ReadableLen(f) \in DOMAIN f  BY <1>1, <1>2
  <2>2. f[ReadableLen(f)] \in WalRecord  BY <2>1
  <2>. QED  BY <1>2, <2>2 DEF SeqAfter, WalRecord
<1>. QED  BY <1>2 DEF SeqAfter

\* The records append_batch writes for its entries.
LEMMA NumberedType ==
    ASSUME NEW entries \in Seq(WalEntry), NEW n \in Nat
    PROVE  /\ Numbered(entries, n) \in Seq(WalRecord)
           /\ Len(Numbered(entries, n)) = Len(entries)
<1>1. Len(entries) \in Nat  OBVIOUS
<1>2. ASSUME NEW i \in 1..Len(entries)
      PROVE  [seq |-> n + i - 1, entry |-> entries[i], ok |-> TRUE] \in WalRecord
  <2>1. entries[i] \in WalEntry  OBVIOUS
  <2>2. n + i - 1 \in Nat  OBVIOUS
  <2>. QED  BY <2>1, <2>2 DEF WalRecord
<1>. QED  BY <1>1, <1>2 DEF Numbered

\* A log without torn records is read to its end.
LEMMA WholeLogRead ==
    ASSUME NEW f \in Seq(WalRecord), \A k \in DOMAIN f : f[k].ok
    PROVE  ReadableLen(f) = Len(f)
<1> DEFINE N == {n \in 0..Len(f) : \A i \in 1..n : f[i].ok}
<1>1. Len(f) \in Nat  OBVIOUS
<1>2. N \in SUBSET Nat /\ Len(f) \in N  BY <1>1
<1>3. IsFiniteSet(N)
  <2>1. IsFiniteSet(0..Len(f)) /\ N \in SUBSET (0..Len(f))  BY <1>1, FS_Interval
  <2>. QED  BY <2>1, FS_Subset
<1>4. Max(N) \in N /\ Len(f) <= Max(N)  BY <1>2, <1>3, MaxProperties
<1>. QED  BY <1>1, <1>4 DEF ReadableLen
=============================================================================
