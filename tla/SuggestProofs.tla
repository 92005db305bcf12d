----------------------------- MODULE SuggestProofs -----------------------------
(***************************************************************************)
(* Proofs about autocomplete: the frequencies suggest shards give to terms *)
(* are deserved, and the answer merged from the best terms of every shard  *)
(* is the one the whole indexes would give (FrequencyDeserved,             *)
(* SuggestExact), for any documents, shards, limits and prefixes.          *)
(***************************************************************************)
EXTENDS SuggestEngine, FiniteSetTheorems, TLAPS

-----------------------------------------------------------------------------
(* Lists in order *)

\* R orders the elements of S, no two of them equal.
Orders(R, S) ==
    /\ \A x \in S : <<x, x>> \notin R
    /\ \A x, y \in S : x # y => <<x, y>> \in R \/ <<y, x>> \in R
    /\ \A x, y, z \in S : <<x, y>> \in R /\ <<y, z>> \in R => <<x, z>> \in R

\* What comes first has the lower rank, and ranks are below the number of elements.
LEMMA RankOf ==
    ASSUME NEW S, IsFiniteSet(S), NEW R, Orders(R, S), NEW x \in S
    PROVE  /\ Rank(S, R, x) \in Nat /\ Rank(S, R, x) < Cardinality(S)
           /\ \A y \in S : <<x, y>> \in R => Rank(S, R, x) < Rank(S, R, y)
<1> DEFINE below(z) == {y \in S : <<y, z>> \in R}
<1>1. ASSUME NEW z \in S
      PROVE  /\ IsFiniteSet(below(z)) /\ Cardinality(below(z)) \in Nat
             /\ Rank(S, R, z) = Cardinality(below(z))
  <2>1. below(z) \in SUBSET S  OBVIOUS
  <2>. QED  BY <2>1, FS_Subset, FS_CardinalityType DEF Rank
<1>2. ASSUME NEW T, IsFiniteSet(T), below(x) \cup {x} \subseteq T
      PROVE  Cardinality(below(x)) < Cardinality(T)
  <2>1. x \notin below(x)  BY DEF Orders
  <2>2. /\ IsFiniteSet(below(x) \cup {x})
        /\ Cardinality(below(x) \cup {x}) = Cardinality(below(x)) + 1
    BY <1>1, <2>1, FS_AddElement
  <2>3. Cardinality(below(x) \cup {x}) <= Cardinality(T)  BY <1>2, FS_Subset
  <2>4. Cardinality(T) \in Nat  BY <1>2, FS_CardinalityType
  <2>. QED  BY <1>1, <2>2, <2>3, <2>4
<1>3. Rank(S, R, x) < Cardinality(S)
  <2>1. below(x) \cup {x} \subseteq S  OBVIOUS
  <2>. QED  BY <1>1, <1>2, <2>1
<1>4. ASSUME NEW y \in S, <<x, y>> \in R PROVE Rank(S, R, x) < Rank(S, R, y)
  <2>1. below(x) \cup {x} \subseteq below(y)  BY <1>4 DEF Orders
  <2>. QED  BY <1>1, <1>2, <2>1
<1>. QED  BY <1>1, <1>3, <1>4

\* Every rank below the number of elements is taken, once.
LEMMA RankTaken ==
    ASSUME NEW S, IsFiniteSet(S), NEW R, Orders(R, S)
    PROVE  /\ \A x, y \in S : Rank(S, R, x) = Rank(S, R, y) => x = y
           /\ \A k \in 1 .. Cardinality(S) : \E x \in S : Rank(S, R, x) = k - 1
<1> DEFINE n == Cardinality(S)
           f == [x \in S |-> Rank(S, R, x) + 1]
<1>1. n \in Nat  BY FS_CardinalityType
<1>2. \A x \in S : Rank(S, R, x) \in Nat /\ Rank(S, R, x) < n  BY RankOf
<1>3. ASSUME NEW x \in S, NEW y \in S, Rank(S, R, x) = Rank(S, R, y) PROVE x = y
  <2> SUFFICES ASSUME x # y PROVE FALSE  OBVIOUS
  <2>1. CASE <<x, y>> \in R  BY <1>2, <1>3, <2>1, RankOf
  <2>2. CASE <<y, x>> \in R  BY <1>2, <1>3, <2>2, RankOf
  <2>. QED  BY <2>1, <2>2 DEF Orders
<1>4. f \in Injection(S, 1..n)
  <2>1. f \in [S -> 1..n]  BY <1>1, <1>2
  <2>2. ASSUME NEW x \in S, NEW y \in S, f[x] = f[y] PROVE x = y
    <3>1. Rank(S, R, x) + 1 = Rank(S, R, y) + 1  BY <2>2
    <3>. QED  BY <1>2, <1>3, <3>1
  <2>. QED  BY <2>1, <2>2 DEF Injection, IsInjective
<1>5. IsFiniteSet(1..n) /\ Cardinality(1..n) = n  BY <1>1, FS_Interval
<1>6. f \in Surjection(S, 1..n)  BY <1>4, <1>5, FS_Injection
<1>7. \A k \in 1..n : \E x \in S : f[x] = k  BY <1>6 DEF Surjection
<1>8. ASSUME NEW k \in 1..n PROVE \E x \in S : Rank(S, R, x) = k - 1
  <2>1. PICK x \in S : f[x] = k  BY <1>7
  <2>2. Rank(S, R, x) + 1 = k  BY <2>1
  <2>. QED  BY <1>2, <2>2
<1>. QED  BY <1>3, <1>8

\* InOrder lists every element once, in the order of R.
LEMMA InOrderLists ==
    ASSUME NEW S, IsFiniteSet(S), NEW R, Orders(R, S)
    PROVE  /\ Cardinality(S) \in Nat
           /\ InOrder(S, R) \in Seq(S) /\ Len(InOrder(S, R)) = Cardinality(S)
           /\ DOMAIN InOrder(S, R) = 1 .. Cardinality(S)
           /\ \A k \in 1 .. Cardinality(S) : InOrder(S, R)[k] \in S
           /\ \A x \in S : \E k \in 1 .. Cardinality(S) : InOrder(S, R)[k] = x
           /\ \A j, k \in 1 .. Cardinality(S) :
                 <<InOrder(S, R)[j], InOrder(S, R)[k]>> \in R <=> j < k
           /\ \A k \in 1 .. Cardinality(S) :
                 Cardinality({y \in S : <<y, InOrder(S, R)[k]>> \in R}) = k - 1
<1> DEFINE n == Cardinality(S)
           o == InOrder(S, R)
<1>1. n \in Nat  BY FS_CardinalityType
<1>2. /\ o = [k \in 1..n |-> CHOOSE x \in S : Rank(S, R, x) = k - 1]
      /\ DOMAIN o = 1..n
  BY DEF InOrder
<1>3. ASSUME NEW k \in 1..n PROVE o[k] \in S /\ Rank(S, R, o[k]) = k - 1
  <2>1. \E x \in S : Rank(S, R, x) = k - 1  BY RankTaken
  <2>2. o[k] = CHOOSE x \in S : Rank(S, R, x) = k - 1  BY <1>2
  <2>. QED  BY <2>1, <2>2
<1>4. o \in Seq(S) /\ Len(o) = n
  <2>1. o \in [1..n -> S]  BY <1>2, <1>3
  <2>. HIDE DEF o, n
  <2>. QED  BY <1>1, <1>2, <2>1
<1>. HIDE DEF o, n
<1>5. ASSUME NEW x \in S PROVE \E k \in 1..n : o[k] = x
  <2>1. Rank(S, R, x) \in Nat /\ Rank(S, R, x) < n  BY RankOf DEF n
  <2>2. Rank(S, R, x) + 1 \in 1..n  BY <1>1, <2>1
  <2>3. Rank(S, R, o[Rank(S, R, x) + 1]) = Rank(S, R, x)  BY <1>3, <2>1, <2>2
  <2>. QED  BY <1>3, <2>2, <2>3, RankTaken
<1>6. ASSUME NEW j \in 1..n, NEW k \in 1..n PROVE <<o[j], o[k]>> \in R <=> j < k
  <2>1. /\ o[j] \in S /\ o[k] \in S
        /\ Rank(S, R, o[j]) = j - 1 /\ Rank(S, R, o[k]) = k - 1
    BY <1>3
  <2>2. <<o[j], o[k]>> \in R => j < k
    <3>1. <<o[j], o[k]>> \in R => Rank(S, R, o[j]) < Rank(S, R, o[k])  BY <2>1, RankOf
    <3>. QED  BY <1>1, <2>1, <3>1
  <2>3. <<o[k], o[j]>> \in R => k < j
    <3>1. <<o[k], o[j]>> \in R => Rank(S, R, o[k]) < Rank(S, R, o[j])  BY <2>1, RankOf
    <3>. QED  BY <1>1, <2>1, <3>1
  <2>4. ASSUME j < k PROVE <<o[j], o[k]>> \in R
    <3>1. o[j] # o[k]  BY <1>1, <2>1, <2>4
    <3>2. ~(k < j)  BY <1>1, <2>4
    <3>. QED  BY <2>1, <2>3, <3>1, <3>2 DEF Orders
  <2>. QED  BY <2>2, <2>4
<1>7. \A k \in 1..n : Cardinality({y \in S : <<y, o[k]>> \in R}) = k - 1
  BY <1>3 DEF Rank
<1>. QED  BY <1>1, <1>2, <1>3, <1>4, <1>5, <1>6, <1>7 DEF o, n

\* Max and Min on finite sets of numbers.
LEMMA MaxMin ==
    ASSUME NEW S \in SUBSET Nat, IsFiniteSet(S), S # {}
    PROVE  /\ Max(S) \in S /\ \A y \in S : y <= Max(S)
           /\ Min(S) \in S /\ \A y \in S : Min(S) <= y
<1> DEFINE R == {p \in S \X S : p[1] < p[2]}
           n == Cardinality(S)
           o == InOrder(S, R)
<1>1. Orders(R, S) /\ \A p \in R : p[1] < p[2]  BY DEF Orders
<1>. HIDE DEF R
<1>2. /\ n \in Nat /\ \A k \in 1..n : o[k] \in S
      /\ \A x \in S : \E k \in 1..n : o[k] = x
      /\ \A j, k \in 1..n : <<o[j], o[k]>> \in R <=> j < k
  BY <1>1, InOrderLists
<1>3. n # 0  BY FS_EmptySet
<1>. HIDE DEF o, n
<1>4. 1 \in 1..n /\ n \in 1..n  BY <1>2, <1>3
<1>5. ASSUME NEW y \in S PROVE y <= o[n] /\ o[1] <= y
  <2>1. PICK k \in 1..n : o[k] = y  BY <1>2
  <2>2. /\ k < n => <<y, o[n]>> \in R
        /\ 1 < k => <<o[1], y>> \in R
    BY <1>2, <1>4, <2>1
  <2>3. /\ k < n => y < o[n]
        /\ 1 < k => o[1] < y
    BY <1>1, <2>2
  <2>4. o[n] \in Nat /\ o[1] \in Nat /\ y \in Nat  BY <1>2, <1>4
  <2>5. (k < n \/ k = n) /\ (1 < k \/ k = 1)  BY <1>2
  <2>. QED  BY <2>1, <2>3, <2>4, <2>5
<1>6. o[n] \in S /\ o[1] \in S /\ (\A y \in S : o[n] >= y) /\ (\A y \in S : o[1] <= y)
  BY <1>2, <1>4, <1>5
<1>. QED  BY <1>6 DEF Max, Min
-----------------------------------------------------------------------------
(* The order of terms *)

\* The k-th letter of t; the end of a term comes before every letter.
Letter(t, k) == IF k <= Len(t) THEN t[k] + 1 ELSE 0

\* A prefix agrees with the term in every letter it has.
LEMMA PrefixIs ==
    ASSUME NEW s \in Seq(Nat), NEW t \in Seq(Nat)
    PROVE  /\ IsPrefix(s, t) <=> \A k \in 1 .. Len(s) : Letter(s, k) = Letter(t, k)
           /\ IsPrefix(s, t) => Len(s) <= Len(t)
<1>1. /\ Len(s) \in Nat /\ DOMAIN s = 1..Len(s) /\ \A k \in 1..Len(s) : s[k] \in Nat
      /\ Len(t) \in Nat /\ DOMAIN t = 1..Len(t) /\ \A k \in 1..Len(t) : t[k] \in Nat
  OBVIOUS
<1>2. ASSUME IsPrefix(s, t), NEW k \in 1..Len(s) PROVE Letter(s, k) = Letter(t, k)
  <2>1. Len(s) <= Len(t) /\ SubSeq(s, 1, Len(s)) = SubSeq(t, 1, Len(s))
    BY <1>2 DEF IsPrefix
  <2>2. SubSeq(s, 1, Len(s))[k] = s[k] /\ SubSeq(t, 1, Len(s))[k] = t[k]
    BY <1>1, <2>1
  <2>. QED  BY <1>1, <2>1, <2>2 DEF Letter
<1>3. ASSUME \A k \in 1..Len(s) : Letter(s, k) = Letter(t, k) PROVE IsPrefix(s, t)
  <2>1. ASSUME NEW k \in 1..Len(s) PROVE k <= Len(t) /\ s[k] = t[k]
    <3>1. Letter(s, k) = s[k] + 1  BY <1>1 DEF Letter
    <3>2. Letter(t, k) = s[k] + 1  BY <1>3, <3>1
    <3>. QED  BY <1>1, <3>2 DEF Letter
  <2>2. Len(s) <= Len(t)
    <3>1. CASE Len(s) = 0  BY <1>1, <3>1
    <3>2. CASE Len(s) # 0
      <4>1. Len(s) \in 1..Len(s)  BY <1>1, <3>2
      <4>. QED  BY <2>1, <4>1
    <3>. QED  BY <3>1, <3>2
  <2>3. SubSeq(s, 1, Len(s)) = SubSeq(t, 1, Len(s))  BY <1>1, <2>1, <2>2
  <2>. QED  BY <2>2, <2>3 DEF IsPrefix
<1>4. IsPrefix(s, t) => Len(s) <= Len(t)  BY DEF IsPrefix
<1>. QED  BY <1>2, <1>3, <1>4

\* Letters are numbers, and say which term it is.
LEMMA LetterIs ==
    ASSUME NEW s \in Seq(Nat), NEW t \in Seq(Nat)
    PROVE  /\ \A k \in Nat \ {0} : Letter(t, k) \in Nat /\ (Letter(t, k) = 0 <=> k > Len(t))
           /\ (\A k \in Nat \ {0} : Letter(s, k) = Letter(t, k)) => s = t
<1>1. /\ Len(s) \in Nat /\ DOMAIN s = 1..Len(s) /\ \A k \in 1..Len(s) : s[k] \in Nat
      /\ Len(t) \in Nat /\ DOMAIN t = 1..Len(t) /\ \A k \in 1..Len(t) : t[k] \in Nat
  OBVIOUS
<1>2. ASSUME NEW k \in Nat \ {0}
      PROVE  /\ Letter(t, k) \in Nat /\ (Letter(t, k) = 0 <=> k > Len(t))
             /\ Letter(s, k) \in Nat /\ (Letter(s, k) = 0 <=> k > Len(s))
  <2>1. (k <= Len(t) => k \in 1..Len(t)) /\ (k <= Len(s) => k \in 1..Len(s))  BY <1>1
  <2>. QED  BY <1>1, <2>1 DEF Letter
<1>3. ASSUME \A k \in Nat \ {0} : Letter(s, k) = Letter(t, k) PROVE s = t
  <2>1. Len(s) + 1 \in Nat \ {0} /\ Len(t) + 1 \in Nat \ {0}  BY <1>1
  <2>2. Len(s) + 1 > Len(t) /\ Len(t) + 1 > Len(s)  BY <1>1, <1>2, <1>3, <2>1
  <2>3. Len(s) = Len(t)
    <3>1. \A m, n \in Nat : m + 1 > n /\ n + 1 > m => m = n  OBVIOUS
    <3>2. Len(s) \in Nat /\ Len(t) \in Nat  BY <1>1
    <3>. QED  BY <2>2, <3>1, <3>2
  <2>4. ASSUME NEW k \in 1..Len(s) PROVE s[k] = t[k]
    <3>1. Letter(s, k) = s[k] + 1 /\ Letter(t, k) = t[k] + 1  BY <1>1, <2>3 DEF Letter
    <3>. QED  BY <1>1, <1>3, <2>3, <3>1
  <2>. QED  BY <1>1, <2>3, <2>4
<1>. QED  BY <1>2, <1>3

\* Precedes is decided by the first letter that differs.
LEMMA PrecedesIs ==
    ASSUME NEW t \in Seq(Nat), NEW u \in Seq(Nat)
    PROVE  Precedes(t, u) <=> \E k \in Nat \ {0} :
              Letter(t, k) < Letter(u, k) /\ \A j \in 1 .. k - 1 : Letter(t, j) = Letter(u, j)
<1>1. /\ Len(t) \in Nat /\ DOMAIN t = 1..Len(t) /\ \A k \in 1..Len(t) : t[k] \in Nat
      /\ Len(u) \in Nat /\ DOMAIN u = 1..Len(u) /\ \A k \in 1..Len(u) : u[k] \in Nat
  OBVIOUS
<1>2. /\ \A k \in Nat \ {0} : Letter(t, k) \in Nat /\ (Letter(t, k) = 0 <=> k > Len(t))
      /\ \A k \in Nat \ {0} : Letter(u, k) \in Nat /\ (Letter(u, k) = 0 <=> k > Len(u))
  BY LetterIs
<1>3. ASSUME t # u, IsPrefix(t, u)
      PROVE  /\ Len(t) + 1 \in Nat \ {0} /\ Letter(t, Len(t) + 1) < Letter(u, Len(t) + 1)
             /\ \A j \in 1 .. Len(t) + 1 - 1 : Letter(t, j) = Letter(u, j)
  <2>1. \A j \in 1..Len(t) : Letter(t, j) = Letter(u, j)  BY <1>3, PrefixIs
  <2>2. Len(t) <= Len(u)  BY <1>3, PrefixIs
  <2>3. Len(t) # Len(u)
    <3> SUFFICES ASSUME Len(t) = Len(u) PROVE FALSE  OBVIOUS
    <3>1. ASSUME NEW k \in Nat \ {0} PROVE Letter(t, k) = Letter(u, k)
      <4>1. CASE k \in 1..Len(t)  BY <2>1, <4>1
      <4>2. CASE k > Len(t)  BY <1>2, <4>2
      <4>. QED  BY <1>1, <4>1, <4>2
    <3>. QED  BY <1>3, <3>1, LetterIs
  <2>4. Len(t) + 1 \in Nat \ {0} /\ Len(t) + 1 > Len(t) /\ ~(Len(t) + 1 > Len(u))
    <3>1. \A m, n \in Nat : m <= n /\ m # n =>
              m + 1 \in Nat \ {0} /\ m + 1 > m /\ ~(m + 1 > n)
      OBVIOUS
    <3>2. Len(t) \in Nat /\ Len(u) \in Nat  BY <1>1
    <3>. QED  BY <2>2, <2>3, <3>1, <3>2
  <2>5. /\ Letter(t, Len(t) + 1) = 0 /\ Letter(u, Len(t) + 1) # 0
        /\ Letter(u, Len(t) + 1) \in Nat
    BY <1>2, <2>4
  <2>6. Len(t) + 1 - 1 = Len(t)  BY <1>1
  <2>. QED  BY <2>1, <2>4, <2>5, <2>6
<1>4. ASSUME NEW i \in DOMAIN t \cap DOMAIN u, t[i] < u[i],
             \A j \in 1 .. i - 1 : t[j] = u[j]
      PROVE  /\ i \in Nat \ {0} /\ Letter(t, i) < Letter(u, i)
             /\ \A j \in 1 .. i - 1 : Letter(t, j) = Letter(u, j)
  <2>1. /\ i \in Nat \ {0} /\ i <= Len(t) /\ i <= Len(u)
        /\ \A j \in 1..i : j \in 1..Len(t) /\ j \in 1..Len(u)
    BY <1>1
  <2>. QED  BY <1>1, <1>4, <2>1 DEF Letter
<1>5. ASSUME NEW k \in Nat \ {0}, Letter(t, k) < Letter(u, k),
             \A j \in 1 .. k - 1 : Letter(t, j) = Letter(u, j)
      PROVE  Precedes(t, u)
  <2>1. k <= Len(u)  BY <1>1, <1>2, <1>5
  <2>2. ASSUME NEW j \in 1 .. k - 1 PROVE j \in 1..Len(t) /\ j \in 1..Len(u) /\ t[j] = u[j]
    <3>1. j \in Nat \ {0} /\ ~(j > Len(u)) /\ j \in 1..Len(u)  BY <1>1, <2>1
    <3>2. Letter(u, j) # 0 /\ Letter(t, j) = Letter(u, j)  BY <1>2, <1>5, <3>1
    <3>3. j \in 1..Len(t)  BY <1>1, <1>2, <3>1, <3>2
    <3>4. Letter(t, j) = t[j] + 1 /\ Letter(u, j) = u[j] + 1
      BY <1>1, <3>1, <3>3 DEF Letter
    <3>5. t[j] \in Nat /\ u[j] \in Nat /\ t[j] + 1 = u[j] + 1
      BY <1>1, <3>1, <3>2, <3>3, <3>4
    <3>6. \A m, n \in Nat : m + 1 = n + 1 => m = n  OBVIOUS
    <3>. QED  BY <3>1, <3>3, <3>5, <3>6
  <2>3. CASE k <= Len(t)
    <3>1. k \in DOMAIN t \cap DOMAIN u  BY <1>1, <2>1, <2>3
    <3>2. Letter(t, k) = t[k] + 1 /\ Letter(u, k) = u[k] + 1  BY <2>1, <2>3 DEF Letter
    <3>3. t[k] < u[k]  BY <1>1, <1>5, <3>1, <3>2
    <3>. QED  BY <2>2, <3>1, <3>3 DEF Precedes
  <2>4. CASE ~(k <= Len(t))
    <3>1. \A j \in 1..Len(t) : j \in 1 .. k - 1  BY <1>1, <2>4
    <3>2. IsPrefix(t, u)  BY <1>5, <3>1, PrefixIs
    <3>3. t # u  BY <2>1, <2>4
    <3>. QED  BY <3>2, <3>3 DEF Precedes
  <2>. QED  BY <2>3, <2>4
<1>6. ASSUME Precedes(t, u)
      PROVE  \E k \in Nat \ {0} : /\ Letter(t, k) < Letter(u, k)
                                  /\ \A j \in 1 .. k - 1 : Letter(t, j) = Letter(u, j)
  <2>1. CASE t # u /\ IsPrefix(t, u)  BY <1>3, <2>1
  <2>2. CASE \E i \in DOMAIN t \cap DOMAIN u :
                t[i] < u[i] /\ \A j \in 1 .. i - 1 : t[j] = u[j]
    BY <1>4, <2>2
  <2>. QED  BY <1>6, <2>1, <2>2 DEF Precedes
<1>. QED  BY <1>5, <1>6

\* Terms are ordered.
LEMMA PrecedesOrders ==
    ASSUME NEW t \in Seq(Nat), NEW u \in Seq(Nat)
    PROVE  /\ ~Precedes(t, t)
           /\ t = u \/ Precedes(t, u) \/ Precedes(u, t)
           /\ \A v \in Seq(Nat) : Precedes(t, u) /\ Precedes(u, v) => Precedes(t, v)
<1>1. \A s \in Seq(Nat), k \in Nat \ {0} :
          Letter(s, k) \in Nat /\ (Letter(s, k) = 0 <=> k > Len(s))
  BY LetterIs
<1>2. ~Precedes(t, t)  BY <1>1, PrecedesIs
<1>3. ASSUME t # u PROVE Precedes(t, u) \/ Precedes(u, t)
  <2> DEFINE D == {k \in 1 .. Len(t) + Len(u) : Letter(t, k) # Letter(u, k)}
  <2>1. Len(t) \in Nat /\ Len(u) \in Nat  OBVIOUS
  <2>2. D # {}
    <3>1. PICK k \in Nat \ {0} : Letter(t, k) # Letter(u, k)  BY <1>3, LetterIs
    <3>2. ~(k > Len(t)) \/ ~(k > Len(u))  BY <1>1, <3>1
    <3>3. k \in 1 .. Len(t) + Len(u)  BY <2>1, <3>2
    <3>. QED  BY <3>1, <3>3
  <2>3. IsFiniteSet(D) /\ D \in SUBSET Nat
    <3>1. IsFiniteSet(1 .. Len(t) + Len(u))  BY <2>1, FS_Interval
    <3>2. D \in SUBSET (1 .. Len(t) + Len(u)) /\ D \in SUBSET Nat  BY <2>1
    <3>. QED  BY <3>1, <3>2, FS_Subset
  <2>4. Min(D) \in D /\ \A y \in D : Min(D) <= y  BY <2>2, <2>3, MaxMin
  <2>5. PICK k \in D : \A y \in D : k <= y  BY <2>4
  <2>6. /\ k \in Nat \ {0} /\ Letter(t, k) # Letter(u, k)
        /\ Letter(t, k) \in Nat /\ Letter(u, k) \in Nat
    BY <1>1, <2>1
  <2>7. \A j \in 1 .. k - 1 : Letter(t, j) = Letter(u, j)
    <3> SUFFICES ASSUME NEW j \in 1 .. k - 1, Letter(t, j) # Letter(u, j) PROVE FALSE
      OBVIOUS
    <3>1. j \in D  BY <2>1
    <3>. QED  BY <2>1, <2>5, <3>1
  <2>8. Letter(t, k) < Letter(u, k) \/ Letter(u, k) < Letter(t, k)  BY <2>6
  <2>. QED  BY <2>6, <2>7, <2>8, PrecedesIs
<1>4. ASSUME NEW v \in Seq(Nat), Precedes(t, u), Precedes(u, v) PROVE Precedes(t, v)
  <2>1. PICK k \in Nat \ {0} : /\ Letter(t, k) < Letter(u, k)
                               /\ \A j \in 1 .. k - 1 : Letter(t, j) = Letter(u, j)
    BY <1>4, PrecedesIs
  <2>2. PICK l \in Nat \ {0} : /\ Letter(u, l) < Letter(v, l)
                               /\ \A j \in 1 .. l - 1 : Letter(u, j) = Letter(v, j)
    BY <1>4, PrecedesIs
  <2>3. CASE k < l
    <3>1. k \in 1 .. l - 1 /\ \A j \in 1 .. k - 1 : j \in 1 .. l - 1  BY <2>3
    <3>. QED  BY <2>1, <2>2, <3>1, PrecedesIs
  <2>4. CASE l < k
    <3>1. l \in 1 .. k - 1 /\ \A j \in 1 .. l - 1 : j \in 1 .. k - 1  BY <2>4
    <3>. QED  BY <2>1, <2>2, <3>1, PrecedesIs
  <2>5. CASE k = l
    <3>1. Letter(t, k) \in Nat /\ Letter(u, k) \in Nat /\ Letter(v, k) \in Nat  BY <1>1
    <3>2. Letter(t, k) < Letter(v, k)  BY <2>1, <2>2, <2>5, <3>1
    <3>. QED  BY <2>1, <2>2, <2>5, <3>2, PrecedesIs
  <2>. QED  BY <2>3, <2>4, <2>5
<1>. QED  BY <1>2, <1>3, <1>4

\* The terms that begin with p are the first ones from p on.
LEMMA PrefixRange ==
    ASSUME NEW p \in Seq(Nat), NEW t \in Seq(Nat), IsPrefix(p, t)
    PROVE  /\ ~Precedes(t, p)
           /\ \A v \in Seq(Nat) : ~Precedes(v, p) /\ (v = t \/ Precedes(v, t)) => IsPrefix(p, v)
<1>1. \A s \in Seq(Nat), k \in Nat \ {0} :
          Letter(s, k) \in Nat /\ (Letter(s, k) = 0 <=> k > Len(s))
  BY LetterIs
<1>2. Len(p) \in Nat /\ \A k \in 1..Len(p) : Letter(p, k) = Letter(t, k)  BY PrefixIs
<1>3. ASSUME Precedes(t, p) PROVE FALSE
  <2>1. PICK k \in Nat \ {0} : Letter(t, k) < Letter(p, k)  BY <1>3, PrecedesIs
  <2>2. ~(k > Len(p))  BY <1>1, <2>1
  <2>3. k \in 1..Len(p)  BY <1>2, <2>2
  <2>. QED  BY <1>1, <1>2, <2>1, <2>3
<1>4. ASSUME NEW v \in Seq(Nat), ~Precedes(v, p), Precedes(v, t) PROVE IsPrefix(p, v)
  <2>1. PICK k \in Nat \ {0} : /\ Letter(v, k) < Letter(t, k)
                               /\ \A j \in 1 .. k - 1 : Letter(v, j) = Letter(t, j)
    BY <1>4, PrecedesIs
  <2>2. CASE k <= Len(p)
    <3>1. /\ k \in 1..Len(p)
          /\ \A j \in 1 .. k - 1 : j \in 1..Len(p)
      BY <1>2, <2>2
    <3>2. Letter(v, k) < Letter(p, k) /\ \A j \in 1 .. k - 1 : Letter(v, j) = Letter(p, j)
      BY <1>2, <2>1, <3>1
    <3>. QED  BY <1>4, <3>2, PrecedesIs
  <2>3. CASE ~(k <= Len(p))
    <3>1. \A j \in 1..Len(p) : j \in 1 .. k - 1  BY <1>2, <2>3
    <3>2. \A j \in 1..Len(p) : Letter(p, j) = Letter(v, j)  BY <1>2, <2>1, <3>1
    <3>. QED  BY <3>2, PrefixIs
  <2>. QED  BY <2>2, <2>3
<1>. QED  BY <1>3, <1>4
-----------------------------------------------------------------------------
(* The index of a shard *)

\* The values of a function with a finite domain.
LEMMA FiniteImage ==
    ASSUME NEW S, IsFiniteSet(S), NEW T, NEW f \in [S -> T], \A y \in T : \E x \in S : f[x] = y
    PROVE  IsFiniteSet(T) /\ Cardinality(T) <= Cardinality(S)
<1>1. f \in Surjection(S, T)  BY DEF Surjection
<1>. QED  BY <1>1, FS_Surjection

\* The first n numbers.
LEMMA CountTo ==
    ASSUME NEW n \in Nat
    PROVE  IsFiniteSet(1..n) /\ Cardinality(1..n) = n
BY FS_Interval

\* The words of a text.
LEMMA WordsFinite ==
    ASSUME NEW D, NEW w \in Seq(D)
    PROVE  IsFiniteSet(ToSet(w)) /\ ToSet(w) \subseteq D
<1> DEFINE T == ToSet(w)
           g == [k \in 1..Len(w) |-> w[k]]
<1>1. /\ Len(w) \in Nat /\ DOMAIN w = 1..Len(w) /\ \A k \in 1..Len(w) : w[k] \in D
      /\ T = {w[k] : k \in 1..Len(w)}
  BY DEF ToSet
<1>2. IsFiniteSet(1..Len(w))  BY <1>1, FS_Interval
<1>3. g \in [1..Len(w) -> T] /\ \A y \in T : \E x \in 1..Len(w) : g[x] = y  BY <1>1
<1>4. T \subseteq D  BY <1>1
<1>. HIDE DEF g, T
<1>5. IsFiniteSet(T)  BY <1>2, <1>3, FiniteImage
<1>. QED  BY <1>4, <1>5 DEF T

\* There are finitely many terms and fields.
LEMMA TermsFinite ==
    /\ IsFiniteSet(Terms) /\ Terms \subseteq Seq(Nat) /\ IsFiniteSet(Fields)
    /\ \A S \in SUBSET Terms : IsFiniteSet(S) /\ Orders(Lexicographic, S)
<1>1. ASSUME NEW d \in Docs
      PROVE  IsFiniteSet(TermsOf(d)) /\ TermsOf(d) \subseteq Seq(Nat)
  <2> DEFINE F == DOMAIN Words[d]
             T == {ToSet(Words[d][f]) : f \in F}
             g == [f \in F |-> ToSet(Words[d][f])]
  <2>1. IsFiniteSet(F) /\ \A f \in F : Words[d][f] \in Seq(Seq(Nat))
    BY SuggestAssumption
  <2>2. \A X \in T : IsFiniteSet(X) /\ X \subseteq Seq(Nat)  BY <2>1, WordsFinite
  <2>3. g \in [F -> T] /\ \A y \in T : \E x \in F : g[x] = y  OBVIOUS
  <2>4. TermsOf(d) = UNION T  BY DEF TermsOf
  <2>. HIDE DEF F, T, g
  <2>5. IsFiniteSet(T)  BY <2>1, <2>3, FiniteImage
  <2>. QED  BY <2>2, <2>4, <2>5, FS_UNION
<1>2. IsFiniteSet(Terms) /\ Terms \subseteq Seq(Nat)
  <2> DEFINE T == {TermsOf(d) : d \in Docs}
             g == [d \in Docs |-> TermsOf(d)]
  <2>1. \A X \in T : IsFiniteSet(X) /\ X \subseteq Seq(Nat)  BY <1>1
  <2>2. g \in [Docs -> T] /\ \A y \in T : \E x \in Docs : g[x] = y  OBVIOUS
  <2>3. Terms = UNION T  BY DEF Terms
  <2>. HIDE DEF T, g
  <2>4. IsFiniteSet(T)  BY <2>2, FiniteImage, SuggestAssumption
  <2>. QED  BY <2>1, <2>3, <2>4, FS_UNION
<1>3. IsFiniteSet(Fields)
  <2> DEFINE T == {DOMAIN Words[d] : d \in Docs}
             g == [d \in Docs |-> DOMAIN Words[d]]
  <2>1. \A X \in T : IsFiniteSet(X)  BY SuggestAssumption
  <2>2. g \in [Docs -> T] /\ \A y \in T : \E x \in Docs : g[x] = y  OBVIOUS
  <2>3. Fields = UNION T  BY DEF Fields
  <2>. HIDE DEF T, g
  <2>4. IsFiniteSet(T)  BY <2>2, FiniteImage, SuggestAssumption
  <2>. QED  BY <2>1, <2>3, <2>4, FS_UNION
<1>4. ASSUME NEW S \in SUBSET Terms PROVE IsFiniteSet(S) /\ Orders(Lexicographic, S)
  <2>1. \A x, y \in S : <<x, y>> \in Lexicographic <=> Precedes(x, y)
    BY DEF Lexicographic
  <2>2. S \subseteq Seq(Nat)  BY <1>2
  <2>3. Orders(Lexicographic, S)
    <3>1. \A x \in S : <<x, x>> \notin Lexicographic  BY <2>1, <2>2, PrecedesOrders
    <3>2. \A x, y \in S : x # y => <<x, y>> \in Lexicographic \/ <<y, x>> \in Lexicographic
      BY <2>1, <2>2, PrecedesOrders
    <3>3. \A x, y, z \in S : <<x, y>> \in Lexicographic /\ <<y, z>> \in Lexicographic
              => <<x, z>> \in Lexicographic
      BY <2>1, <2>2, PrecedesOrders
    <3>. QED  BY <3>1, <3>2, <3>3 DEF Orders
  <2>. QED  BY <1>2, <2>3, FS_Subset
<1>. QED  BY <1>2, <1>3, <1>4

\* Positions closed downwards are the first ones.
LEMMA FirstPlaces ==
    ASSUME NEW n \in Nat, NEW D \in SUBSET (1..n), \A i \in D : \A j \in 1..i : j \in D
    PROVE  Cardinality(D) \in Nat /\ D = 1..Cardinality(D)
<1>1. IsFiniteSet(D) /\ D \in SUBSET Nat
  <2>1. IsFiniteSet(1..n)  BY FS_Interval
  <2>2. IsFiniteSet(D)  BY <2>1, FS_Subset
  <2>3. D \in SUBSET Nat  OBVIOUS
  <2>. QED  BY <2>2, <2>3
<1>2. CASE D = {}
  <2>1. Cardinality(D) = 0  BY <1>2, FS_EmptySet
  <2>. QED  BY <1>2, <2>1
<1>3. CASE D # {}
  <2>1. Max(D) \in D /\ \A y \in D : y <= Max(D)  BY <1>1, <1>3, MaxMin
  <2>2. PICK m \in D : \A y \in D : y <= m  BY <2>1
  <2>3. m \in Nat /\ m >= 1 /\ D = 1..m
    <3>1. m \in 1..n  OBVIOUS
    <3>2. \A j \in 1..m : j \in D  OBVIOUS
    <3>3. ASSUME NEW y \in D PROVE y \in 1..m
      <4>1. y \in 1..n /\ y <= m  BY <2>2
      <4>. QED  BY <3>1, <4>1
    <3>4. D = 1..m  BY <3>2, <3>3, Zenon
    <3>5. m \in Nat /\ m >= 1  BY <3>1
    <3>. QED  BY <3>4, <3>5
  <2>4. Cardinality(1..m) = m  BY <2>3, FS_Interval
  <2>. QED  BY <2>3, <2>4
<1>. QED  BY <1>2, <1>3

\* The range that partition_point and take_while cut out of a sorted index holds
\* exactly the terms with the prefix.
LEMMA MatchesExact ==
    ASSUME NEW idx, IndexType(idx), NEW p \in Seq(Nat)
    PROVE  Matches(idx, p) = {t \in DOMAIN idx.freq : IsPrefix(p, t)}
<1> DEFINE S == DOMAIN idx.freq
           o == SortedTerms(idx)
           n == Cardinality(S)
           D == {i \in DOMAIN o : Precedes(o[i], p)}
           start == Cardinality(D) + 1
           inRange(j) == \A k \in start .. j : IsPrefix(p, o[k])
<1>1. S \in SUBSET Terms /\ S \subseteq Seq(Nat) /\ IsFiniteSet(S) /\ Orders(Lexicographic, S)
  BY TermsFinite DEF IndexType
<1>2. o = InOrder(S, Lexicographic)  BY DEF SortedTerms
<1>3. Matches(idx, p) = {o[i] : i \in {j \in start .. Len(o) : inRange(j)}}  BY DEF Matches
<1>. HIDE DEF S, o
<1>4. /\ n \in Nat /\ Len(o) = n /\ DOMAIN o = 1..n
      /\ \A k \in 1..n : o[k] \in S
      /\ \A x \in S : \E k \in 1..n : o[k] = x
      /\ \A j, k \in 1..n : <<o[j], o[k]>> \in Lexicographic <=> j < k
  <2> DEFINE l == InOrder(S, Lexicographic)
  <2>1. /\ n \in Nat /\ Len(l) = n /\ DOMAIN l = 1..n
        /\ \A k \in 1..n : l[k] \in S
        /\ \A x \in S : \E k \in 1..n : l[k] = x
        /\ \A j, k \in 1..n : <<l[j], l[k]>> \in Lexicographic <=> j < k
    BY <1>1, InOrderLists
  <2>2. o = l  BY <1>2
  <2>. HIDE DEF l, n
  <2>. QED  BY <2>1, <2>2
<1>. HIDE DEF n
<1>5. \A j, k \in 1..n : j < k => Precedes(o[j], o[k])  BY <1>4 DEF Lexicographic
<1>6. \A k \in 1..n : o[k] \in Seq(Nat)  BY <1>1, <1>4
<1>7. /\ D \in SUBSET (1..n)
      /\ \A i \in 1..n : i \in D <=> Precedes(o[i], p)
  BY <1>4
<1>. HIDE DEF D
<1>8. ASSUME NEW i \in D, NEW j \in 1..i PROVE j \in D
  <2>1. i \in 1..n /\ j \in 1..n /\ (j = i \/ j < i)  BY <1>4, <1>7
  <2>2. j < i => Precedes(o[j], o[i])  BY <1>5, <2>1
  <2>3. Precedes(o[i], p)  BY <1>7, <2>1
  <2>4. j < i => Precedes(o[j], p)  BY <1>6, <2>1, <2>2, <2>3, PrecedesOrders
  <2>. QED  BY <1>7, <2>1, <2>4
<1>9. Cardinality(D) \in Nat /\ D = 1..Cardinality(D)  BY <1>4, <1>7, <1>8, FirstPlaces
<1>10. /\ start \in Nat \ {0}
       /\ \A i \in 1..n : i \in start .. n <=> ~Precedes(o[i], p)
  BY <1>4, <1>7, <1>9
<1>. HIDE DEF start
<1>11. \A j \in start .. n : j \in 1..n  BY <1>4, <1>10
<1>12. ASSUME NEW j \in start .. n PROVE inRange(j) <=> IsPrefix(p, o[j])
  <2>1. inRange(j) => IsPrefix(p, o[j])
    <3>1. j \in start .. j  BY <1>4, <1>10
    <3>. QED  BY <3>1
  <2>2. ASSUME IsPrefix(p, o[j]), NEW k \in start .. j PROVE IsPrefix(p, o[k])
    <3>1. k \in start .. n /\ k \in 1..n /\ j \in 1..n /\ (k = j \/ k < j)
      BY <1>4, <1>10, <1>11
    <3>2. ~Precedes(o[k], p) /\ (o[k] = o[j] \/ Precedes(o[k], o[j]))
      BY <1>5, <1>10, <3>1
    <3>. QED  BY <1>6, <2>2, <3>1, <3>2, PrefixRange
  <2>. QED  BY <2>1, <2>2
<1>13. ASSUME NEW t \in Matches(idx, p) PROVE t \in S /\ IsPrefix(p, t)
  <2>1. PICK j \in start .. Len(o) : inRange(j) /\ t = o[j]  BY <1>3
  <2>2. j \in start .. n  BY <1>4, <2>1
  <2>. QED  BY <1>4, <1>11, <1>12, <2>1, <2>2
<1>14. ASSUME NEW t \in S, IsPrefix(p, t) PROVE t \in Matches(idx, p)
  <2>1. PICK j \in 1..n : o[j] = t  BY <1>4
  <2>2. ~Precedes(o[j], p)  BY <1>6, <1>14, <2>1, PrefixRange
  <2>3. j \in start .. n  BY <1>10, <2>2
  <2>4. inRange(j)  BY <1>12, <1>14, <2>1, <2>3
  <2>5. j \in start .. Len(o)  BY <1>4, <2>3
  <2>. QED  BY <1>3, <2>1, <2>4, <2>5
<1>. QED  BY <1>13, <1>14 DEF S
-----------------------------------------------------------------------------
(* Scores *)

\* Comparing products with a common factor.
LEMMA CommonFactor ==
    ASSUME NEW x \in Nat, NEW y \in Nat, NEW z \in Nat \ {0}
    PROVE  /\ x * z \in Nat
           /\ x > y <=> x * z > y * z
           /\ x >= y => x * z >= y * z
<1>1. x * z \in Nat /\ y * z \in Nat  BY SMT
<1>2. x > y => x * z > y * z  BY SMT
<1>3. x >= y => x * z >= y * z  BY SMT
<1>4. x <= y => x * z <= y * z  BY SMT
<1>. QED  BY <1>1, <1>2, <1>3, <1>4

\* A term and its score, a fraction.
IsEntry(e) == e.term \in Seq(Nat) /\ e.num \in Nat /\ e.den \in Nat \ {0}

\* The order of scores.
LEMMA ScoreOrder ==
    ASSUME NEW a, NEW b, NEW c, IsEntry(a), IsEntry(b), IsEntry(c)
    PROVE  /\ ~Higher(a, a)
           /\ Higher(a, b) => ~Higher(b, a)
           /\ Higher(a, b) /\ ~Higher(c, b) => Higher(a, c)
           /\ ~Higher(b, a) /\ Higher(b, c) => Higher(a, c)
           /\ ~Higher(b, a) /\ ~Higher(c, b) => ~Higher(c, a)
<1>1. /\ a.num \in Nat /\ b.num \in Nat /\ c.num \in Nat
      /\ a.den \in Nat \ {0} /\ b.den \in Nat \ {0} /\ c.den \in Nat \ {0}
  BY DEF IsEntry
<1> DEFINE ab == a.num * b.den
           ba == b.num * a.den
           bc == b.num * c.den
           cb == c.num * b.den
           ac == a.num * c.den
           ca == c.num * a.den
<1>2. /\ ab \in Nat /\ ba \in Nat /\ bc \in Nat /\ cb \in Nat /\ ac \in Nat /\ ca \in Nat
      /\ a.num * a.den \in Nat
  BY <1>1, CommonFactor
<1>3. /\ ab * c.den = ac * b.den /\ ba * c.den = bc * a.den /\ cb * a.den = ca * b.den
  BY <1>1, SMT
<1>4. /\ Higher(a, b) <=> ab > ba
      /\ Higher(b, a) <=> ba > ab
      /\ Higher(b, c) <=> bc > cb
      /\ Higher(c, b) <=> cb > bc
      /\ Higher(a, c) <=> ac > ca
      /\ Higher(c, a) <=> ca > ac
      /\ Higher(a, a) <=> a.num * a.den > a.num * a.den
  BY DEF Higher
<1>. HIDE DEF ab, ba, bc, cb, ac, ca
<1>5. /\ ab > ba <=> ab * c.den > ba * c.den
      /\ ab >= ba => ab * c.den >= ba * c.den
      /\ ab * c.den \in Nat /\ ba * c.den \in Nat
  BY <1>1, <1>2, CommonFactor
<1>6. /\ bc > cb <=> bc * a.den > cb * a.den
      /\ bc >= cb => bc * a.den >= cb * a.den
      /\ bc * a.den \in Nat /\ cb * a.den \in Nat
  BY <1>1, <1>2, CommonFactor
<1>7. /\ ac > ca <=> ac * b.den > ca * b.den
      /\ ca > ac <=> ca * b.den > ac * b.den
      /\ ac * b.den \in Nat /\ ca * b.den \in Nat
  BY <1>1, <1>2, CommonFactor
<1> DEFINE A == ab * c.den
           B == ba * c.den
           C == cb * a.den
<1>8. (ab > ba <=> A > B) /\ (ab >= ba => A >= B)  BY <1>5
<1>9. (bc > cb <=> B > C) /\ (bc >= cb => B >= C)  BY <1>3, <1>6
<1>10. ac > ca <=> A > C  BY <1>3, <1>7
<1>11. ca > ac <=> C > A  BY <1>3, <1>7
<1>12. A \in Nat /\ B \in Nat /\ C \in Nat  BY <1>5, <1>6
<1>. HIDE DEF A, B, C
<1>. QED  BY <1>2, <1>4, <1>8, <1>9, <1>10, <1>11, <1>12

\* before in Merged.
Before(a, b) == Higher(a, b) \/ (~Higher(b, a) /\ Precedes(a.term, b.term))

\* It orders entries of different terms.
LEMMA BeforeOrders ==
    ASSUME NEW S, \A e \in S : IsEntry(e), \A a, b \in S : a.term = b.term => a = b
    PROVE  Orders({p \in S \X S : Before(p[1], p[2])}, S)
<1> DEFINE R == {p \in S \X S : Before(p[1], p[2])}
<1>1. \A x, y \in S : <<x, y>> \in R <=> Before(x, y)  OBVIOUS
<1>. HIDE DEF R
<1>2. \A x \in S : IsEntry(x) /\ x.term \in Seq(Nat)  BY DEF IsEntry
<1>3. \A x \in S : ~Before(x, x)  BY <1>2, ScoreOrder, PrecedesOrders DEF Before
<1>4. ASSUME NEW x \in S, NEW y \in S, x # y PROVE Before(x, y) \/ Before(y, x)
  <2>1. Precedes(x.term, y.term) \/ Precedes(y.term, x.term)
    BY <1>2, <1>4, PrecedesOrders
  <2>. QED  BY <2>1 DEF Before
<1>5. ASSUME NEW x \in S, NEW y \in S, NEW z \in S, Before(x, y), Before(y, z)
      PROVE  Before(x, z)
  <2>1. IsEntry(x) /\ IsEntry(y) /\ IsEntry(z)  BY <1>2
  <2>2. /\ ~Higher(y, x) /\ ~Higher(z, y)
        /\ Higher(x, y) \/ Higher(y, z) => Higher(x, z)
        /\ ~Higher(z, x)
    BY <1>5, <2>1, ScoreOrder DEF Before
  <2>3. CASE Higher(x, y) \/ Higher(y, z)  BY <2>2, <2>3 DEF Before
  <2>4. CASE Precedes(x.term, y.term) /\ Precedes(y.term, z.term)
    <3>1. Precedes(x.term, z.term)  BY <1>2, <2>4, PrecedesOrders
    <3>. QED  BY <2>2, <3>1 DEF Before
  <2>. QED  BY <1>5, <2>3, <2>4 DEF Before
<1>. QED  BY <1>1, <1>3, <1>4, <1>5 DEF Orders, R
\* Among finitely many entries one has no higher one.
LEMMA HighestExists ==
    ASSUME NEW E, IsFiniteSet(E), E # {}, \A e \in E : IsEntry(e)
    PROVE  \E e \in E : \A x \in E : ~Higher(x, e)
<1> DEFINE above(e) == {x \in E : Higher(x, e)}
           g == [e \in E |-> Cardinality(above(e))]
           N == {Cardinality(above(e)) : e \in E}
<1>1. ASSUME NEW e \in E PROVE IsFiniteSet(above(e)) /\ Cardinality(above(e)) \in Nat
  <2>1. above(e) \in SUBSET E  OBVIOUS
  <2>. QED  BY <2>1, FS_Subset, FS_CardinalityType
<1>2. N \in SUBSET Nat /\ N # {}  BY <1>1
<1>3. g \in [E -> N] /\ \A y \in N : \E x \in E : g[x] = y  OBVIOUS
<1>4. IsFiniteSet(N)
  <2>. HIDE DEF N, g
  <2>. QED  BY <1>3, FiniteImage
<1>5. Min(N) \in N /\ \A y \in N : Min(N) <= y
  <2>. HIDE DEF N
  <2>. QED  BY <1>2, <1>4, MaxMin
<1>6. PICK e \in E : \A x \in E : Cardinality(above(e)) <= Cardinality(above(x))
  BY <1>5
<1>7. ASSUME NEW x \in E, Higher(x, e) PROVE FALSE
  <2>1. above(x) \subseteq above(e)
    <3> SUFFICES ASSUME NEW y \in E, Higher(y, x) PROVE Higher(y, e)  OBVIOUS
    <3>1. IsEntry(x) /\ IsEntry(y) /\ IsEntry(e)  OBVIOUS
    <3>2. ~Higher(e, x)  BY <1>7, <3>1, ScoreOrder
    <3>. QED  BY <3>1, <3>2, ScoreOrder
  <2>2. x \in above(e) /\ x \notin above(x)  BY <1>7, ScoreOrder
  <2>3. above(x) \in SUBSET above(e)  BY <2>1
  <2>. HIDE DEF above
  <2>4. /\ Cardinality(above(x)) <= Cardinality(above(e))
        /\ Cardinality(above(e)) = Cardinality(above(x)) => above(e) = above(x)
    BY <1>1, <2>3, FS_Subset
  <2>5. Cardinality(above(x)) = Cardinality(above(e))  BY <1>1, <1>6, <2>4
  <2>. QED  BY <2>2, <2>4, <2>5
<1>. QED  BY <1>7

\* The smaller of two numbers.
LEMMA MinOfTwo ==
    ASSUME NEW m \in Nat, NEW n \in Nat
    PROVE  Min({m, n}) = IF m <= n THEN m ELSE n
<1>1. IsFiniteSet({m, n})
  <2>1. IsFiniteSet({m}) /\ IsFiniteSet({n})  BY FS_Singleton
  <2>2. {m, n} = {m} \cup {n}  OBVIOUS
  <2>. QED  BY <2>1, <2>2, FS_Union
<1>2. {m, n} \in SUBSET Nat /\ {m, n} # {}  OBVIOUS
<1>3. Min({m, n}) \in {m, n} /\ \A y \in {m, n} : Min({m, n}) <= y  BY <1>1, <1>2, MaxMin
<1>. QED  BY <1>3

\* What Router::suggest makes of the entries X that the shards sent: the best one
\* per term, as many as there are up to the limit, and none before a higher one.
LEMMA MergedBest ==
    ASSUME NEW X, IsFiniteSet(X), \A e \in X : IsEntry(e), NEW limit \in Nat
    PROVE  LET out == Merged(X, limit)
               T   == {e.term : e \in X}
           IN  /\ IsFiniteSet(T) /\ DOMAIN out = 1..Len(out) /\ Len(out) \in Nat
               /\ Len(out) = Min({limit, Cardinality(T)}) /\ out \in Seq(X)
               /\ \A i \in 1..Len(out) :
                     out[i] \in X /\ \A x \in X : x.term = out[i].term => ~Higher(x, out[i])
               /\ \A i, j \in 1..Len(out) : out[i].term = out[j].term => i = j
               /\ \A i \in 1..Len(out) : \A j \in 1 .. i - 1 : ~Higher(out[i], out[j])
               /\ \A i \in 1..Len(out) : \A e \in X : Higher(e, out[i]) =>
                     \E j \in 1 .. i - 1 : out[j].term = e.term
<1> DEFINE best  == {e \in X : \A x \in X : x.term = e.term => ~Higher(x, e)}
           T     == {e.term : e \in X}
           B     == {e.term : e \in best}
           one(t) == CHOOSE e \in best : e.term = t
           kept  == {one(t) : t \in B}
           R     == {p \in kept \X kept : Before(p[1], p[2])}
           sorted == InOrder(kept, R)
           m     == Min({limit, Len(sorted)})
           out   == Merged(X, limit)
<1>1. out = SubSeq(sorted, 1, m)  BY DEF Merged, Before
<1>2. IsFiniteSet(T)
  <2> DEFINE g == [e \in X |-> e.term]
  <2>1. g \in [X -> T] /\ \A y \in T : \E x \in X : g[x] = y  OBVIOUS
  <2>. HIDE DEF g, T
  <2>. QED  BY <2>1, FiniteImage
<1>3. B = T
  <2>1. ASSUME NEW e \in X PROVE e.term \in B
    <3> DEFINE E == {x \in X : x.term = e.term}
    <3>1. E \in SUBSET X /\ E # {}  OBVIOUS
    <3>2. IsFiniteSet(E)  BY <3>1, FS_Subset
    <3>3. \A x \in E : IsEntry(x)  OBVIOUS
    <3>4. \E y \in E : \A x \in E : ~Higher(x, y)
      <4>. HIDE DEF E
      <4>. QED  BY <3>1, <3>2, <3>3, HighestExists
    <3>5. PICK y \in X : y.term = e.term /\ \A x \in X : x.term = e.term => ~Higher(x, y)
      BY <3>4
    <3>6. y \in best  BY <3>5
    <3>. QED  BY <3>5, <3>6
  <2>. QED  BY <2>1
<1>4. ASSUME NEW t \in T PROVE one(t) \in best /\ one(t).term = t
  <2>1. \E e \in best : e.term = t  BY <1>3
  <2>. QED  BY <2>1
<1>. HIDE DEF one
<1>5. /\ \A e \in kept : e \in best /\ e.term \in T /\ e = one(e.term)
      /\ \A t \in T : one(t) \in kept
  BY <1>3, <1>4
<1>6. best \subseteq X /\ \A e \in best : \A x \in X : x.term = e.term => ~Higher(x, e)
  OBVIOUS
<1>. HIDE DEF best
<1>7. /\ \A e \in kept : IsEntry(e) /\ e \in X
      /\ \A a, b \in kept : a.term = b.term => a = b
  BY <1>5, <1>6
<1>8. IsFiniteSet(kept) /\ Cardinality(kept) = Cardinality(T)
  <2> DEFINE g == [t \in T |-> one(t)]
             h == [e \in kept |-> e.term]
  <2>1. g \in [T -> kept] /\ \A y \in kept : \E x \in T : g[x] = y  BY <1>3, <1>5
  <2>2. h \in [kept -> T] /\ \A y \in T : \E x \in kept : h[x] = y  BY <1>4, <1>5
  <2>. HIDE DEF g, h, T, kept
  <2>3. IsFiniteSet(kept) /\ Cardinality(kept) <= Cardinality(T)
    BY <1>2, <2>1, FiniteImage
  <2>4. Cardinality(T) <= Cardinality(kept)  BY <2>2, <2>3, FiniteImage
  <2>. QED  BY <1>2, <2>3, <2>4, FS_CardinalityType
<1>9. Orders(R, kept)  BY <1>7, BeforeOrders
<1>10. \A a, b \in kept : <<a, b>> \in R <=> Before(a, b)  OBVIOUS
<1>. HIDE DEF kept, R
<1> DEFINE n == Cardinality(kept)
<1>11. /\ n \in Nat /\ sorted \in Seq(kept) /\ Len(sorted) = n
       /\ \A k \in 1..n : sorted[k] \in kept
       /\ \A x \in kept : \E k \in 1..n : sorted[k] = x
       /\ \A j, k \in 1..n : <<sorted[j], sorted[k]>> \in R <=> j < k
  BY <1>8, <1>9, InOrderLists
<1>. HIDE DEF sorted, n
<1>12. /\ m = (IF limit <= n THEN limit ELSE n)
       /\ m \in Nat /\ m <= n
       /\ m = Min({limit, n})
  BY <1>11, MinOfTwo
<1>. HIDE DEF m
<1>13. /\ Len(out) = m /\ DOMAIN out = 1..m
       /\ \A k \in 1..m : k \in 1..n /\ out[k] = sorted[k]
       /\ out \in Seq(kept)
  BY <1>1, <1>11, <1>12
<1>. HIDE DEF out
<1>14. n = Cardinality(T)  BY <1>8 DEF n
<1>15. \A k \in 1..m : out[k] \in kept  BY <1>11, <1>13
<1>16. \A i \in 1..m :
           out[i] \in X /\ \A x \in X : x.term = out[i].term => ~Higher(x, out[i])
  BY <1>5, <1>6, <1>15
<1>17. ASSUME NEW i \in 1..m, NEW j \in 1..m, out[i].term = out[j].term PROVE i = j
  <2>1. out[i] = out[j]  BY <1>7, <1>15, <1>17
  <2>2. sorted[i] = sorted[j] /\ i \in 1..n /\ j \in 1..n  BY <1>13, <2>1
  <2>3. <<sorted[i], sorted[i]>> \notin R  BY <1>9, <1>11, <2>2 DEF Orders
  <2>4. ~(i < j) /\ ~(j < i)  BY <1>11, <2>2, <2>3
  <2>. QED  BY <1>12, <2>4
<1>18. ASSUME NEW i \in 1..m, NEW j \in 1 .. i - 1 PROVE ~Higher(out[i], out[j])
  <2>1. j \in 1..m /\ j < i  BY <1>12
  <2>2. <<out[j], out[i]>> \in R  BY <1>11, <1>13, <2>1
  <2>3. Before(out[j], out[i])  BY <1>10, <1>15, <2>1, <2>2
  <2>. QED  BY <1>7, <1>15, <2>1, <2>3, ScoreOrder DEF Before
<1>19. ASSUME NEW i \in 1..m, NEW e \in X, Higher(e, out[i])
       PROVE  \E j \in 1 .. i - 1 : out[j].term = e.term
  <2> DEFINE b == one(e.term)
  <2>1. e.term \in T  OBVIOUS
  <2>2. b \in kept /\ b.term = e.term /\ b \in best  BY <1>4, <1>5, <2>1
  <2>3. ~Higher(e, b)  BY <1>6, <2>2
  <2>4. IsEntry(b) /\ IsEntry(e) /\ IsEntry(out[i])  BY <1>7, <1>15, <2>2
  <2>5. Higher(b, out[i])  BY <1>19, <2>3, <2>4, ScoreOrder
  <2>6. <<b, out[i]>> \in R  BY <1>10, <1>15, <2>2, <2>5 DEF Before
  <2>7. PICK j \in 1..n : sorted[j] = b  BY <1>11, <2>2
  <2>8. j < i  BY <1>11, <1>13, <2>6, <2>7
  <2>9. j \in 1 .. i - 1 /\ j \in 1..m  BY <1>11, <1>12, <2>8
  <2>. QED  BY <1>13, <2>2, <2>7, <2>9
<1>. QED
  <2>1. Len(out) = Min({limit, Cardinality(T)}) /\ DOMAIN out = 1..Len(out) /\ Len(out) \in Nat
    BY <1>12, <1>13, <1>14
  <2>2. Len(out) = m  BY <1>13
  <2>3. out \in Seq(X)  BY <1>7, <1>13
  <2>. QED  BY <1>2, <1>16, <1>17, <1>18, <1>19, <2>1, <2>2, <2>3 DEF out
-----------------------------------------------------------------------------
(* The best terms of each shard are enough *)

\* The terms with the prefix.
Prefixed(idx, p) == {x \in DOMAIN idx.freq : IsPrefix(p, x)}

\* What one shard sends, its best terms, and what it keeps back.
LEMMA ShardBest ==
    ASSUME NEW idx, IndexType(idx), NEW p \in Seq(Nat), p # << >>, NEW limit \in Nat \ {0},
           NEW E \in Query(idx, p, limit)
    PROVE  \E T \in SUBSET Prefixed(idx, p) :
              /\ E = {Entry(idx, t) : t \in T} /\ IsFiniteSet(T) /\ IsFiniteSet(E)
              /\ \A u \in Prefixed(idx, p) : u \notin T =>
                    /\ Cardinality(T) = limit
                    /\ \A t \in T : ~Higher(Entry(idx, u), Entry(idx, t))
<1> DEFINE P == Prefixed(idx, p)
<1>1. Matches(idx, p) = P  BY MatchesExact DEF Prefixed
<1>2. PICK T \in SUBSET P :
          /\ E = {Entry(idx, t) : t \in T}
          /\ Cardinality(T) = Min({limit, Cardinality(P)})
          /\ \A t \in T, u \in P \ T : idx.freq[t] >= idx.freq[u]
  BY <1>1 DEF Query, Best
<1>3. /\ P \in SUBSET Terms /\ \A t \in P : idx.freq[t] \in Nat
      /\ idx.max \in Nat \ {0}
  BY DEF IndexType, Prefixed
<1>. HIDE DEF P
<1>4. IsFiniteSet(P) /\ IsFiniteSet(T) /\ Cardinality(P) \in Nat /\ Cardinality(T) \in Nat
  BY <1>3, TermsFinite, FS_Subset, FS_CardinalityType
<1>5. IsFiniteSet(E)
  <2> DEFINE g == [t \in T |-> Entry(idx, t)]
  <2>1. g \in [T -> E] /\ \A y \in E : \E x \in T : g[x] = y  BY <1>2
  <2>. HIDE DEF g
  <2>. QED  BY <1>4, <2>1, FiniteImage
<1>6. ASSUME NEW u \in P, u \notin T PROVE Cardinality(T) = limit
  <2>1. T # P /\ Cardinality(T) <= Cardinality(P) /\ Cardinality(T) # Cardinality(P)
    BY <1>4, <1>6, FS_Subset
  <2>2. Cardinality(T) = IF limit <= Cardinality(P) THEN limit ELSE Cardinality(P)
    BY <1>2, <1>4, MinOfTwo
  <2>. QED  BY <1>4, <2>1, <2>2
<1>7. ASSUME NEW u \in P, u \notin T, NEW t \in T PROVE ~Higher(Entry(idx, u), Entry(idx, t))
  <2>1. idx.freq[t] \in Nat /\ idx.freq[u] \in Nat /\ ~(idx.freq[u] > idx.freq[t])
    BY <1>2, <1>3, <1>7
  <2>2. ~(idx.freq[u] * idx.max > idx.freq[t] * idx.max)
    BY <1>3, <2>1, CommonFactor
  <2>. QED  BY <2>2 DEF Higher, Entry
<1>. QED  BY <1>2, <1>4, <1>5, <1>6, <1>7 DEF P

\* Merging the best ones of each shard gives what merging everything would.
LEMMA MergeExact ==
    ASSUME NEW r, r.prefix \in Seq(Nat), r.prefix # << >>, r.limit \in Nat \ {0},
           NEW got, \A s \in Shards : IndexType(got[s].idx), SoundAnswers(r, got)
    PROVE  LET X == UNION {got[s].entries : s \in Shards}
           IN  /\ Merged(X, r.limit) \in Seq(X)
               /\ Exact(r, got, Merged(X, r.limit))
<1> DEFINE limit == r.limit
           X   == UNION {got[s].entries : s \in Shards}
           out == Merged(X, limit)
           all == AllEntries(r, got)
           OK  == {s \in Shards : got[s].st = "ok"}
           P(s) == Prefixed(got[s].idx, r.prefix)
           TX  == {e.term : e \in X}
           TA  == {e.term : e \in all}
<1>1. ASSUME NEW s \in OK
      PROVE  \E T \in SUBSET P(s) :
                /\ got[s].entries = {Entry(got[s].idx, t) : t \in T}
                /\ IsFiniteSet(T) /\ IsFiniteSet(got[s].entries)
                /\ \A u \in P(s) : u \notin T =>
                      /\ Cardinality(T) = limit
                      /\ \A t \in T : ~Higher(Entry(got[s].idx, u), Entry(got[s].idx, t))
  <2>1. IndexType(got[s].idx) /\ got[s].entries \in Query(got[s].idx, r.prefix, limit)
    BY DEF SoundAnswers
  <2>. QED  BY <2>1, ShardBest
<1>2. ASSUME NEW s \in OK, NEW t \in P(s)
      PROVE  IsEntry(Entry(got[s].idx, t)) /\ Entry(got[s].idx, t).term = t /\ t \in Terms
  <2>1. IndexType(got[s].idx)  BY DEF SoundAnswers
  <2>. QED  BY <2>1, TermsFinite DEF IndexType, IsEntry, Entry, Prefixed
<1>3. all = UNION {{Entry(got[s].idx, t) : t \in P(s)} : s \in OK}
  BY DEF AllEntries, Prefixed
<1>4. \A s \in Shards : s \in OK \/ got[s].entries = {}  BY DEF SoundAnswers
<1>5. ASSUME NEW e \in X PROVE e \in all
  <2>1. PICK s \in Shards : e \in got[s].entries  OBVIOUS
  <2>2. s \in OK  BY <1>4, <2>1
  <2>3. PICK T \in SUBSET P(s) : got[s].entries = {Entry(got[s].idx, t) : t \in T}
    BY <1>1, <2>2
  <2>4. e \in {Entry(got[s].idx, t) : t \in P(s)}  BY <2>1, <2>3
  <2>5. {Entry(got[s].idx, t) : t \in P(s)} \in
            {{Entry(got[x].idx, t) : t \in P(x)} : x \in OK}
    BY <2>2
  <2>. HIDE DEF all, P, OK, X
  <2>. QED  BY <1>3, <2>4, <2>5
<1>6. /\ \A e \in all : IsEntry(e) /\ e.term \in Terms
      /\ TX \subseteq TA /\ TA \subseteq Terms
  <2>1. ASSUME NEW e \in all PROVE IsEntry(e) /\ e.term \in Terms
    <3>1. PICK s \in OK : e \in {Entry(got[s].idx, t) : t \in P(s)}  BY <1>3
    <3>2. PICK t \in P(s) : e = Entry(got[s].idx, t)  BY <3>1
    <3>. QED  BY <1>2, <3>2
  <2>. HIDE DEF X, all
  <2>. QED  BY <1>5, <2>1
<1>7. IsFiniteSet(X)
  <2> DEFINE Y == {got[s].entries : s \in Shards}
             g == [s \in Shards |-> got[s].entries]
  <2>1. g \in [Shards -> Y] /\ \A y \in Y : \E x \in Shards : g[x] = y  OBVIOUS
  <2>2. \A y \in Y : IsFiniteSet(y)  BY <1>1, <1>4, FS_EmptySet
  <2>3. X = UNION Y  OBVIOUS
  <2>. HIDE DEF g, Y, X
  <2>4. IsFiniteSet(Y)  BY <2>1, FiniteImage, SuggestAssumption
  <2>. QED  BY <2>2, <2>3, <2>4, FS_UNION
<1>. HIDE DEF X, all
<1>8. \A e \in X : IsEntry(e)  BY <1>5, <1>6
<1>9. /\ IsFiniteSet(TX) /\ DOMAIN out = 1..Len(out) /\ Len(out) \in Nat
      /\ Len(out) = Min({limit, Cardinality(TX)}) /\ out \in Seq(X)
      /\ \A i \in 1..Len(out) : out[i] \in X
      /\ \A i, j \in 1..Len(out) : out[i].term = out[j].term => i = j
      /\ \A i \in 1..Len(out) : \A j \in 1 .. i - 1 : ~Higher(out[i], out[j])
      /\ \A i \in 1..Len(out) : \A e \in X : Higher(e, out[i]) =>
            \E j \in 1 .. i - 1 : out[j].term = e.term
  BY <1>7, <1>8, MergedBest
<1>10. IsFiniteSet(TA) /\ Cardinality(TA) \in Nat /\ Cardinality(TX) \in Nat
  BY <1>6, <1>9, TermsFinite, FS_Subset, FS_CardinalityType
<1>11. \A s \in OK : \A t : Entry(got[s].idx, t) \in got[s].entries =>
           Entry(got[s].idx, t) \in X /\ t \in TX
  BY DEF X, Entry
<1>. HIDE DEF out
<1>12. Len(out) <= limit
  <2>1. \A m, n \in Nat : (IF m <= n THEN m ELSE n) <= m  OBVIOUS
  <2>2. limit \in Nat  OBVIOUS
  <2>. HIDE DEF TX, limit
  <2>. QED  BY <1>9, <1>10, <2>1, <2>2, MinOfTwo
<1>13. ASSUME NEW i \in 1..Len(out), NEW e \in all, Higher(e, out[i])
       PROVE  \E j \in 1 .. i - 1 : out[j].term = e.term
  <2>1. PICK s \in OK : \E u \in P(s) : e = Entry(got[s].idx, u)  BY <1>3
  <2>2. PICK u \in P(s) : e = Entry(got[s].idx, u)  BY <2>1
  <2>3. PICK T \in SUBSET P(s) :
            /\ got[s].entries = {Entry(got[s].idx, t) : t \in T}
            /\ IsFiniteSet(T)
            /\ u \notin T =>
                  /\ Cardinality(T) = limit
                  /\ \A t \in T : ~Higher(e, Entry(got[s].idx, t))
    BY <1>1, <2>2
  <2>4. CASE u \in T
    <3>1. e \in X  BY <1>11, <2>2, <2>3, <2>4
    <3>. QED  BY <1>9, <1>13, <3>1
  <2>5. CASE u \notin T
    <3>1. ASSUME NEW t \in T PROVE \E j \in 1 .. i - 1 : out[j].term = t
      <4> DEFINE x == Entry(got[s].idx, t)
      <4>1. x \in X /\ x.term = t /\ IsEntry(x)  BY <1>2, <1>11, <2>3
      <4>2. ~Higher(e, x)  BY <2>3, <2>5
      <4>3. IsEntry(e) /\ IsEntry(out[i])  BY <1>6, <1>8, <1>9
      <4>. HIDE DEF x
      <4>4. Higher(x, out[i])  BY <1>13, <4>1, <4>2, <4>3, ScoreOrder
      <4>. QED  BY <1>9, <4>1, <4>4
    <3> DEFINE Z == {out[j].term : j \in 1 .. i - 1}
               g == [j \in 1 .. i - 1 |-> out[j].term]
    <3>2. g \in [1 .. i - 1 -> Z] /\ \A y \in Z : \E x \in 1 .. i - 1 : g[x] = y
      OBVIOUS
    <3>3. T \in SUBSET Z  BY <3>1
    <3>4. IsFiniteSet(1 .. i - 1) /\ Cardinality(1 .. i - 1) = i - 1
      <4>1. i \in Nat /\ i >= 1  BY <1>9
      <4>2. PICK k \in Int : k = i - 1 /\ k >= 0  BY <4>1
      <4>3. k \in Nat  BY <4>2
      <4>4. IsFiniteSet(1..k) /\ Cardinality(1..k) = k  BY <4>3, CountTo
      <4>. QED  BY <4>2, <4>4
    <3>. HIDE DEF Z, g
    <3>5. IsFiniteSet(Z) /\ Cardinality(Z) <= i - 1
      <4>1. IsFiniteSet(Z) /\ Cardinality(Z) <= Cardinality(1 .. i - 1)
        BY <3>2, <3>4, FiniteImage
      <4>. QED  BY <3>4, <4>1
    <3>6. Cardinality(T) <= Cardinality(Z)  BY <3>3, <3>5, FS_Subset
    <3>7. limit <= Cardinality(Z) /\ Cardinality(Z) \in Nat
      BY <2>3, <2>5, <3>5, <3>6, FS_CardinalityType
    <3>8. limit \in Nat /\ i <= Len(out) /\ i \in Nat  BY <1>9
    <3>. QED  BY <1>9, <1>12, <3>5, <3>7, <3>8
  <2>. QED  BY <2>4, <2>5
<1>14. ASSUME NEW i \in 1..Len(out), NEW e \in all, e.term = out[i].term
       PROVE  ~Higher(e, out[i])
  <2> SUFFICES ASSUME Higher(e, out[i]) PROVE FALSE  OBVIOUS
  <2>1. PICK j \in 1 .. i - 1 : out[j].term = e.term  BY <1>13
  <2>2. j \in 1..Len(out) /\ j # i  BY <1>9
  <2>. QED  BY <1>9, <1>14, <2>1, <2>2
<1>15. Len(out) = Min({limit, Cardinality(TA)})
  <2>1. CASE TX = TA  BY <1>9, <2>1
  <2>2. CASE TX # TA
    <3>1. PICK e \in all : e.term \notin TX  BY <1>6, <2>2
    <3>2. PICK s \in OK : \E u \in P(s) : e = Entry(got[s].idx, u)  BY <1>3
    <3>3. PICK u \in P(s) : e = Entry(got[s].idx, u)  BY <3>2
    <3>4. PICK T \in SUBSET P(s) :
              /\ got[s].entries = {Entry(got[s].idx, t) : t \in T}
              /\ IsFiniteSet(T)
              /\ u \notin T => Cardinality(T) = limit
      BY <1>1, <3>3
    <3>5. T \subseteq TX  BY <1>11, <3>4
    <3>6. u \notin T  BY <1>2, <3>1, <3>3, <3>5
    <3>7. limit <= Cardinality(TX)
      <4>1. T \in SUBSET TX  BY <3>5
      <4>. HIDE DEF TX, TA
      <4>. QED  BY <1>9, <3>4, <3>6, <4>1, FS_Subset
    <3>8. Cardinality(TX) <= Cardinality(TA)
      <4>1. TX \in SUBSET TA  BY <1>6
      <4>. HIDE DEF TX, TA
      <4>. QED  BY <1>10, <4>1, FS_Subset
    <3>. HIDE DEF TX, TA
    <3>9. limit \in Nat /\ limit <= Cardinality(TA)  BY <1>10, <3>7, <3>8
    <3>10. Min({limit, Cardinality(TX)}) = limit /\ Min({limit, Cardinality(TA)}) = limit
      BY <1>10, <3>7, <3>9, MinOfTwo
    <3>. QED  BY <1>9, <3>10
  <2>. QED  BY <2>1, <2>2
<1>16. Cardinality({out[i].term : i \in 1..Len(out)}) = Len(out)
  <2> DEFINE n == Len(out)
             Z == {out[i].term : i \in 1..n}
             g == [i \in 1..n |-> out[i].term]
  <2>1. g \in Surjection(1..n, Z)  BY DEF Surjection
  <2>2. g \in Injection(1..n, Z)  BY <1>9 DEF Injection, IsInjective
  <2>3. IsFiniteSet(1..n) /\ Cardinality(1..n) = n  BY <1>9, FS_Interval
  <2>. HIDE DEF g, Z, n
  <2>4. Cardinality(Z) = n  BY <2>1, <2>2, <2>3, FS_Surjection
  <2>. QED  BY <2>4 DEF Z, n
<1>. QED
  <2>1. \A i \in 1..Len(out) :
            /\ out[i] \in all
            /\ \A e \in all : e.term = out[i].term => ~Higher(e, out[i])
            /\ \A j \in 1 .. i - 1 : ~Higher(out[i], out[j])
            /\ \A e \in all : Higher(e, out[i]) => \E j \in 1 .. i - 1 : out[j].term = e.term
    BY <1>5, <1>9, <1>13, <1>14
  <2>. QED  BY <1>9, <1>15, <1>16, <2>1 DEF Exact, all, out, X
-----------------------------------------------------------------------------
(* Indexes, answers and counts have their types *)

\* An index made of counts.
LEMMA NewIndexIs ==
    ASSUME NEW kept \in SUBSET Terms, NEW cnt, \A t \in kept : cnt[t] \in Nat
    PROVE  /\ IndexType(NewIndex(kept, cnt))
           /\ DOMAIN NewIndex(kept, cnt).freq = kept
           /\ \A t \in kept : NewIndex(kept, cnt).freq[t] = cnt[t]
<1> DEFINE C == {cnt[t] : t \in kept}
           g == [t \in kept |-> cnt[t]]
           m == Max({1} \cup C)
<1>1. IsFiniteSet(kept)  BY TermsFinite
<1>2. g \in [kept -> C] /\ (\A y \in C : \E x \in kept : g[x] = y) /\ C \in SUBSET Nat
  OBVIOUS
<1>3. /\ NewIndex(kept, cnt).freq = [t \in kept |-> cnt[t]]
      /\ NewIndex(kept, cnt).max = m
  BY DEF NewIndex
<1>4. m \in Nat \ {0}
  <2>. HIDE DEF C, g
  <2>1. IsFiniteSet(C)  BY <1>1, <1>2, FiniteImage
  <2>2. IsFiniteSet({1} \cup C)  BY <2>1, FS_Singleton, FS_Union
  <2>3. ({1} \cup C) \in SUBSET Nat /\ {1} \cup C # {} /\ 1 \in {1} \cup C  BY <1>2
  <2> DEFINE O == {1} \cup C
  <2>. HIDE DEF O
  <2>4. IsFiniteSet(O) /\ O \in SUBSET Nat /\ O # {} /\ 1 \in O /\ m = Max(O)
    BY <2>2, <2>3 DEF O
  <2>. HIDE DEF m
  <2>5. m \in Nat /\ 1 <= m  BY <2>4, MaxMin
  <2>. QED  BY <2>5
<1>. QED  BY <1>3, <1>4 DEF IndexType

\* The index a shard starts with.
LEMMA EmptyIndexIs == IndexType(EmptyIndex) /\ DOMAIN EmptyIndex.freq = {}
BY NewIndexIs DEF EmptyIndex

\* A snapshot gives a term the count it has.
LEMMA SnapshotIs ==
    ASSUME NEW cnt \in [Terms -> Nat], NEW idx \in Snapshots(cnt)
    PROVE  IndexType(idx) /\ \A t \in DOMAIN idx.freq : idx.freq[t] = cnt[t]
<1> DEFINE met  == {t \in Terms : cnt[t] > 0 /\ cnt[t] >= MinFrequency}
           most == IF MaxTerms = 0 THEN Cardinality(met) ELSE MaxTerms
<1>1. PICK kept \in Best(met, LAMBDA t : cnt[t], most) : idx = NewIndex(kept, cnt)
  BY DEF Snapshots
<1>2. kept \in SUBSET Terms /\ \A t \in kept : cnt[t] \in Nat  BY <1>1 DEF Best
<1>. QED  BY <1>1, <1>2, NewIndexIs

\* What a shard answers.
LEMMA QueryIs ==
    ASSUME NEW idx, IndexType(idx), NEW p \in Seq(Nat), NEW limit \in Nat,
           NEW E \in Query(idx, p, limit)
    PROVE  E \subseteq Suggestion
<1>1. CASE p = << >> \/ limit = 0  BY <1>1 DEF Query
<1>2. CASE ~(p = << >> \/ limit = 0)
  <2>1. PICK T \in SUBSET Prefixed(idx, p) : E = {Entry(idx, t) : t \in T}
    BY <1>2, ShardBest
  <2>. QED  BY <2>1 DEF Prefixed, Entry, Suggestion, IndexType
<1>. QED  BY <1>1, <1>2

\* Router::suggest asks for at least one suggestion.
LEMMA ClampIs == \A n \in Nat : Clamp(n) \in Nat \ {0}
<1> SUFFICES ASSUME NEW n \in Nat PROVE Clamp(n) \in Nat \ {0}  OBVIOUS
<1> DEFINE m == Min({n, MaxLimit})
<1>1. m \in Nat  BY MinOfTwo, SuggestAssumption
<1>. HIDE DEF m
<1> DEFINE O == {1, m}
<1>2. O = {1} \cup {m} /\ O \in SUBSET Nat /\ O # {} /\ 1 \in O  BY <1>1
<1>3. IsFiniteSet(O)
  <2>1. IsFiniteSet({1}) /\ IsFiniteSet({m})  BY FS_Singleton
  <2>. HIDE DEF O
  <2>. QED  BY <1>2, <2>1, FS_Union
<1>4. Clamp(n) = Max(O)  BY DEF Clamp, m, O
<1>. HIDE DEF O
<1>5. Max(O) \in Nat /\ 1 <= Max(O)  BY <1>2, <1>3, MaxMin
<1>. QED  BY <1>4, <1>5

\* The documents of a write, or of a part of it, have finitely many fields.
LEMMA AddAllIs ==
    ASSUME NEW cnt \in [Terms -> Nat], NEW docs, IsFiniteSet(DOMAIN docs)
    PROVE  /\ AddAll(cnt, docs) \in [Terms -> Nat]
           /\ \A t \in Terms :
                 LET P == {p \in (DOMAIN docs) \X Fields : Has(docs[p[1]], p[2], t)}
                 IN  /\ IsFiniteSet(P) /\ Cardinality(P) \in Nat
                     /\ AddAll(cnt, docs)[t] = cnt[t] + Cardinality(P)
<1>1. IsFiniteSet((DOMAIN docs) \X Fields)  BY TermsFinite, FS_Product
<1>2. ASSUME NEW t \in Terms
      PROVE  LET P == {p \in (DOMAIN docs) \X Fields : Has(docs[p[1]], p[2], t)}
             IN  IsFiniteSet(P) /\ Cardinality(P) \in Nat
  <2> DEFINE P == {p \in (DOMAIN docs) \X Fields : Has(docs[p[1]], p[2], t)}
  <2>1. P \in SUBSET ((DOMAIN docs) \X Fields)  OBVIOUS
  <2>. HIDE DEF P
  <2>2. IsFiniteSet(P) /\ Cardinality(P) \in Nat
    BY <1>1, <2>1, FS_Subset, FS_CardinalityType
  <2>. QED  BY <2>2 DEF P
<1>. QED  BY <1>2 DEF AddAll
-----------------------------------------------------------------------------
(* Types, and the best terms in what shards answer *)

SoundInv == TypeOK /\ AnswersSound

\* A question nobody asks.
LEMMA IdleIs == QuestionType(Idle) /\ Idle.pc = "idle"
<1>1. ReplyType(Waiting)  BY EmptyIndexIs DEF ReplyType, Waiting
<1>. HIDE DEF Waiting
<1>2. << >> \in Seq(Suggestion)  OBVIOUS
<1>3. [prefix |-> << >>, limit |-> 0] \in [prefix : Seq(Nat), limit : Nat]  OBVIOUS
<1>. QED  BY <1>1, <1>2, <1>3 DEF QuestionType, Idle

\* When the shards start there are no tasks and no questions.
LEMMA SoundInit == Init => SoundInv
<1> SUFFICES ASSUME Init PROVE SoundInv  OBVIOUS
<1>1. DOMAIN ask = Users /\ \A u \in Users : QuestionType(ask[u]) /\ ask[u].pc = "idle"
  BY IdleIs DEF Init
<1>2. DOMAIN index = Shards /\ \A s \in Shards : IndexType(index[s])
  BY EmptyIndexIs DEF Init
<1>3. /\ DOMAIN flush = Shards
      /\ \A s \in Shards : /\ DOMAIN flush[s] = Flushers
                           /\ \A f \in Flushers : \A x, y \in flush[s][f] :
                                 x = y /\ IndexType(x)
  BY DEF Init, NoFlush
<1>4. /\ up \in [Shards -> BOOLEAN] /\ counts \in [Shards -> [Terms -> Nat]]
      /\ fed \in [Shards -> [Docs -> Nat]]
  BY DEF Init, Zero, Never
<1>5. /\ writes \in 0 .. Len(Batches) /\ crashes \in 0 .. MaxCrashes /\ calls \in 0 .. MaxCalls
      /\ \A k \in tasks : TaskType(k)
  <2>1. Len(Batches) \in Nat  BY SuggestAssumption
  <2>. QED  BY <2>1, SuggestAssumption DEF Init
<1>. QED  BY <1>1, <1>2, <1>3, <1>4, <1>5 DEF SoundInv, TypeOK, AnswersSound

\* A write makes tasks for the shards of its documents.
LEMMA WriteTypes == SoundInv /\ Write => SoundInv'
<1> SUFFICES ASSUME TypeOK, AnswersSound, Write PROVE TypeOK' /\ AnswersSound'
  BY DEF SoundInv
<1> DEFINE batch   == Batches[writes + 1]
           part(s) == [j \in {i \in DOMAIN batch : ShardOf[batch[i]] = s} |-> batch[j]]
           new     == {[write |-> writes, shard |-> s, docs |-> part(s)] :
                          s \in {x \in Shards : DOMAIN part(x) # {}}}
<1>1. /\ writes < Len(Batches) /\ writes' = writes + 1 /\ tasks' = tasks \cup new
      /\ UNCHANGED <<up, counts, index, flush, ask, fed, crashes, calls>>
  BY DEF Write
<1>2. /\ Len(Batches) \in Nat /\ writes \in Nat /\ writes' \in 0 .. Len(Batches)
      /\ batch \in Seq(Docs)
  BY <1>1, SuggestAssumption DEF TypeOK
<1>3. \A k \in tasks : TaskType(k)'  BY <1>1, <1>2 DEF TypeOK, TaskType
<1>4. ASSUME NEW k \in new PROVE TaskType(k)'
  <2>1. PICK s \in Shards : k = [write |-> writes, shard |-> s, docs |-> part(s)]  OBVIOUS
  <2>2. k.write = writes /\ k.shard \in Shards /\ k.docs = part(s)  BY <2>1
  <2>3. DOMAIN part(s) \subseteq DOMAIN batch /\ \A j \in DOMAIN part(s) : part(s)[j] \in Docs
    BY <1>2
  <2>4. k.write \in 0 .. writes' - 1  BY <1>1, <1>2, <2>2
  <2>. HIDE DEF batch, new, part
  <2>5. DOMAIN k.docs \subseteq DOMAIN Batches[k.write + 1]  BY <2>2, <2>3 DEF batch
  <2>6. \A j \in DOMAIN k.docs : k.docs[j] \in Docs  BY <2>2, <2>3
  <2>. QED  BY <2>2, <2>4, <2>5, <2>6 DEF TaskType
<1>. HIDE DEF batch, new
<1>5. \A k \in tasks' : TaskType(k)'  BY <1>1, <1>3, <1>4
<1>6. TypeOK'
  BY <1>1, <1>2, <1>5 DEF TypeOK, QuestionType, ReplyType, IndexType
<1>7. AnswersSound'  BY <1>1 DEF AnswersSound, SoundAnswers
<1>. QED  BY <1>6, <1>7

\* The documents of a task are finitely many.
LEMMA TaskFinite ==
    ASSUME TypeOK, NEW k \in tasks
    PROVE  /\ k.shard \in Shards /\ IsFiniteSet(DOMAIN k.docs)
           /\ \A j \in DOMAIN k.docs : k.docs[j] \in Docs
<1>1. TaskType(k) /\ writes \in 0 .. Len(Batches)  BY DEF TypeOK
<1>2. Batches \in Seq(Seq(Docs)) /\ Len(Batches) \in Nat  BY SuggestAssumption
<1>3. k.write + 1 \in 1 .. Len(Batches)  BY <1>1, <1>2 DEF TaskType
<1>4. Batches[k.write + 1] \in Seq(Docs)  BY <1>2, <1>3
<1> DEFINE n == Len(Batches[k.write + 1])
<1>5. n \in Nat /\ DOMAIN Batches[k.write + 1] = 1..n  BY <1>4
<1>. HIDE DEF n
<1>6. IsFiniteSet(1..n) /\ DOMAIN k.docs \in SUBSET (1..n)  BY <1>1, <1>5, CountTo DEF TaskType
<1>7. IsFiniteSet(DOMAIN k.docs)  BY <1>6, FS_Subset
<1>. QED  BY <1>1, <1>7 DEF TaskType

\* A task that reaches its shard adds to its counts.
LEMMA DeliverTypes ==
    ASSUME SoundInv, NEW k \in tasks, Deliver(k) \/ Drop(k)
    PROVE  SoundInv'
<1> USE DEF SoundInv
<1>1. CASE Drop(k)
  <2>1. tasks' \subseteq tasks
        /\ UNCHANGED <<up, counts, index, flush, ask, fed, writes, crashes, calls>>
    BY <1>1 DEF Drop
  <2>2. TypeOK'  BY <2>1 DEF TypeOK, TaskType, QuestionType, ReplyType, IndexType
  <2>. QED  BY <2>1, <2>2 DEF AnswersSound, SoundAnswers
<1>2. CASE Deliver(k)
  <2> DEFINE more == AddAll(counts[k.shard], k.docs)
             got(d) == {j \in DOMAIN k.docs : k.docs[j] = d}
             seen == [d \in Docs |-> fed[k.shard][d] + Cardinality(got(d))]
  <2>1. /\ tasks' \subseteq tasks
        /\ counts' = [counts EXCEPT ![k.shard] = more]
        /\ fed' = [fed EXCEPT ![k.shard] = seen]
        /\ UNCHANGED <<up, index, flush, ask, writes, crashes, calls>>
    BY <1>2 DEF Deliver
  <2>2. k.shard \in Shards /\ IsFiniteSet(DOMAIN k.docs)  BY TaskFinite
  <2>3. more \in [Terms -> Nat]
    <3>1. counts[k.shard] \in [Terms -> Nat]  BY <2>2 DEF TypeOK
    <3>. QED  BY <2>2, <3>1, AddAllIs
  <2>4. seen \in [Docs -> Nat]
    <3>1. ASSUME NEW d \in Docs PROVE Cardinality(got(d)) \in Nat
      <4>1. got(d) \in SUBSET DOMAIN k.docs  OBVIOUS
      <4>. HIDE DEF got
      <4>. QED  BY <2>2, <4>1, FS_Subset, FS_CardinalityType
    <3>2. fed[k.shard] \in [Docs -> Nat]  BY <2>2 DEF TypeOK
    <3>. HIDE DEF got
    <3>. QED  BY <3>1, <3>2
  <2>. HIDE DEF more, seen
  <2>5. counts' \in [Shards -> [Terms -> Nat]] /\ fed' \in [Shards -> [Docs -> Nat]]
    BY <2>1, <2>3, <2>4 DEF TypeOK
  <2>6. TypeOK'
    BY <2>1, <2>5 DEF TypeOK, TaskType, QuestionType, ReplyType, IndexType
  <2>. QED  BY <2>1, <2>6 DEF AnswersSound, SoundAnswers
<1>. QED  BY <1>1, <1>2
\* Snapshots have the type of an index, wherever they are.
LEMMA FlushTypes ==
    ASSUME SoundInv, NEW s \in Shards, NEW f \in Flushers, Snapshot(s, f) \/ Publish(s, f)
    PROVE  SoundInv'
<1> USE DEF SoundInv
<1>1. CASE Snapshot(s, f)
  <2>1. PICK idx \in Snapshots(counts[s]) : flush' = [flush EXCEPT ![s][f] = {idx}]
    BY <1>1 DEF Snapshot
  <2>2. /\ UNCHANGED <<up, counts, index, tasks, ask, fed, writes, crashes>>
        /\ f = "rpc" => calls < MaxCalls
        /\ calls' = IF f = "rpc" THEN calls + 1 ELSE calls
    BY <1>1 DEF Snapshot
  <2>3. IndexType(idx)
    <3>1. counts[s] \in [Terms -> Nat]  BY DEF TypeOK
    <3>. QED  BY <2>1, <3>1, SnapshotIs
  <2>4. calls' \in 0 .. MaxCalls  BY <2>2, SuggestAssumption DEF TypeOK
  <2>5. /\ DOMAIN flush' = Shards
        /\ \A x \in Shards : DOMAIN flush'[x] = Flushers
        /\ \A x \in Shards, g \in Flushers :
              flush'[x][g] = IF x = s /\ g = f THEN {idx} ELSE flush[x][g]
    BY <2>1 DEF TypeOK
  <2>6. \A x \in Shards, g \in Flushers : \A a, b \in flush'[x][g] : a = b /\ IndexType(a)
    <3>1. \A x \in Shards, g \in Flushers : \A a, b \in flush[x][g] : a = b /\ IndexType(a)
      BY DEF TypeOK
    <3>2. \A a, b \in {idx} : a = b /\ IndexType(a)  BY <2>3
    <3>3. \A x \in Shards, g \in Flushers : flush'[x][g] \in {{idx}, flush[x][g]}  BY <2>5
    <3>. QED  BY <3>1, <3>2, <3>3
  <2>7. TypeOK'
    BY <2>2, <2>4, <2>5, <2>6 DEF TypeOK, TaskType, QuestionType, ReplyType, IndexType
  <2>. QED  BY <2>2, <2>7 DEF AnswersSound, SoundAnswers
<1>2. CASE Publish(s, f)
  <2>1. PICK idx \in flush[s][f] : index' = [index EXCEPT ![s] = idx]  BY <1>2 DEF Publish
  <2>2. /\ flush' = [flush EXCEPT ![s][f] = {}]
        /\ UNCHANGED <<up, counts, tasks, ask, fed, writes, crashes, calls>>
    BY <1>2 DEF Publish
  <2>3. IndexType(idx)  BY <2>1 DEF TypeOK
  <2>4. DOMAIN index' = Shards /\ \A x \in Shards : IndexType(index'[x])
    BY <2>1, <2>3 DEF TypeOK
  <2>5. /\ DOMAIN flush' = Shards
        /\ \A x \in Shards : DOMAIN flush'[x] = Flushers
        /\ \A x \in Shards, g \in Flushers :
              flush'[x][g] = IF x = s /\ g = f THEN {} ELSE flush[x][g]
    BY <2>2 DEF TypeOK
  <2>6. \A x \in Shards, g \in Flushers : \A a, b \in flush'[x][g] : a = b /\ IndexType(a)
    BY <2>5 DEF TypeOK
  <2>7. TypeOK'
    BY <2>2, <2>4, <2>5, <2>6 DEF TypeOK, TaskType, QuestionType, ReplyType, IndexType
  <2>. QED  BY <2>2, <2>7 DEF AnswersSound, SoundAnswers
<1>. QED  BY <1>1, <1>2

\* A crash leaves a shard with nothing.
LEMMA CrashTypes ==
    ASSUME SoundInv, NEW s \in Shards, Crash(s) \/ Restart(s)
    PROVE  SoundInv'
<1> USE DEF SoundInv
<1>1. CASE Restart(s)
  <2>1. /\ up' = [up EXCEPT ![s] = TRUE]
        /\ UNCHANGED <<counts, index, flush, tasks, ask, fed, writes, crashes, calls>>
    BY <1>1 DEF Restart
  <2>2. up' \in [Shards -> BOOLEAN]  BY <2>1, Zenon DEF TypeOK
  <2>3. TypeOK'
    BY <2>1, <2>2 DEF TypeOK, TaskType, QuestionType, ReplyType, IndexType
  <2>. QED  BY <2>1, <2>3 DEF AnswersSound, SoundAnswers
<1>2. CASE Crash(s)
  <2>1. /\ crashes < MaxCrashes /\ crashes' = crashes + 1
        /\ up' = [up EXCEPT ![s] = FALSE]
        /\ counts' = [counts EXCEPT ![s] = Zero]
        /\ index' = [index EXCEPT ![s] = EmptyIndex]
        /\ flush' = [flush EXCEPT ![s] = NoFlush]
        /\ fed' = [fed EXCEPT ![s] = Never]
        /\ UNCHANGED <<tasks, ask, writes, calls>>
    BY <1>2 DEF Crash
  <2>2. up' \in [Shards -> BOOLEAN]  BY <2>1, Zenon DEF TypeOK
  <2>3. crashes' \in 0 .. MaxCrashes  BY <2>1, SuggestAssumption DEF TypeOK
  <2>4. Zero \in [Terms -> Nat] /\ Never \in [Docs -> Nat]  BY DEF Zero, Never
  <2>5. counts' \in [Shards -> [Terms -> Nat]] /\ fed' \in [Shards -> [Docs -> Nat]]
    BY <2>1, <2>4 DEF TypeOK
  <2>6. DOMAIN index' = Shards /\ \A x \in Shards : IndexType(index'[x])
    BY <2>1, EmptyIndexIs DEF TypeOK
  <2>7. /\ DOMAIN flush' = Shards
        /\ \A x \in Shards : flush'[x] = IF x = s THEN NoFlush ELSE flush[x]
    BY <2>1 DEF TypeOK
  <2>8. DOMAIN NoFlush = Flushers /\ \A g \in Flushers : NoFlush[g] = {}  BY DEF NoFlush
  <2>9. \A x \in Shards : /\ DOMAIN flush'[x] = Flushers
                          /\ \A g \in Flushers : \A a, b \in flush'[x][g] :
                                a = b /\ IndexType(a)
    BY <2>7, <2>8 DEF TypeOK
  <2>10. TypeOK'
    BY <2>1, <2>2, <2>3, <2>5, <2>6, <2>7, <2>9
    DEF TypeOK, TaskType, QuestionType, ReplyType, IndexType
  <2>. QED  BY <2>1, <2>10 DEF AnswersSound, SoundAnswers
<1>. QED  BY <1>1, <1>2

\* A step that changes the question of u only.
LEMMA AskTypes ==
    ASSUME SoundInv, NEW u \in Users, NEW q, ask' = [ask EXCEPT ![u] = q],
           UNCHANGED <<up, counts, index, flush, tasks, fed, writes, crashes, calls>>,
           QuestionType(q),
           q.pc = "wait" => /\ q.req.prefix # << >> /\ q.req.limit # 0
                            /\ SoundAnswers(q.req, q.got)
    PROVE  SoundInv'
<1> USE DEF SoundInv
<1>1. DOMAIN ask' = Users /\ \A x \in Users : ask'[x] = IF x = u THEN q ELSE ask[x]
  BY DEF TypeOK
<1>2. \A x \in Users : QuestionType(ask'[x])  BY <1>1 DEF TypeOK
<1>3. AnswersSound'
  <2>1. \A x \in Users : ask'[x].pc = "wait" =>
            /\ ask'[x].req.prefix # << >> /\ ask'[x].req.limit # 0
            /\ SoundAnswers(ask'[x].req, ask'[x].got)
    BY <1>1 DEF AnswersSound
  <2>. QED  BY <2>1 DEF AnswersSound, SoundAnswers
<1>4. TypeOK'
  <2>1. \A k \in tasks' : TaskType(k)'  BY DEF TypeOK, TaskType
  <2>2. \A x \in Users : QuestionType(ask'[x]) <=> QuestionType(ask[x])'
    BY DEF QuestionType, ReplyType, IndexType
  <2>3. (\A x \in Users : QuestionType(ask[x]))'  BY <1>2, <2>2
  <2>. QED  BY <1>1, <2>1, <2>3 DEF TypeOK, IndexType
<1>. QED  BY <1>3, <1>4
\* A question no shard has said anything to yet.
LEMMA QuestionIs ==
    ASSUME NEW p \in {"idle", "wait", "done", "rejected"},
           NEW r \in [prefix : Seq(Nat), limit : Nat], NEW out \in Seq(Suggestion)
    PROVE  LET q == [pc |-> p, req |-> r, got |-> [s \in Shards |-> Waiting], out |-> out]
           IN  QuestionType(q) /\ SoundAnswers(q.req, q.got)
<1>1. ReplyType(Waiting)  BY EmptyIndexIs DEF ReplyType, Waiting
<1>2. Waiting.st = "wait" /\ Waiting.entries = {}  BY DEF Waiting
<1>. HIDE DEF Waiting
<1>. QED  BY <1>1, <1>2 DEF QuestionType, SoundAnswers

\* The record of a question that is asked.
LEMMA AskedIs ==
    ASSUME NEW b
    PROVE  [Idle EXCEPT !.pc = "wait", !.req = b] =
               [pc |-> "wait", req |-> b, got |-> [s \in Shards |-> Waiting], out |-> << >>]
<1> DEFINE rec(p, x) == [pc |-> p, req |-> x, got |-> [s \in Shards |-> Waiting], out |-> << >>]
<1>1. [Idle EXCEPT !.pc = "wait"] = rec("wait", Idle.req)  BY DEF Idle
<1>2. \A x, v : [rec("wait", x) EXCEPT !.req = v] = rec("wait", v)  OBVIOUS
<1>. HIDE DEF rec
<1>3. [rec("wait", Idle.req) EXCEPT !.req = b] = rec("wait", b)  BY <1>2
<1>4. [[Idle EXCEPT !.pc = "wait"] EXCEPT !.req = b] = rec("wait", b)  BY <1>1, <1>3, Zenon
<1>5. [Idle EXCEPT !.pc = "wait", !.req = b] = [[Idle EXCEPT !.pc = "wait"] EXCEPT !.req = b]
  OBVIOUS
<1>. QED  BY <1>4, <1>5 DEF rec

\* The record of a question that is answered.
LEMMA AnsweredIs ==
    ASSUME NEW b
    PROVE  [Idle EXCEPT !.pc = "done", !.out = b] =
               [pc |-> "done", req |-> [prefix |-> << >>, limit |-> 0],
                got |-> [s \in Shards |-> Waiting], out |-> b]
<1> DEFINE rec(p, x) == [pc |-> p, req |-> [prefix |-> << >>, limit |-> 0],
                         got |-> [s \in Shards |-> Waiting], out |-> x]
<1>1. [Idle EXCEPT !.pc = "done"] = rec("done", Idle.out)  BY DEF Idle
<1>2. \A x, v : [rec("done", x) EXCEPT !.out = v] = rec("done", v)  OBVIOUS
<1>. HIDE DEF rec
<1>3. [rec("done", Idle.out) EXCEPT !.out = b] = rec("done", b)  BY <1>2
<1>4. [[Idle EXCEPT !.pc = "done"] EXCEPT !.out = b] = rec("done", b)  BY <1>1, <1>3, Zenon
<1>5. [Idle EXCEPT !.pc = "done", !.out = b] = [[Idle EXCEPT !.pc = "done"] EXCEPT !.out = b]
  OBVIOUS
<1>. QED  BY <1>4, <1>5 DEF rec

\* The steps of a question.
LEMMA AskedTypes ==
    ASSUME SoundInv, NEW u \in Users, NEW r \in Asked, Turned(u, r) \/ Suggest(u, r)
    PROVE  SoundInv' /\ \A x \in Users : ~(ask[x].pc = "wait" /\ ask'[x].pc = "done")
<1>1. TypeOK /\ ask[u].pc # "wait"  BY DEF SoundInv, Turned, Suggest
<1>2. r \in [prefix : Seq(Nat), limit : Nat]  BY SuggestAssumption
<1>3. /\ << >> \in Seq(Suggestion)
      /\ [prefix |-> << >>, limit |-> 0] \in [prefix : Seq(Nat), limit : Nat]
  OBVIOUS
<1>4. ASSUME NEW q, ask' = [ask EXCEPT ![u] = q]
      PROVE  \A x \in Users : ~(ask[x].pc = "wait" /\ ask'[x].pc = "done")
  BY <1>1, <1>4 DEF TypeOK
<1>5. CASE Turned(u, r)
  <2> DEFINE p == IF r.prefix = << >> THEN "done" ELSE "rejected"
             none == [prefix |-> << >>, limit |-> 0]
             q == [pc |-> p, req |-> none, got |-> [s \in Shards |-> Waiting], out |-> << >>]
  <2>1. /\ ask' = [ask EXCEPT ![u] = [Idle EXCEPT !.pc = p]]
        /\ UNCHANGED <<up, counts, index, flush, tasks, fed, writes, crashes, calls>>
    BY <1>5 DEF Turned
  <2>2. [Idle EXCEPT !.pc = p] = q  BY DEF Idle
  <2>3. p \in {"idle", "wait", "done", "rejected"} /\ q.pc # "wait"  OBVIOUS
  <2>. HIDE DEF p, none
  <2>4. QuestionType(q)  BY <1>3, <2>3, QuestionIs DEF none
  <2>. HIDE DEF q
  <2>5. ask' = [ask EXCEPT ![u] = q]  BY <2>1, <2>2
  <2>. QED  BY <1>4, <2>1, <2>3, <2>4, <2>5, AskTypes
<1>6. CASE Suggest(u, r)
  <2> DEFINE b == [r EXCEPT !.limit = Clamp(r.limit)]
             q == [pc |-> "wait", req |-> b, got |-> [s \in Shards |-> Waiting], out |-> << >>]
  <2>1. /\ r.prefix # << >>
        /\ ask' = [ask EXCEPT ![u] = [Idle EXCEPT !.pc = "wait",
                                                  !.req = [r EXCEPT !.limit = Clamp(@)]]]
        /\ UNCHANGED <<up, counts, index, flush, tasks, fed, writes, crashes, calls>>
    BY <1>6 DEF Suggest
  <2>2. Clamp(r.limit) \in Nat \ {0}  BY <1>2, ClampIs
  <2>3. [Idle EXCEPT !.pc = "wait", !.req = [r EXCEPT !.limit = Clamp(@)]] = q
    <3>1. b = [r EXCEPT !.limit = Clamp(@)]  OBVIOUS
    <3>. HIDE DEF b
    <3>2. [Idle EXCEPT !.pc = "wait", !.req = b] = q  BY AskedIs
    <3>. QED  BY <3>1, <3>2
  <2>4. b \in [prefix : Seq(Nat), limit : Nat] /\ b.prefix = r.prefix /\ b.limit # 0
    BY <1>2, <2>2
  <2>. HIDE DEF b
  <2>5. QuestionType(q) /\ SoundAnswers(q.req, q.got)  BY <1>3, <2>4, QuestionIs
  <2>6. q.req.prefix # << >> /\ q.req.limit # 0  BY <2>1, <2>4
  <2>. HIDE DEF q
  <2>7. ask' = [ask EXCEPT ![u] = q]  BY <2>1, <2>3
  <2>. QED  BY <1>4, <2>1, <2>5, <2>6, <2>7, AskTypes
<1>. QED  BY <1>5, <1>6

\* A shard answers with the best terms of its index, or with none.
LEMMA ShardTypes ==
    ASSUME SoundInv, NEW u \in Users, NEW s \in Shards, ShardAnswers(u, s) \/ ShardTimesOut(u, s)
    PROVE  SoundInv' /\ \A x \in Users : ~(ask[x].pc = "wait" /\ ask'[x].pc = "done")
<1> DEFINE w == ask[u]
<1>1. /\ TypeOK /\ w.pc = "wait" /\ QuestionType(w) /\ w.got[s].st = "wait"
      /\ w.req.prefix # << >> /\ w.req.limit # 0 /\ SoundAnswers(w.req, w.got)
  BY DEF SoundInv, TypeOK, AnswersSound, ShardAnswers, ShardTimesOut
<1>2. UNCHANGED <<up, counts, index, flush, tasks, fed, writes, crashes, calls>>
  BY DEF ShardAnswers, ShardTimesOut
<1>3. PICK y : /\ ReplyType(y)
               /\ ask' = [ask EXCEPT ![u].got[s] = y]
               /\ IF y.st = "ok" THEN y.entries \in Query(y.idx, w.req.prefix, w.req.limit)
                                 ELSE y.entries = {}
  <2>1. CASE ShardAnswers(u, s)
    <3>1. PICK entries \in Query(index[s], w.req.prefix, w.req.limit) :
              ask' = [ask EXCEPT ![u].got[s] =
                         [st |-> "ok", entries |-> entries, idx |-> index[s]]]
      BY <2>1 DEF ShardAnswers
    <3>2. IndexType(index[s])  BY <1>1 DEF TypeOK
    <3>3. entries \subseteq Suggestion  BY <1>1, <3>1, <3>2, QueryIs DEF QuestionType
    <3> DEFINE y == [st |-> "ok", entries |-> entries, idx |-> index[s]]
    <3>4. ReplyType(y)  BY <3>2, <3>3 DEF ReplyType
    <3>5. y.st = "ok" /\ y.entries \in Query(y.idx, w.req.prefix, w.req.limit)  BY <3>1
    <3>6. ask' = [ask EXCEPT ![u].got[s] = y]  BY <3>1
    <3>. HIDE DEF y, w
    <3>. QED  BY <3>4, <3>5, <3>6
  <2>2. CASE ShardTimesOut(u, s)
    <3> DEFINE y == [w.got[s] EXCEPT !.st = "failed"]
    <3>1. ReplyType(w.got[s])  BY <1>1 DEF QuestionType
    <3>2. y = [st |-> "failed", entries |-> w.got[s].entries, idx |-> w.got[s].idx]
      BY <3>1 DEF ReplyType
    <3>3. ReplyType(y)  BY <3>1, <3>2 DEF ReplyType
    <3>4. y.st = "failed" /\ y.entries = {}  BY <1>1, <3>2 DEF SoundAnswers
    <3>5. ask' = [ask EXCEPT ![u].got[s].st = "failed"]  BY <2>2 DEF ShardTimesOut
    <3>6. ask' = [ask EXCEPT ![u].got[s] = y]  BY <3>5
    <3>. HIDE DEF y, w
    <3>. QED  BY <3>3, <3>4, <3>6
  <2>. QED  BY <2>1, <2>2
<1> DEFINE got == [w.got EXCEPT ![s] = y]
           q == [pc |-> "wait", req |-> w.req, got |-> got, out |-> w.out]
<1>4. ask' = [ask EXCEPT ![u] = q]
  <2>1. [w EXCEPT !.got[s] = y] = q
    <3>1. \A p, r, g, o : [[pc |-> p, req |-> r, got |-> g, out |-> o] EXCEPT !.got[s] = y] =
                             [pc |-> p, req |-> r, got |-> [g EXCEPT ![s] = y], out |-> o]
      OBVIOUS
    <3>2. w = [pc |-> "wait", req |-> w.req, got |-> w.got, out |-> w.out]
      BY <1>1 DEF QuestionType
    <3>. HIDE DEF w
    <3>. QED  BY <3>1, <3>2
  <2>2. ask' = [ask EXCEPT ![u] = [w EXCEPT !.got[s] = y]]  BY <1>3
  <2>. QED  BY <2>1, <2>2
<1>5. DOMAIN got = Shards /\ \A x \in Shards : got[x] = IF x = s THEN y ELSE w.got[x]
  BY <1>1 DEF QuestionType
<1>. HIDE DEF got
<1>6. QuestionType(q)
  <2>1. \A x \in Shards : ReplyType(got[x])  BY <1>1, <1>3, <1>5 DEF QuestionType
  <2>. QED  BY <1>1, <1>5, <2>1 DEF QuestionType
<1>7. SoundAnswers(q.req, q.got)
  BY <1>1, <1>3, <1>5 DEF SoundAnswers
<1>8. q.pc = "wait" /\ q.req.prefix # << >> /\ q.req.limit # 0  BY <1>1
<1>. HIDE DEF q
<1>9. SoundInv'  BY <1>2, <1>4, <1>6, <1>7, <1>8, AskTypes
<1>10. \A x \in Users : ask'[x] = IF x = u THEN q ELSE ask[x]  BY <1>1, <1>4 DEF TypeOK
<1>. QED  BY <1>8, <1>9, <1>10
\* The router's answer is the one all of the indexes would give.
LEMMA AnswerTypes ==
    ASSUME SoundInv, NEW u \in Users, Answer(u)
    PROVE  /\ SoundInv'
           /\ Exact(ask[u].req, ask[u].got, ask'[u].out)
           /\ \A x \in Users : x # u => ask'[x] = ask[x]
<1> DEFINE w   == ask[u]
           X   == UNION {w.got[s].entries : s \in Shards}
           out == Merged(X, w.req.limit)
           none == [prefix |-> << >>, limit |-> 0]
           q   == [pc |-> "done", req |-> none, got |-> [s \in Shards |-> Waiting], out |-> out]
<1>1. /\ TypeOK /\ w.pc = "wait" /\ QuestionType(w)
      /\ w.req.prefix # << >> /\ w.req.limit # 0 /\ SoundAnswers(w.req, w.got)
  BY DEF SoundInv, TypeOK, AnswersSound, Answer
<1>2. /\ ask' = [ask EXCEPT ![u] = [Idle EXCEPT !.pc = "done", !.out = out]]
      /\ UNCHANGED <<up, counts, index, flush, tasks, fed, writes, crashes, calls>>
  BY DEF Answer
<1>3. /\ w.req.prefix \in Seq(Nat) /\ w.req.limit \in Nat \ {0}
      /\ \A s \in Shards : IndexType(w.got[s].idx) /\ w.got[s].entries \subseteq Suggestion
  BY <1>1 DEF QuestionType, ReplyType
<1>4. out \in Seq(X) /\ Exact(w.req, w.got, out)  BY <1>1, <1>3, MergeExact
<1>5. X \subseteq Suggestion  BY <1>3
<1>6. ask' = [ask EXCEPT ![u] = q]
  <2>. HIDE DEF out, none
  <2>1. [Idle EXCEPT !.pc = "done", !.out = out] = q  BY AnsweredIs DEF none
  <2>. QED  BY <1>2, <2>1
<1>. HIDE DEF X
<1>7. out \in Seq(Suggestion)
  <2>. HIDE DEF out
  <2>. QED  BY <1>4, <1>5
<1>8. q.pc = "done" /\ q.out = out  OBVIOUS
<1>9. QuestionType(q)
  <2>1. none \in [prefix : Seq(Nat), limit : Nat]  OBVIOUS
  <2>. HIDE DEF out, none
  <2>. QED  BY <1>7, <2>1, QuestionIs
<1>. HIDE DEF q, out
<1>10. DOMAIN ask = Users  BY <1>1 DEF TypeOK
<1>11. ask'[u] = q /\ \A x \in Users : x # u => ask'[x] = ask[x]  BY <1>6, <1>10
<1>12. SoundInv'  BY <1>2, <1>6, <1>8, <1>9, AskTypes
<1>. QED  BY <1>4, <1>8, <1>11, <1>12

\* No step disturbs what is known of answers, and the answers given are exact.
LEMMA SoundNext ==
    ASSUME SoundInv, [Next]_vars
    PROVE  /\ SoundInv'
           /\ \A u \in Users : (ask[u].pc = "wait" /\ ask'[u].pc = "done") =>
                 Exact(ask[u].req, ask[u].got, ask'[u].out)
<1> DEFINE Good == \A u \in Users : (ask[u].pc = "wait" /\ ask'[u].pc = "done") =>
                      Exact(ask[u].req, ask[u].got, ask'[u].out)
<1>1. ASSUME ask' = ask PROVE Good  BY <1>1
<1>2. CASE UNCHANGED vars
  <2>1. SoundInv'
    BY <1>2 DEF SoundInv, TypeOK, TaskType, QuestionType, ReplyType, IndexType, AnswersSound,
                SoundAnswers, vars
  <2>. QED  BY <1>1, <1>2, <2>1 DEF vars
<1>3. CASE Write  BY <1>1, <1>3, WriteTypes DEF Write
<1>4. ASSUME NEW k \in tasks, Deliver(k) \/ Drop(k) PROVE SoundInv' /\ Good
  BY <1>1, <1>4, DeliverTypes DEF Deliver, Drop
<1>5. ASSUME NEW s \in Shards, Crash(s) \/ Restart(s) PROVE SoundInv' /\ Good
  BY <1>1, <1>5, CrashTypes DEF Crash, Restart
<1>6. ASSUME NEW s \in Shards, NEW f \in Flushers, Snapshot(s, f) \/ Publish(s, f)
      PROVE  SoundInv' /\ Good
  BY <1>1, <1>6, FlushTypes DEF Snapshot, Publish
<1>7. ASSUME NEW u \in Users, NEW r \in Asked, Turned(u, r) \/ Suggest(u, r)
      PROVE  SoundInv' /\ Good
  BY <1>7, AskedTypes
<1>8. ASSUME NEW u \in Users, NEW s \in Shards, ShardAnswers(u, s) \/ ShardTimesOut(u, s)
      PROVE  SoundInv' /\ Good
  BY <1>8, ShardTypes
<1>9. ASSUME NEW u \in Users, Answer(u) PROVE SoundInv' /\ Good
  BY <1>9, AnswerTypes
<1>. QED  BY <1>2, <1>3, <1>4, <1>5, <1>6, <1>7, <1>8, <1>9 DEF Next

\* The variables of suggest shards, router and questions have their types, in
\* particular what flushes hold back is at most one index each and tasks hold
\* documents of their own write (SuggestShardEngine, fan_out_suggest_write).
THEOREM SuggestTyping == Spec => []TypeOK
<1>1. SoundInv /\ [Next]_vars => SoundInv'  BY SoundNext
<1>2. SoundInv => TypeOK  BY DEF SoundInv
<1>. QED  BY SoundInit, <1>1, <1>2, PTL DEF Spec

\* The router's answer is exact whatever the shards, terms and limits, and
\* however writes, flushes and crashes interleave with the question: every term
\* comes with the best score of any shard that answered, in the order of scores,
\* and no term is missing that would rank before one it has (Router::suggest,
\* SuggestIndex::query).
THEOREM AnswersAreExact == Spec => SuggestExact
<1>1. SoundInv /\ [Next]_vars => SoundInv'  BY SoundNext
<1>2. SoundInv /\ [Next]_vars =>
          [\A u \in Users : (ask[u].pc = "wait" /\ ask'[u].pc = "done") =>
              Exact(ask[u].req, ask[u].got, ask'[u].out)]_vars
  BY SoundNext
<1>. QED  BY SoundInit, <1>1, <1>2, PTL DEF Spec, SuggestExact
-----------------------------------------------------------------------------
(* Frequencies are deserved *)

FreqInv == SoundInv /\ CountsDeserved /\ FrequencyDeserved

\* Fields of documents are finitely many.
LEMMA FieldsFinite ==
    ASSUME NEW F \in SUBSET (Docs \X Fields)
    PROVE  IsFiniteSet(F) /\ Cardinality(F) \in Nat
<1>1. IsFiniteSet(Docs \X Fields)  BY TermsFinite, SuggestAssumption, FS_Product
<1>. QED  BY <1>1, FS_Subset, FS_CardinalityType

\* At the start nothing is counted and nothing suggested.
LEMMA FreqInit == Init => FreqInv
<1> SUFFICES ASSUME Init PROVE FreqInv  OBVIOUS
<1>1. SoundInv  BY SoundInit
<1>2. ASSUME NEW s \in Shards, NEW t \in Terms
      PROVE  counts[s][t] <= Cardinality(FieldsFed(s, t))
  <2>1. FieldsFed(s, t) \in SUBSET (Docs \X Fields)  BY DEF FieldsFed
  <2>2. Cardinality(FieldsFed(s, t)) \in Nat  BY <2>1, FieldsFinite
  <2>. QED  BY <2>2 DEF Init, Zero
<1>3. ASSUME NEW s \in Shards, NEW idx \in {index[s]} \cup UNION {flush[s][f] : f \in Flushers}
      PROVE  DOMAIN idx.freq = {}
  BY EmptyIndexIs DEF Init, NoFlush
<1>. QED  BY <1>1, <1>2, <1>3 DEF FreqInv, CountsDeserved, FrequencyDeserved

\* A shard that gets no document twice counts the terms of fields it had not got.
LEMMA DeliverCounts ==
    ASSUME TypeOK, CountsDeserved, NEW k \in tasks, Deliver(k),
           NEW s \in Shards, \A d \in Docs : fed'[s][d] <= 1, NEW t \in Terms
    PROVE  /\ \A d \in Docs : fed[s][d] <= 1
           /\ Cardinality(FieldsFed(s, t)) <= Cardinality(FieldsFed(s, t)')
           /\ Cardinality(FieldsFed(s, t)) \in Nat /\ Cardinality(FieldsFed(s, t)') \in Nat
           /\ counts'[s][t] <= Cardinality(FieldsFed(s, t)')
<1> DEFINE old == FieldsFed(s, t)
           now == FieldsFed(s, t)'
           docs == k.docs
           got(d) == {j \in DOMAIN docs : docs[j] = d}
<1>1. /\ k.shard \in Shards /\ IsFiniteSet(DOMAIN docs) /\ \A j \in DOMAIN docs : docs[j] \in Docs
  BY TaskFinite
<1>2. /\ counts' = [counts EXCEPT ![k.shard] = AddAll(counts[k.shard], docs)]
      /\ fed' = [fed EXCEPT ![k.shard] =
                    [d \in Docs |-> fed[k.shard][d] + Cardinality(got(d))]]
  BY DEF Deliver
<1>3. old = {p \in Docs \X Fields : fed[s][p[1]] > 0 /\ Has(p[1], p[2], t)}
  BY DEF FieldsFed
<1>4. now = {p \in Docs \X Fields : fed'[s][p[1]] > 0 /\ Has(p[1], p[2], t)}
  BY DEF FieldsFed, Has, Fields
<1>5. ASSUME NEW d \in Docs
      PROVE  /\ IsFiniteSet(got(d)) /\ Cardinality(got(d)) \in Nat
             /\ fed[s][d] \in Nat /\ fed'[s][d] \in Nat
             /\ fed'[s][d] = IF s = k.shard THEN fed[s][d] + Cardinality(got(d)) ELSE fed[s][d]
  <2>1. got(d) \in SUBSET DOMAIN docs  OBVIOUS
  <2>. HIDE DEF got, docs
  <2>2. IsFiniteSet(got(d)) /\ Cardinality(got(d)) \in Nat
    BY <1>1, <2>1, FS_Subset, FS_CardinalityType
  <2>3. fed[s][d] \in Nat  BY DEF TypeOK
  <2>. QED  BY <1>1, <1>2, <2>2, <2>3 DEF TypeOK
<1>. HIDE DEF docs, got, old, now
<1>6. \A d \in Docs : fed[s][d] <= fed'[s][d] /\ fed[s][d] <= 1  BY <1>5
<1>7. old \in SUBSET (Docs \X Fields) /\ now \in SUBSET (Docs \X Fields) /\ old \in SUBSET now
  BY <1>3, <1>4, <1>5, <1>6
<1>8. /\ IsFiniteSet(old) /\ IsFiniteSet(now)
      /\ Cardinality(old) \in Nat /\ Cardinality(now) \in Nat
      /\ Cardinality(old) <= Cardinality(now)
  BY <1>7, FieldsFinite, FS_Subset
<1>9. counts[s][t] \in Nat /\ counts[s][t] <= Cardinality(old)
  BY <1>6 DEF TypeOK, CountsDeserved, old
<1>10. counts'[s][t] <= Cardinality(now)
  <2>1. CASE s # k.shard
    <3>1. counts'[s] = counts[s]  BY <1>2, <2>1 DEF TypeOK
    <3>. QED  BY <1>8, <1>9, <3>1
  <2>2. CASE s = k.shard
    <3> DEFINE P == {p \in (DOMAIN docs) \X Fields : Has(docs[p[1]], p[2], t)}
               N == {<<docs[p[1]], p[2]>> : p \in P}
               g == [p \in P |-> <<docs[p[1]], p[2]>>]
    <3>1. /\ IsFiniteSet(P) /\ Cardinality(P) \in Nat
          /\ counts'[s][t] = counts[s][t] + Cardinality(P)
      <4>1. counts[s] \in [Terms -> Nat]  BY DEF TypeOK
      <4>2. counts'[s] = AddAll(counts[s], docs)  BY <1>2, <2>2 DEF TypeOK
      <4>. QED  BY <1>1, <4>1, <4>2, AddAllIs
    <3>2. ASSUME NEW j \in DOMAIN docs
          PROVE  /\ fed[s][docs[j]] = 0 /\ fed'[s][docs[j]] > 0
                 /\ \A i \in DOMAIN docs : docs[i] = docs[j] => i = j
      <4> DEFINE d == docs[j]
                 G == got(d)
      <4>1. d \in Docs /\ j \in G  BY <1>1 DEF got
      <4>2. /\ IsFiniteSet(G) /\ Cardinality(G) \in Nat /\ fed[s][d] \in Nat
            /\ fed'[s][d] = fed[s][d] + Cardinality(G) /\ fed'[s][d] <= 1
        BY <1>5, <2>2, <4>1
      <4>3. \A i \in DOMAIN docs : docs[i] = d => i \in G  BY DEF got
      <4>. HIDE DEF G, d
      <4>4. Cardinality(G) # 0  BY <4>1, <4>2, FS_EmptySet
      <4>5. Cardinality(G) = 1 /\ fed[s][d] = 0 /\ fed'[s][d] > 0  BY <4>2, <4>4
      <4>6. \E x : G = {x}  BY <4>2, <4>5, FS_Singleton
      <4>. QED  BY <4>1, <4>3, <4>5, <4>6 DEF d
    <3>3. N \in SUBSET now
      <4> SUFFICES ASSUME NEW p \in P PROVE <<docs[p[1]], p[2]>> \in now  OBVIOUS
      <4>1. p[1] \in DOMAIN docs /\ p[2] \in Fields /\ Has(docs[p[1]], p[2], t)  OBVIOUS
      <4>. QED  BY <1>1, <1>4, <3>2, <4>1
    <3>4. N \cap old = {}
      <4> SUFFICES ASSUME NEW p \in P, <<docs[p[1]], p[2]>> \in old PROVE FALSE  OBVIOUS
      <4>1. fed[s][docs[p[1]]] > 0  BY <1>3
      <4>2. p[1] \in DOMAIN docs  OBVIOUS
      <4>. QED  BY <3>2, <4>1, <4>2
    <3>5. g \in Surjection(P, N)  BY DEF Surjection
    <3>6. g \in Injection(P, N)
      <4>1. ASSUME NEW p \in P, NEW q \in P, g[p] = g[q] PROVE p = q
        <5>1. p \in (DOMAIN docs) \X Fields /\ q \in (DOMAIN docs) \X Fields  OBVIOUS
        <5>2. docs[p[1]] = docs[q[1]] /\ p[2] = q[2]  BY <4>1
        <5>3. p[1] = q[1]  BY <3>2, <5>1, <5>2
        <5>. QED  BY <5>1, <5>2, <5>3
      <4>. QED  BY <3>5, <4>1 DEF Injection, Surjection, IsInjective
    <3>. HIDE DEF P, N, g
    <3>7. IsFiniteSet(N) /\ Cardinality(N) = Cardinality(P)
      BY <3>1, <3>5, <3>6, FS_Surjection
    <3>8. Cardinality(old \cup N) = Cardinality(old) + Cardinality(N)
      <4>1. Cardinality(old \cup N) =
                Cardinality(old) + Cardinality(N) - Cardinality(old \cap N)
        BY <1>8, <3>7, FS_Union
      <4>2. old \cap N = {}  BY <3>4
      <4>3. Cardinality(old \cap N) = 0  BY <4>2, FS_EmptySet
      <4>. QED  BY <1>8, <3>1, <3>7, <4>1, <4>3
    <3>9. Cardinality(old \cup N) <= Cardinality(now)
      <4>1. (old \cup N) \in SUBSET now  BY <1>7, <3>3
      <4>. QED  BY <1>8, <4>1, FS_Subset
    <3>. QED  BY <1>8, <1>9, <3>1, <3>7, <3>8, <3>9
  <2>. QED  BY <2>1, <2>2
<1>. QED  BY <1>6, <1>8, <1>10 DEF old, now
\* What a shard publishes later is as deserved as what it counts.
LEMMA FreqNext == FreqInv /\ [Next]_vars => FreqInv'
<1> SUFFICES ASSUME FreqInv, [Next]_vars PROVE FreqInv'  OBVIOUS
<1>1. SoundInv /\ TypeOK /\ CountsDeserved /\ FrequencyDeserved  BY DEF FreqInv, SoundInv
<1>2. SoundInv'  BY <1>1, SoundNext
<1> DEFINE Held(s) == {index[s]} \cup UNION {flush[s][f] : f \in Flushers}
<1>3. ASSUME NEW s \in Shards, \A d \in Docs : fed[s][d] <= 1
      PROVE  /\ \A t \in Terms : counts[s][t] <= Cardinality(FieldsFed(s, t))
             /\ \A idx \in Held(s) : \A t \in DOMAIN idx.freq :
                   idx.freq[t] <= Cardinality(FieldsFed(s, t))
  BY <1>1, <1>3 DEF CountsDeserved, FrequencyDeserved
<1>4. ASSUME NEW s \in Shards, NEW idx \in Held(s) PROVE DOMAIN idx.freq \subseteq Terms
  BY <1>1 DEF TypeOK, IndexType
<1> DEFINE Goal(s) ==
               (\A d \in Docs : fed'[s][d] <= 1) =>
                   /\ \A t \in Terms : counts'[s][t] <= Cardinality(FieldsFed(s, t)')
                   /\ \A idx \in Held(s)' : \A t \in DOMAIN idx.freq :
                         idx.freq[t] <= Cardinality(FieldsFed(s, t)')
<1>5. SUFFICES \A s \in Shards : Goal(s)
  BY <1>2 DEF FreqInv, CountsDeserved, FrequencyDeserved
<1>6. ASSUME NEW s \in Shards, fed'[s] = fed[s]
      PROVE  \A t : FieldsFed(s, t)' = FieldsFed(s, t)
  BY <1>6 DEF FieldsFed, Has, Fields
<1>7. ASSUME NEW s \in Shards, fed'[s] = fed[s], counts'[s] = counts[s],
             Held(s)' \subseteq Held(s)
      PROVE  Goal(s)
  <2>. HIDE DEF Held
  <2>. QED  BY <1>3, <1>6, <1>7
<1>8. ASSUME UNCHANGED <<counts, index, flush, fed>> PROVE \A s \in Shards : Goal(s)
  <2>1. \A s \in Shards : fed'[s] = fed[s] /\ counts'[s] = counts[s] /\ Held(s)' = Held(s)
    BY <1>8
  <2>. HIDE DEF Held, Goal
  <2>. QED  BY <1>7, <2>1
<1>9. CASE UNCHANGED vars  BY <1>8, <1>9 DEF vars
<1>10. CASE Write  BY <1>8, <1>10 DEF Write
<1>11. ASSUME NEW k \in tasks, Drop(k) PROVE \A s \in Shards : Goal(s)
  BY <1>8, <1>11 DEF Drop
<1>12. ASSUME NEW k \in tasks, Deliver(k) PROVE \A s \in Shards : Goal(s)
  <2> SUFFICES ASSUME NEW s \in Shards, \A d \in Docs : fed'[s][d] <= 1
               PROVE  /\ \A t \in Terms : counts'[s][t] <= Cardinality(FieldsFed(s, t)')
                      /\ \A idx \in Held(s)' : \A t \in DOMAIN idx.freq :
                            idx.freq[t] <= Cardinality(FieldsFed(s, t)')
    OBVIOUS
  <2>1. \A t \in Terms :
            /\ \A d \in Docs : fed[s][d] <= 1
            /\ Cardinality(FieldsFed(s, t)) <= Cardinality(FieldsFed(s, t)')
            /\ Cardinality(FieldsFed(s, t)) \in Nat /\ Cardinality(FieldsFed(s, t)') \in Nat
            /\ counts'[s][t] <= Cardinality(FieldsFed(s, t)')
    BY <1>1, <1>12, DeliverCounts
  <2>2. Held(s)' = Held(s)  BY <1>12 DEF Deliver
  <2>3. ASSUME NEW idx \in Held(s), NEW t \in DOMAIN idx.freq
        PROVE  idx.freq[t] <= Cardinality(FieldsFed(s, t)')
    <3>1. t \in Terms  BY <1>4
    <3>2. idx.freq[t] <= Cardinality(FieldsFed(s, t))  BY <1>3, <2>1, <3>1
    <3>3. idx.freq[t] \in Nat  BY <1>1 DEF TypeOK, IndexType
    <3>. QED  BY <2>1, <3>1, <3>2, <3>3
  <2>. HIDE DEF Held
  <2>. QED  BY <2>1, <2>2, <2>3
<1>13. ASSUME NEW x \in Shards, Crash(x) PROVE \A s \in Shards : Goal(s)
  <2>1. /\ counts' = [counts EXCEPT ![x] = Zero]
        /\ index' = [index EXCEPT ![x] = EmptyIndex]
        /\ flush' = [flush EXCEPT ![x] = NoFlush]
        /\ fed' = [fed EXCEPT ![x] = Never]
    BY <1>13 DEF Crash
  <2>2. ASSUME NEW s \in Shards, s # x PROVE Goal(s)
    <3>1. fed'[s] = fed[s] /\ counts'[s] = counts[s] /\ Held(s)' = Held(s)
      BY <1>1, <2>1, <2>2 DEF TypeOK
    <3>. HIDE DEF Held, Goal
    <3>. QED  BY <1>7, <3>1
  <2>3. ASSUME NEW t \in Terms PROVE counts'[x][t] <= Cardinality(FieldsFed(x, t)')
    <3>1. FieldsFed(x, t)' \in SUBSET (Docs \X Fields)  BY DEF FieldsFed, Has, Fields
    <3>2. Cardinality(FieldsFed(x, t)') \in Nat  BY <3>1, FieldsFinite
    <3>3. counts'[x][t] = 0  BY <1>1, <2>1 DEF TypeOK, Zero
    <3>. QED  BY <3>2, <3>3
  <2>4. Held(x)' = {EmptyIndex}
    <3>1. index'[x] = EmptyIndex /\ flush'[x] = NoFlush  BY <1>1, <2>1 DEF TypeOK
    <3>. QED  BY <3>1 DEF NoFlush
  <2>5. Goal(x)
    <3>. HIDE DEF Held
    <3>. QED  BY <2>3, <2>4, EmptyIndexIs
  <2>. HIDE DEF Goal
  <2>. QED  BY <2>2, <2>5
<1>14. ASSUME NEW x \in Shards, Restart(x) PROVE \A s \in Shards : Goal(s)
  BY <1>8, <1>14 DEF Restart
<1>15. ASSUME NEW x \in Shards, NEW g \in Flushers, Snapshot(x, g)
       PROVE  \A s \in Shards : Goal(s)
  <2>1. PICK new \in Snapshots(counts[x]) : flush' = [flush EXCEPT ![x][g] = {new}]
    BY <1>15 DEF Snapshot
  <2>2. counts' = counts /\ fed' = fed /\ index' = index  BY <1>15 DEF Snapshot
  <2>3. ASSUME NEW s \in Shards, s # x PROVE Goal(s)
    <3>1. fed'[s] = fed[s] /\ counts'[s] = counts[s] /\ Held(s)' = Held(s)
      BY <1>1, <2>1, <2>2, <2>3 DEF TypeOK
    <3>. HIDE DEF Held, Goal
    <3>. QED  BY <1>7, <3>1
  <2>4. \A f \in Flushers : flush'[x][f] = IF f = g THEN {new} ELSE flush[x][f]
    BY <1>1, <2>1 DEF TypeOK
  <2>5. Held(x)' \subseteq Held(x) \cup {new}  BY <2>2, <2>4
  <2>6. DOMAIN new.freq \subseteq Terms /\ \A t \in DOMAIN new.freq : new.freq[t] = counts[x][t]
    <3>1. counts[x] \in [Terms -> Nat]  BY <1>1 DEF TypeOK
    <3>. QED  BY <2>1, <3>1, SnapshotIs DEF IndexType
  <2>7. Goal(x)
    <3>1. \A t : FieldsFed(x, t)' = FieldsFed(x, t)  BY <1>6, <2>2
    <3>. HIDE DEF Held
    <3>. QED  BY <1>3, <2>2, <2>5, <2>6, <3>1
  <2>. HIDE DEF Goal
  <2>. QED  BY <2>3, <2>7
<1>16. ASSUME NEW x \in Shards, NEW g \in Flushers, Publish(x, g)
       PROVE  \A s \in Shards : Goal(s)
  <2>1. PICK new \in flush[x][g] : index' = [index EXCEPT ![x] = new]  BY <1>16 DEF Publish
  <2>2. counts' = counts /\ fed' = fed /\ flush' = [flush EXCEPT ![x][g] = {}]
    BY <1>16 DEF Publish
  <2>3. ASSUME NEW s \in Shards PROVE Goal(s)
    <3>1. \A f \in Flushers : flush'[s][f] \subseteq flush[s][f]  BY <1>1, <2>2 DEF TypeOK
    <3>2. index'[s] = index[s] \/ (s = x /\ index'[s] = new)  BY <1>1, <2>1 DEF TypeOK
    <3>3. Held(s)' \subseteq Held(s)  BY <2>1, <3>1, <3>2
    <3>. HIDE DEF Held, Goal
    <3>. QED  BY <1>7, <2>2, <3>3
  <2>. QED  BY <2>3
<1>17. ASSUME NEW u \in Users, NEW r \in Asked, Turned(u, r) \/ Suggest(u, r)
       PROVE  \A s \in Shards : Goal(s)
  BY <1>8, <1>17 DEF Turned, Suggest
<1>18. ASSUME NEW u \in Users, NEW s \in Shards, ShardAnswers(u, s) \/ ShardTimesOut(u, s)
       PROVE  \A x \in Shards : Goal(x)
  BY <1>8, <1>18 DEF ShardAnswers, ShardTimesOut
<1>19. ASSUME NEW u \in Users, Answer(u) PROVE \A s \in Shards : Goal(s)
  BY <1>8, <1>19 DEF Answer
<1>. HIDE DEF Goal
<1>. QED
  BY <1>9, <1>10, <1>11, <1>12, <1>13, <1>14, <1>15, <1>16, <1>17, <1>18, <1>19 DEF Next

\* As long as a shard has got no document twice since it was started, it suggests
\* no term, and is about to suggest none, with a higher frequency than there are
\* fields that contain it (SuggestIndexBuilder::add_document, snapshot, flush).
THEOREM FrequenciesAreDeserved == Spec => []FrequencyDeserved
<1>1. FreqInv => FrequencyDeserved  BY DEF FreqInv
<1>. QED  BY FreqInit, FreqNext, <1>1, PTL DEF Spec
=============================================================================
