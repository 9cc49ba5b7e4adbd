-------------------------- MODULE BinanceHistoryProofs --------------------------
(***************************************************************************)
(* That a history Binance is asked for page by page is complete, whatever  *)
(* is traded meanwhile.  The first two sections are about what the history *)
(* is made of: sums over sets of rows, and rows in the order of their ids. *)
(***************************************************************************)
EXTENDS BinanceHistory, FiniteSetTheorems, SequenceTheorems, TLAPS

-----------------------------------------------------------------------------
(***************************************************************************)
(* Induction, with a set of the numbers or of the sets that have the       *)
(* property in the place of the property.                                  *)
(***************************************************************************)
LEMMA NatSetInduction ==
  ASSUME NEW T, 0 \in T, \A n \in Nat : n \in T => n + 1 \in T
  PROVE  Nat \subseteq T
<1>. DEFINE U == Nat \ T
<1>1. SUFFICES ASSUME U # {} PROVE FALSE
  OBVIOUS
<1>2. \E x \in U : \A y \in U : ~ (<<y, x>> \in OpToRel(<, Nat))
  <2>. HIDE DEF U
  <2>1. U \subseteq Nat
    BY DEF U
  <2>. QED BY <1>1, <2>1, NatLessThanWellFounded, WFMin
<1>3. PICK x \in U : \A y \in U : ~ (<<y, x>> \in OpToRel(<, Nat))
  BY <1>2
<1>4. x \in Nat /\ x # 0
  OBVIOUS
<1>6. x - 1 \in Nat /\ x - 1 < x
  BY <1>4
<1>5. x - 1 \notin U
  BY <1>3, <1>4, <1>6 DEF OpToRel
<1>7. (x - 1) + 1 = x
  BY <1>4
<1>. QED  BY <1>4, <1>5, <1>6, <1>7

LEMMA FiniteSetInduction ==
  ASSUME NEW S, IsFiniteSet(S), NEW T, {} \in T,
         \A V \in SUBSET S : \A x \in S \ V : V \in T => V \cup {x} \in T
  PROVE  S \in T
<1>. DEFINE U == (SUBSET S) \ T
<1>1. SUFFICES ASSUME U # {} PROVE FALSE
  OBVIOUS
<1>2. PICK V \in U : \A W \in U : ~ (<<W, V>> \in StrictSubsetOrdering(S))
  <2>. HIDE DEF U
  <2>1. U \subseteq FiniteSubsetsOf(S)
    BY FS_FiniteSubsetsOfFinite DEF U
  <2>. QED BY <1>1, <2>1, FS_StrictSubsetOrderingWellFounded, WFMin
<1>3. PICK x \in V : TRUE
  BY <1>2
<1>4. V \ {x} \notin U
  BY <1>2, <1>3 DEF StrictSubsetOrdering
<1>. QED  BY <1>2, <1>3, <1>4

\* The sums of f over the subsets of S, one element at a time.
Chosen(s) == CHOOSE x \in s : TRUE

SumsOf(g, f, S) ==
  g = [s \in SUBSET S |-> IF s = {} THEN 0 ELSE f[Chosen(s)] + g[s \ {Chosen(s)}]]

LEMMA SumIsPartialSum ==
  ASSUME NEW f, NEW S
  PROVE  SumFunctionOnSet(f, S) = (CHOOSE g : SumsOf(g, f, S))[S]
BY DEF SumFunctionOnSet, FoldFunctionOnSet, MapThenFoldSet, SumsOf, Chosen

LEMMA ChosenIsIn == \A s : s # {} => Chosen(s) \in s
BY DEF Chosen

LEMMA LessByOne ==
  ASSUME NEW s, IsFiniteSet(s), NEW x \in s
  PROVE  /\ IsFiniteSet(s \ {x}) /\ Cardinality(s) \in Nat /\ Cardinality(s \ {x}) \in Nat
         /\ Cardinality(s \ {x}) = Cardinality(s) - 1
BY FS_RemoveElement, FS_CardinalityType

\* Two ways to sum agree on the sets that both of them reach.
LEMMA SumsAgree ==
  ASSUME NEW f, NEW h, NEW S, NEW U, IsFiniteSet(U), U \subseteq S, \A x \in U : f[x] = h[x],
         NEW g, NEW k, SumsOf(g, f, S), SumsOf(k, h, U)
  PROVE  g[U] = k[U]
<1>. DEFINE T == {V \in SUBSET U : g[V] = k[V]}
            P(n) == \A V \in SUBSET U : Cardinality(V) = n => g[V] = k[V]
            N == {n \in Nat : P(n)}
<1>1. \A V \in SUBSET U : IsFiniteSet(V) /\ Cardinality(V) \in Nat
  BY FS_Subset, FS_CardinalityType
<1>2. \A V \in SUBSET U : g[V] = IF V = {} THEN 0 ELSE f[Chosen(V)] + g[V \ {Chosen(V)}]
  BY DEF SumsOf
<1>3. \A V \in SUBSET U : k[V] = IF V = {} THEN 0 ELSE h[Chosen(V)] + k[V \ {Chosen(V)}]
  BY DEF SumsOf
<1>4. 0 \in N
  <2>1. ASSUME NEW V \in SUBSET U, Cardinality(V) = 0 PROVE V = {}
    BY <1>1, <2>1, FS_EmptySet
  <2>. QED  BY <1>2, <1>3, <2>1
<1>5. ASSUME NEW n \in Nat, n \in N PROVE n + 1 \in N
  <2>1. ASSUME NEW V \in SUBSET U, Cardinality(V) = n + 1 PROVE g[V] = k[V]
    <3>1. V # {}
      BY <2>1, FS_EmptySet
    <3>2. Chosen(V) \in V /\ Cardinality(V \ {Chosen(V)}) = n
      BY <1>1, <2>1, <3>1, ChosenIsIn, LessByOne
    <3>3. g[V \ {Chosen(V)}] = k[V \ {Chosen(V)}]
      BY <1>5, <3>2
    <3>. QED  BY <1>2, <1>3, <3>1, <3>2, <3>3
  <2>. QED  BY <2>1
<1>. HIDE DEF N
<1>6. Nat \subseteq N
  BY <1>4, <1>5, NatSetInduction
<1>. QED  BY <1>1, <1>6 DEF N

LEMMA SumsExist ==
  ASSUME NEW f, NEW S, IsFiniteSet(S), \A x \in S : f[x] \in Int
  PROVE  \E g \in [SUBSET S -> Int] : SumsOf(g, f, S)
<1>. DEFINE upTo(n, g) ==
              \A s \in SUBSET S : Cardinality(s) <= n =>
                g[s] = IF s = {} THEN 0 ELSE f[Chosen(s)] + g[s \ {Chosen(s)}]
            N == {n \in Nat : \E g \in [SUBSET S -> Int] : upTo(n, g)}
<1>1. \A s \in SUBSET S : IsFiniteSet(s) /\ Cardinality(s) \in Nat /\ Cardinality(s) <= Cardinality(S)
  BY FS_Subset, FS_CardinalityType
<1>2. \A s \in SUBSET S : s # {} =>
        /\ Chosen(s) \in s /\ f[Chosen(s)] \in Int /\ s \ {Chosen(s)} \in SUBSET S
        /\ Cardinality(s \ {Chosen(s)}) = Cardinality(s) - 1
  BY <1>1, ChosenIsIn, LessByOne
<1>3. 0 \in N
  <2>. DEFINE g == [s \in SUBSET S |-> 0]
  <2>1. \A s \in SUBSET S : Cardinality(s) <= 0 => s = {}
    BY <1>1, FS_EmptySet
  <2>2. g \in [SUBSET S -> Int] /\ upTo(0, g)
    BY <2>1
  <2>. QED  BY <2>2
<1>4. ASSUME NEW n \in Nat, n \in N PROVE n + 1 \in N
  <2>1. PICK g \in [SUBSET S -> Int] : upTo(n, g)
    BY <1>4
  <2>. DEFINE g2 == [s \in SUBSET S |-> IF s = {} THEN 0 ELSE f[Chosen(s)] + g[s \ {Chosen(s)}]]
  <2>2. g2 \in [SUBSET S -> Int]
    BY <1>2
  <2>3. \A s \in SUBSET S : Cardinality(s) <= n => g2[s] = g[s]
    BY <2>1
  <2>4. ASSUME NEW s \in SUBSET S, Cardinality(s) <= n + 1, s # {}
        PROVE  g2[s \ {Chosen(s)}] = g[s \ {Chosen(s)}]
    <3>1. s \ {Chosen(s)} \in SUBSET S /\ Cardinality(s \ {Chosen(s)}) <= n
      BY <1>1, <1>2, <2>4
    <3>. HIDE DEF g2
    <3>. QED  BY <2>3, <3>1
  <2>. HIDE DEF upTo
  <2>5. upTo(n + 1, g2)
    BY <2>4 DEF upTo
  <2>. HIDE DEF g2
  <2>. QED  BY <2>2, <2>5
<1>. HIDE DEF N
<1>5. Cardinality(S) \in N
  BY <1>1, <1>3, <1>4, NatSetInduction
<1>6. PICK g \in [SUBSET S -> Int] : upTo(Cardinality(S), g)
  BY <1>5 DEF N
<1>7. SumsOf(g, f, S)
  BY <1>1, <1>6 DEF SumsOf
<1>. QED  BY <1>7

\* A sum over part of a larger set, computed from the sums of the larger set.
LEMMA SumFrom ==
  ASSUME NEW f, NEW h, NEW S, IsFiniteSet(S), \A x \in S : f[x] \in Int,
         NEW g, SumsOf(g, f, S), NEW U \in SUBSET S, \A x \in U : h[x] = f[x]
  PROVE  SumFunctionOnSet(h, U) = g[U]
<1>. DEFINE k == CHOOSE k : SumsOf(k, h, U)
<1>1. IsFiniteSet(U) /\ \A x \in U : h[x] \in Int
  BY FS_Subset
<1>2. SumsOf(k, h, U)
  BY <1>1, SumsExist
<1>3. SumFunctionOnSet(h, U) = k[U]
  BY SumIsPartialSum
<1>. HIDE DEF k
<1>. QED  BY <1>1, <1>2, <1>3, SumsAgree

LEMMA SumOfNothing == ASSUME NEW f PROVE SumFunctionOnSet(f, {}) = 0
<1>1. IsFiniteSet({})
  BY FS_EmptySet
<1>2. PICK g : SumsOf(g, f, {})
  BY <1>1, SumsExist
<1>3. g[{}] = 0
  BY <1>2 DEF SumsOf
<1>4. SumFunctionOnSet(f, {}) = g[{}]
  BY <1>1, <1>2, SumFrom
<1>. QED  BY <1>3, <1>4

LEMMA SumType ==
  ASSUME NEW f, NEW S, IsFiniteSet(S), \A x \in S : f[x] \in Int
  PROVE  SumFunctionOnSet(f, S) \in Int
<1>1. PICK g \in [SUBSET S -> Int] : SumsOf(g, f, S)
  BY SumsExist
<1>2. SumFunctionOnSet(f, S) = g[S]
  BY <1>1, SumFrom
<1>. QED  BY <1>2

LEMMA SumOnlySees ==
  ASSUME NEW f, NEW h, NEW S, IsFiniteSet(S), \A x \in S : f[x] \in Int /\ h[x] = f[x]
  PROVE  SumFunctionOnSet(h, S) = SumFunctionOnSet(f, S)
<1>1. PICK g \in [SUBSET S -> Int] : SumsOf(g, f, S)
  BY SumsExist
<1>2. SumFunctionOnSet(f, S) = g[S] /\ SumFunctionOnSet(h, S) = g[S]
  BY <1>1, SumFrom
<1>. QED  BY <1>2

\* Any element of a set may be taken out of its sum.
LEMMA SumWithout ==
  ASSUME NEW f, NEW S, IsFiniteSet(S), \A x \in S : f[x] \in Int, NEW x \in S
  PROVE  SumFunctionOnSet(f, S) = f[x] + SumFunctionOnSet(f, S \ {x})
<1>. DEFINE P(n) == \A V \in SUBSET S : \A y \in V :
              Cardinality(V) = n =>
                SumFunctionOnSet(f, V) = f[y] + SumFunctionOnSet(f, V \ {y})
            N == {n \in Nat : P(n)}
<1>1. \A V \in SUBSET S : /\ IsFiniteSet(V) /\ Cardinality(V) \in Nat
                          /\ SumFunctionOnSet(f, V) \in Int
  BY FS_Subset, FS_CardinalityType, SumType
<1>2. \A V \in SUBSET S : V # {} =>
        SumFunctionOnSet(f, V) = f[Chosen(V)] + SumFunctionOnSet(f, V \ {Chosen(V)})
  <2>1. PICK g \in [SUBSET S -> Int] : SumsOf(g, f, S)
    BY SumsExist
  <2>2. \A V \in SUBSET S : SumFunctionOnSet(f, V) = g[V]
    BY <2>1, SumFrom
  <2>. QED  BY <2>1, <2>2 DEF SumsOf
<1>3. 0 \in N
  BY <1>1, FS_EmptySet
<1>4. ASSUME NEW n \in Nat, n \in N PROVE n + 1 \in N
  <2>1. ASSUME NEW V \in SUBSET S, NEW y \in V, Cardinality(V) = n + 1
        PROVE  SumFunctionOnSet(f, V) = f[y] + SumFunctionOnSet(f, V \ {y})
    <3>. DEFINE z == Chosen(V)
    <3>1. z \in V /\ f[z] \in Int /\ f[y] \in Int
          /\ SumFunctionOnSet(f, V) = f[z] + SumFunctionOnSet(f, V \ {z})
      BY <1>2, ChosenIsIn
    <3>. HIDE DEF z
    <3>2. CASE y # z
      <4>1. Cardinality(V \ {y}) = n /\ Cardinality(V \ {z}) = n
        <5>1. IsFiniteSet(V)
          BY <1>1
        <5>2. Cardinality(V \ {y}) = Cardinality(V) - 1
          BY <5>1, LessByOne
        <5>3. Cardinality(V \ {z}) = Cardinality(V) - 1
          BY <3>1, <5>1, LessByOne
        <5>. QED  BY <2>1, <5>2, <5>3
      <4>2. SumFunctionOnSet(f, V \ {y}) = f[z] + SumFunctionOnSet(f, (V \ {y}) \ {z})
        BY <1>4, <3>1, <3>2, <4>1
      <4>3. SumFunctionOnSet(f, V \ {z}) = f[y] + SumFunctionOnSet(f, (V \ {z}) \ {y})
        BY <1>4, <3>1, <3>2, <4>1
      <4>. DEFINE W == (V \ {z}) \ {y}
      <4>4. (V \ {y}) \ {z} = W /\ SumFunctionOnSet(f, W) \in Int
        BY <1>1
      <4>5. /\ SumFunctionOnSet(f, V \ {y}) = f[z] + SumFunctionOnSet(f, W)
            /\ SumFunctionOnSet(f, V \ {z}) = f[y] + SumFunctionOnSet(f, W)
        BY <4>2, <4>3, <4>4
      <4>. HIDE DEF W
      <4>. QED  BY <3>1, <4>4, <4>5
    <3>3. CASE y = z
      BY <3>1, <3>3
    <3>. QED  BY <3>2, <3>3
  <2>. QED  BY <2>1
<1>. HIDE DEF N
<1>5. Cardinality(S) \in N
  BY <1>1, <1>3, <1>4, NatSetInduction
<1>. QED  BY <1>5 DEF N

\* A part of a sum without negative terms is not more than the whole.
LEMMA SumGrows ==
  ASSUME NEW f, NEW S, IsFiniteSet(S), \A x \in S : f[x] \in Nat, NEW U \in SUBSET S
  PROVE  /\ SumFunctionOnSet(f, S) \in Nat
         /\ SumFunctionOnSet(f, U) <= SumFunctionOnSet(f, S)
<1>. DEFINE T == {V \in SUBSET S : /\ SumFunctionOnSet(f, V) \in Nat
                                   /\ SumFunctionOnSet(f, V \cap U) \in Nat
                                   /\ SumFunctionOnSet(f, V \cap U) <= SumFunctionOnSet(f, V)}
<1>1. {} \in T
  BY SumOfNothing
<1>2. ASSUME NEW V \in SUBSET S, NEW x \in S \ V, V \in T PROVE V \cup {x} \in T
  <2>1. IsFiniteSet(V \cup {x}) /\ IsFiniteSet((V \cup {x}) \cap U) /\ (V \cup {x}) \ {x} = V
    BY FS_Subset
  <2>2. SumFunctionOnSet(f, V \cup {x}) = f[x] + SumFunctionOnSet(f, V)
    BY <2>1, SumWithout
  <2>3. CASE x \in U
    <3>1. ((V \cup {x}) \cap U) \ {x} = V \cap U
      BY <1>2
    <3>2. SumFunctionOnSet(f, (V \cup {x}) \cap U) = f[x] + SumFunctionOnSet(f, V \cap U)
      BY <2>1, <2>3, <3>1, SumWithout
    <3>. QED  BY <1>2, <2>2, <3>2
  <2>4. CASE x \notin U
    <3>1. (V \cup {x}) \cap U = V \cap U
      BY <2>4
    <3>2. SumFunctionOnSet(f, (V \cup {x}) \cap U) = SumFunctionOnSet(f, V \cap U)
      BY <3>1
    <3>3. f[x] \in Nat
      OBVIOUS
    <3>. QED  BY <1>2, <2>2, <3>2, <3>3
  <2>. QED  BY <2>3, <2>4
<1>. HIDE DEF T
<1>3. S \in T
  BY <1>1, <1>2, FiniteSetInduction
<1>4. S \cap U = U
  OBVIOUS
<1>. QED  BY <1>3, <1>4 DEF T

-----------------------------------------------------------------------------
(***************************************************************************)
(* Rows in the order of their ids.                                         *)
(***************************************************************************)
\* A rank is a place in the order.
LEMMA RankIsAPlace ==
  ASSUME NEW ids, ids \subseteq Int, IsFiniteSet(ids)
  PROVE  /\ Cardinality(ids) \in Nat
         /\ \A k \in ids : rank(k, ids) \in 1..Cardinality(ids)
         /\ \A j, k \in ids : j < k => rank(j, ids) < rank(k, ids)
<1>. DEFINE upTo(k) == {j \in ids : j <= k}
<1>1. \A k \in ids : /\ IsFiniteSet(upTo(k)) /\ Cardinality(upTo(k)) \in Nat
                     /\ Cardinality(upTo(k)) <= Cardinality(ids)
                     /\ upTo(k) # {}
  BY FS_Subset, FS_CardinalityType
<1>2. \A k \in ids : Cardinality(upTo(k)) # 0
  BY <1>1, FS_EmptySet
<1>3. Cardinality(ids) \in Nat
  BY FS_CardinalityType
<1>4. ASSUME NEW j \in ids, NEW k \in ids, j < k
      PROVE  Cardinality(upTo(j)) < Cardinality(upTo(k))
  <2>1. k \notin upTo(j) /\ upTo(j) \cup {k} \subseteq upTo(k)
    <3>1. j \in Int /\ k \in Int /\ \A x \in ids : x \in Int
      OBVIOUS
    <3>2. \A x \in ids : x <= j => x <= k
      BY <1>4, <3>1
    <3>3. ~(k <= j) /\ k <= k
      BY <1>4, <3>1
    <3>. QED  BY <3>2, <3>3
  <2>2. Cardinality(upTo(j) \cup {k}) = Cardinality(upTo(j)) + 1
    <3>. HIDE DEF upTo
    <3>. QED  BY <1>1, <2>1, FS_AddElement
  <2>3. Cardinality(upTo(j) \cup {k}) <= Cardinality(upTo(k))
    <3>. HIDE DEF upTo
    <3>. QED  BY <1>1, <2>1, FS_Subset
  <2>. QED  BY <1>1, <2>2, <2>3
<1>. QED  BY <1>1, <1>2, <1>3, <1>4 DEF rank

\* Every place is taken.
LEMMA EveryRank ==
  ASSUME NEW ids, ids \subseteq Int, IsFiniteSet(ids)
  PROVE  \A n \in 1..Cardinality(ids) : \E k \in ids : rank(k, ids) = n
<1>. DEFINE f == [k \in ids |-> rank(k, ids)]
            T == 1..Cardinality(ids)
<1>1. IsFiniteSet(T) /\ Cardinality(T) = Cardinality(ids)
  <2>1. Cardinality(ids) \in Nat
    BY RankIsAPlace
  <2>2. IsFiniteSet(1..Cardinality(ids))
        /\ Cardinality(1..Cardinality(ids))
             = IF 1 > Cardinality(ids) THEN 0 ELSE Cardinality(ids) - 1 + 1
    BY <2>1, FS_Interval
  <2>. QED  BY <2>1, <2>2
<1>2. f \in [ids -> T]
  BY RankIsAPlace
<1>3. ASSUME NEW a \in ids, NEW b \in ids, f[a] = f[b]  PROVE a = b
  <2>1. rank(a, ids) = rank(b, ids) /\ rank(a, ids) \in Int
    BY <1>2, <1>3
  <2>2. (a < b => rank(a, ids) < rank(b, ids)) /\ (b < a => rank(b, ids) < rank(a, ids))
    BY RankIsAPlace
  <2>3. a \in Int /\ b \in Int
    OBVIOUS
  <2>. QED  BY <2>1, <2>2, <2>3
<1>4. f \in Injection(ids, T)
  BY <1>2, <1>3 DEF Injection, IsInjective
<1>. HIDE DEF f
<1>5. f \in Surjection(ids, T)
  BY <1>1, <1>4, FS_Injection
<1>. QED  BY <1>5 DEF Surjection, f

\* sorted(ids) holds each of ids once, the n-th of them at n.
LEMMA SortedById ==
  ASSUME NEW ids, ids \subseteq Int, IsFiniteSet(ids)
  PROVE  /\ sorted(ids) \in Seq(ids) /\ Len(sorted(ids)) = Cardinality(ids)
         /\ \A n \in 1..Cardinality(ids) :
              sorted(ids)[n] \in ids /\ rank(sorted(ids)[n], ids) = n
         /\ \A k \in ids : sorted(ids)[rank(k, ids)] = k
         /\ ToSet(sorted(ids)) = ids /\ IsInjective(sorted(ids))
<1>. DEFINE s == sorted(ids)
            N == Cardinality(ids)
<1>1. N \in Nat
  BY RankIsAPlace
<1>2. \A n \in 1..N : s[n] \in ids /\ rank(s[n], ids) = n
  BY EveryRank DEF sorted
<1>3. DOMAIN s = 1..N
  BY DEF sorted
<1>4. s \in [1..N -> ids]
  BY <1>2 DEF sorted
<1>5. s \in Seq(ids) /\ Len(s) = N
  BY <1>1, <1>4
<1>6. \A k \in ids : rank(k, ids) \in 1..N
  BY RankIsAPlace
<1>7. ASSUME NEW k \in ids PROVE s[rank(k, ids)] = k
  <2>. DEFINE j == s[rank(k, ids)]
  <2>1. j \in ids /\ rank(j, ids) = rank(k, ids)
    BY <1>2, <1>6
  <2>. HIDE DEF j
  <2>2. ~(j < k) /\ ~(k < j)
    <3>1. rank(j, ids) \in Int
      BY <1>6, <2>1
    <3>2. (j < k => rank(j, ids) < rank(k, ids)) /\ (k < j => rank(k, ids) < rank(j, ids))
      BY <2>1, RankIsAPlace
    <3>. QED  BY <2>1, <3>1, <3>2
  <2>3. j = k
    <3>1. j \in Int /\ k \in Int
      BY <2>1
    <3>. QED  BY <2>2, <3>1
  <2>. QED  BY <2>3 DEF j
<1>8. ToSet(s) = ids
  BY <1>2, <1>3, <1>6, <1>7 DEF ToSet
<1>9. IsInjective(s)
  BY <1>2, <1>3 DEF IsInjective
<1>. QED  BY <1>2, <1>5, <1>7, <1>8, <1>9

LEMMA MinOfTwo ==
  ASSUME NEW a \in Int, NEW b \in Int
  PROVE  Min({a, b}) = IF a <= b THEN a ELSE b
BY DEF Min

\* The n-th page holds the ids of its ranks, after the a of the pages before; it
\* is full unless it is the last.
NthPage(n, a, rows, ids) ==
  /\ rows \in Seq(ids) /\ Len(rows) <= PAGE_SIZE /\ IsInjective(rows)
  /\ a \in Nat /\ n * PAGE_SIZE = a + PAGE_SIZE
  /\ \A k : k \in ToSet(rows) <=> k \in ids /\ rank(k, ids) \in a + 1 .. a + PAGE_SIZE
  /\ Len(rows) = PAGE_SIZE <=> Cardinality(ids) >= a + PAGE_SIZE
  /\ \A i \in 1..Len(rows) : rank(rows[i], ids) = a + i

LEMMA PageByRank ==
  ASSUME NEW ids, ids \subseteq Int, IsFiniteSet(ids), NEW n \in Nat \ {0},
         NEW a, a = (n - 1) * PAGE_SIZE, NEW rows, rows = pageNumber(n, ids)
  PROVE  NthPage(n, a, rows, ids)
<1>. DEFINE s == sorted(ids)
            N == Cardinality(ids)
            b == Min({n * PAGE_SIZE, N})
<1>1. PAGE_SIZE \in Nat \ {0} /\ N \in Nat
  BY HistoryAssumption, RankIsAPlace
<1>2. a \in Nat /\ n * PAGE_SIZE = a + PAGE_SIZE
  BY <1>1
<1>3. b = (IF a + PAGE_SIZE <= N THEN a + PAGE_SIZE ELSE N) /\ b \in Int
  BY <1>1, <1>2, MinOfTwo
<1>0. rows = SubSeq(s, a + 1, b)
  BY DEF pageNumber
<1>. HIDE DEF b, s, N
<1>4. \A i \in a + 1 .. b : i \in 1..N /\ s[i] \in ids /\ rank(s[i], ids) = i
  <2>1. \A i \in a + 1 .. b : i \in 1..N
    BY <1>1, <1>2, <1>3
  <2>. QED  BY <2>1, SortedById DEF s, N
<1>5. /\ rows \in Seq(ids)
      /\ Len(rows) = IF a + 1 <= b THEN b - a ELSE 0
      /\ \A i \in 1..b - a : rows[i] = s[a + i]
  <2>1. a + 1 \in Int /\ b \in Int /\ \A i \in a + 1 .. b : s[i] \in ids
    BY <1>2, <1>3, <1>4
  <2>2. /\ rows \in Seq(ids)
        /\ Len(rows) = IF a + 1 <= b THEN b - (a + 1) + 1 ELSE 0
        /\ \A i \in 1 .. b - (a + 1) + 1 : rows[i] = s[(a + 1) + i - 1]
    BY <1>0, <2>1, SubSeqProperties
  <2>3. b - (a + 1) + 1 = b - a /\ \A i \in 1..b - a : (a + 1) + i - 1 = a + i
    BY <2>1, <1>2
  <2>. QED  BY <1>0, <2>2, <2>3
<1>6. DOMAIN rows = 1..Len(rows) /\ Len(rows) \in Nat
  BY <1>5
<1>7. \A i \in 1..Len(rows) : rows[i] = s[a + i] /\ rank(rows[i], ids) = a + i
  <2>1. \A i \in 1..Len(rows) : i \in 1..b - a /\ a + i \in a + 1 .. b
    BY <1>2, <1>3, <1>5
  <2>. QED  BY <1>4, <1>5, <2>1
<1>8. \A k : k \in ToSet(rows) <=> k \in ids /\ rank(k, ids) \in a + 1 .. a + PAGE_SIZE
  <2>1. \A k \in ids : rank(k, ids) \in 1..N /\ s[rank(k, ids)] = k
    BY RankIsAPlace, SortedById DEF s, N
  <2>2. ASSUME NEW k \in ids, rank(k, ids) \in a + 1 .. a + PAGE_SIZE PROVE k \in ToSet(rows)
    <3>1. rank(k, ids) \in a + 1 .. b
      BY <1>1, <1>2, <1>3, <2>1, <2>2
    <3>2. rank(k, ids) - a \in 1..Len(rows) /\ a + (rank(k, ids) - a) = rank(k, ids)
      BY <1>2, <1>3, <1>5, <3>1
    <3>3. rows[rank(k, ids) - a] = k
      BY <1>7, <2>1, <3>2
    <3>. QED  BY <1>6, <3>2, <3>3 DEF ToSet
  <2>3. ASSUME NEW i \in 1..Len(rows)
        PROVE  rows[i] \in ids /\ rank(rows[i], ids) \in a + 1 .. a + PAGE_SIZE
    BY <1>1, <1>2, <1>3, <1>4, <1>5, <1>7
  <2>. QED  BY <1>6, <2>2, <2>3 DEF ToSet
<1>9. IsInjective(rows)
  BY <1>2, <1>6, <1>7 DEF IsInjective
<1>10. Len(rows) <= PAGE_SIZE /\ (Len(rows) = PAGE_SIZE <=> N >= a + PAGE_SIZE)
  BY <1>1, <1>2, <1>3, <1>5
<1>. QED  BY <1>2, <1>5, <1>7, <1>8, <1>9, <1>10 DEF N, NthPage

\* What a first page leaves out comes after all of its rows.
LEMMA FirstPage ==
  ASSUME NEW ids, ids \subseteq Int, IsFiniteSet(ids)
  PROVE  LET rows == page(ids)
         IN /\ rows \in Seq(ids) /\ Len(rows) <= PAGE_SIZE /\ IsInjective(rows)
            /\ Len(rows) # PAGE_SIZE => ToSet(rows) = ids
            /\ \A i, j \in 1..Len(rows) : i < j => rows[i] < rows[j]
            /\ \A k \in ids \ ToSet(rows), i \in 1..Len(rows) : rows[i] < k
<1>. DEFINE rows == page(ids)
<1>1. PAGE_SIZE \in Nat \ {0} /\ Cardinality(ids) \in Nat
  BY HistoryAssumption, RankIsAPlace
<1>2. (1 - 1) * PAGE_SIZE = 0
  BY <1>1
<1>3. /\ rows \in Seq(ids) /\ Len(rows) <= PAGE_SIZE /\ IsInjective(rows)
      /\ \A k : k \in ToSet(rows) <=> k \in ids /\ rank(k, ids) \in 1 .. PAGE_SIZE
      /\ Len(rows) = PAGE_SIZE <=> Cardinality(ids) >= PAGE_SIZE
      /\ \A i \in 1..Len(rows) : rank(rows[i], ids) = i
  <2>. DEFINE a == (1 - 1) * PAGE_SIZE
  <2>1. /\ rows \in Seq(ids) /\ Len(rows) <= PAGE_SIZE /\ IsInjective(rows)
        /\ \A k : k \in ToSet(rows) <=> k \in ids /\ rank(k, ids) \in a + 1 .. a + PAGE_SIZE
        /\ Len(rows) = PAGE_SIZE <=> Cardinality(ids) >= a + PAGE_SIZE
        /\ \A i \in 1..Len(rows) : rank(rows[i], ids) = a + i
    <3>. DEFINE n == 1
    <3>1. n \in Nat \ {0} /\ a = (n - 1) * PAGE_SIZE /\ rows = pageNumber(n, ids)
      BY DEF page
    <3>. HIDE DEF a, rows, n
    <3>2. NthPage(n, a, rows, ids)
      BY <3>1, PageByRank, Zenon
    <3>. QED  BY <3>2 DEF NthPage
  <2>2. a = 0
    BY <1>2
  <2>. HIDE DEF a
  <2>3. a + 1 = 1 /\ a + PAGE_SIZE = PAGE_SIZE /\ \A i \in 1..Len(rows) : a + i = i
    BY <1>1, <2>2
  <2>. QED  BY <2>1, <2>3
<1>. HIDE DEF rows
<1>4. \A k \in ids : rank(k, ids) \in 1..Cardinality(ids)
  BY RankIsAPlace
<1>5. \A j, k \in ids : rank(j, ids) < rank(k, ids) => j < k
  <2>1. ASSUME NEW j \in ids, NEW k \in ids, rank(j, ids) < rank(k, ids), ~(j < k) PROVE FALSE
    <3>1. j \in Int /\ k \in Int
      OBVIOUS
    <3>2. j = k \/ k < j
      BY <2>1, <3>1
    <3>3. rank(j, ids) \in Int /\ rank(k, ids) \in Int
      BY <1>1, <1>4
    <3>4. k < j => rank(k, ids) < rank(j, ids)
      BY RankIsAPlace
    <3>. QED  BY <2>1, <3>2, <3>3, <3>4
  <2>. QED  BY <2>1
<1>6. Len(rows) # PAGE_SIZE => ToSet(rows) = ids
  <2>1. Len(rows) # PAGE_SIZE => Cardinality(ids) < PAGE_SIZE
    BY <1>1, <1>3
  <2>2. Cardinality(ids) < PAGE_SIZE => \A k \in ids : rank(k, ids) \in 1..PAGE_SIZE
    BY <1>1, <1>4
  <2>. QED  BY <1>3, <2>1, <2>2
<1>7. \A i \in 1..Len(rows) : rows[i] \in ids
  BY <1>3
<1>8. ASSUME NEW k \in ids \ ToSet(rows), NEW i \in 1..Len(rows) PROVE rows[i] < k
  <2>1. rank(k, ids) > PAGE_SIZE /\ rank(k, ids) \in Int
    BY <1>1, <1>3, <1>4
  <2>2. rank(rows[i], ids) = i /\ i <= PAGE_SIZE /\ i \in Int
    BY <1>1, <1>3
  <2>3. rank(rows[i], ids) < rank(k, ids)
    BY <1>1, <2>1, <2>2
  <2>. QED  BY <1>5, <1>7, <2>3
<1>9. \A i, j \in 1..Len(rows) : i < j => rows[i] < rows[j]
  BY <1>3, <1>5, <1>7
<1>. QED  BY <1>3, <1>6, <1>8, <1>9 DEF rows

-----------------------------------------------------------------------------
(***************************************************************************)
(* The invariant: how far a collection has got, and what it holds by then. *)
(***************************************************************************)
PerSymbol == {"trades", "orders", "latest"}

symbolOfFill(k) == orders[fills[k].order].symbol

\* The symbols before the one h is at, and that one in these steps.
before(h) == {historySymbols[n] : n \in 1..h.symbol - 1}

reached(h, steps) == before(h) \cup IF h.step \in steps THEN {symbolOf(h)} ELSE {}

\* The windows left are one after the other, from low to high.
Window == Nat \X Nat

Partition(W, high) ==
  /\ W \in Seq(Window) /\ W # <<>>
  /\ \A n \in 1..Len(W) : W[n][1] <= W[n][2]
  /\ \A n \in 1..Len(W) - 1 : W[n + 1][1] = W[n][2] + 1
  /\ W[Len(W)][2] = high

\* Of the rows with these ids, the list holds what is settled before low, and
\* nothing from low on.
HeldBefore(low, list, rows, ids, cutoff) ==
  /\ \A k \in ToSet(list) \cap ids : rows[k].time < low
  /\ \A k \in ids \cap settled(rows, cutoff) : rows[k].time < low => k \in ToSet(list)

PlaceSound(h) ==
  /\ h.cutoff <= clock /\ h.page # 0 /\ h.from \in 1..Len(fills) + 1
  /\ product = "usdm_futures" \/ h.step # "trades" => h.from = 1
  /\ h.symbol \in 1..Len(historySymbols) + 1
  /\ h.symbol <= Len(historySymbols) <=> h.step \in PerSymbol

WindowsSound(h) ==
  h.step \in PerSymbol =>
    /\ Partition(h.windows, h.cutoff)
    /\ dayStart(h.cutoff) <= h.windows[1][1]
    /\ h.step = "latest" \/ (h.step = "trades" /\ product = "spot") =>
         h.windows = <<wholeDay(h.cutoff)>>

TradesSound(h) ==
  /\ IsInjective(h.trades)
  /\ \A k \in ToSet(h.trades) :
       /\ k \in DOMAIN fills /\ fills[k].time <= h.cutoff
       /\ symbolOfFill(k) \in reached(h, PerSymbol)
  /\ \A k \in settled(fills, h.cutoff) :
       symbolOfFill(k) \in reached(h, {"orders", "latest"}) => k \in ToSet(h.trades)
  /\ product = "spot" =>
       \A k \in ToSet(h.trades), j \in DOMAIN fills :
         j < k /\ symbolOfFill(j) = symbolOfFill(k) => j \in ToSet(h.trades)
  /\ product = "usdm_futures" /\ h.step = "trades" =>
       HeldBefore(h.windows[1][1], h.trades, fills, tradesOf(symbolOf(h)), h.cutoff)
  /\ product = "spot" /\ h.step = "trades" =>
       \A k \in tradesOf(symbolOf(h)) :
         IF k < h.from THEN fills[k].time <= h.cutoff => k \in ToSet(h.trades)
         ELSE k \notin ToSet(h.trades)

OrdersSound(h) ==
  /\ IsInjective(h.orders)
  /\ \A k \in ToSet(h.orders) :
       /\ k \in todays(orders, h.cutoff)
       /\ orders[k].symbol \in reached(h, {"orders", "latest"})
  /\ \A k \in settled(orders, h.cutoff) :
       orders[k].symbol \in reached(h, {"latest"}) => k \in ToSet(h.orders)
  /\ h.step = "orders" =>
       HeldBefore(h.windows[1][1], h.orders, orders, ordersOf(symbolOf(h)), h.cutoff)
  /\ \A k \in ToSet(h.orders) :
       orders[k].symbol \in reached(h, {}) => orders[k].time <= h.last

\* Pages are numbered by rank, and no row that comes later moves one.
IncomeSound(h) ==
  LET ids == todays(fills, h.cutoff)
      numbered == (h.page - 1) * PAGE_SIZE
  IN /\ IsInjective(h.income) /\ ToSet(h.income) \subseteq ids
     /\ h.step \in PerSymbol => h.income = <<>> /\ h.page = 1
     /\ h.step = "income" => /\ ToSet(h.income) = {k \in ids : rank(k, ids) <= numbered}
                             /\ numbered <= Cardinality(ids)
     /\ product = "usdm_futures" /\ h.step = "done" =>
          settled(fills, h.cutoff) \subseteq ToSet(h.income)

\* The latest order is asked for after the cutoff, of any day.
LastSound(h) ==
  \A k \in DOMAIN orders :
    orders[k].time < h.cutoff /\ orders[k].symbol \in before(h) => orders[k].time <= h.last

Sound(h) ==
  /\ h \in Collection
  /\ PlaceSound(h) /\ WindowsSound(h) /\ TradesSound(h) /\ OrdersSound(h) /\ LastSound(h)
  /\ IncomeSound(h)

collected == {collect[c] : c \in Call} \ {Null}

HistoryInv ==
  /\ HistoryTypeOK
  /\ Chronicle(orders, fills, clock)
  /\ \A h \in collected : Sound(h)

LEMMA DayBegins == \A t \in Nat : dayStart(t) \in Nat /\ dayStart(t) <= t
<1>1. DayLength \in Nat \ {0}
  BY HistoryAssumption
<1>2. ASSUME NEW t \in Nat PROVE dayStart(t) \in Nat /\ dayStart(t) <= t
  <2>1. t \div DayLength \in Nat /\ t = DayLength * (t \div DayLength) + (t % DayLength)
        /\ t % DayLength \in 0..DayLength - 1
    BY <1>1
  <2>. DEFINE q == t \div DayLength
  <2>2. q * DayLength = DayLength * q /\ DayLength * q \in Nat
    BY <1>1, <2>1
  <2>. QED  BY <1>1, <2>1, <2>2 DEF dayStart, day
<1>. QED  BY <1>2

\* The rows of the account, as the proofs use them.
LEMMA Rows ==
  ASSUME HistoryTypeOK, Chronicle(orders, fills, clock)
  PROVE  /\ DOMAIN fills = 1..Len(fills) /\ IsFiniteSet(DOMAIN fills)
         /\ DOMAIN orders = 1..Len(orders) /\ IsFiniteSet(DOMAIN orders)
         /\ Len(fills) \in Nat /\ Len(orders) \in Nat /\ clock \in Nat
         /\ \A k \in DOMAIN fills :
              /\ k \in Nat /\ fills[k].time \in Nat /\ fills[k].time <= clock
              /\ fills[k].order \in DOMAIN orders /\ symbolOfFill(k) \in Symbol
              /\ fills[k].gain \in Int
         /\ \A k \in DOMAIN orders :
              /\ k \in Nat /\ orders[k].time \in Nat /\ orders[k].time <= clock
              /\ orders[k].symbol \in Symbol /\ orders[k].price \in Nat
<1>1. /\ DOMAIN fills = 1..Len(fills) /\ DOMAIN orders = 1..Len(orders)
      /\ Len(fills) \in Nat /\ Len(orders) \in Nat /\ clock \in Nat
  BY HistoryAssumption DEF HistoryTypeOK
<1>2. IsFiniteSet(DOMAIN fills) /\ IsFiniteSet(DOMAIN orders)
  BY <1>1, FS_Interval
<1>3. \A k \in DOMAIN orders : orders[k] \in AnOrder
  BY <1>1 DEF HistoryTypeOK
<1>4. \A k \in DOMAIN fills : fills[k] \in AFill
  BY <1>1 DEF HistoryTypeOK
<1>. QED  BY <1>1, <1>2, <1>3, <1>4 DEF Chronicle, symbolOfFill, AnOrder, AFill

LEMMA Lists ==
  ASSUME NEW s \in Seq(Nat), NEW t \in Seq(Nat)
  PROVE  /\ s \o t \in Seq(Nat)
         /\ ToSet(s \o t) = ToSet(s) \cup ToSet(t)
         /\ IsInjective(s) /\ IsInjective(t) /\ ToSet(s) \cap ToSet(t) = {} =>
              IsInjective(s \o t)
<1>. DEFINE u == s \o t
<1>1. /\ DOMAIN s = 1..Len(s) /\ DOMAIN t = 1..Len(t) /\ Len(s) \in Nat /\ Len(t) \in Nat
      /\ u \in Seq(Nat) /\ DOMAIN u = 1..Len(s) + Len(t)
      /\ \A i \in 1..Len(s) + Len(t) : u[i] = IF i <= Len(s) THEN s[i] ELSE t[i - Len(s)]
  OBVIOUS
<1>. HIDE DEF u
<1>2. \A i \in DOMAIN s : i \in DOMAIN u /\ u[i] = s[i]
  BY <1>1
<1>3. \A i \in DOMAIN t : Len(s) + i \in DOMAIN u /\ u[Len(s) + i] = t[i]
  <2>1. \A i \in DOMAIN t : /\ Len(s) + i \in 1..Len(s) + Len(t) /\ ~(Len(s) + i <= Len(s))
                            /\ (Len(s) + i) - Len(s) = i
    BY <1>1
  <2>. QED  BY <1>1, <2>1
<1>4. \A i \in DOMAIN u : IF i <= Len(s) THEN i \in DOMAIN s /\ u[i] = s[i]
                          ELSE i - Len(s) \in DOMAIN t /\ u[i] = t[i - Len(s)]
  BY <1>1
<1>5. ToSet(u) = ToSet(s) \cup ToSet(t)
  BY <1>2, <1>3, <1>4 DEF ToSet
<1>6. ASSUME IsInjective(s), IsInjective(t), ToSet(s) \cap ToSet(t) = {},
             NEW i \in DOMAIN u, NEW j \in DOMAIN u, u[i] = u[j]
      PROVE  i = j
  <2>1. CASE i <= Len(s) /\ j <= Len(s)
    BY <1>4, <1>6, <2>1 DEF IsInjective
  <2>2. CASE ~(i <= Len(s)) /\ ~(j <= Len(s))
    <3>1. i - Len(s) = j - Len(s)
      BY <1>4, <1>6, <2>2 DEF IsInjective
    <3>. QED  BY <1>1, <3>1
  <2>3. CASE i <= Len(s) <=> ~(j <= Len(s))
    <3>1. u[i] \in ToSet(s) /\ u[i] \in ToSet(t)
      BY <1>4, <1>6, <2>3 DEF ToSet
    <3>. QED  BY <1>6, <3>1
  <2>. QED  BY <2>1, <2>2, <2>3
<1>. QED  BY <1>1, <1>5, <1>6 DEF IsInjective, u

LEMMA NoRows == ToSet(<<>>) = {} /\ IsInjective(<<>>) /\ <<>> \in Seq(Nat)
BY DEF ToSet, IsInjective

LEMMA ListOf == \A s \in Seq(Nat) : ToSet(s) \subseteq Nat
BY DEF ToSet

LEMMA WholeDay ==
  ASSUME NEW t \in Nat
  PROVE  /\ Partition(<<wholeDay(t)>>, t) /\ <<wholeDay(t)>>[1] = <<dayStart(t), t>>
         /\ <<wholeDay(t)>> \in Seq(Window)
<1>1. dayStart(t) \in Nat /\ dayStart(t) <= t
  BY DayBegins
<1>. QED  BY <1>1 DEF Partition, wholeDay, Window

LEMMA LowIsNat ==
  ASSUME NEW W, NEW high, Partition(W, high)
  PROVE  W[1][1] \in Nat /\ Head(W) = W[1]
<1>1. W \in Seq(Window) /\ W # <<>>
  BY DEF Partition
<1>2. W[1] \in Window /\ Head(W) = W[1]
  BY <1>1
<1>. QED  BY <1>2 DEF Window

LEMMA HighIsNat ==
  ASSUME NEW W, NEW high, Partition(W, high)
  PROVE  Head(W)[2] \in Nat
<1>1. W \in Seq(Window) /\ W # <<>>
  BY DEF Partition
<1>2. Head(W) \in Window
  BY <1>1
<1>. QED  BY <1>2 DEF Window

\* No window ends after the last one does.
LEMMA WindowsEndBefore ==
  ASSUME NEW W, NEW high \in Nat, Partition(W, high)
  PROVE  Head(W)[2] <= high
<1>1. /\ W \in Seq(Window) /\ W # <<>> /\ Len(W) \in Nat \ {0} /\ Head(W) = W[1]
      /\ \A n \in 1..Len(W) : W[n] \in Window
  <2>1. W \in Seq(Window) /\ W # <<>>
    BY DEF Partition
  <2>. QED  BY <2>1
<1>2. \A n \in 1..Len(W) : W[n][1] \in Nat /\ W[n][2] \in Nat
  BY <1>1 DEF Window
<1>. DEFINE T == {n \in Nat : n + 1 \in 1..Len(W) => W[1][2] <= W[n + 1][2]}
<1>3. 0 \in T
  BY <1>1, <1>2
<1>4. ASSUME NEW n \in Nat, n \in T PROVE n + 1 \in T
  <2>1. SUFFICES ASSUME (n + 1) + 1 \in 1..Len(W) PROVE W[1][2] <= W[(n + 1) + 1][2]
    OBVIOUS
  <2>2. n + 1 \in 1..Len(W) /\ n + 1 \in 1..Len(W) - 1 /\ 1 \in 1..Len(W)
    BY <1>1, <2>1
  <2>3. W[(n + 1) + 1][1] = W[n + 1][2] + 1 /\ W[(n + 1) + 1][1] <= W[(n + 1) + 1][2]
    BY <2>1, <2>2 DEF Partition
  <2>. QED  BY <1>2, <1>4, <2>1, <2>2, <2>3
<1>. HIDE DEF T
<1>5. Len(W) - 1 \in T
  BY <1>1, <1>3, <1>4, NatSetInduction
<1>6. (Len(W) - 1) + 1 = Len(W) /\ Len(W) \in 1..Len(W) /\ W[Len(W)][2] = high
  BY <1>1 DEF Partition
<1>. QED  BY <1>1, <1>5, <1>6 DEF T

\* A window that was answered: the windows left still cover the rest, and the
\* list holds what lies before them.
LEMMA WindowAnswered ==
  ASSUME NEW W, NEW high \in Nat, Partition(W, high),
         NEW h, h.windows = W,
         NEW rows, NEW ids, ids \subseteq DOMAIN rows, ids \subseteq Nat, IsFiniteSet(ids),
         \A k \in ids : rows[k].time \in Nat,
         NEW list \in Seq(Nat), IsInjective(list),
         HeldBefore(W[1][1], list, rows, ids, high),
         NEW answer, answer = page(within(rows, ids, Head(W))),
         ~saturated(answer, Head(W))
  PROVE  LET left == timeWindow(h, answer)
             longer == list \o kept(answer)
         IN /\ longer \in Seq(Nat) /\ IsInjective(longer)
            /\ ToSet(longer) \subseteq ToSet(list) \cup within(rows, ids, Head(W))
            /\ ToSet(list) \subseteq ToSet(longer)
            /\ left # <<>> => /\ Partition(left, high) /\ W[1][1] <= left[1][1]
                              /\ HeldBefore(left[1][1], longer, rows, ids, high)
            /\ left = <<>> => ids \cap settled(rows, high) \subseteq ToSet(longer)
<1>. DEFINE w == Head(W)
            seen == within(rows, ids, w)
            left == timeWindow(h, answer)
            longer == list \o kept(answer)
            middle == w[1] + (w[2] - w[1]) \div 2
<1>0. /\ W \in Seq(Window) /\ W # <<>> /\ w = W[1]
      /\ Len(W) \in Nat \ {0} /\ 1 \in 1..Len(W)
      /\ Tail(W) \in Seq(Window) /\ Len(Tail(W)) = Len(W) - 1
      /\ \A n \in 1..Len(W) - 1 : Tail(W)[n] = W[n + 1]
      /\ \A n \in 1..Len(W) : W[n] \in Window
  <2>1. W \in Seq(Window) /\ W # <<>>
    BY DEF Partition
  <2>. QED  BY <2>1
<1>1. /\ W \in Seq(Window) /\ W # <<>> /\ w = W[1] /\ w \in Window
      /\ Len(W) \in Nat \ {0} /\ w[1] \in Nat /\ w[2] \in Nat /\ w[1] <= w[2]
      /\ Tail(W) \in Seq(Window) /\ Len(Tail(W)) = Len(W) - 1
      /\ \A n \in 1..Len(W) - 1 : Tail(W)[n] = W[n + 1]
      /\ \A n \in 1..Len(W) : W[n] \in Window /\ W[n][1] \in Nat /\ W[n][2] \in Nat
  <2>1. \A n \in 1..Len(W) : W[n][1] \in Nat /\ W[n][2] \in Nat
    BY <1>0 DEF Window
  <2>2. W[1][1] <= W[1][2]
    BY <1>0 DEF Partition
  <2>. QED  BY <1>0, <2>1, <2>2
<1>2. /\ seen \subseteq ids /\ seen \subseteq Int /\ IsFiniteSet(seen)
      /\ \A k \in seen : w[1] <= rows[k].time /\ rows[k].time <= w[2]
      /\ \A k \in ids : w[1] <= rows[k].time /\ rows[k].time <= w[2] => k \in seen
  <2>1. seen \subseteq ids
    BY DEF within
  <2>. QED  BY <1>1, <2>1, FS_Subset DEF within
<1>3. /\ answer \in Seq(seen) /\ IsInjective(answer)
      /\ Len(answer) # PAGE_SIZE => ToSet(answer) = seen
  <2>. HIDE DEF seen
  <2>. QED  BY <1>2, FirstPage DEF seen
<1>4. CASE Len(answer) = PAGE_SIZE
  <2>1. w[1] < w[2]
    BY <1>1, <1>4 DEF saturated
  <2>2. middle \in Nat /\ w[1] <= middle /\ middle < w[2]
    <3>. DEFINE d == w[2] - w[1]
    <3>1. d \in Nat \ {0}
      BY <1>1, <2>1
    <3>. HIDE DEF d
    <3>2. d \div 2 \in Nat /\ d \div 2 < d
      BY <3>1
    <3>3. w[2] = w[1] + d
      BY <1>1 DEF d
    <3>. QED  BY <1>1, <3>1, <3>2, <3>3 DEF d
  <2>. HIDE DEF middle, w
  <2>. DEFINE V == <<<<w[1], middle>>, <<middle + 1, w[2]>>>>
  <2>3. left = V \o Tail(W)
    BY <1>4 DEF timeWindow, split, middle, w
  <2>4. V \in Seq(Window) /\ Len(V) = 2 /\ V[1] = <<w[1], middle>> /\ V[2] = <<middle + 1, w[2]>>
    <3>1. <<w[1], middle>> \in Window /\ <<middle + 1, w[2]>> \in Window
      BY <1>1, <2>2 DEF Window
    <3>. QED  BY <3>1
  <2>. HIDE DEF V, left
  <2>5. /\ left \in Seq(Window) /\ Len(left) = Len(W) + 1 /\ left # <<>>
        /\ left[1] = <<w[1], middle>> /\ left[2] = <<middle + 1, w[2]>>
        /\ \A n \in 3..Len(W) + 1 : left[n] = W[n - 1]
    <3>1. \A n \in 3..Len(W) + 1 : n \in 1..2 + (Len(W) - 1) /\ ~(n <= 2) /\ n - 2 \in 1..Len(W) - 1
                                   /\ (n - 2) + 1 = n - 1
      BY <1>1
    <3>2. /\ left \in Seq(Window) /\ Len(left) = 2 + (Len(W) - 1)
          /\ \A n \in 1..2 + (Len(W) - 1) : left[n] = IF n <= 2 THEN V[n] ELSE Tail(W)[n - 2]
      <4>. DEFINE U == Tail(W)
      <4>1. U \in Seq(Window) /\ Len(U) = Len(W) - 1
        BY <1>1
      <4>. HIDE DEF U
      <4>2. /\ V \o U \in Seq(Window) /\ Len(V \o U) = Len(V) + Len(U)
            /\ \A n \in 1..Len(V) + Len(U) :
                 (V \o U)[n] = IF n <= Len(V) THEN V[n] ELSE U[n - Len(V)]
        BY <2>4, <4>1, ConcatProperties
      <4>3. Len(V) = 2 /\ left = V \o U
        BY <2>3, <2>4 DEF U
      <4>. QED  BY <4>1, <4>2, <4>3 DEF U
    <3>3. 1 \in 1..2 + (Len(W) - 1) /\ 2 \in 1..2 + (Len(W) - 1) /\ 2 + (Len(W) - 1) = Len(W) + 1
      BY <1>1
    <3>4. left[1] = V[1] /\ left[2] = V[2]
      BY <3>2, <3>3
    <3>5. \A n \in 3..Len(W) + 1 : left[n] = W[n - 1]
      BY <1>1, <3>1, <3>2
    <3>6. left # <<>>
      BY <3>2, <3>3
    <3>. QED  BY <2>4, <3>2, <3>3, <3>4, <3>5, <3>6
  <2>6. \A n \in 1..Len(left) : left[n][1] <= left[n][2]
    <3>1. ASSUME NEW n \in 3..Len(W) + 1 PROVE left[n][1] <= left[n][2]
      <4>1. n - 1 \in 1..Len(W)
        BY <1>1
      <4>. QED  BY <2>5, <4>1 DEF Partition
    <3>2. \A n \in 1..Len(left) : n = 1 \/ n = 2 \/ n \in 3..Len(W) + 1
      BY <1>1, <2>5
    <3>3. left[1][1] <= left[1][2] /\ left[2][1] <= left[2][2]
      <4>1. middle + 1 <= w[2]
        BY <1>1, <2>2
      <4>. QED  BY <2>2, <2>5, <4>1
    <3>. QED  BY <3>1, <3>2, <3>3
  <2>7. \A n \in 1..Len(left) - 1 : left[n + 1][1] = left[n][2] + 1
    <3>1. ASSUME NEW n \in 3..Len(W) PROVE left[n + 1][1] = left[n][2] + 1
      <4>1. n - 1 \in 1..Len(W) - 1 /\ (n - 1) + 1 = n /\ n \in 3..Len(W) + 1
            /\ n + 1 \in 3..Len(W) + 1 /\ (n + 1) - 1 = n
        BY <1>1
      <4>2. W[(n - 1) + 1][1] = W[n - 1][2] + 1
        BY <4>1 DEF Partition
      <4>. QED  BY <2>5, <4>1, <4>2
    <3>2. ASSUME 2 \in 1..Len(left) - 1 PROVE left[2 + 1][1] = left[2][2] + 1
      <4>1. Len(W) >= 2
        BY <1>1, <2>5, <3>2
      <4>2. 3 \in 3..Len(W) + 1 /\ 1 \in 1..Len(W) - 1
        BY <1>1, <4>1
      <4>3. W[1 + 1][1] = W[1][2] + 1
        BY <4>2 DEF Partition
      <4>4. left[3] = W[2]
        BY <2>5, <4>2
      <4>. QED  BY <1>1, <2>5, <4>3, <4>4
    <3>3. left[1 + 1][1] = left[1][2] + 1
      BY <2>2, <2>5
    <3>4. \A n \in 1..Len(left) - 1 : n = 1 \/ n = 2 \/ n \in 3..Len(W)
      BY <1>1, <2>5
    <3>. QED  BY <3>1, <3>2, <3>3, <3>4
  <2>8. left[Len(left)][2] = high
    <3>1. CASE Len(W) = 1
      BY <1>1, <2>5, <3>1 DEF Partition, w
    <3>2. CASE Len(W) # 1
      <4>1. Len(W) + 1 \in 3..Len(W) + 1 /\ (Len(W) + 1) - 1 = Len(W)
        BY <1>1, <3>2
      <4>. QED  BY <2>5, <4>1 DEF Partition
    <3>. QED  BY <3>1, <3>2
  <2>9. Partition(left, high) /\ W[1][1] <= left[1][1] /\ left[1][1] = W[1][1]
    <3>1. left[1][1] = w[1] /\ W[1][1] = w[1]
      BY <1>1, <2>5
    <3>2. Partition(left, high)
      BY <2>5, <2>6, <2>7, <2>8 DEF Partition
    <3>. QED  BY <1>1, <3>1, <3>2
  <2>10. longer = list
    BY <1>4 DEF kept
  <2>. QED  BY <2>5, <2>9, <2>10 DEF left
<1>5. CASE Len(answer) # PAGE_SIZE
  <2>1. ToSet(answer) = seen /\ kept(answer) = answer /\ left = Tail(W)
    BY <1>3, <1>5 DEF kept, timeWindow
  <2>2. answer \in Seq(Nat)
    BY <1>2, <1>3
  <2>3. ToSet(list) \cap seen = {}
    <3>1. ASSUME NEW k \in ToSet(list) \cap seen PROVE FALSE
      <4>1. rows[k].time < w[1] /\ w[1] <= rows[k].time /\ rows[k].time \in Nat
        BY <1>1, <1>2, <3>1 DEF HeldBefore
      <4>. QED  BY <1>1, <4>1
    <3>. QED  BY <3>1
  <2>4. longer \in Seq(Nat) /\ ToSet(longer) = ToSet(list) \cup seen /\ IsInjective(longer)
    <3>. HIDE DEF seen
    <3>. QED  BY <1>3, <2>1, <2>2, <2>3, Lists
  <2>. HIDE DEF longer, seen
  <2>5. ASSUME NEW low, low = w[2] + 1 PROVE HeldBefore(low, longer, rows, ids, high)
    <3>1. ASSUME NEW k \in ToSet(longer) \cap ids PROVE rows[k].time < low
      <4>1. CASE k \in seen
        BY <1>1, <1>2, <2>5, <4>1
      <4>2. CASE k \in ToSet(list)
        <5>1. rows[k].time < w[1] /\ rows[k].time \in Nat
          BY <1>1, <3>1, <4>2 DEF HeldBefore
        <5>. QED  BY <1>1, <2>5, <5>1
      <4>. QED  BY <2>4, <3>1, <4>1, <4>2
    <3>2. ASSUME NEW k \in ids \cap settled(rows, high), rows[k].time < low PROVE k \in ToSet(longer)
      <4>1. rows[k].time \in Nat
        OBVIOUS
      <4>2. CASE rows[k].time < w[1]
        <5>1. k \in ToSet(list)
          BY <1>1, <4>2 DEF HeldBefore
        <5>. QED  BY <2>4, <5>1
      <4>3. CASE w[1] <= rows[k].time /\ rows[k].time <= w[2]
        <5>1. k \in ids
          OBVIOUS
        <5>2. k \in seen
          BY <1>2, <4>3, <5>1
        <5>. QED  BY <2>4, <5>2
      <4>. QED  BY <1>1, <2>5, <3>2, <4>1, <4>2, <4>3
    <3>. QED  BY <3>1, <3>2 DEF HeldBefore
  <2>6. CASE Len(W) = 1
    <3>1. left = <<>> /\ w[2] = high
      <4>1. w[2] = high
        BY <1>1, <2>6 DEF Partition
      <4>2. Len(Tail(W)) = 0
        BY <1>1, <2>6
      <4>3. Tail(W) = <<>>
        BY <1>1, <4>2, EmptySeq
      <4>. QED  BY <2>1, <4>1, <4>3
    <3>2. \A k \in ids \cap settled(rows, high) : rows[k].time < high + 1
      BY DEF settled
    <3>3. ids \cap settled(rows, high) \subseteq ToSet(longer)
      BY <2>5, <3>1, <3>2 DEF HeldBefore
    <3>. QED  BY <2>4, <3>1, <3>3 DEF longer, seen
  <2>7. CASE Len(W) # 1
    <3>1. /\ left \in Seq(Window) /\ Len(left) = Len(W) - 1 /\ Len(left) \in Nat \ {0}
          /\ \A n \in 1..Len(left) : left[n] = W[n + 1]
      <4>1. Len(W) - 1 \in Nat \ {0}
        BY <1>1, <2>7
      <4>. QED  BY <1>1, <2>1, <4>1
    <3>. HIDE DEF left
    <3>2. left # <<>>
      BY <3>1
    <3>3. \A n \in 1..Len(left) : left[n][1] <= left[n][2]
      <4>1. ASSUME NEW n \in 1..Len(left) PROVE left[n][1] <= left[n][2]
        <5>1. n + 1 \in 1..Len(W)
          BY <1>1, <3>1
        <5>. QED  BY <3>1, <5>1 DEF Partition
      <4>. QED  BY <4>1
    <3>4. \A n \in 1..Len(left) - 1 : left[n + 1][1] = left[n][2] + 1
      <4>1. ASSUME NEW n \in 1..Len(left) - 1 PROVE left[n + 1][1] = left[n][2] + 1
        <5>1. n + 1 \in 1..Len(W) - 1 /\ n \in 1..Len(left) /\ n + 1 \in 1..Len(left)
          BY <1>1, <3>1
        <5>. QED  BY <3>1, <5>1 DEF Partition
      <4>. QED  BY <4>1
    <3>5. left[Len(left)][2] = high
      <4>1. Len(left) \in 1..Len(left) /\ Len(left) + 1 = Len(W)
        BY <1>1, <3>1
      <4>. QED  BY <3>1, <4>1 DEF Partition
    <3>6. left[1][1] = w[2] + 1
      <4>1. 1 \in 1..Len(W) - 1 /\ 1 \in 1..Len(left)
        BY <1>1, <3>1
      <4>. QED  BY <1>1, <3>1, <4>1 DEF Partition
    <3>7. Partition(left, high) /\ W[1][1] <= left[1][1]
      BY <1>1, <3>1, <3>2, <3>3, <3>4, <3>5, <3>6 DEF Partition
    <3>. QED  BY <2>4, <2>5, <3>2, <3>6, <3>7 DEF longer, seen, left
  <2>. QED  BY <2>6, <2>7
<1>. QED  BY <1>4, <1>5

-----------------------------------------------------------------------------
(***************************************************************************)
(* Each answer keeps a collection sound.                                   *)
(***************************************************************************)
LEMMA CurrentSymbol ==
  ASSUME NEW h, PlaceSound(h), h.step \in PerSymbol
  PROVE  symbolOf(h) \in Symbol /\ symbolOf(h) \notin before(h)
<1>1. /\ historySymbols \in Seq(Symbol) /\ Len(historySymbols) \in Nat
      /\ DOMAIN historySymbols = 1..Len(historySymbols)
      /\ \A m, n \in 1..Len(historySymbols) : historySymbols[m] = historySymbols[n] => m = n
  <2>1. historySymbols \in Seq(Symbol) /\ IsInjective(historySymbols)
    BY SymbolsAssumption
  <2>2. Len(historySymbols) \in Nat /\ DOMAIN historySymbols = 1..Len(historySymbols)
    BY <2>1
  <2>. QED  BY <2>1, <2>2 DEF IsInjective
<1>2. h.symbol \in 1..Len(historySymbols)
  BY <1>1 DEF PlaceSound
<1>3. \A n \in 1..h.symbol - 1 : n \in 1..Len(historySymbols) /\ n # h.symbol
  BY <1>1, <1>2
<1>. QED  BY <1>1, <1>2, <1>3 DEF symbolOf, before

LEMMA SameSymbol ==
  ASSUME NEW h, NEW g, g.symbol = h.symbol
  PROVE  before(g) = before(h) /\ symbolOf(g) = symbolOf(h)
BY DEF before, symbolOf

LEMMA NextSymbol ==
  ASSUME NEW h, NEW g, h.symbol \in Nat \ {0}, g.symbol = h.symbol + 1
  PROVE  before(g) = before(h) \cup {symbolOf(h)}
<1>1. \A n : n \in 1..g.symbol - 1 <=> n \in 1..h.symbol - 1 \/ n = h.symbol
  OBVIOUS
<1>. QED  BY <1>1 DEF before, symbolOf

\* At the start of the day nothing is held, and nothing needs to be.
LEMMA FreshWindow ==
  ASSUME NEW cutoff \in Nat, NEW rows, NEW ids, \A k \in ids : rows[k].time \in Nat,
         NEW list, ToSet(list) \cap ids = {}
  PROVE  HeldBefore(<<wholeDay(cutoff)>>[1][1], list, rows, ids, cutoff)
<1>1. dayStart(cutoff) \in Nat /\ <<wholeDay(cutoff)>>[1][1] = dayStart(cutoff)
  <2>1. <<wholeDay(cutoff)>>[1] = <<dayStart(cutoff), cutoff>>
    BY WholeDay
  <2>. QED  BY <2>1, DayBegins
<1>2. ASSUME NEW k \in ids \cap settled(rows, cutoff) PROVE ~(rows[k].time < dayStart(cutoff))
  <2>1. dayStart(cutoff) <= rows[k].time /\ rows[k].time \in Nat
    BY DEF settled, todays
  <2>. QED  BY <1>1, <2>1
<1>. QED  BY <1>1, <1>2 DEF HeldBefore

\* A page of the spot trades of a symbol, by id.
LEMMA SpotPage ==
  ASSUME HistoryTypeOK, Chronicle(orders, fills, clock), product = "spot",
         NEW h, Sound(h), h.step = "trades"
  PROVE  Sound(spotTrades(h))
<1>. DEFINE s == symbolOf(h)
            ids == {k \in tradesOf(s) : k >= h.from}
            rows == page(ids)
            met == {k \in ToSet(rows) : fills[k].time <= h.cutoff}
            taken == sorted(met)
            beyondCutoff == \E k \in ToSet(rows) : fills[k].time > h.cutoff
            more == Len(rows) = PAGE_SIZE /\ ~beyondCutoff
            g == spotTrades(h)
<1>1. /\ h \in Collection /\ h.cutoff \in Nat /\ h.from \in Nat /\ h.trades \in Seq(Nat)
      /\ h.symbol \in Nat /\ h.step \in PerSymbol
  BY DEF Sound, Collection, PerSymbol
<1>2. s \in Symbol /\ s \notin before(h)
  BY <1>1, CurrentSymbol DEF Sound
<1>3. \A k \in DOMAIN fills : k \in Nat /\ fills[k].time \in Nat
  BY Rows
<1>4. /\ ids \subseteq DOMAIN fills /\ ids \subseteq Int /\ ids \subseteq Nat /\ IsFiniteSet(ids)
      /\ \A k \in ids : k >= h.from
  <2>1. ids \subseteq DOMAIN fills
    BY DEF tradesOf
  <2>. QED  BY <1>3, <2>1, Rows, FS_Subset
<1>5. /\ rows \in Seq(ids) /\ Len(rows) \in Nat
      /\ Len(rows) # PAGE_SIZE => ToSet(rows) = ids
      /\ \A i, j \in 1..Len(rows) : i < j => rows[i] < rows[j]
      /\ \A k \in ids \ ToSet(rows), i \in 1..Len(rows) : rows[i] < k
  <2>. HIDE DEF ids
  <2>. QED  BY <1>4, FirstPage
<1>. HIDE DEF rows
<1>6. ToSet(rows) \subseteq ids /\ \A k \in ToSet(rows) : \E i \in 1..Len(rows) : k = rows[i]
  <2>. HIDE DEF ids
  <2>. QED  BY <1>5 DEF ToSet
<1>7. /\ met \subseteq ids /\ taken \in Seq(Nat) /\ ToSet(taken) = met /\ IsInjective(taken)
  <2>1. met \subseteq ids
    BY <1>6
  <2>2. met \subseteq Int /\ met \subseteq Nat /\ IsFiniteSet(met)
    BY <1>4, <2>1, FS_Subset
  <2>. HIDE DEF met
  <2>3. taken \in Seq(met) /\ ToSet(taken) = met /\ IsInjective(taken)
    BY <2>2, SortedById
  <2>. QED  BY <2>1, <2>2, <2>3, SeqMonotonic
<1>. HIDE DEF taken
<1>8. g = [h EXCEPT !.trades = @ \o taken,
                    !.from = IF more THEN Last(rows) + 1 ELSE 1,
                    !.step = IF more THEN @ ELSE "orders"]
  BY DEF spotTrades, rows, taken
<1>. HIDE DEF g, more
<1>9. /\ g.cutoff = h.cutoff /\ g.symbol = h.symbol /\ g.windows = h.windows /\ g.page = h.page
      /\ g.orders = h.orders /\ g.income = h.income /\ g.last = h.last
      /\ g.trades = h.trades \o taken
      /\ g.from = (IF more THEN Last(rows) + 1 ELSE 1)
      /\ g.step = (IF more THEN "trades" ELSE "orders")
  BY <1>1, <1>8 DEF Collection
<1>10. more => /\ Len(rows) \in 1..Len(rows) /\ Last(rows) = rows[Len(rows)] /\ Last(rows) \in ids
  <2>1. more => Len(rows) \in 1..Len(rows) /\ Last(rows) = rows[Len(rows)]
    BY <1>5, HistoryAssumption DEF more, Last
  <2>. QED  BY <1>5, <2>1
<1>11. before(g) = before(h) /\ symbolOf(g) = s
  BY <1>9, SameSymbol
<1>12. ToSet(h.trades) \cap met = {}
  BY <1>1, <1>4, <1>7 DEF Sound, TradesSound, PerSymbol
<1>13. /\ g.trades \in Seq(Nat) /\ ToSet(g.trades) = ToSet(h.trades) \cup met
       /\ IsInjective(g.trades)
  <2>. HIDE DEF met
  <2>. QED  BY <1>1, <1>7, <1>9, <1>12, Lists DEF Sound, TradesSound
<1>14. g \in Collection
  <2>1. g.from \in Nat
    BY <1>4, <1>9, <1>10
  <2>. QED  BY <1>1, <1>8, <1>13, <2>1, <1>9 DEF Collection
<1>15. \A k \in tradesOf(s) : k \in DOMAIN fills /\ symbolOfFill(k) = s
  BY DEF tradesOf, symbolOfFill
<1>16. \A k \in DOMAIN fills : symbolOfFill(k) = s => k \in tradesOf(s)
  BY DEF tradesOf, symbolOfFill
<1>17. \A k \in met : k \in DOMAIN fills /\ fills[k].time <= h.cutoff /\ symbolOfFill(k) = s /\ k >= h.from
  BY <1>4, <1>7, <1>15
\* Below the page everything was taken before; a row of the page is taken
\* when it is not beyond the cutoff.
<1>18. ASSUME NEW k \in tradesOf(s), fills[k].time <= h.cutoff, k < h.from \/ k \in ToSet(rows)
       PROVE  k \in ToSet(g.trades)
  <2>1. CASE k < h.from
    BY <1>13, <1>18, <2>1 DEF Sound, TradesSound
  <2>2. CASE k \in ToSet(rows)
    BY <1>13, <1>18, <2>2
  <2>. QED  BY <1>18, <2>1, <2>2
<1>19. ASSUME NEW k \in tradesOf(s), ~(k < h.from) PROVE k \in ids
  BY <1>1, <1>3, <1>15, <1>19
\* What comes after the page is no earlier than any row of it.
<1>20. ASSUME NEW k \in ids \ ToSet(rows), NEW j \in ToSet(rows)
       PROVE  j < k /\ fills[j].time <= fills[k].time
  <2>1. j < k
    BY <1>5, <1>6
  <2>. QED  BY <1>4, <1>6, <2>1 DEF Chronicle
<1>21. PlaceSound(g)
  <2>1. g.from \in 1..Len(fills) + 1
    <3>1. \A k \in ids : k \in 1..Len(fills) /\ Len(fills) \in Nat
      BY <1>4, Rows
    <3>2. 1 \in 1..Len(fills) + 1
      BY Rows
    <3>. QED  BY <1>9, <1>10, <3>1, <3>2
  <2>. QED  BY <1>1, <1>9, <2>1 DEF Sound, PlaceSound, PerSymbol
<1>22. h.windows = <<wholeDay(h.cutoff)>> /\ WindowsSound(g)
  BY <1>1, <1>9 DEF Sound, WindowsSound, PerSymbol
<1>23. TradesSound(g)
  <2>1. \A k \in ToSet(g.trades) :
          /\ k \in DOMAIN fills /\ fills[k].time <= g.cutoff
          /\ symbolOfFill(k) \in reached(g, PerSymbol)
    <3>1. reached(g, PerSymbol) = before(h) \cup {s} /\ reached(h, PerSymbol) = before(h) \cup {s}
      BY <1>1, <1>9, <1>11 DEF reached, PerSymbol
    <3>. QED  BY <1>9, <1>13, <1>17, <3>1 DEF Sound, TradesSound
  <2>2. ASSUME NEW k \in settled(fills, g.cutoff),
               symbolOfFill(k) \in reached(g, {"orders", "latest"})
        PROVE  k \in ToSet(g.trades)
    <3>1. k \in DOMAIN fills /\ fills[k].time < h.cutoff /\ k \in settled(fills, h.cutoff)
      BY <1>9 DEF settled, todays
    <3>2. CASE symbolOfFill(k) \in before(h)
      BY <1>13, <3>1, <3>2 DEF Sound, TradesSound, reached
    <3>3. CASE symbolOfFill(k) = s /\ ~more
      <4>1. k \in tradesOf(s) /\ fills[k].time <= h.cutoff
        BY <1>1, <1>3, <1>16, <3>1, <3>3
      <4>2. ASSUME k \in ids, k \notin ToSet(rows) PROVE FALSE
        <5>1. PICK j \in ToSet(rows) : fills[j].time > h.cutoff
          BY <1>5, <3>3, <4>2 DEF more
        <5>2. fills[j].time <= fills[k].time
          BY <1>20, <4>2
        <5>3. j \in DOMAIN fills
          BY <1>4, <1>6
        <5>. QED  BY <1>1, <1>3, <3>1, <5>1, <5>2, <5>3
      <4>. QED  BY <1>18, <1>19, <4>1, <4>2
    <3>. QED  BY <1>9, <1>11, <2>2, <3>2, <3>3 DEF reached
  <2>3. ASSUME NEW k \in ToSet(g.trades), NEW j \in DOMAIN fills,
               j < k, symbolOfFill(j) = symbolOfFill(k)
        PROVE  j \in ToSet(g.trades)
    <3>1. CASE k \in ToSet(h.trades)
      BY <1>13, <2>3, <3>1 DEF Sound, TradesSound
    <3>2. CASE k \in met
      <4>1. j \in tradesOf(s) /\ k \in DOMAIN fills
        BY <1>16, <1>17, <2>3, <3>2
      <4>2. fills[j].time <= fills[k].time
        BY <2>3, <4>1 DEF Chronicle
      <4>3. fills[j].time <= h.cutoff
        BY <1>1, <1>3, <1>17, <3>2, <4>1, <4>2
      <4>4. k \in ToSet(rows)
        BY <3>2
      <4>5. j \in ids => j \in ToSet(rows)
        BY <1>3, <1>20, <2>3, <4>1, <4>4
      <4>. QED  BY <1>18, <1>19, <4>1, <4>3, <4>5
    <3>. QED  BY <1>13, <2>3, <3>1, <3>2
  <2>4. ASSUME more, NEW k \in tradesOf(s)
        PROVE  IF k < g.from THEN fills[k].time <= g.cutoff => k \in ToSet(g.trades)
               ELSE k \notin ToSet(g.trades)
    <3>1. g.from = rows[Len(rows)] + 1 /\ rows[Len(rows)] \in ToSet(rows)
      <4>1. rows[Len(rows)] \in ToSet(rows)
        <5>. HIDE DEF ids
        <5>. QED  BY <1>5, <1>10, <2>4 DEF ToSet
      <4>. QED  BY <1>9, <1>10, <2>4, <4>1
    <3>2. rows[Len(rows)] \in Nat /\ rows[Len(rows)] >= h.from /\ k \in Nat
      BY <1>3, <1>4, <1>6, <1>15, <3>1
    <3>3. ASSUME k < g.from, fills[k].time <= g.cutoff PROVE k \in ToSet(g.trades)
      <4>1. k \in ids => k \in ToSet(rows)
        BY <1>20, <3>1, <3>2, <3>3
      <4>. QED  BY <1>9, <1>18, <1>19, <3>3, <4>1
    <3>4. ASSUME ~(k < g.from), k \in ToSet(g.trades) PROVE FALSE
      <4>1. k > rows[Len(rows)] /\ ~(k < h.from)
        BY <1>1, <3>1, <3>2, <3>4
      <4>2. k \in met
        BY <1>13, <3>4, <4>1 DEF Sound, TradesSound
      <4>3. PICK i \in 1..Len(rows) : k = rows[i]
        BY <1>6, <4>2
      <4>4. i = Len(rows) \/ i < Len(rows)
        BY <1>5
      <4>5. rows[i] <= rows[Len(rows)]
        BY <1>5, <1>10, <2>4, <3>2, <4>3, <4>4
      <4>. QED  BY <3>2, <4>1, <4>3, <4>5
    <3>. QED  BY <3>3, <3>4
  <2>. QED  BY <1>9, <1>11, <1>13, <2>1, <2>2, <2>3, <2>4 DEF TradesSound
<1>24. OrdersSound(g)
  <2>1. reached(g, {"latest"}) = before(h) /\ reached(h, {"orders", "latest"}) = before(h)
        /\ reached(h, {"latest"}) = before(h) /\ reached(g, {}) = before(h)
        /\ reached(h, {}) = before(h) /\ before(h) \subseteq reached(g, {"orders", "latest"})
    BY <1>9, <1>11 DEF reached
  <2>2. ToSet(h.orders) \cap ordersOf(s) = {}
    BY <1>2, <2>1 DEF Sound, OrdersSound, ordersOf
  <2>3. \A k \in ordersOf(s) : orders[k].time \in Nat
    BY Rows DEF ordersOf
  <2>4. HeldBefore(g.windows[1][1], g.orders, orders, ordersOf(symbolOf(g)), g.cutoff)
    BY <1>1, <1>9, <1>11, <1>22, <2>2, <2>3, FreshWindow
  <2>. QED  BY <1>9, <2>1, <2>4 DEF Sound, OrdersSound
<1>25. IncomeSound(g)
  BY <1>1, <1>9 DEF Sound, IncomeSound, PerSymbol
<1>26. LastSound(g)
  BY <1>9, <1>11 DEF Sound, LastSound
<1>. QED  BY <1>14, <1>21, <1>22, <1>23, <1>24, <1>25, <1>26 DEF Sound, g

LEMMA FillsOfSymbol ==
  ASSUME HistoryTypeOK, Chronicle(orders, fills, clock), NEW s
  PROVE  /\ tradesOf(s) \subseteq DOMAIN fills /\ tradesOf(s) \subseteq Nat
         /\ IsFiniteSet(tradesOf(s)) /\ \A k \in tradesOf(s) : fills[k].time \in Nat
         /\ \A k \in DOMAIN fills : k \in tradesOf(s) <=> symbolOfFill(k) = s
<1>1. tradesOf(s) \subseteq DOMAIN fills /\ \A k \in DOMAIN fills : k \in tradesOf(s) <=> symbolOfFill(k) = s
  BY DEF tradesOf, symbolOfFill
<1>. QED  BY <1>1, Rows, FS_Subset

LEMMA OrdersOfSymbol ==
  ASSUME HistoryTypeOK, Chronicle(orders, fills, clock), NEW s
  PROVE  /\ ordersOf(s) \subseteq DOMAIN orders /\ ordersOf(s) \subseteq Nat
         /\ IsFiniteSet(ordersOf(s)) /\ \A k \in ordersOf(s) : orders[k].time \in Nat
         /\ \A k \in DOMAIN orders : k \in ordersOf(s) <=> orders[k].symbol = s
<1>1. ordersOf(s) \subseteq DOMAIN orders /\ \A k \in DOMAIN orders : k \in ordersOf(s) <=> orders[k].symbol = s
  BY DEF ordersOf
<1>. QED  BY <1>1, Rows, FS_Subset

\* A window of the futures trades of a symbol.
LEMMA FuturesWindow ==
  ASSUME HistoryTypeOK, Chronicle(orders, fills, clock), product = "usdm_futures",
         NEW h, Sound(h), h.step = "trades",
         NEW rows, rows = page(within(fills, tradesOf(symbolOf(h)), Head(h.windows))),
         ~saturated(rows, Head(h.windows))
  PROVE  Sound(windowRead(h, "trades", rows, "orders"))
<1>. DEFINE s == symbolOf(h)
            ids == tradesOf(s)
            seen == within(fills, ids, Head(h.windows))
            left == timeWindow(h, rows)
            longer == h.trades \o kept(rows)
            g == windowRead(h, "trades", rows, "orders")
            low == h.windows[1][1]
<1>1. /\ h \in Collection /\ h.cutoff \in Nat /\ h.trades \in Seq(Nat) /\ h.windows \in Seq(Window)
      /\ h.symbol \in Nat /\ h.step \in PerSymbol
  BY DEF Sound, Collection, PerSymbol, Window
<1>2. s \in Symbol /\ s \notin before(h)
  BY <1>1, CurrentSymbol DEF Sound
<1>3. /\ ids \subseteq DOMAIN fills /\ ids \subseteq Nat /\ IsFiniteSet(ids)
      /\ \A k \in ids : fills[k].time \in Nat
      /\ \A k \in DOMAIN fills : k \in ids <=> symbolOfFill(k) = s
  BY FillsOfSymbol
<1>4. Partition(h.windows, h.cutoff) /\ dayStart(h.cutoff) <= low
      /\ HeldBefore(low, h.trades, fills, ids, h.cutoff) /\ IsInjective(h.trades)
  BY <1>1 DEF Sound, WindowsSound, TradesSound
<1>5. /\ longer \in Seq(Nat) /\ IsInjective(longer)
      /\ ToSet(longer) \subseteq ToSet(h.trades) \cup seen
      /\ ToSet(h.trades) \subseteq ToSet(longer)
      /\ left # <<>> => /\ Partition(left, h.cutoff) /\ low <= left[1][1]
                        /\ HeldBefore(left[1][1], longer, fills, ids, h.cutoff)
      /\ left = <<>> => ids \cap settled(fills, h.cutoff) \subseteq ToSet(longer)
  <2>1. rows = page(seen)
    OBVIOUS
  <2>. HIDE DEF ids
  <2>. QED  BY <1>1, <1>3, <1>4, <2>1, WindowAnswered
<1>6. Head(h.windows)[2] <= h.cutoff /\ seen \subseteq ids
      /\ \A k \in seen : fills[k].time <= Head(h.windows)[2]
  <2>1. seen \subseteq ids /\ \A k \in seen : fills[k].time <= Head(h.windows)[2]
    BY <1>1, <1>3 DEF within
  <2>2. h.windows # <<>> /\ Head(h.windows) = h.windows[1]
    BY <1>1, <1>4 DEF Partition
  <2>. QED  BY <1>1, <1>4, <2>1, <2>2, WindowsEndBefore
<1>. HIDE DEF left, longer, low
<1>7. g = IF left # <<>> THEN [h EXCEPT !.trades = longer, !.windows = left]
          ELSE [h EXCEPT !.trades = longer, !.windows = <<wholeDay(h.cutoff)>>, !.step = "orders"]
  BY <1>1 DEF windowRead, left, longer, Collection
<1>. HIDE DEF g
<1>8. /\ g.cutoff = h.cutoff /\ g.symbol = h.symbol /\ g.from = h.from /\ g.page = h.page
      /\ g.orders = h.orders /\ g.income = h.income /\ g.last = h.last /\ g.trades = longer
      /\ g.windows = (IF left # <<>> THEN left ELSE <<wholeDay(h.cutoff)>>)
      /\ g.step = (IF left # <<>> THEN "trades" ELSE "orders")
  BY <1>1, <1>7 DEF Collection
<1>9. WindowsSound(g) /\ g.windows \in Seq(Window)
  <2>1. CASE left # <<>>
    <3>1. dayStart(h.cutoff) <= left[1][1]
      <4>1. dayStart(h.cutoff) \in Nat /\ low \in Nat /\ left[1][1] \in Nat
        BY <1>1, <1>4, <1>5, <2>1, DayBegins, LowIsNat DEF low
      <4>. QED  BY <1>4, <1>5, <2>1, <4>1
    <3>. QED  BY <1>5, <1>8, <2>1, <3>1 DEF WindowsSound, Partition
  <2>2. CASE left = <<>>
    <3>1. dayStart(h.cutoff) \in Nat /\ g.windows[1] = <<dayStart(h.cutoff), h.cutoff>>
          /\ Partition(g.windows, g.cutoff) /\ g.windows \in Seq(Window)
      BY <1>1, <1>8, <2>2, WholeDay, DayBegins
    <3>2. dayStart(h.cutoff) <= g.windows[1][1]
      BY <3>1
    <3>. QED  BY <1>8, <2>2, <3>1, <3>2 DEF WindowsSound
  <2>. QED  BY <2>1, <2>2
<1>10. g \in Collection
  BY <1>1, <1>5, <1>7, <1>8, <1>9 DEF Collection, Window
<1>11. before(g) = before(h) /\ symbolOf(g) = s
  BY <1>8, SameSymbol
<1>12. PlaceSound(g)
  BY <1>1, <1>8 DEF Sound, PlaceSound, PerSymbol
<1>13. TradesSound(g)
  <2>1. \A k \in ToSet(g.trades) :
          /\ k \in DOMAIN fills /\ fills[k].time <= g.cutoff
          /\ symbolOfFill(k) \in reached(g, PerSymbol)
    <3>1. reached(g, PerSymbol) = before(h) \cup {s} /\ reached(h, PerSymbol) = before(h) \cup {s}
      BY <1>1, <1>8, <1>11 DEF reached, PerSymbol
    <3>2. ASSUME NEW k \in seen
          PROVE  k \in DOMAIN fills /\ fills[k].time <= h.cutoff /\ symbolOfFill(k) = s
      <4>1. Head(h.windows)[2] \in Nat
        BY <1>1, <1>4, HighIsNat
      <4>. QED  BY <1>1, <1>3, <1>6, <4>1
    <3>. QED  BY <1>5, <1>8, <3>1, <3>2 DEF Sound, TradesSound
  <2>2. ASSUME NEW k \in settled(fills, g.cutoff),
               symbolOfFill(k) \in reached(g, {"orders", "latest"})
        PROVE  k \in ToSet(g.trades)
    <3>1. k \in DOMAIN fills /\ k \in settled(fills, h.cutoff)
      BY <1>8 DEF settled, todays
    <3>2. CASE symbolOfFill(k) \in before(h)
      BY <1>5, <1>8, <3>1, <3>2 DEF Sound, TradesSound, reached
    <3>3. CASE symbolOfFill(k) = s /\ left = <<>>
      BY <1>3, <1>5, <1>8, <3>1, <3>3
    <3>. QED  BY <1>8, <1>11, <2>2, <3>2, <3>3 DEF reached
  <2>3. g.step = "trades" => HeldBefore(g.windows[1][1], g.trades, fills, tradesOf(symbolOf(g)), g.cutoff)
    BY <1>5, <1>8, <1>11
  <2>. QED  BY <1>5, <1>8, <2>1, <2>2, <2>3 DEF TradesSound
<1>14. OrdersSound(g)
  <2>1. reached(g, {"latest"}) = before(h) /\ reached(h, {"orders", "latest"}) = before(h)
        /\ reached(h, {"latest"}) = before(h) /\ reached(g, {}) = before(h)
        /\ reached(h, {}) = before(h) /\ before(h) \subseteq reached(g, {"orders", "latest"})
    BY <1>8, <1>11 DEF reached
  <2>2. ToSet(h.orders) \cap ordersOf(s) = {}
    BY <1>2, <2>1 DEF Sound, OrdersSound, ordersOf
  <2>3. \A k \in ordersOf(s) : orders[k].time \in Nat
    BY OrdersOfSymbol
  <2>4. g.step = "orders" => HeldBefore(g.windows[1][1], g.orders, orders, ordersOf(symbolOf(g)), g.cutoff)
    BY <1>1, <1>8, <1>11, <2>2, <2>3, FreshWindow
  <2>. QED  BY <1>8, <2>1, <2>4 DEF Sound, OrdersSound
<1>15. IncomeSound(g)
  BY <1>1, <1>8 DEF Sound, IncomeSound, PerSymbol
<1>16. LastSound(g)
  BY <1>8, <1>11 DEF Sound, LastSound
<1>. QED  BY <1>9, <1>10, <1>12, <1>13, <1>14, <1>15, <1>16 DEF Sound, g

\* A window of the orders of a symbol.
LEMMA OrdersWindow ==
  ASSUME HistoryTypeOK, Chronicle(orders, fills, clock),
         NEW h, Sound(h), h.step = "orders",
         NEW rows, rows = page(within(orders, ordersOf(symbolOf(h)), Head(h.windows))),
         ~saturated(rows, Head(h.windows))
  PROVE  Sound(windowRead(h, "orders", rows, "latest"))
<1>. DEFINE s == symbolOf(h)
            ids == ordersOf(s)
            seen == within(orders, ids, Head(h.windows))
            left == timeWindow(h, rows)
            longer == h.orders \o kept(rows)
            g == windowRead(h, "orders", rows, "latest")
            low == h.windows[1][1]
<1>1. /\ h \in Collection /\ h.cutoff \in Nat /\ h.orders \in Seq(Nat) /\ h.windows \in Seq(Window)
      /\ h.symbol \in Nat /\ h.step \in PerSymbol
  BY DEF Sound, Collection, PerSymbol, Window
<1>2. s \in Symbol /\ s \notin before(h)
  BY <1>1, CurrentSymbol DEF Sound
<1>3. /\ ids \subseteq DOMAIN orders /\ ids \subseteq Nat /\ IsFiniteSet(ids)
      /\ \A k \in ids : orders[k].time \in Nat
      /\ \A k \in DOMAIN orders : k \in ids <=> orders[k].symbol = s
  BY OrdersOfSymbol
<1>4. Partition(h.windows, h.cutoff) /\ dayStart(h.cutoff) <= low
      /\ HeldBefore(low, h.orders, orders, ids, h.cutoff) /\ IsInjective(h.orders)
  BY <1>1 DEF Sound, WindowsSound, OrdersSound
<1>5. /\ longer \in Seq(Nat) /\ IsInjective(longer)
      /\ ToSet(longer) \subseteq ToSet(h.orders) \cup seen
      /\ ToSet(h.orders) \subseteq ToSet(longer)
      /\ left # <<>> => /\ Partition(left, h.cutoff) /\ low <= left[1][1]
                        /\ HeldBefore(left[1][1], longer, orders, ids, h.cutoff)
      /\ left = <<>> => ids \cap settled(orders, h.cutoff) \subseteq ToSet(longer)
  <2>1. rows = page(seen)
    OBVIOUS
  <2>. HIDE DEF ids
  <2>. QED  BY <1>1, <1>3, <1>4, <2>1, WindowAnswered
<1>6. seen \subseteq ids /\ \A k \in seen : k \in todays(orders, h.cutoff)
  <2>1. seen \subseteq ids /\ \A k \in seen : /\ Head(h.windows)[1] <= orders[k].time
                                              /\ orders[k].time <= Head(h.windows)[2]
    BY <1>1, <1>3 DEF within
  <2>2. h.windows # <<>> /\ Head(h.windows) = h.windows[1]
    BY <1>1, <1>4 DEF Partition
  <2>3. Head(h.windows)[2] <= h.cutoff /\ Head(h.windows)[2] \in Nat /\ Head(h.windows)[1] \in Nat
    BY <1>1, <1>4, <2>2, WindowsEndBefore, HighIsNat, LowIsNat
  <2>4. dayStart(h.cutoff) \in Nat
    BY <1>1, DayBegins
  <2>5. ASSUME NEW k \in seen PROVE k \in todays(orders, h.cutoff)
    <3>1. k \in ids /\ k \in DOMAIN orders /\ orders[k].time \in Nat
      BY <1>3, <2>1
    <3>2. dayStart(h.cutoff) <= orders[k].time /\ orders[k].time <= h.cutoff
      BY <1>1, <1>4, <2>1, <2>2, <2>3, <2>4, <3>1
    <3>. QED  BY <1>1, <2>4, <3>1, <3>2 DEF todays
  <2>. QED  BY <2>1, <2>5
<1>. HIDE DEF left, longer, low
<1>7. g = IF left # <<>> THEN [h EXCEPT !.orders = longer, !.windows = left]
          ELSE [h EXCEPT !.orders = longer, !.windows = <<wholeDay(h.cutoff)>>, !.step = "latest"]
  BY <1>1 DEF windowRead, left, longer, Collection
<1>. HIDE DEF g
<1>8. /\ g.cutoff = h.cutoff /\ g.symbol = h.symbol /\ g.from = h.from /\ g.page = h.page
      /\ g.trades = h.trades /\ g.income = h.income /\ g.last = h.last /\ g.orders = longer
      /\ g.windows = (IF left # <<>> THEN left ELSE <<wholeDay(h.cutoff)>>)
      /\ g.step = (IF left # <<>> THEN "orders" ELSE "latest")
  BY <1>1, <1>7 DEF Collection
<1>9. WindowsSound(g) /\ g.windows \in Seq(Window)
  <2>1. CASE left # <<>>
    <3>1. dayStart(h.cutoff) <= left[1][1]
      <4>1. dayStart(h.cutoff) \in Nat /\ low \in Nat /\ left[1][1] \in Nat
        BY <1>1, <1>4, <1>5, <2>1, DayBegins, LowIsNat DEF low
      <4>. QED  BY <1>4, <1>5, <2>1, <4>1
    <3>. QED  BY <1>5, <1>8, <2>1, <3>1 DEF WindowsSound, Partition
  <2>2. CASE left = <<>>
    <3>1. dayStart(h.cutoff) \in Nat /\ g.windows[1] = <<dayStart(h.cutoff), h.cutoff>>
          /\ Partition(g.windows, g.cutoff) /\ g.windows \in Seq(Window)
      BY <1>1, <1>8, <2>2, WholeDay, DayBegins
    <3>2. dayStart(h.cutoff) <= g.windows[1][1]
      BY <3>1
    <3>. QED  BY <1>8, <2>2, <3>1, <3>2 DEF WindowsSound
  <2>. QED  BY <2>1, <2>2
<1>10. g \in Collection
  BY <1>1, <1>5, <1>7, <1>8, <1>9 DEF Collection, Window
<1>11. before(g) = before(h) /\ symbolOf(g) = s
  BY <1>8, SameSymbol
<1>12. PlaceSound(g)
  BY <1>1, <1>8 DEF Sound, PlaceSound, PerSymbol
<1>13. TradesSound(g)
  <2>1. reached(g, PerSymbol) = reached(h, PerSymbol)
        /\ reached(g, {"orders", "latest"}) = reached(h, {"orders", "latest"})
    BY <1>1, <1>8, <1>11 DEF reached, PerSymbol
  <2>. QED  BY <1>8, <2>1 DEF Sound, TradesSound
<1>14. OrdersSound(g)
  <2>1. reached(g, {"orders", "latest"}) = before(h) \cup {s}
        /\ reached(h, {"orders", "latest"}) = before(h) \cup {s}
        /\ reached(h, {"latest"}) = before(h) /\ reached(g, {}) = before(h)
        /\ reached(h, {}) = before(h)
        /\ reached(g, {"latest"}) = (IF left # <<>> THEN before(h) ELSE before(h) \cup {s})
    BY <1>8, <1>11 DEF reached
  <2>2. \A k \in ToSet(g.orders) : k \in ToSet(h.orders) \/ k \in seen
    BY <1>5, <1>8
  <2>3. \A k \in seen : k \in todays(orders, g.cutoff) /\ orders[k].symbol = s
    BY <1>3, <1>6, <1>8
  <2>4. \A k \in ToSet(g.orders) : /\ k \in todays(orders, g.cutoff)
                                   /\ orders[k].symbol \in reached(g, {"orders", "latest"})
    BY <1>8, <2>1, <2>2, <2>3 DEF Sound, OrdersSound
  <2>5. ASSUME NEW k \in settled(orders, g.cutoff), orders[k].symbol \in reached(g, {"latest"})
        PROVE  k \in ToSet(g.orders)
    <3>1. k \in DOMAIN orders /\ k \in settled(orders, h.cutoff)
      BY <1>8 DEF settled, todays
    <3>2. CASE orders[k].symbol \in before(h)
      BY <1>5, <1>8, <2>1, <3>1, <3>2 DEF Sound, OrdersSound
    <3>3. CASE orders[k].symbol = s /\ left = <<>>
      BY <1>3, <1>5, <1>8, <3>1, <3>3
    <3>. QED  BY <2>1, <2>5, <3>2, <3>3
  <2>6. \A k \in ToSet(g.orders) : orders[k].symbol \in reached(g, {}) => orders[k].time <= g.last
    BY <1>2, <1>8, <2>1, <2>2, <2>3 DEF Sound, OrdersSound
  <2>7. g.step = "orders" => HeldBefore(g.windows[1][1], g.orders, orders, ordersOf(symbolOf(g)), g.cutoff)
    BY <1>5, <1>8, <1>11
  <2>. QED  BY <1>5, <1>8, <2>4, <2>5, <2>6, <2>7 DEF OrdersSound
<1>15. IncomeSound(g)
  BY <1>1, <1>8 DEF Sound, IncomeSound, PerSymbol
<1>16. LastSound(g)
  BY <1>8, <1>11 DEF Sound, LastSound
<1>. QED  BY <1>9, <1>10, <1>12, <1>13, <1>14, <1>15, <1>16 DEF Sound, g

LEMMA MaxIsIn ==
  ASSUME NEW S, S \subseteq Int, IsFiniteSet(S), S # {}
  PROVE  Max(S) \in S /\ \A y \in S : Max(S) >= y
<1>. DEFINE T == {V \in SUBSET S : V # {} => \E x \in V : \A y \in V : x >= y}
<1>1. {} \in T
  OBVIOUS
<1>2. ASSUME NEW V \in SUBSET S, NEW z \in S \ V, V \in T PROVE V \cup {z} \in T
  <2>1. CASE V = {}
    BY <2>1
  <2>2. CASE V # {}
    <3>1. PICK x \in V : \A y \in V : x >= y
      BY <1>2, <2>2
    <3>2. x \in Int /\ z \in Int /\ \A y \in V : y \in Int
      OBVIOUS
    <3>3. \E u \in V \cup {z} : \A y \in V \cup {z} : u >= y
      <4>1. CASE x >= z
        BY <3>1, <4>1
      <4>2. CASE ~(x >= z)
        BY <3>1, <3>2, <4>2
      <4>. QED  BY <4>1, <4>2
    <3>. QED  BY <3>3
  <2>. QED  BY <2>1, <2>2
<1>. HIDE DEF T
<1>3. S \in T
  BY <1>1, <1>2, FiniteSetInduction
<1>4. \E x \in S : \A y \in S : x >= y
  BY <1>3 DEF T
<1>. QED  BY <1>4 DEF Max

\* The latest order of a symbol, and on to the next symbol.
LEMMA LatestRead ==
  ASSUME HistoryTypeOK, Chronicle(orders, fills, clock),
         NEW h, Sound(h), h.step = "latest",
         NEW step, step = (IF h.symbol < Len(historySymbols) THEN "trades"
                           ELSE IF product = "spot" THEN "done" ELSE "income"),
         NEW last, last = Max({orders[k].time : k \in ordersOf(symbolOf(h))} \cup {h.last})
  PROVE  Sound([h EXCEPT !.last = last, !.symbol = @ + 1, !.step = step])
<1>. DEFINE s == symbolOf(h)
            ids == ordersOf(s)
            times == {orders[k].time : k \in ids}
            g == [h EXCEPT !.last = last, !.symbol = @ + 1, !.step = step]
<1>1. /\ h \in Collection /\ h.cutoff \in Nat /\ h.last \in Int /\ h.symbol \in Nat \ {0}
      /\ h.symbol <= Len(historySymbols) /\ Len(historySymbols) \in Nat /\ h.step \in PerSymbol
  <2>1. Len(historySymbols) \in Nat
    BY SymbolsAssumption
  <2>. QED  BY <2>1 DEF Sound, PlaceSound, Collection, PerSymbol
<1>2. /\ ids \subseteq DOMAIN orders /\ \A k \in ids : orders[k].time \in Nat
      /\ \A k \in DOMAIN orders : k \in ids <=> orders[k].symbol = s
  BY OrdersOfSymbol
<1>3. last \in Int /\ last >= h.last /\ \A k \in ids : last >= orders[k].time
  <2>1. times \subseteq Nat /\ \A t \in times : t <= clock
    BY <1>2, Rows
  <2>2. clock \in Nat
    BY Rows
  <2>. HIDE DEF times
  <2>3. IsFiniteSet(times)
    BY <2>1, <2>2, FS_BoundedSetOfNaturals
  <2>4. IsFiniteSet(times \cup {h.last}) /\ times \cup {h.last} \subseteq Int
    <3>1. IsFiniteSet(times \cup {h.last})
      BY <2>3, FS_AddElement
    <3>2. h.last \in Int /\ times \subseteq Int
      BY <1>1, <2>1
    <3>. QED  BY <3>1, <3>2
  <2>5. last = Max(times \cup {h.last})
    BY DEF times
  <2>6. last \in times \cup {h.last} /\ \A t \in times \cup {h.last} : last >= t
    BY <2>4, <2>5, MaxIsIn
  <2>. QED  BY <2>4, <2>6 DEF times
<1>4. step \in {"trades", "done", "income"}
  OBVIOUS
<1>5. /\ g.cutoff = h.cutoff /\ g.symbol = h.symbol + 1 /\ g.from = h.from /\ g.page = h.page
      /\ g.trades = h.trades /\ g.income = h.income /\ g.orders = h.orders
      /\ g.windows = h.windows /\ g.last = last /\ g.step = step
  BY <1>1 DEF Collection
<1>6. g \in Collection
  <2>1. h.symbol + 1 \in Nat
    BY <1>1
  <2>. QED  BY <1>1, <1>3, <1>4, <2>1 DEF Collection
<1>. HIDE DEF g
<1>7. before(g) = before(h) \cup {s}
  BY <1>1, <1>5, NextSymbol
<1>8. h.windows = <<wholeDay(h.cutoff)>> /\ h.from = 1
  BY <1>1 DEF Sound, WindowsSound, PlaceSound
<1>9. PlaceSound(g)
  <2>1. g.symbol \in 1..Len(historySymbols) + 1
    BY <1>1, <1>5
  <2>2. g.symbol <= Len(historySymbols) <=> g.step \in PerSymbol
    BY <1>1, <1>5 DEF PerSymbol
  <2>. QED  BY <1>5, <1>8, <2>1, <2>2 DEF Sound, PlaceSound
<1>10. WindowsSound(g)
  BY <1>1, <1>5, <1>8 DEF Sound, WindowsSound
<1>11. /\ reached(h, PerSymbol) = before(h) \cup {s} /\ reached(h, {"orders", "latest"}) = before(h) \cup {s}
       /\ reached(h, {"latest"}) = before(h) \cup {s} /\ reached(h, {}) = before(h)
       /\ reached(g, {"orders", "latest"}) = before(g) /\ reached(g, {"latest"}) = before(g)
       /\ reached(g, {}) = before(g) /\ before(g) \subseteq reached(g, PerSymbol)
  BY <1>1, <1>4, <1>5 DEF reached, PerSymbol
<1>12. g.step = "trades" => symbolOf(g) \notin before(g)
  BY <1>9, CurrentSymbol DEF PerSymbol
<1>13. TradesSound(g)
  <2>1. \A k \in ToSet(g.trades) : /\ k \in DOMAIN fills /\ fills[k].time <= g.cutoff
                                   /\ symbolOfFill(k) \in before(g)
    BY <1>5, <1>7, <1>11 DEF Sound, TradesSound
  <2>2. \A k \in settled(fills, g.cutoff) :
          symbolOfFill(k) \in reached(g, {"orders", "latest"}) => k \in ToSet(g.trades)
    BY <1>5, <1>7, <1>11 DEF Sound, TradesSound
  <2>3. ASSUME g.step = "trades" PROVE ToSet(g.trades) \cap tradesOf(symbolOf(g)) = {}
    BY <1>12, <2>1, <2>3, FillsOfSymbol
  <2>4. product = "usdm_futures" /\ g.step = "trades" =>
          HeldBefore(g.windows[1][1], g.trades, fills, tradesOf(symbolOf(g)), g.cutoff)
    BY <1>1, <1>5, <1>8, <2>3, FillsOfSymbol, FreshWindow
  <2>5. ASSUME g.step = "trades", NEW k \in tradesOf(symbolOf(g))
        PROVE  ~(k < g.from) /\ k \notin ToSet(g.trades)
    <3>1. k \in DOMAIN fills /\ DOMAIN fills = 1..Len(fills) /\ Len(fills) \in Nat
      BY FillsOfSymbol, Rows
    <3>. QED  BY <1>5, <1>8, <2>3, <2>5, <3>1
  <2>. QED  BY <1>5, <1>11, <2>1, <2>2, <2>4, <2>5 DEF Sound, TradesSound
<1>14. OrdersSound(g)
  <2>1. \A k \in ToSet(g.orders) : /\ k \in todays(orders, g.cutoff) /\ k \in ToSet(h.orders)
                                   /\ orders[k].symbol \in reached(g, {"orders", "latest"})
    BY <1>5, <1>7, <1>11 DEF Sound, OrdersSound
  <2>2. \A k \in settled(orders, g.cutoff) :
          orders[k].symbol \in reached(g, {"latest"}) => k \in ToSet(g.orders)
    BY <1>5, <1>7, <1>11 DEF Sound, OrdersSound
  <2>3. ASSUME NEW k \in ToSet(g.orders) PROVE orders[k].time <= g.last
    <3>1. k \in DOMAIN orders /\ k \in ToSet(h.orders) /\ orders[k].symbol \in before(h) \cup {s}
      BY <1>7, <1>11, <2>1 DEF todays
    <3>2. orders[k].time \in Nat
      BY <3>1, Rows
    <3>3. CASE orders[k].symbol = s
      BY <1>2, <1>3, <1>5, <3>1, <3>2, <3>3
    <3>4. CASE orders[k].symbol \in before(h)
      <4>1. orders[k].time <= h.last
        BY <1>11, <3>1, <3>4 DEF Sound, OrdersSound
      <4>. QED  BY <1>1, <1>3, <1>5, <3>2, <4>1
    <3>. QED  BY <3>1, <3>3, <3>4
  <2>4. g.step # "orders" /\ IsInjective(g.orders)
    BY <1>4, <1>5 DEF Sound, OrdersSound
  <2>. QED  BY <2>1, <2>2, <2>3, <2>4 DEF OrdersSound
<1>15. IncomeSound(g)
  <2>1. h.income = <<>> /\ h.page = 1 /\ ToSet(h.income) \subseteq todays(fills, h.cutoff)
    BY <1>1 DEF Sound, IncomeSound
  <2>2. ToSet(h.income) = {} /\ IsInjective(h.income)
    BY <2>1, NoRows
  <2>3. /\ IsFiniteSet(todays(fills, h.cutoff)) /\ todays(fills, h.cutoff) \subseteq Int
        /\ (1 - 1) * PAGE_SIZE = 0
    BY Rows, FS_Subset, HistoryAssumption DEF todays
  <2>4. \A k \in todays(fills, h.cutoff) :
          rank(k, todays(fills, h.cutoff)) \in Nat /\ rank(k, todays(fills, h.cutoff)) # 0
    <3>1. \A k \in todays(fills, h.cutoff) :
            rank(k, todays(fills, h.cutoff)) \in 1..Cardinality(todays(fills, h.cutoff))
          /\ Cardinality(todays(fills, h.cutoff)) \in Nat
      BY <2>3, RankIsAPlace
    <3>. QED  BY <3>1
  <2>5. Cardinality(todays(fills, h.cutoff)) \in Nat
    BY <2>3, FS_CardinalityType
  <2>6. (g.page - 1) * PAGE_SIZE = 0
    BY <1>5, <2>1, <2>3
  <2>7. \A k \in todays(fills, h.cutoff) : ~(rank(k, todays(fills, h.cutoff)) <= 0)
    BY <2>4
  <2>8. g.step = "done" => product # "usdm_futures"
    BY <1>1, <1>5
  <2>. QED  BY <1>5, <2>1, <2>2, <2>5, <2>6, <2>7, <2>8 DEF IncomeSound
<1>16. LastSound(g)
  <2>. SUFFICES ASSUME NEW k \in DOMAIN orders, orders[k].time < h.cutoff,
                       orders[k].symbol \in before(h) \cup {s}
                PROVE  orders[k].time <= last
    BY <1>5, <1>7 DEF LastSound
  <2>1. orders[k].time \in Nat
    BY Rows
  <2>2. CASE orders[k].symbol = s
    BY <1>2, <1>3, <2>1, <2>2
  <2>3. CASE orders[k].symbol \in before(h)
    <3>1. orders[k].time <= h.last
      BY <2>3 DEF Sound, LastSound
    <3>. QED  BY <1>1, <1>3, <2>1, <3>1
  <2>. QED  BY <2>2, <2>3
<1>. QED  BY <1>6, <1>9, <1>10, <1>13, <1>14, <1>15, <1>16 DEF Sound, g

\* A numbered page of the income of the day.
LEMMA IncomePage ==
  ASSUME HistoryTypeOK, Chronicle(orders, fills, clock),
         NEW h, Sound(h), h.step = "income",
         NEW rows, rows = pageNumber(h.page, within(fills, DOMAIN fills, wholeDay(h.cutoff))),
         ToSet(rows) \cap ToSet(h.income) = {}
  PROVE  Sound([h EXCEPT !.income = @ \o rows, !.page = @ + 1,
                         !.step = IF Len(rows) < PAGE_SIZE THEN "done" ELSE @])
<1>. DEFINE ids == todays(fills, h.cutoff)
            numbered == (h.page - 1) * PAGE_SIZE
            longer == h.income \o rows
            g == [h EXCEPT !.income = @ \o rows, !.page = @ + 1,
                           !.step = IF Len(rows) < PAGE_SIZE THEN "done" ELSE @]
<1>1. /\ h \in Collection /\ h.cutoff \in Nat /\ h.income \in Seq(Nat) /\ h.page \in Nat \ {0}
      /\ h.step \notin PerSymbol
  BY DEF Sound, PlaceSound, Collection, PerSymbol
<1>2. within(fills, DOMAIN fills, wholeDay(h.cutoff)) = ids
  BY DEF within, wholeDay, todays
<1>3. IsFiniteSet(ids) /\ ids \subseteq Int /\ ids \subseteq Nat
  BY Rows, FS_Subset DEF todays
<1>4. ToSet(h.income) = {k \in ids : rank(k, ids) <= numbered} /\ IsInjective(h.income)
  BY DEF Sound, IncomeSound
<1>. HIDE DEF ids
<1>5. /\ rows \in Seq(ids) /\ Len(rows) <= PAGE_SIZE /\ Len(rows) \in Nat /\ IsInjective(rows)
      /\ numbered \in Nat /\ h.page * PAGE_SIZE = numbered + PAGE_SIZE
      /\ \A k : k \in ToSet(rows) <=>
               k \in ids /\ rank(k, ids) \in numbered + 1 .. numbered + PAGE_SIZE
      /\ Len(rows) = PAGE_SIZE <=> Cardinality(ids) >= numbered + PAGE_SIZE
  <2>1. rows = pageNumber(h.page, ids)
    BY <1>2
  <2>2. /\ rows \in Seq(ids) /\ Len(rows) <= PAGE_SIZE /\ IsInjective(rows)
        /\ numbered \in Nat /\ h.page * PAGE_SIZE = numbered + PAGE_SIZE
        /\ \A k : k \in ToSet(rows) <=>
                 k \in ids /\ rank(k, ids) \in numbered + 1 .. numbered + PAGE_SIZE
        /\ Len(rows) = PAGE_SIZE <=> Cardinality(ids) >= numbered + PAGE_SIZE
    <3>. DEFINE n == h.page
    <3>1. n \in Nat \ {0} /\ rows = pageNumber(n, ids) /\ numbered = (n - 1) * PAGE_SIZE
      BY <1>1, <2>1
    <3>. HIDE DEF n, numbered
    <3>2. NthPage(n, numbered, rows, ids)
      BY <1>3, <3>1, PageByRank, Zenon
    <3>. QED  BY <3>2 DEF n, NthPage
  <2>3. Len(rows) \in Nat
    BY <2>2
  <2>. QED  BY <2>2, <2>3
<1>. HIDE DEF numbered
<1>6. PAGE_SIZE \in Nat /\ Cardinality(ids) \in Nat
      /\ \A k \in ids : rank(k, ids) \in 1..Cardinality(ids)
  BY <1>3, HistoryAssumption, RankIsAPlace
<1>7. /\ longer \in Seq(Nat) /\ IsInjective(longer)
      /\ ToSet(longer) = ToSet(h.income) \cup ToSet(rows)
  <2>1. rows \in Seq(Nat)
    BY <1>3, <1>5, SeqMonotonic
  <2>. QED  BY <1>1, <1>4, <1>5, <2>1, Lists
<1>8. ToSet(longer) = {k \in ids : rank(k, ids) <= numbered + PAGE_SIZE}
  BY <1>4, <1>5, <1>6, <1>7
<1>. HIDE DEF longer
<1>9. /\ g.cutoff = h.cutoff /\ g.symbol = h.symbol /\ g.from = h.from /\ g.page = h.page + 1
      /\ g.trades = h.trades /\ g.income = longer /\ g.orders = h.orders
      /\ g.windows = h.windows /\ g.last = h.last
      /\ g.step = (IF Len(rows) < PAGE_SIZE THEN "done" ELSE "income")
  BY <1>1 DEF Collection, longer
<1>10. g \in Collection
  <2>1. h.page + 1 \in Nat
    BY <1>1
  <2>2. g = [h EXCEPT !.income = longer, !.page = h.page + 1,
                      !.step = IF Len(rows) < PAGE_SIZE THEN "done" ELSE "income"]
    BY <1>1 DEF Collection, longer
  <2>. QED  BY <1>1, <1>7, <2>1, <2>2 DEF Collection
<1>. HIDE DEF g
<1>11. g.step \notin PerSymbol /\ g.step # "trades" /\ g.step # "orders"
  BY <1>9 DEF PerSymbol
<1>12. PlaceSound(g) /\ WindowsSound(g)
  <2>1. g.page # 0
    BY <1>1, <1>9
  <2>. QED  BY <1>1, <1>9, <1>11, <2>1 DEF Sound, PlaceSound, WindowsSound
<1>13. \A steps \in {PerSymbol, {"orders", "latest"}, {"latest"}, {}} : reached(g, steps) = reached(h, steps)
  BY <1>1, <1>9, <1>11, SameSymbol DEF reached, PerSymbol
<1>14. TradesSound(g) /\ OrdersSound(g)
  BY <1>9, <1>11, <1>13 DEF Sound, TradesSound, OrdersSound
<1>15. IncomeSound(g)
  <2>1. (g.page - 1) * PAGE_SIZE = numbered + PAGE_SIZE
    <3>1. g.page - 1 = h.page
      BY <1>1, <1>9
    <3>. QED  BY <1>5, <3>1
  <2>2. Len(rows) < PAGE_SIZE => Cardinality(ids) < numbered + PAGE_SIZE
    BY <1>5, <1>6
  <2>3. Cardinality(ids) < numbered + PAGE_SIZE => ToSet(longer) = ids
    BY <1>5, <1>6, <1>8
  <2>4. settled(fills, h.cutoff) \subseteq ids
    BY DEF settled, ids
  <2>5. ~(Len(rows) < PAGE_SIZE) => numbered + PAGE_SIZE <= Cardinality(ids)
    BY <1>5, <1>6
  <2>. QED  BY <1>7, <1>8, <1>9, <1>11, <2>1, <2>2, <2>3, <2>4, <2>5 DEF IncomeSound, ids
<1>16. LastSound(g)
  BY <1>1, <1>9, SameSymbol DEF Sound, LastSound
<1>. QED  BY <1>10, <1>12, <1>14, <1>15, <1>16 DEF Sound, g

\* A collection that begins.
LEMMA NewCollection ==
  ASSUME HistoryTypeOK, Chronicle(orders, fills, clock),
         NEW h, h = [cutoff |-> clock, step |-> "trades", symbol |-> 1, from |-> 1,
                     windows |-> <<wholeDay(clock)>>, page |-> 1,
                     trades |-> <<>>, orders |-> <<>>, income |-> <<>>, last |-> -1]
  PROVE  Sound(h)
<1>1. /\ h.cutoff = clock /\ h.step = "trades" /\ h.symbol = 1 /\ h.from = 1 /\ h.page = 1
      /\ h.windows = <<wholeDay(h.cutoff)>> /\ h.trades = <<>> /\ h.orders = <<>> /\ h.income = <<>>
  OBVIOUS
<1>2. clock \in Nat /\ Len(fills) \in Nat
  BY Rows
<1>3. /\ Partition(h.windows, h.cutoff) /\ h.windows[1] = <<dayStart(h.cutoff), h.cutoff>>
      /\ h.windows \in Seq(Window) /\ dayStart(h.cutoff) \in Nat
  BY <1>1, <1>2, WholeDay, DayBegins
<1>4. h \in Collection
  BY <1>1, <1>2, <1>3 DEF Collection, Window
<1>5. PlaceSound(h)
  <2>1. Len(historySymbols) \in Nat \ {0}
    BY SymbolsAssumption, EmptySeq
  <2>. QED  BY <1>1, <1>2, <2>1 DEF PlaceSound, PerSymbol
<1>6. WindowsSound(h)
  <2>1. dayStart(h.cutoff) <= h.windows[1][1]
    BY <1>3
  <2>. QED  BY <1>1, <1>3, <2>1 DEF WindowsSound
<1>7. ToSet(h.trades) = {} /\ IsInjective(h.trades) /\ ToSet(h.orders) = {} /\ IsInjective(h.orders)
      /\ ToSet(h.income) = {} /\ IsInjective(h.income)
  BY <1>1, NoRows
<1>8. reached(h, {"orders", "latest"}) = {} /\ reached(h, {"latest"}) = {} /\ reached(h, {}) = {}
  <2>1. 1..h.symbol - 1 = {}
    BY <1>1
  <2>. QED  BY <1>1, <2>1 DEF reached, before
<1>9. TradesSound(h)
  <2>1. HeldBefore(h.windows[1][1], h.trades, fills, tradesOf(symbolOf(h)), h.cutoff)
    BY <1>1, <1>2, <1>7, FillsOfSymbol, FreshWindow
  <2>2. \A k \in tradesOf(symbolOf(h)) : ~(k < h.from)
    <3>1. \A k \in tradesOf(symbolOf(h)) : k \in 1..Len(fills)
      BY FillsOfSymbol, Rows
    <3>. QED  BY <1>1, <1>2, <3>1
  <2>. QED  BY <1>7, <1>8, <2>1, <2>2 DEF TradesSound
<1>10. OrdersSound(h)
  BY <1>1, <1>7, <1>8 DEF OrdersSound
<1>11. IncomeSound(h)
  BY <1>1, <1>7 DEF IncomeSound
<1>12. LastSound(h)
  <2>1. 1..h.symbol - 1 = {}
    BY <1>1
  <2>. QED  BY <2>1 DEF LastSound, before
<1>. QED  BY <1>4, <1>5, <1>6, <1>9, <1>10, <1>11, <1>12 DEF Sound

-----------------------------------------------------------------------------
(***************************************************************************)
(* The account trades on: rows are added at the end, of this instant.      *)
(***************************************************************************)
Grows(old, new, now) ==
  /\ DOMAIN old \subseteq DOMAIN new /\ DOMAIN new \subseteq Nat
  /\ \A k \in DOMAIN old : new[k] = old[k]
  /\ \A k \in DOMAIN new \ DOMAIN old : new[k].time = now /\ \A j \in DOMAIN old : j < k

LEMMA GrownRows ==
  ASSUME NEW old, NEW new, NEW now \in Nat, NEW cutoff \in Nat, cutoff <= now, Grows(old, new, now)
  PROVE  /\ settled(new, cutoff) = settled(old, cutoff)
         /\ \A k \in DOMAIN old : k \in todays(new, cutoff) <=> k \in todays(old, cutoff)
         /\ todays(old, cutoff) \subseteq todays(new, cutoff)
<1>1. \A k \in DOMAIN old : k \in todays(new, cutoff) <=> k \in todays(old, cutoff)
  BY DEF Grows, todays
<1>2. \A k \in DOMAIN new \ DOMAIN old : ~(new[k].time < cutoff)
  BY DEF Grows
<1>3. settled(new, cutoff) \subseteq DOMAIN new /\ settled(old, cutoff) \subseteq DOMAIN old
      /\ todays(old, cutoff) \subseteq DOMAIN old
  BY DEF settled, todays
<1>4. \A k \in DOMAIN old : k \in settled(new, cutoff) <=> k \in settled(old, cutoff)
  BY <1>1 DEF Grows, settled
<1>5. \A k \in DOMAIN new \ DOMAIN old : k \notin settled(new, cutoff)
  BY <1>2 DEF settled
<1>6. \A k : k \in settled(new, cutoff) <=> k \in settled(old, cutoff)
  BY <1>3, <1>4, <1>5 DEF Grows
<1>. QED  BY <1>1, <1>3, <1>6

LEMMA RanksStay ==
  ASSUME NEW ids, NEW more, ids \subseteq more, more \subseteq Int, IsFiniteSet(more),
         \A k \in more \ ids, j \in ids : j < k
  PROVE  /\ Cardinality(ids) <= Cardinality(more)
         /\ \A k \in ids : rank(k, more) = rank(k, ids)
         /\ \A k \in more \ ids : rank(k, more) > Cardinality(ids)
         /\ Cardinality(ids) \in Nat /\ \A k \in more : rank(k, more) \in Nat
<1>1. /\ IsFiniteSet(ids) /\ Cardinality(ids) <= Cardinality(more) /\ Cardinality(ids) \in Nat
      /\ Cardinality(more) \in Nat
  BY FS_Subset, FS_CardinalityType
<1>2. ASSUME NEW k \in ids PROVE rank(k, more) = rank(k, ids)
  <2>1. \A j \in more \ ids : ~(j <= k)
    <3>1. \A j \in more \ ids : k < j /\ j \in Int /\ k \in Int
      OBVIOUS
    <3>. QED  BY <3>1
  <2>2. {j \in more : j <= k} = {j \in ids : j <= k}
    BY <2>1
  <2>. QED  BY <2>2 DEF rank
<1>3. ASSUME NEW k \in more \ ids PROVE rank(k, more) > Cardinality(ids)
  <2>. DEFINE upTo == {j \in more : j <= k}
  <2>1. ids \cup {k} \subseteq upTo
    <3>1. \A j \in ids : j < k /\ j \in Int /\ k \in Int
      OBVIOUS
    <3>2. k \in Int
      OBVIOUS
    <3>3. \A j \in ids : j <= k
      BY <3>1
    <3>. QED  BY <3>2, <3>3
  <2>2. IsFiniteSet(upTo) /\ rank(k, more) = Cardinality(upTo)
    BY FS_Subset DEF rank
  <2>. HIDE DEF upTo
  <2>3. Cardinality(ids \cup {k}) = Cardinality(ids) + 1 /\ IsFiniteSet(ids \cup {k})
    BY <1>1, FS_AddElement
  <2>4. Cardinality(ids \cup {k}) <= Cardinality(upTo) /\ Cardinality(upTo) \in Nat
    BY <2>1, <2>2, FS_Subset, FS_CardinalityType
  <2>. QED  BY <1>1, <2>2, <2>3, <2>4
<1>4. \A k \in more : rank(k, more) \in Nat
  <2>1. \A k \in more : rank(k, more) \in 1..Cardinality(more)
    BY RankIsAPlace
  <2>. QED  BY <1>1, <2>1
<1>. QED  BY <1>1, <1>2, <1>3, <1>4

\* What a collection has read stays right whatever is traded after.
LEMMA AccountStep ==
  ASSUME HistoryTypeOK, Chronicle(orders, fills, clock),
         HistoryTypeOK', Chronicle(orders, fills, clock)',
         product' = product, clock' >= clock,
         Grows(orders, orders', clock), Grows(fills, fills', clock),
         NEW h, Sound(h)
  PROVE  Sound(h)'
<1>. DEFINE s == symbolOf(h)
<1>1. /\ h \in Collection /\ h.cutoff \in Nat /\ h.cutoff <= clock /\ clock \in Nat
      /\ h.page \in Nat \ {0}
  <2>1. clock \in Nat
    BY Rows
  <2>. QED  BY <2>1 DEF Sound, PlaceSound, Collection
<1>2. /\ settled(fills', h.cutoff) = settled(fills, h.cutoff)
      /\ \A k \in DOMAIN fills : k \in todays(fills', h.cutoff) <=> k \in todays(fills, h.cutoff)
      /\ todays(fills, h.cutoff) \subseteq todays(fills', h.cutoff)
  BY <1>1, GrownRows
<1>3. /\ settled(orders', h.cutoff) = settled(orders, h.cutoff)
      /\ \A k \in DOMAIN orders : k \in todays(orders', h.cutoff) <=> k \in todays(orders, h.cutoff)
      /\ todays(orders, h.cutoff) \subseteq todays(orders', h.cutoff)
  BY <1>1, GrownRows
<1>4. /\ \A k \in DOMAIN orders : k \in DOMAIN orders' /\ orders'[k] = orders[k]
      /\ \A k \in DOMAIN fills : /\ k \in DOMAIN fills' /\ fills'[k] = fills[k]
                                 /\ fills[k].order \in DOMAIN orders /\ k \in Nat
      /\ \A k \in DOMAIN fills : symbolOfFill(k)' = symbolOfFill(k)
  <2>1. \A k \in DOMAIN fills : fills[k].order \in DOMAIN orders /\ k \in Nat
    BY Rows
  <2>. QED  BY <2>1 DEF Grows, symbolOfFill
<1>5. /\ tradesOf(s) \subseteq DOMAIN fills
      /\ \A k \in DOMAIN fills : k \in tradesOf(s)' <=> k \in tradesOf(s)
      /\ tradesOf(s)' \subseteq DOMAIN fills'
  BY <1>4 DEF tradesOf, symbolOfFill, symbolOf
<1>6. /\ ordersOf(s) \subseteq DOMAIN orders
      /\ \A k \in DOMAIN orders : k \in ordersOf(s)' <=> k \in ordersOf(s)
  BY <1>4 DEF ordersOf, symbolOf
<1>7. \A k \in settled(fills, h.cutoff) : k \in DOMAIN fills
  BY DEF settled, todays
<1>8. \A k \in settled(orders, h.cutoff) : k \in DOMAIN orders
  BY DEF settled, todays
<1>9. PlaceSound(h)'
  <2>1. h.cutoff <= clock'
    <3>1. clock' \in Nat
      BY HistoryAssumption DEF HistoryTypeOK
    <3>. QED  BY <1>1, <3>1
  <2>2. h.from \in 1..Len(fills') + 1
    <3>1. /\ DOMAIN fills = 1..Len(fills) /\ Len(fills) \in Nat
          /\ DOMAIN fills' = 1..Len(fills') /\ Len(fills') \in Nat
      BY Rows DEF HistoryTypeOK
    <3>2. Len(fills) <= Len(fills')
      BY <3>1 DEF Grows
    <3>. QED  BY <3>1, <3>2 DEF Sound, PlaceSound
  <2>. QED  BY <2>1, <2>2 DEF Sound, PlaceSound
<1>10. WindowsSound(h)'
  BY DEF Sound, WindowsSound
<1>11. TradesSound(h)'
  <2>1. IsInjective(h.trades) /\ \A k \in ToSet(h.trades) : k \in DOMAIN fills
    BY DEF Sound, TradesSound
  <2>2. \A k \in ToSet(h.trades) : /\ k \in DOMAIN fills' /\ fills'[k].time <= h.cutoff
                                   /\ symbolOfFill(k)' \in reached(h, PerSymbol)
    BY <1>4 DEF Sound, TradesSound
  <2>3. \A k \in settled(fills', h.cutoff) :
          symbolOfFill(k)' \in reached(h, {"orders", "latest"}) => k \in ToSet(h.trades)
    BY <1>2, <1>4, <1>7 DEF Sound, TradesSound
  <2>4. ASSUME product' = "spot", NEW k \in ToSet(h.trades), NEW j \in DOMAIN fills',
               j < k, symbolOfFill(j)' = symbolOfFill(k)'
        PROVE  j \in ToSet(h.trades)
    <3>1. j \in DOMAIN fills
      <4>1. k \in DOMAIN fills /\ k \in Nat
        BY <1>4, <2>1
      <4>2. j \in Nat /\ (j \in DOMAIN fills \/ k < j)
        BY <4>1 DEF Grows
      <4>. QED  BY <2>4, <4>1, <4>2
    <3>. QED  BY <1>4, <2>1, <2>4, <3>1 DEF Sound, TradesSound
  <2>5. ASSUME product' = "usdm_futures", h.step = "trades"
        PROVE  HeldBefore(h.windows[1][1], h.trades, fills', tradesOf(s)', h.cutoff)
    <3>1. HeldBefore(h.windows[1][1], h.trades, fills, tradesOf(s), h.cutoff)
      BY <2>5 DEF Sound, TradesSound
    <3>2. \A k \in ToSet(h.trades) \cap tradesOf(s)' : fills'[k].time < h.windows[1][1]
      BY <1>4, <1>5, <2>1, <3>1 DEF HeldBefore
    <3>3. \A k \in tradesOf(s)' \cap settled(fills', h.cutoff) :
            fills'[k].time < h.windows[1][1] => k \in ToSet(h.trades)
      BY <1>2, <1>4, <1>5, <1>7, <3>1 DEF HeldBefore
    <3>. QED  BY <3>2, <3>3 DEF HeldBefore
  <2>6. ASSUME product' = "spot", h.step = "trades", NEW k \in tradesOf(s)'
        PROVE  IF k < h.from THEN fills'[k].time <= h.cutoff => k \in ToSet(h.trades)
               ELSE k \notin ToSet(h.trades)
    <3>1. CASE k \in DOMAIN fills
      BY <1>4, <1>5, <2>6, <3>1 DEF Sound, TradesSound
    <3>2. CASE k \notin DOMAIN fills
      <4>1. /\ DOMAIN fills = 1..Len(fills) /\ Len(fills) \in Nat
            /\ DOMAIN fills' = 1..Len(fills') /\ Len(fills') \in Nat
        BY Rows DEF HistoryTypeOK
      <4>2. k \in DOMAIN fills'
        BY <1>5
      <4>3. ~(k < h.from)
        <5>1. h.from \in 1..Len(fills) + 1
          BY DEF Sound, PlaceSound
        <5>. QED  BY <3>2, <4>1, <4>2, <5>1
      <4>. QED  BY <2>1, <3>2, <4>3
    <3>. QED  BY <3>1, <3>2
  <2>. QED  BY <2>1, <2>2, <2>3, <2>4, <2>5, <2>6 DEF TradesSound
<1>12. OrdersSound(h)'
  <2>1. IsInjective(h.orders) /\ \A k \in ToSet(h.orders) : k \in DOMAIN orders
    BY DEF Sound, OrdersSound, todays
  <2>2. \A k \in ToSet(h.orders) : /\ k \in todays(orders', h.cutoff)
                                   /\ orders'[k].symbol \in reached(h, {"orders", "latest"})
    BY <1>3, <1>4, <2>1 DEF Sound, OrdersSound
  <2>3. \A k \in settled(orders', h.cutoff) :
          orders'[k].symbol \in reached(h, {"latest"}) => k \in ToSet(h.orders)
    BY <1>3, <1>4, <1>8 DEF Sound, OrdersSound
  <2>4. ASSUME h.step = "orders"
        PROVE  HeldBefore(h.windows[1][1], h.orders, orders', ordersOf(s)', h.cutoff)
    <3>1. HeldBefore(h.windows[1][1], h.orders, orders, ordersOf(s), h.cutoff)
      BY <2>4 DEF Sound, OrdersSound
    <3>2. \A k \in ToSet(h.orders) \cap ordersOf(s)' : orders'[k].time < h.windows[1][1]
      BY <1>4, <1>6, <2>1, <3>1 DEF HeldBefore
    <3>3. \A k \in ordersOf(s)' \cap settled(orders', h.cutoff) :
            orders'[k].time < h.windows[1][1] => k \in ToSet(h.orders)
      BY <1>3, <1>4, <1>6, <1>8, <3>1 DEF HeldBefore
    <3>. QED  BY <3>2, <3>3 DEF HeldBefore
  <2>5. \A k \in ToSet(h.orders) :
          orders'[k].symbol \in reached(h, {}) => orders'[k].time <= h.last
    BY <1>4, <2>1 DEF Sound, OrdersSound
  <2>. QED  BY <2>1, <2>2, <2>3, <2>4, <2>5 DEF OrdersSound
<1>13. IncomeSound(h)'
  <2>. DEFINE ids == todays(fills, h.cutoff)
              more == todays(fills', h.cutoff)
              numbered == (h.page - 1) * PAGE_SIZE
  <2>1. ids \subseteq more /\ more \subseteq Int /\ IsFiniteSet(more)
        /\ \A k \in more \ ids, j \in ids : j < k
    <3>1. IsFiniteSet(DOMAIN fills') /\ DOMAIN fills' \subseteq Nat
      <4>1. DOMAIN fills' = 1..Len(fills') /\ Len(fills') \in Nat
        BY DEF HistoryTypeOK
      <4>2. IsFiniteSet(1..Len(fills'))
        BY <4>1, FS_Interval
      <4>. QED  BY <4>1, <4>2
    <3>2. more \subseteq DOMAIN fills' /\ ids \subseteq DOMAIN fills
      BY DEF todays
    <3>3. \A k \in more \ ids : k \notin DOMAIN fills
      BY <1>2
    <3>4. IsFiniteSet(more)
      BY <3>1, <3>2, FS_Subset
    <3>. QED  BY <1>2, <3>1, <3>2, <3>3, <3>4 DEF Grows
  <2>2. /\ IsInjective(h.income) /\ ToSet(h.income) \subseteq ids
        /\ h.step \in PerSymbol => h.income = <<>> /\ h.page = 1
        /\ h.step = "income" => /\ ToSet(h.income) = {k \in ids : rank(k, ids) <= numbered}
                                /\ numbered <= Cardinality(ids)
        /\ product = "usdm_futures" /\ h.step = "done" =>
             settled(fills, h.cutoff) \subseteq ToSet(h.income)
    BY DEF Sound, IncomeSound
  <2>3. numbered \in Int
    BY <1>1, HistoryAssumption
  <2>. HIDE DEF ids, more, numbered
  <2>4. /\ Cardinality(ids) <= Cardinality(more)
        /\ \A k \in ids : rank(k, more) = rank(k, ids)
        /\ \A k \in more \ ids : rank(k, more) > Cardinality(ids)
        /\ Cardinality(ids) \in Nat /\ \A k \in more : rank(k, more) \in Nat
    BY <2>1, RanksStay
  <2>5. ASSUME h.step = "income"
        PROVE  /\ ToSet(h.income) = {k \in more : rank(k, more) <= numbered}
               /\ numbered <= Cardinality(more)
    <3>1. \A k \in more \ ids : ~(rank(k, more) <= numbered)
      BY <2>2, <2>3, <2>4, <2>5
    <3>2. \A k : k \in {i \in more : rank(i, more) <= numbered}
                 <=> k \in {i \in ids : rank(i, ids) <= numbered}
      BY <2>1, <2>4, <3>1
    <3>3. Cardinality(more) \in Nat
      BY <2>1, FS_CardinalityType
    <3>. QED  BY <2>2, <2>3, <2>4, <2>5, <3>2, <3>3
  <2>. QED  BY <1>2, <2>1, <2>2, <2>5 DEF IncomeSound, ids, more, numbered
<1>14. LastSound(h)'
  <2>. SUFFICES ASSUME NEW k \in DOMAIN orders', orders'[k].time < h.cutoff,
                       orders'[k].symbol \in before(h)
                PROVE  orders'[k].time <= h.last
    BY DEF LastSound, before
  <2>1. k \in DOMAIN orders
    BY <1>1 DEF Grows
  <2>. QED  BY <1>4, <2>1 DEF Sound, LastSound
<1>. QED  BY <1>1, <1>9, <1>10, <1>11, <1>12, <1>13, <1>14 DEF Sound

-----------------------------------------------------------------------------
(***************************************************************************)
(* Every step keeps the invariant, in whatever specification it is taken.  *)
(***************************************************************************)
LEMMA NothingCollected == collect = [c \in Call |-> Null] => collected = {}
BY DEF collected

LEMMA HistoryBegins == InitAccount => HistoryInv
<1>. SUFFICES ASSUME InitAccount PROVE HistoryInv
  OBVIOUS
<1>1. PICK h \in Histories : /\ clock = h.clock /\ orders = h.orders
                             /\ fills = h.fills /\ lots = h.lots
  BY DEF InitAccount
<1>2. /\ clock \in 0..MaxTime
      /\ orders \in Seq(AnOrder) /\ Len(orders) <= MaxOrders
      /\ fills \in Seq(AFill) /\ Len(fills) <= MaxFills
      /\ lots \in Lots /\ Chronicle(orders, fills, clock)
  BY <1>1, HistoriesAssumption
<1>3. collected = {}
  BY NothingCollected DEF InitAccount
<1>4. HistoryTypeOK
  BY <1>2 DEF HistoryTypeOK, InitAccount
<1>. QED  BY <1>2, <1>3, <1>4 DEF HistoryInv

\* A step of a collection: of the others nothing changes.
LEMMA CollectionStep ==
  ASSUME HistoryInv, NEW c \in Call, NEW h, h = Null \/ Sound(h),
         collect' = [collect EXCEPT ![c] = h],
         UNCHANGED <<product, clock, account>>
  PROVE  /\ HistoryInv' /\ collect'[c] = h
         /\ \A d \in Call \ {c} : collect'[d] = collect[d]
<1>1. collect \in [Call -> {Null} \cup Collection] /\ (h = Null \/ h \in Collection)
  BY DEF HistoryInv, HistoryTypeOK, Sound
<1>2. HistoryTypeOK'
  BY <1>1 DEF HistoryInv, HistoryTypeOK, account
<1>3. collected' \subseteq collected \cup ({h} \ {Null})
  BY <1>1 DEF collected
<1>4. \A g : Sound(g) => Sound(g)'
  BY DEF account, Sound, PlaceSound, WindowsSound, TradesSound, OrdersSound, LastSound, IncomeSound,
         symbolOfFill, tradesOf, ordersOf
<1>5. \A g \in collected' : Sound(g)'
  BY <1>3, <1>4 DEF HistoryInv
<1>6. collect'[c] = h /\ \A d \in Call \ {c} : collect'[d] = collect[d]
  BY <1>1
<1>. QED  BY <1>2, <1>5, <1>6 DEF HistoryInv, account

LEMMA HistoryCollect ==
  ASSUME HistoryInv, NEW c \in Call, Collect(c), UNCHANGED <<product, clock, account>>
  PROVE  HistoryInv' /\ collect'[c] # Null /\ \A d \in Call \ {c} : collect'[d] = collect[d]
<1>. DEFINE h == [cutoff |-> clock, step |-> "trades", symbol |-> 1, from |-> 1,
                  windows |-> <<wholeDay(clock)>>, page |-> 1,
                  trades |-> <<>>, orders |-> <<>>, income |-> <<>>, last |-> -1]
<1>1. collect' = [collect EXCEPT ![c] = h]
  BY DEF Collect
<1>2. Sound(h)
  BY NewCollection DEF HistoryInv
<1>. HIDE DEF h
<1>3. h # Null
  BY <1>2, NullAssumption DEF Sound
<1>. QED  BY <1>1, <1>2, <1>3, CollectionStep

\* A request of a collection is answered.
LEMMA HistoryReads ==
  ASSUME HistoryInv, NEW c \in Call, collect[c] # Null, ReadHistory(c),
         UNCHANGED <<product, clock, account>>
  PROVE  HistoryInv' /\ collect'[c] # Null /\ \A d \in Call \ {c} : collect'[d] = collect[d]
<1>. DEFINE h == collect[c]
<1>1. HistoryTypeOK /\ Chronicle(orders, fills, clock) /\ Sound(h)
  BY DEF HistoryInv, collected
<1>2. collect \in [Call -> {Null} \cup Collection]
  BY <1>1 DEF HistoryTypeOK
<1>3. ASSUME NEW g, Sound(g), collect' = [collect EXCEPT ![c] = g]
      PROVE  HistoryInv' /\ collect'[c] # Null /\ \A d \in Call \ {c} : collect'[d] = collect[d]
  <2>1. g # Null
    BY <1>3, NullAssumption DEF Sound
  <2>. QED  BY <1>3, <2>1, CollectionStep
<1>4. CASE ReadSpotTrades(c)
  <2>1. Sound(spotTrades(h))
    BY <1>1, <1>4, SpotPage DEF ReadSpotTrades
  <2>2. collect' = [collect EXCEPT ![c] = spotTrades(h)]
    BY <1>4 DEF ReadSpotTrades
  <2>. QED  BY <1>3, <2>1, <2>2
<1>5. CASE ReadFuturesTrades(c)
  <2>. DEFINE rows == page(within(fills, tradesOf(symbolOf(h)), Head(h.windows)))
              g == windowRead(h, "trades", rows, "orders")
  <2>1. /\ product = "usdm_futures" /\ h.step = "trades" /\ ~saturated(rows, Head(h.windows))
        /\ collect' = [collect EXCEPT ![c] = g]
    BY <1>5 DEF ReadFuturesTrades
  <2>2. Sound(g)
    BY <1>1, <2>1, FuturesWindow
  <2>. HIDE DEF g
  <2>. QED  BY <1>3, <2>1, <2>2
<1>6. CASE ReadOrders(c)
  <2>. DEFINE rows == page(within(orders, ordersOf(symbolOf(h)), Head(h.windows)))
              g == windowRead(h, "orders", rows, "latest")
  <2>1. /\ h.step = "orders" /\ ~saturated(rows, Head(h.windows))
        /\ collect' = [collect EXCEPT ![c] = g]
    BY <1>6 DEF ReadOrders
  <2>2. Sound(g)
    BY <1>1, <2>1, OrdersWindow
  <2>. HIDE DEF g
  <2>. QED  BY <1>3, <2>1, <2>2
<1>7. CASE ReadLatest(c)
  <2>. DEFINE last == Max({orders[k].time : k \in ordersOf(symbolOf(h))} \cup {h.last})
              step == IF h.symbol < Len(historySymbols) THEN "trades"
                      ELSE IF product = "spot" THEN "done" ELSE "income"
              g == [h EXCEPT !.last = last, !.symbol = @ + 1, !.step = step]
  <2>1. h.step = "latest" /\ collect' = [collect EXCEPT ![c] = g]
    BY <1>7 DEF ReadLatest
  <2>2. Sound(g)
    BY <1>1, <2>1, LatestRead
  <2>. HIDE DEF g
  <2>. QED  BY <1>3, <2>1, <2>2
<1>8. CASE ReadIncome(c)
  <2>. DEFINE rows == pageNumber(h.page, within(fills, DOMAIN fills, wholeDay(h.cutoff)))
              g == [h EXCEPT !.income = @ \o rows, !.page = @ + 1,
                             !.step = IF Len(rows) < PAGE_SIZE THEN "done" ELSE @]
  <2>1. /\ h.step = "income" /\ ToSet(rows) \cap ToSet(h.income) = {}
        /\ collect' = [collect EXCEPT ![c] = g]
    BY <1>8 DEF ReadIncome
  <2>2. Sound(g)
    BY <1>1, <2>1, IncomePage
  <2>. HIDE DEF g
  <2>. QED  BY <1>3, <2>1, <2>2
<1>. QED  BY <1>4, <1>5, <1>6, <1>7, <1>8 DEF ReadHistory

\* The account goes on.
LEMMA AccountGoesOn ==
  ASSUME HistoryInv, HistoryTypeOK', Chronicle(orders, fills, clock)', UNCHANGED <<product, collect>>,
         clock' >= clock, Grows(orders, orders', clock), Grows(fills, fills', clock)
  PROVE  HistoryInv'
<1>1. \A h \in collected : Sound(h)'
  BY AccountStep DEF HistoryInv
<1>2. collected' = collected
  BY DEF collected
<1>. QED  BY <1>1, <1>2 DEF HistoryInv

LEMMA AppendGrows ==
  ASSUME NEW S, NEW old \in Seq(S), NEW e, NEW now, e.time = now
  PROVE  Grows(old, Append(old, e), now)
<1>1. /\ DOMAIN old = 1..Len(old) /\ Len(old) \in Nat
      /\ DOMAIN Append(old, e) = 1..Len(old) + 1
      /\ \A k \in 1..Len(old) : Append(old, e)[k] = old[k]
      /\ Append(old, e)[Len(old) + 1] = e
  OBVIOUS
<1>. QED  BY <1>1 DEF Grows

LEMMA SameGrows ==
  ASSUME NEW S, NEW old \in Seq(S), NEW now
  PROVE  Grows(old, old, now)
BY DEF Grows

LEMMA HistoryOrders ==
  ASSUME HistoryInv, NEW symbol \in Symbol, NEW side \in {"BUY", "SELL"}, NEW price \in Nat,
         Order(symbol, side, price), UNCHANGED <<product, clock, fills, lots, collect>>
  PROVE  HistoryInv'
<1>. DEFINE o == [symbol |-> symbol, side |-> side, price |-> price, time |-> clock]
<1>1. /\ HistoryTypeOK /\ Chronicle(orders, fills, clock) /\ clock \in Nat
      /\ DOMAIN orders = 1..Len(orders) /\ Len(orders) \in Nat
  BY Rows DEF HistoryInv
<1>2. orders' = Append(orders, o) /\ Len(orders) < MaxOrders /\ o \in AnOrder /\ o.time = clock
  BY <1>1 DEF Order, AnOrder
<1>. HIDE DEF o
<1>3. /\ orders' \in Seq(AnOrder) /\ Len(orders') = Len(orders) + 1
      /\ DOMAIN orders' = 1..Len(orders) + 1
      /\ \A k \in 1..Len(orders) : orders'[k] = orders[k]
      /\ orders'[Len(orders) + 1] = o
  BY <1>1, <1>2 DEF HistoryTypeOK
<1>4. HistoryTypeOK'
  BY <1>1, <1>2, <1>3, HistoryAssumption DEF HistoryTypeOK
<1>5. Chronicle(orders, fills, clock)'
  <2>1. \A k \in DOMAIN orders' : orders'[k].time <= clock
    BY <1>1, <1>2, <1>3 DEF Chronicle
  <2>2. \A k \in DOMAIN fills : fills[k].order \in DOMAIN orders'
    BY <1>1, <1>3 DEF Chronicle
  <2>. QED  BY <1>1, <2>1, <2>2 DEF Chronicle
<1>6. Grows(orders, orders', clock) /\ Grows(fills, fills', clock)
  BY <1>1, <1>2, AppendGrows, SameGrows DEF HistoryTypeOK
<1>. QED  BY <1>1, <1>4, <1>5, <1>6, AccountGoesOn

\* What is left of a lot that there was something to sell of.
LEMMA SoldLot ==
  ASSUME NEW lot \in [quantity : Int, cost : Nat], lot.quantity > 0
  PROVE  sold(lot) \in [quantity : Int, cost : Nat] /\ averageCost(lot) \in Nat
<1>1. averageCost(lot) \in Nat /\ averageCost(lot) <= lot.cost
  <2>. DEFINE q == lot.quantity
              d == lot.cost
              z == d \div q
              y == q * z
  <2>1. q \in Nat \ {0} /\ d \in Nat
    OBVIOUS
  <2>. HIDE DEF q, d
  <2>2. z \in Nat /\ d = q * z + (d % q) /\ d % q \in Nat
    BY <2>1
  <2>. HIDE DEF z
  <2>3. z <= y /\ y \in Nat
    <3>1. \A x \in Nat : x <= q * x /\ q * x \in Nat
      BY <2>1
    <3>. QED  BY <2>2, <3>1
  <2>4. d = y + (d % q)
    BY <2>2
  <2>. HIDE DEF y
  <2>5. z <= d
    BY <2>1, <2>2, <2>3, <2>4
  <2>. QED  BY <2>2, <2>5 DEF averageCost, q, d, z
<1>2. lot.cost - averageCost(lot) \in Nat
  BY <1>1
<1>. QED  BY <1>1, <1>2 DEF sold

LEMMA HistoryFill == ASSUME HistoryInv, Fill PROVE HistoryInv'
<1>1. PICK k \in unfilled, gain \in Int :
        /\ fills' = Append(fills, [order |-> k, time |-> clock, gain |-> gain])
        /\ lots' \in Lots
  <2>1. PICK k \in unfilled :
          LET o == orders[k]
              lot == lots[o.symbol]
              fill(gain) == fills' = Append(fills, [order |-> k, time |-> clock, gain |-> gain])
          IN \/ /\ product = "usdm_futures"
                /\ \E gain \in Gains : fill(gain)
                /\ lots' = [lots EXCEPT ![o.symbol] = netted(lot, o)]
             \/ /\ product = "spot" /\ o.side = "BUY"
                /\ fill(0)
                /\ lots' = [lots EXCEPT ![o.symbol] = bought(lot, o)]
             \/ /\ product = "spot" /\ o.side = "SELL" /\ lot.quantity > 0
                /\ fill(o.price - averageCost(lot))
                /\ lots' = [lots EXCEPT ![o.symbol] = sold(lot)]
    BY DEF Fill
  <2>. DEFINE o == orders[k]
              lot == lots[o.symbol]
  <2>2. o \in AnOrder /\ o.price \in Nat /\ o.symbol \in Symbol /\ lots \in Lots
    <3>1. k \in DOMAIN orders /\ orders \in Seq(AnOrder) /\ lots \in Lots
      BY DEF unfilled, HistoryInv, HistoryTypeOK
    <3>2. o \in AnOrder
      BY <3>1
    <3>. QED  BY <3>1, <3>2 DEF AnOrder
  <2>3. lot \in [quantity : Int, cost : Nat] /\ lot.quantity \in Int /\ lot.cost \in Nat
    BY <2>2 DEF Lots
  <2>4. \/ /\ \E gain \in Gains :
               fills' = Append(fills, [order |-> k, time |-> clock, gain |-> gain])
          /\ lots' = [lots EXCEPT ![o.symbol] = netted(lot, o)]
       \/ /\ fills' = Append(fills, [order |-> k, time |-> clock, gain |-> 0])
          /\ lots' = [lots EXCEPT ![o.symbol] = bought(lot, o)]
       \/ /\ lot.quantity > 0
          /\ fills' = Append(fills, [order |-> k, time |-> clock, gain |-> o.price - averageCost(lot)])
          /\ lots' = [lots EXCEPT ![o.symbol] = sold(lot)]
    BY <2>1
  <2>. HIDE DEF o, lot
  <2>5. netted(lot, o) \in [quantity : Int, cost : Nat]
    BY <2>3 DEF netted
  <2>6. bought(lot, o) \in [quantity : Int, cost : Nat]
    BY <2>2, <2>3 DEF bought
  <2>7. ASSUME lot.quantity > 0
        PROVE  sold(lot) \in [quantity : Int, cost : Nat] /\ averageCost(lot) \in Int
    BY <2>3, <2>7, SoldLot
  <2>8. ASSUME NEW new \in [quantity : Int, cost : Nat], lots' = [lots EXCEPT ![o.symbol] = new]
        PROVE  lots' \in Lots
    BY <2>2, <2>8 DEF Lots
  <2>9. lots' \in Lots
    BY <2>4, <2>5, <2>6, <2>7, <2>8
  <2>10. \E gain \in Int : fills' = Append(fills, [order |-> k, time |-> clock, gain |-> gain])
    <3>1. lot.quantity > 0 => o.price - averageCost(lot) \in Int
      BY <2>2, <2>7
    <3>. QED  BY <2>4, <3>1, HistoryAssumption
  <2>. QED  BY <2>9, <2>10
<1>. DEFINE f == [order |-> k, time |-> clock, gain |-> gain]
<1>2. /\ HistoryTypeOK /\ Chronicle(orders, fills, clock) /\ clock \in Nat
      /\ DOMAIN fills = 1..Len(fills) /\ Len(fills) \in Nat /\ k \in DOMAIN orders /\ k \in Nat
  BY Rows DEF HistoryInv, unfilled
<1>3. /\ fills' = Append(fills, f) /\ f \in AFill /\ f.time = clock /\ f.order = k
      /\ Len(fills) < MaxFills /\ UNCHANGED <<product, clock, orders, collect>>
  BY <1>1, <1>2 DEF Fill, AFill
<1>. HIDE DEF f
<1>4. /\ fills' \in Seq(AFill) /\ Len(fills') = Len(fills) + 1
      /\ DOMAIN fills' = 1..Len(fills) + 1
      /\ \A i \in 1..Len(fills) : fills'[i] = fills[i]
      /\ fills'[Len(fills) + 1] = f
  BY <1>2, <1>3 DEF HistoryTypeOK
<1>5. HistoryTypeOK'
  BY <1>1, <1>2, <1>3, <1>4, HistoryAssumption DEF HistoryTypeOK
<1>6. Chronicle(orders, fills, clock)'
  <2>1. \A i \in DOMAIN fills' : fills'[i].order \in DOMAIN orders /\ fills'[i].time <= clock
    BY <1>2, <1>3, <1>4 DEF Chronicle
  <2>2. \A i, j \in DOMAIN fills' : i < j => fills'[i].time <= fills'[j].time
    <3>. SUFFICES ASSUME NEW i \in 1..Len(fills) + 1, NEW j \in 1..Len(fills) + 1, i < j
                  PROVE  fills'[i].time <= fills'[j].time
      BY <1>4
    <3>1. i \in 1..Len(fills)
      BY <1>2
    <3>2. CASE j \in 1..Len(fills)
      BY <1>2, <1>4, <3>1, <3>2 DEF Chronicle
    <3>3. CASE j = Len(fills) + 1
      BY <1>2, <1>3, <1>4, <3>1, <3>3, Rows
    <3>. QED  BY <1>2, <3>2, <3>3
  <2>. QED  BY <1>2, <1>3, <2>1, <2>2 DEF Chronicle
<1>7. Grows(orders, orders', clock) /\ Grows(fills, fills', clock)
  BY <1>2, <1>3, AppendGrows, SameGrows DEF HistoryTypeOK
<1>. QED  BY <1>2, <1>3, <1>5, <1>6, <1>7, AccountGoesOn

LEMMA HistoryTick == ASSUME HistoryInv, Tick PROVE HistoryInv'
<1>1. HistoryTypeOK /\ Chronicle(orders, fills, clock) /\ clock \in Nat
  BY Rows DEF HistoryInv
<1>2. HistoryTypeOK'
  BY <1>1, HistoryAssumption DEF HistoryTypeOK, Tick, account
<1>3. Chronicle(orders, fills, clock)'
  <2>1. \A t \in Nat : t <= clock => t <= clock + 1
    BY <1>1
  <2>2. /\ \A k \in DOMAIN fills : fills[k].time \in Nat /\ fills[k].time <= clock
        /\ \A k \in DOMAIN orders : orders[k].time \in Nat /\ orders[k].time <= clock
    BY <1>1, Rows
  <2>. QED  BY <1>1, <2>1, <2>2 DEF Chronicle, Tick, account
<1>4. Grows(orders, orders', clock) /\ Grows(fills, fills', clock)
  BY <1>1, SameGrows DEF HistoryTypeOK, Tick, account
<1>. QED  BY <1>1, <1>2, <1>3, <1>4, AccountGoesOn DEF Tick

LEMMA HistoryStays ==
  ASSUME HistoryInv, UNCHANGED <<product, clock, account, collect>>
  PROVE  HistoryInv'
<1>1. \A g : Sound(g) => Sound(g)'
  BY DEF account, Sound, PlaceSound, WindowsSound, TradesSound, OrdersSound, LastSound, IncomeSound,
         symbolOfFill, tradesOf, ordersOf
<1>2. HistoryTypeOK' /\ collected' = collected
  BY DEF account, HistoryInv, HistoryTypeOK, collected
<1>. QED  BY <1>1, <1>2 DEF account, HistoryInv

\* By the time it has ended, all symbols have been read.
LEMMA AllSymbolsRead ==
  ASSUME NEW h, Sound(h), h.step = "done"
  PROVE  before(h) = Symbol
<1>1. h.symbol = Len(historySymbols) + 1
  <2>1. h.symbol \in 1..Len(historySymbols) + 1 /\ ~(h.symbol <= Len(historySymbols))
    BY DEF Sound, PlaceSound, PerSymbol
  <2>2. Len(historySymbols) \in Nat
    BY SymbolsAssumption
  <2>. QED  BY <2>1, <2>2
<1>2. DOMAIN historySymbols = 1..Len(historySymbols) /\ Len(historySymbols) \in Nat
  BY SymbolsAssumption
<1>3. 1..h.symbol - 1 = DOMAIN historySymbols
  BY <1>1, <1>2
<1>. QED  BY <1>3 DEF before, Symbol, ToSet

\* What the invariant says of a collection that has ended is that it is complete.
LEMMA CompleteWhenDone == HistoryInv => HistoryIsComplete
<1>. SUFFICES ASSUME HistoryInv, NEW c \in Call, collect[c] # Null, collect[c].step = "done"
              PROVE  LET h == collect[c] IN
                     /\ IsInjective(h.trades) /\ IsInjective(h.orders) /\ IsInjective(h.income)
                     /\ settled(fills, h.cutoff) \subseteq ToSet(h.trades)
                     /\ settled(orders, h.cutoff) \subseteq ToSet(h.orders)
                     /\ product = "usdm_futures" => settled(fills, h.cutoff) \subseteq ToSet(h.income)
                     /\ \A k \in ToSet(h.orders) : orders[k].time <= h.last
                     /\ ToSet(h.orders) \subseteq todays(orders, h.cutoff)
  BY DEF HistoryIsComplete
<1>. DEFINE h == collect[c]
<1>1. HistoryTypeOK /\ Chronicle(orders, fills, clock) /\ Sound(h) /\ h.step = "done"
  BY DEF HistoryInv, collected
<1>. HIDE DEF h
<1>2. before(h) = Symbol
  BY <1>1, AllSymbolsRead
<1>3. \A steps : reached(h, steps) = Symbol \/ Symbol \subseteq reached(h, steps)
  BY <1>2 DEF reached
<1>4. \A k \in settled(fills, h.cutoff) : symbolOfFill(k) \in Symbol
  BY <1>1, Rows DEF settled, todays
<1>5. \A k \in settled(orders, h.cutoff) : orders[k].symbol \in Symbol
  BY <1>1, Rows DEF settled, todays
<1>6. \A k \in ToSet(h.orders) : k \in todays(orders, h.cutoff) /\ orders[k].symbol \in Symbol
  BY <1>1, Rows DEF Sound, OrdersSound, todays
<1>7. settled(fills, h.cutoff) \subseteq ToSet(h.trades) /\ IsInjective(h.trades)
  BY <1>1, <1>3, <1>4 DEF Sound, TradesSound
<1>8. /\ settled(orders, h.cutoff) \subseteq ToSet(h.orders) /\ IsInjective(h.orders)
      /\ \A k \in ToSet(h.orders) : orders[k].time <= h.last
  BY <1>1, <1>3, <1>5, <1>6 DEF Sound, OrdersSound
<1>9. IsInjective(h.income)
      /\ (product = "usdm_futures" => settled(fills, h.cutoff) \subseteq ToSet(h.income))
  BY <1>1 DEF Sound, IncomeSound
<1>. QED  BY <1>6, <1>7, <1>8, <1>9 DEF h

\* And its latest order is one: none before the cutoff is later, of any day.
LEMMA LatestOfAll ==
  ASSUME HistoryInv, NEW c \in Call, collect[c] # Null, collect[c].step = "done",
         NEW k \in DOMAIN orders, orders[k].time < collect[c].cutoff
  PROVE  orders[k].time <= collect[c].last
<1>. DEFINE h == collect[c]
<1>1. HistoryTypeOK /\ Chronicle(orders, fills, clock) /\ Sound(h) /\ h.step = "done"
  BY DEF HistoryInv, collected
<1>2. before(h) = Symbol
  BY <1>1, AllSymbolsRead
<1>3. orders[k].symbol \in Symbol
  BY <1>1, Rows
<1>. QED  BY <1>1, <1>2, <1>3 DEF Sound, LastSound

-----------------------------------------------------------------------------
(***************************************************************************)
(* The books of a spot account.                                            *)
(***************************************************************************)
\* held follows the fills fs of the orders os, up to the n-th.
Follows(held, os, fs, n) ==
  /\ held[0] = NoLots
  /\ \A m \in 1..n : held[m] = booked(held[m - 1], os[fs[m].order])

LEMMA BooksFollow ==
  ASSUME NEW os, NEW fs, Len(fs) \in Nat
  PROVE  Follows(books(os, fs), os, fs, Len(fs))
<1>. DEFINE N == Len(fs)
            next(held, n) == booked(held, os[fs[n].order])
            isBooks(b) == b = [n \in 0..N |-> IF n = 0 THEN NoLots ELSE next(b[n - 1], n)]
            upTo(b, m) == b[0] = NoLots /\ \A n \in 1..m : b[n] = next(b[n - 1], n)
            T == {m \in Nat : \E b : b = [n \in 0..m |-> b[n]] /\ upTo(b, m)}
<1>. HIDE DEF N, next
<1>1. 0 \in T
  <2>. DEFINE b == [n \in 0..0 |-> NoLots]
  <2>1. b = [n \in 0..0 |-> b[n]] /\ upTo(b, 0)
    OBVIOUS
  <2>. HIDE DEF b
  <2>. QED  BY <2>1
<1>2. ASSUME NEW m \in Nat, m \in T PROVE m + 1 \in T
  <2>1. PICK b : b = [n \in 0..m |-> b[n]] /\ upTo(b, m)
    BY <1>2
  <2>. DEFINE d == [n \in 0..m + 1 |-> IF n <= m THEN b[n] ELSE next(b[m], m + 1)]
  <2>2. d = [n \in 0..m + 1 |-> d[n]]
    OBVIOUS
  <2>3. d[0] = NoLots
    BY <2>1
  <2>4. ASSUME NEW n \in 1..m + 1 PROVE d[n] = next(d[n - 1], n)
    <3>1. CASE n <= m
      <4>1. d[n] = b[n] /\ d[n - 1] = b[n - 1] /\ n \in 1..m
        BY <3>1
      <4>. QED  BY <2>1, <4>1
    <3>2. CASE n = m + 1
      <4>1. d[n] = next(b[m], m + 1) /\ n - 1 = m /\ d[n - 1] = b[m]
        BY <3>2
      <4>. QED  BY <3>2, <4>1
    <3>. QED  BY <3>1, <3>2
  <2>. HIDE DEF d
  <2>5. upTo(d, m + 1)
    BY <2>3, <2>4
  <2>. HIDE DEF upTo
  <2>6. \E x : x = [n \in 0..m + 1 |-> x[n]] /\ upTo(x, m + 1)
    BY <2>2, <2>5
  <2>. QED  BY <2>6
<1>3. N \in T
  <2>. HIDE DEF T
  <2>. QED  BY <1>1, <1>2, NatSetInduction DEF N
<1>4. PICK b : b = [n \in 0..N |-> b[n]] /\ upTo(b, N)
  BY <1>3
<1>5. isBooks(b)
  <2>1. \A n \in 0..N : b[n] = IF n = 0 THEN NoLots ELSE next(b[n - 1], n)
    BY <1>4 DEF N
  <2>. QED  BY <1>4, <2>1
<1>6. books(os, fs) = CHOOSE a : isBooks(a)
  BY DEF books, N, next
<1>7. isBooks(books(os, fs))
  BY <1>5, <1>6
<1>8. upTo(books(os, fs), N)
  <2>. DEFINE a == books(os, fs)
              c == [n \in 0..N |-> IF n = 0 THEN NoLots ELSE next(a[n - 1], n)]
  <2>1. a = c
    BY <1>7
  <2>. HIDE DEF a
  <2>2. \A n \in 0..N : c[n] = IF n = 0 THEN NoLots ELSE next(a[n - 1], n)
    OBVIOUS
  <2>. HIDE DEF c
  <2>3. N \in Nat
    BY DEF N
  <2>. QED  BY <2>1, <2>2, <2>3 DEF a
<1>. QED  BY <1>8 DEF Follows, N, next

\* Books are determined by the fills they follow.
SameFills(os, fs, more, longer, N) ==
  \A n \in 1..N : longer[n] = fs[n] /\ more[fs[n].order] = os[fs[n].order]

Agree(a, b, N) == \A n \in 0..N : a[n] = b[n]

LEMMA SameBooks ==
  ASSUME NEW os, NEW fs, NEW more, NEW longer, NEW N \in Nat,
         SameFills(os, fs, more, longer, N),
         NEW a, NEW b, Follows(a, os, fs, N), Follows(b, more, longer, N)
  PROVE  Agree(a, b, N)
<1>. DEFINE T == {n \in Nat : n <= N => a[n] = b[n]}
<1>1. 0 \in T
  BY DEF Follows
<1>2. ASSUME NEW n \in Nat, n \in T PROVE n + 1 \in T
  <2>1. CASE ~(n + 1 <= N)
    BY <2>1
  <2>2. CASE n + 1 <= N
    <3>1. n + 1 \in 1..N /\ (n + 1) - 1 = n /\ n <= N
      BY <2>2
    <3>2. a[n + 1] = booked(a[n], os[fs[n + 1].order])
          /\ b[n + 1] = booked(b[n], more[longer[n + 1].order])
      BY <3>1 DEF Follows
    <3>. QED  BY <1>2, <3>1, <3>2 DEF SameFills
  <2>. QED  BY <2>1, <2>2
<1>. HIDE DEF T
<1>3. Nat \subseteq T
  BY <1>1, <1>2, NatSetInduction
<1>. QED  BY <1>3 DEF T, Agree

BooksOK == product = "spot" => InTheBooks(orders, fills, lots)

LEMMA BooksBegin == InitAccount => BooksOK
<1>. SUFFICES ASSUME InitAccount, product = "spot" PROVE InTheBooks(orders, fills, lots)
  BY DEF BooksOK
<1>1. PICK h \in Histories : h.product = product /\ orders = h.orders /\ fills = h.fills /\ lots = h.lots
  BY DEF InitAccount
<1>. QED  BY <1>1, BooksAssumption

\* The books of an account stay when it only orders.
LEMMA BooksStay ==
  ASSUME HistoryTypeOK, Chronicle(orders, fills, clock), BooksOK,
         UNCHANGED <<product, fills, lots>>, NEW now, Grows(orders, orders', now)
  PROVE  BooksOK'
<1>. SUFFICES ASSUME product = "spot" PROVE InTheBooks(orders', fills, lots)
  BY DEF BooksOK
<1>. DEFINE a == books(orders, fills)
            b == books(orders', fills)
<1>1. /\ Len(fills) \in Nat /\ DOMAIN fills = 1..Len(fills)
      /\ \A n \in 1..Len(fills) : orders'[fills[n].order] = orders[fills[n].order]
  BY Rows DEF Grows
<1>2. Follows(a, orders, fills, Len(fills)) /\ Follows(b, orders', fills, Len(fills))
  BY <1>1, BooksFollow
<1>3. \A n \in 0..Len(fills) : a[n] = b[n]
  <2>1. SameFills(orders, fills, orders', fills, Len(fills))
    BY <1>1 DEF SameFills
  <2>. HIDE DEF a, b
  <2>2. Agree(a, b, Len(fills))
    BY <1>1, <1>2, <2>1, SameBooks
  <2>. QED  BY <2>2 DEF Agree
<1>4. InTheBooks(orders, fills, lots)
  BY DEF BooksOK
<1>5. lots = b[Len(fills)]
  BY <1>1, <1>3, <1>4 DEF InTheBooks
<1>6. ASSUME NEW n \in DOMAIN fills
      PROVE  LET o == orders'[fills[n].order]
                 lot == b[n - 1][o.symbol]
             IN IF o.side = "BUY" THEN fills[n].gain = 0
                ELSE lot.quantity > 0 /\ fills[n].gain = o.price - averageCost(lot)
  <2>1. n - 1 \in 0..Len(fills) /\ orders'[fills[n].order] = orders[fills[n].order]
    BY <1>1
  <2>2. b[n - 1] = a[n - 1]
    BY <1>3, <2>1
  <2>. HIDE DEF b
  <2>. QED  BY <1>4, <2>1, <2>2 DEF InTheBooks
<1>. QED  BY <1>5, <1>6 DEF InTheBooks

\* A fill is entered in them.
LEMMA BooksFilled ==
  ASSUME HistoryInv, BooksOK, Fill
  PROVE  BooksOK'
<1>. SUFFICES ASSUME product = "spot" PROVE InTheBooks(orders, fills', lots')
  BY DEF BooksOK, Fill
<1>1. PICK k \in unfilled :
        LET o == orders[k]
            lot == lots[o.symbol]
            fill(gain) == fills' = Append(fills, [order |-> k, time |-> clock, gain |-> gain])
        IN \/ /\ o.side = "BUY" /\ fill(0)
              /\ lots' = [lots EXCEPT ![o.symbol] = bought(lot, o)]
           \/ /\ o.side = "SELL" /\ lot.quantity > 0
              /\ fill(o.price - averageCost(lot))
              /\ lots' = [lots EXCEPT ![o.symbol] = sold(lot)]
  BY DEF Fill
<1>. DEFINE o == orders[k]
            lot == lots[o.symbol]
            N == Len(fills)
            a == books(orders, fills)
            b == books(orders, fills')
<1>2. /\ lots' = booked(lots, o)
      /\ \E gain : /\ fills' = Append(fills, [order |-> k, time |-> clock, gain |-> gain])
                   /\ IF o.side = "BUY" THEN gain = 0
                      ELSE lot.quantity > 0 /\ gain = o.price - averageCost(lot)
  BY <1>1 DEF booked
<1>3. /\ N \in Nat /\ DOMAIN fills = 1..N /\ fills \in Seq(AFill)
  BY Rows DEF HistoryInv, HistoryTypeOK
<1>4. /\ Len(fills') = N + 1 /\ DOMAIN fills' = 1..N + 1
      /\ \A n \in 1..N : fills'[n] = fills[n]
      /\ fills'[N + 1].order = k
      /\ IF o.side = "BUY" THEN fills'[N + 1].gain = 0
         ELSE lot.quantity > 0 /\ fills'[N + 1].gain = o.price - averageCost(lot)
  <2>1. PICK gain : /\ fills' = Append(fills, [order |-> k, time |-> clock, gain |-> gain])
                    /\ IF o.side = "BUY" THEN gain = 0
                       ELSE lot.quantity > 0 /\ gain = o.price - averageCost(lot)
    BY <1>2
  <2>. DEFINE f == [order |-> k, time |-> clock, gain |-> gain]
  <2>2. f.order = k /\ f.gain = gain
    OBVIOUS
  <2>. HIDE DEF f
  <2>3. /\ Len(fills') = N + 1 /\ DOMAIN fills' = 1..N + 1
        /\ \A n \in 1..N : fills'[n] = fills[n]
        /\ fills'[N + 1] = f
    BY <1>3, <2>1 DEF f
  <2>. HIDE DEF lot, o
  <2>. QED  BY <2>1, <2>2, <2>3
<1>. HIDE DEF lot, o, N
<1>5. Follows(a, orders, fills, N) /\ Follows(b, orders, fills', N + 1)
  <2>1. N + 1 \in Nat
    BY <1>3
  <2>. QED  BY <1>3, <1>4, <2>1, BooksFollow DEF N
<1>6. Follows(b, orders, fills', N)
  BY <1>3, <1>5 DEF Follows
<1>7. \A n \in 0..N : a[n] = b[n]
  <2>1. SameFills(orders, fills, orders, fills', N)
    BY <1>4 DEF SameFills
  <2>. HIDE DEF a, b
  <2>2. Agree(a, b, N)
    BY <1>3, <1>5, <1>6, <2>1, SameBooks
  <2>. QED  BY <2>2 DEF Agree
<1>8. InTheBooks(orders, fills, lots)
  BY DEF BooksOK
<1>9. lots = a[N] /\ b[N] = lots
  BY <1>3, <1>7, <1>8 DEF InTheBooks, N
<1>. HIDE DEF b
<1>10. lots' = b[N + 1]
  <2>1. N + 1 \in 1..N + 1 /\ (N + 1) - 1 = N
    BY <1>3
  <2>2. b[N + 1] = booked(b[N], orders[fills'[N + 1].order])
    BY <1>5, <2>1 DEF Follows
  <2>. QED  BY <1>2, <1>4, <1>9, <2>2 DEF o
<1>11. ASSUME NEW n \in DOMAIN fills'
       PROVE  LET p == orders[fills'[n].order]
                  held == b[n - 1][p.symbol]
              IN IF p.side = "BUY" THEN fills'[n].gain = 0
                 ELSE held.quantity > 0 /\ fills'[n].gain = p.price - averageCost(held)
  <2>1. CASE n \in 1..N
    <3>1. n - 1 \in 0..N /\ n \in DOMAIN fills /\ fills'[n] = fills[n]
      BY <1>3, <1>4, <2>1
    <3>2. b[n - 1] = a[n - 1]
      BY <1>7, <3>1
    <3>. QED  BY <1>8, <3>1, <3>2 DEF InTheBooks
  <2>2. CASE n = N + 1
    <3>1. n - 1 = N /\ b[n - 1] = lots
      BY <1>3, <1>9, <2>2
    <3>. QED  BY <1>4, <2>2, <3>1 DEF lot, o
  <2>. QED  BY <1>3, <1>4, <2>1, <2>2
<1>. QED  BY <1>4, <1>10, <1>11 DEF InTheBooks, b

\* What the books say was held.
LEMMA BooksAreLots ==
  ASSUME HistoryTypeOK, Chronicle(orders, fills, clock), InTheBooks(orders, fills, lots)
  PROVE  \A n \in 0..Len(fills) : books(orders, fills)[n] \in Lots
<1>. DEFINE a == books(orders, fills)
            N == Len(fills)
            T == {n \in Nat : n <= N => a[n] \in Lots}
<1>1. N \in Nat /\ DOMAIN fills = 1..N
  BY Rows
<1>2. Follows(a, orders, fills, N)
  BY <1>1, BooksFollow
<1>3. \A n \in DOMAIN fills :
        LET o == orders[fills[n].order]
            lot == a[n - 1][o.symbol]
        IN IF o.side = "BUY" THEN fills[n].gain = 0
           ELSE lot.quantity > 0 /\ fills[n].gain = o.price - averageCost(lot)
  BY DEF InTheBooks
<1>. HIDE DEF a, N
<1>4. 0 \in T
  <2>1. NoLots \in Lots
    BY DEF NoLots, Lots
  <2>. QED  BY <1>2, <2>1 DEF Follows
<1>5. ASSUME NEW n \in Nat, n \in T PROVE n + 1 \in T
  <2>. SUFFICES ASSUME n + 1 <= N PROVE a[n + 1] \in Lots
    OBVIOUS
  <2>. DEFINE o == orders[fills[n + 1].order]
              lot == a[n][o.symbol]
  <2>1. n + 1 \in 1..N /\ (n + 1) - 1 = n /\ n <= N /\ n + 1 \in DOMAIN fills
    BY <1>1
  <2>2. a[n] \in Lots /\ a[n + 1] = booked(a[n], o)
    BY <1>2, <1>5, <2>1 DEF Follows
  <2>3. o \in AnOrder
    <3>1. fills[n + 1].order \in DOMAIN orders
      BY <2>1, Rows
    <3>. QED  BY <3>1 DEF HistoryTypeOK
  <2>4. o.side = "BUY" \/ lot.quantity > 0
    BY <1>3, <2>1
  <2>. HIDE DEF o
  <2>5. lot \in [quantity : Int, cost : Nat] /\ o.price \in Nat /\ o.symbol \in Symbol
    BY <2>2, <2>3 DEF Lots, AnOrder
  <2>6. a[n + 1] = [a[n] EXCEPT ![o.symbol] = IF o.side = "BUY" THEN bought(lot, o) ELSE sold(lot)]
    BY <2>2 DEF booked
  <2>. HIDE DEF lot
  <2>7. bought(lot, o) \in [quantity : Int, cost : Nat]
    BY <2>5 DEF bought
  <2>8. lot.quantity > 0 => sold(lot) \in [quantity : Int, cost : Nat]
    BY <2>5, SoldLot
  <2>9. (IF o.side = "BUY" THEN bought(lot, o) ELSE sold(lot)) \in [quantity : Int, cost : Nat]
    BY <2>4, <2>7, <2>8
  <2>. QED  BY <2>2, <2>6, <2>9 DEF Lots
<1>. HIDE DEF T
<1>6. Nat \subseteq T
  BY <1>4, <1>5, NatSetInduction
<1>. QED  BY <1>6 DEF T, N, a
=============================================================================
