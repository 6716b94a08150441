-------------------------- MODULE IssuePages_proofs --------------------------
EXTENDS IssuePages, SequenceTheorems, FiniteSetTheorems, TLAPS

PageKey == [at : Nat, tie : Int]

-----------------------------------------------------------------------------
(***************************************************************************)
(* Order.  Keys are totally ordered by Precedes, so in a finite set every  *)
(* rank is taken once and Sorted lists the set in descending order.        *)
(***************************************************************************)

\* Precedes is a strict total order, and no key is the absent cursor.
LEMMA KeyOrder ==
    /\ None \notin PageKey
    /\ \A k \in PageKey : ~Precedes(k, k)
    /\ \A k, l \in PageKey : k = l \/ Precedes(k, l) \/ Precedes(l, k)
    /\ \A k, l \in PageKey : ~(Precedes(k, l) /\ Precedes(l, k))
    /\ \A k, l, m \in PageKey : Precedes(k, l) /\ Precedes(l, m) => Precedes(k, m)
<1>1. None \notin PageKey
  BY DEF None, PageKey
<1>2. \A k, l \in PageKey : k.at = l.at /\ k.tie = l.tie => k = l
  BY DEF PageKey
<1> QED
  BY <1>1, <1>2 DEF Precedes, PageKey

\* Ranks lie between 0 and the number of the others.
LEMMA RankBounds ==
    ASSUME NEW S \in SUBSET PageKey, IsFiniteSet(S), NEW k \in S
    PROVE  /\ IsFiniteSet({p \in S : Precedes(p, k)})
           /\ Cardinality(S) \in Nat \ {0}
           /\ Rank(k, S) \in 0..(Cardinality(S) - 1)
<1> DEFINE N == {p \in S : Precedes(p, k)}
<1>1. ~Precedes(k, k)
  BY KeyOrder
<1>2. N \in SUBSET (S \ {k})
  BY <1>1
<1>3. /\ IsFiniteSet(S \ {k})
      /\ Cardinality(S \ {k}) = IF k \in S THEN Cardinality(S) - 1 ELSE Cardinality(S)
  BY FS_RemoveElement
<1>4. IsFiniteSet(N) /\ Cardinality(N) <= Cardinality(S \ {k})
  BY <1>2, <1>3, FS_Subset
<1>5. Cardinality(N) \in Nat /\ Cardinality(S) \in Nat /\ Cardinality(S \ {k}) \in Nat
  BY <1>3, <1>4, FS_CardinalityType
<1>6. Rank(k, S) = Cardinality(N)
  BY DEF Rank
<1> HIDE DEF N
<1>7. Cardinality(S) \in Nat \ {0} /\ Rank(k, S) \in 0..(Cardinality(S) - 1)
  BY <1>3, <1>4, <1>5, <1>6
<1> QED
  BY <1>4, <1>7 DEF N

\* What precedes has the smaller rank.
LEMMA RankOrder ==
    ASSUME NEW S \in SUBSET PageKey, IsFiniteSet(S), NEW k \in S, NEW l \in S, Precedes(k, l)
    PROVE  Rank(k, S) < Rank(l, S)
<1> DEFINE N == {p \in S : Precedes(p, k)}
           M == {p \in S : Precedes(p, l)}
<1>1. ~Precedes(k, k) /\ \A p \in S : Precedes(p, k) => Precedes(p, l)
  BY KeyOrder
<1>2. k \notin N /\ N \cup {k} \in SUBSET M
  BY <1>1
<1>3. IsFiniteSet(N) /\ IsFiniteSet(M)
  BY RankBounds
<1> HIDE DEF N, M
<1>4. Cardinality(N \cup {k}) = IF k \in N THEN Cardinality(N) ELSE Cardinality(N) + 1
  BY <1>3, FS_AddElement
<1>5. Cardinality(N \cup {k}) <= Cardinality(M)
  BY <1>2, <1>3, FS_Subset
<1>6. Cardinality(N) \in Nat /\ Cardinality(M) \in Nat
  BY <1>3, FS_CardinalityType
<1>7. Cardinality(N) < Cardinality(M)
  BY <1>2, <1>4, <1>5, <1>6
<1> QED
  BY <1>7 DEF N, M, Rank

\* Two keys do not share a rank, and the smaller rank precedes.
LEMMA RankInjective ==
    ASSUME NEW S \in SUBSET PageKey, IsFiniteSet(S), NEW k \in S, NEW l \in S
    PROVE  /\ Rank(k, S) = Rank(l, S) => k = l
           /\ Rank(k, S) < Rank(l, S) => Precedes(k, l)
<1>1. k = l \/ Precedes(k, l) \/ Precedes(l, k)
  BY KeyOrder
<1>2. Rank(k, S) \in Nat /\ Rank(l, S) \in Nat
  <2>1. /\ Cardinality(S) \in Nat \ {0}
        /\ Rank(k, S) \in 0..(Cardinality(S) - 1) /\ Rank(l, S) \in 0..(Cardinality(S) - 1)
    BY RankBounds
  <2> QED
    BY <2>1
<1>3. Precedes(k, l) => Rank(k, S) < Rank(l, S)
  BY RankOrder
<1>4. Precedes(l, k) => Rank(l, S) < Rank(k, S)
  BY RankOrder
<1> QED
  BY <1>1, <1>2, <1>3, <1>4

\* Every rank is taken.
LEMMA RankReached ==
    ASSUME NEW S \in SUBSET PageKey, IsFiniteSet(S), NEW r \in 0..(Cardinality(S) - 1)
    PROVE  \E k \in S : Rank(k, S) = r
<1> DEFINE T == 0..(Cardinality(S) - 1)
           f == [k \in S |-> Rank(k, S)]
<1>1. Cardinality(S) \in Nat
  BY FS_CardinalityType
<1>2. f \in [S -> T]
  BY RankBounds
<1>3. \A k, l \in S : f[k] = f[l] => k = l
  BY RankInjective
<1>4. f \in Injection(S, T)
  BY <1>2, <1>3, Zenon DEF Injection, IsInjective
<1>5. /\ IsFiniteSet(T)
      /\ Cardinality(T) = IF 0 > Cardinality(S) - 1 THEN 0 ELSE Cardinality(S) - 1 - 0 + 1
  <2>1. 0 \in Int /\ Cardinality(S) - 1 \in Int
    BY <1>1
  <2> QED
    BY <2>1, FS_Interval
<1>6. Cardinality(T) = Cardinality(S)
  BY <1>1, <1>5
<1> HIDE DEF T, f
<1>7. f \in Surjection(S, T)
  BY <1>4, <1>5, <1>6, FS_Injection
<1>8. \E k \in S : f[k] = r
  BY <1>7 DEF T, Surjection
<1> QED
  BY <1>8 DEF f

\* The list e of the set S: all of it, each once, descending.
Lists(e, S) ==
    /\ e \in Seq(S) /\ Len(e) = Cardinality(S) /\ Cardinality(S) \in Nat
    /\ \A i \in 1..Cardinality(S) : e[i] \in S /\ Rank(e[i], S) = i - 1
    /\ \A k \in S : \E i \in 1..Cardinality(S) : e[i] = k
    /\ \A i, j \in 1..Cardinality(S) : i < j => Precedes(e[i], e[j])

LEMMA SortedLists ==
    ASSUME NEW S \in SUBSET PageKey, IsFiniteSet(S)
    PROVE  Lists(Sorted(S), S)
<1> DEFINE e == Sorted(S)
           n == Cardinality(S)
<1>1. n \in Nat
  BY FS_CardinalityType
<1>2. e = [i \in 1..n |-> CHOOSE k \in S : Rank(k, S) = i - 1]
  BY DEF Sorted
<1> HIDE DEF e
<1>3. \A i \in 1..n : e[i] \in S /\ Rank(e[i], S) = i - 1
  <2> TAKE i \in 1..n
  <2>1. i - 1 \in 0..(n - 1)
    BY <1>1
  <2>2. \E k \in S : Rank(k, S) = i - 1
    BY <2>1, RankReached
  <2> QED
    BY <1>2, <2>2
<1>4. e \in Seq(S) /\ Len(e) = n
  BY <1>1, <1>2, <1>3
<1>5. ASSUME NEW k \in S
      PROVE  \E i \in 1..n : e[i] = k
  <2>1. PICK r \in 0..(n - 1) : r = Rank(k, S)
    BY RankBounds
  <2>2. r + 1 \in 1..n /\ r + 1 - 1 = r
    BY <1>1, <2>1
  <2>3. e[r + 1] \in S /\ Rank(e[r + 1], S) = Rank(k, S)
    BY <1>3, <2>1, <2>2
  <2> QED
    BY <2>2, <2>3, RankInjective
<1>6. \A i, j \in 1..n : i < j => Precedes(e[i], e[j])
  <2> SUFFICES ASSUME NEW i \in 1..n, NEW j \in 1..n, i < j
               PROVE  Precedes(e[i], e[j])
    OBVIOUS
  <2>1. i - 1 < j - 1
    BY <1>1
  <2>2. Rank(e[i], S) < Rank(e[j], S) /\ e[i] \in S /\ e[j] \in S
    BY <1>3, <2>1
  <2> QED
    BY <2>2, RankInjective
<1> QED
  BY <1>1, <1>3, <1>4, <1>5, <1>6 DEF Lists, e
-----------------------------------------------------------------------------
(***************************************************************************)
(* Pages.                                                                  *)
(***************************************************************************)

\* The smaller and the larger of two numbers.
LEMMA OfTwo ==
    ASSUME NEW a \in Int, NEW b \in Int
    PROVE  /\ Min({a, b}) = IF a <= b THEN a ELSE b
           /\ Max({a, b}) = IF a >= b THEN a ELSE b
<1>1. Min({a, b}) \in {a, b} /\ \A x \in {a, b} : Min({a, b}) <= x
  <2>1. \E x \in {a, b} : \A y \in {a, b} : x <= y
    OBVIOUS
  <2> QED
    BY <2>1 DEF Min
<1>2. Max({a, b}) \in {a, b} /\ \A x \in {a, b} : Max({a, b}) >= x
  <2>1. \E x \in {a, b} : \A y \in {a, b} : x >= y
    OBVIOUS
  <2> QED
    BY <2>1 DEF Max
<1> QED
  BY <1>1, <1>2

\* Stretches of a list.
LEMMA Stretch ==
    ASSUME NEW S, NEW e \in Seq(S), NEW a \in Nat \ {0}, NEW b \in Nat, b <= Len(e)
    PROVE  /\ SubSeq(e, a, b) \in Seq(S)
           /\ Len(SubSeq(e, a, b)) = IF a <= b THEN b - a + 1 ELSE 0
           /\ \A i \in 1..Len(SubSeq(e, a, b)) : SubSeq(e, a, b)[i] = e[a + i - 1]
<1>1. a \in Int /\ b \in Int /\ \A i \in a..b : e[i] \in S
  OBVIOUS
<1>2. /\ SubSeq(e, a, b) \in Seq(S)
      /\ Len(SubSeq(e, a, b)) = IF a <= b THEN b - a + 1 ELSE 0
      /\ \A i \in 1..(b - a + 1) : SubSeq(e, a, b)[i] = e[a + i - 1]
  BY <1>1, SubSeqProperties
<1> QED
  BY <1>2

\* A page of the keys T that are after the cursor.
PageOf(page, T) ==
    /\ page.items \in Seq(T) /\ page.next \in T \cup {None}
    /\ \A i, j \in DOMAIN page.items : i < j => Precedes(page.items[i], page.items[j])
    /\ page.next = None => \A k \in T : k \in Range(page.items)
    /\ page.next # None =>
          \A k \in T : k \in Range(page.items) <=> ~Precedes(page.next, k)

\* Every page of a walk is one.
LEMMA WalkPage ==
    ASSUME NEW S \in SUBSET PageKey, IsFiniteSet(S), NEW after, NEW limit \in Nat \ {0}
    PROVE  PageOf(SQLitePage(S, after, limit, 0), {k \in S : After(k, after)})
<1> DEFINE T == {k \in S : After(k, after)}
           n == Cardinality(T)
           all == Sorted(T)
           page == SQLitePage(S, after, limit, 0)
<1>1. T \in SUBSET PageKey /\ IsFiniteSet(T)
  <2>1. T \in SUBSET S
    OBVIOUS
  <2> HIDE DEF T
  <2> QED
    BY <2>1, FS_Subset
<1>2. Lists(all, T)
  BY <1>1, SortedLists
<1> DEFINE m == Min({limit + 1, Len(all)})
           rows == SubSeq(all, 1, m)
<1>3. page = IF Len(rows) > limit
             THEN [items |-> SubSeq(rows, 1, limit), total |-> Cardinality(S),
                   next |-> rows[limit]]
             ELSE [items |-> rows, total |-> Cardinality(S), next |-> None]
  <2>1. 0 + limit + 1 = limit + 1 /\ 0 + 1 = 1 /\ (IF after = None THEN 0 ELSE 0) = 0
    OBVIOUS
  <2> QED
    BY <2>1 DEF SQLitePage
<1> HIDE DEF T, all, page
<1>4. /\ n \in Nat /\ Len(all) = n /\ all \in Seq(T)
      /\ \A i \in 1..n : all[i] \in T
      /\ \A k \in T : \E i \in 1..n : all[i] = k
      /\ \A i, j \in 1..n : i < j => Precedes(all[i], all[j])
  BY <1>2 DEF Lists
<1> HIDE DEF n
<1>5. m = (IF limit + 1 <= n THEN limit + 1 ELSE n) /\ m \in Nat
  BY <1>4, OfTwo
<1> HIDE DEF m
<1>6. /\ rows \in Seq(T) /\ Len(rows) = m
      /\ \A i \in 1..m : rows[i] = all[i]
  <2>1. m <= Len(all) /\ 1 \in Nat \ {0}
    BY <1>4, <1>5
  <2>2. /\ rows \in Seq(T) /\ Len(rows) = IF 1 <= m THEN m - 1 + 1 ELSE 0
        /\ \A i \in 1..Len(rows) : rows[i] = all[1 + i - 1]
    BY <1>4, <1>5, <2>1, Stretch
  <2> QED
    BY <1>5, <2>2
<1> HIDE DEF rows
<1>7. CASE Len(rows) > limit
  <2> DEFINE items == SubSeq(rows, 1, limit)
  <2>1. m = limit + 1 /\ limit < n
    BY <1>4, <1>5, <1>6, <1>7
  <2>2. /\ items \in Seq(T) /\ Len(items) = limit
        /\ \A i \in 1..limit : items[i] = all[i]
    <3>1. limit <= Len(rows) /\ limit \in Nat /\ 1 \in Nat \ {0}
      BY <1>7, <1>5, <1>6
    <3>2. /\ items \in Seq(T) /\ Len(items) = IF 1 <= limit THEN limit - 1 + 1 ELSE 0
          /\ \A i \in 1..Len(items) : items[i] = rows[1 + i - 1]
      BY <1>6, <3>1, Stretch
    <3> HIDE DEF items
    <3> QED
      BY <1>6, <2>1, <3>2
  <2>3. page.items = items /\ page.next = all[limit]
    BY <1>3, <1>6, <1>7, <2>1
  <2> HIDE DEF items
  <2>4. page.next \in T /\ page.next # None
    BY <1>1, <1>4, <2>1, <2>3, KeyOrder
  <2>5. DOMAIN items = 1..limit /\ Range(items) = {all[i] : i \in 1..limit}
    BY <2>2 DEF Range
  <2>6. ASSUME NEW k \in T
        PROVE  k \in Range(items) <=> ~Precedes(all[limit], k)
    <3>1. PICK i \in 1..n : all[i] = k
      BY <1>4
    <3>2. i < limit => Precedes(k, all[limit])
      BY <1>4, <2>1, <3>1
    <3>3. i > limit => Precedes(all[limit], k)
      BY <1>4, <2>1, <3>1
    <3>4. k \in PageKey /\ all[limit] \in PageKey
      BY <1>1, <2>3, <2>4
    <3>5. i <= limit => ~Precedes(all[limit], k)
      BY <3>1, <3>2, <3>4, <1>4, KeyOrder
    <3>6. i <= limit => k \in Range(items)
      BY <1>4, <2>5, <3>1
    <3>7. k \in Range(items) => i <= limit
      <4> SUFFICES ASSUME NEW j \in 1..limit, all[j] = k, i > limit PROVE FALSE
        BY <1>4, <2>5
      <4>1. j \in 1..n /\ j < i
        BY <1>4, <2>1
      <4>2. Precedes(k, k)
        BY <1>4, <3>1, <4>1
      <4> QED
        BY <3>4, <4>2, KeyOrder
    <3> QED
      BY <1>4, <3>3, <3>5, <3>6, <3>7
  <2>7. \A i, j \in DOMAIN items : i < j => Precedes(items[i], items[j])
    BY <1>4, <2>1, <2>2, <2>5
  <2> QED
    BY <2>2, <2>3, <2>4, <2>6, <2>7 DEF PageOf, page, T
<1>8. CASE ~(Len(rows) > limit)
  <2>1. m = n /\ page.items = rows /\ page.next = None
    BY <1>3, <1>4, <1>5, <1>6, <1>8
  <2>2. DOMAIN rows = 1..n
    BY <1>6, <2>1
  <2>3. \A k \in T : k \in Range(rows)
    BY <1>4, <1>6, <2>1, <2>2 DEF Range
  <2>4. \A i, j \in DOMAIN rows : i < j => Precedes(rows[i], rows[j])
    BY <1>4, <1>6, <2>1, <2>2
  <2> QED
    BY <1>6, <2>1, <2>3, <2>4 DEF PageOf, page, T
<1> QED
  BY <1>7, <1>8
\* What follows a cursor is the end of the list, and sort.Search finds where it
\* begins.
LEMMA RestOfList ==
    ASSUME NEW S \in SUBSET PageKey, IsFiniteSet(S), NEW c \in PageKey,
           NEW T, T = {k \in S : Precedes(c, k)}
    PROVE  \E d \in Nat :
              /\ Cardinality(S) = d + Cardinality(T)
              /\ Passed(Sorted(S), c) = d
              /\ \A i \in 1..Cardinality(T) : Sorted(T)[i] = Sorted(S)[d + i]
<1> DEFINE U == S \ T
           d == Cardinality(U)
           n == Cardinality(S)
           m == Cardinality(T)
           e == Sorted(S)
           t == Sorted(T)
<1>1. T \in SUBSET S /\ U \in SUBSET S /\ T \in SUBSET PageKey
  OBVIOUS
<1>2. IsFiniteSet(T) /\ IsFiniteSet(U)
  BY <1>1, FS_Subset
<1>3. Lists(e, S) /\ Lists(t, T)
  BY <1>1, <1>2, SortedLists
<1>4. d \in Nat /\ n \in Nat /\ m \in Nat
  BY <1>2, FS_CardinalityType
<1>5. n = d + m
  <2>1. U \cap T = {} /\ U \cup T = S
    OBVIOUS
  <2>2. Cardinality(U \cup T) = Cardinality(U) + Cardinality(T) - Cardinality(U \cap T)
    BY <1>2, FS_Union
  <2> HIDE DEF U
  <2>3. Cardinality(U \cap T) = 0
    BY <2>1, FS_EmptySet
  <2> QED
    BY <1>4, <2>1, <2>2, <2>3
\* Everything up to the cursor precedes everything after it.
<1>6. ASSUME NEW p \in U, NEW k \in T
      PROVE  Precedes(p, k)
  <2>1. p \in PageKey /\ k \in PageKey /\ Precedes(c, k) /\ ~Precedes(c, p)
    OBVIOUS
  <2>2. p = c \/ Precedes(p, c)
    BY <2>1, KeyOrder
  <2> QED
    BY <2>1, <2>2, KeyOrder
<1>7. ASSUME NEW k \in T
      PROVE  Rank(k, S) = d + Rank(k, T)
  <2> DEFINE V == {p \in T : Precedes(p, k)}
  <2>1. {p \in S : Precedes(p, k)} = U \cup V
    BY <1>6
  <2>2. U \cap V = {}
    OBVIOUS
  <2>3. IsFiniteSet(V)
    BY <1>1, <1>2, RankBounds
  <2> HIDE DEF U, V
  <2>4. Cardinality(U \cup V) = Cardinality(U) + Cardinality(V) - Cardinality(U \cap V)
    BY <1>2, <2>3, FS_Union
  <2>5. Cardinality(U \cap V) = 0 /\ Cardinality(V) \in Nat
    BY <2>2, <2>3, FS_EmptySet, FS_CardinalityType
  <2>6. Cardinality(U \cup V) = Cardinality(U) + Cardinality(V)
    BY <1>4, <2>4, <2>5
  <2>7. Rank(k, S) = Cardinality(U \cup V) /\ Rank(k, T) = Cardinality(V)
    BY <2>1 DEF Rank, V
  <2> QED
    BY <2>6, <2>7
<1>8. /\ Len(e) = n
      /\ \A i \in 1..n : e[i] \in S /\ Rank(e[i], S) = i - 1
      /\ \A i \in 1..m : t[i] \in T /\ Rank(t[i], T) = i - 1
  BY <1>3 DEF Lists
<1>9. \A k \in S : k \in T <=> Precedes(c, k)
  OBVIOUS
<1> HIDE DEF U, d, n, m, e, t
<1>10. ASSUME NEW i \in 1..m
       PROVE  t[i] = e[d + i]
  <2>0. PICK g : g = d + i
    OBVIOUS
  <2>1. g = d + i /\ g \in 1..n /\ g - 1 = d + (i - 1)
    BY <1>4, <1>5, <2>0
  <2>2. t[i] \in T /\ Rank(t[i], T) = i - 1
    BY <1>8
  <2>3. Rank(t[i], S) = d + (i - 1)
    BY <1>7, <2>2
  <2>4. e[g] \in S /\ Rank(e[g], S) = g - 1
    BY <1>8, <2>1
  <2>5. t[i] \in S
    BY <1>1, <2>2
  <2> QED
    BY <2>1, <2>3, <2>4, <2>5, RankInjective
<1>11. \A i \in 1..n : i > d => Precedes(c, e[i])
  <2> SUFFICES ASSUME NEW i \in 1..n, i > d PROVE Precedes(c, e[i])
    OBVIOUS
  <2>1. PICK j \in 1..m : i = d + j
    <3>1. i - d \in 1..m /\ i = d + (i - d)
      BY <1>4, <1>5
    <3> QED
      BY <3>1
  <2>2. t[j] = e[i] /\ t[j] \in T
    BY <1>8, <1>10, <2>1
  <2> QED
    BY <1>1, <1>9, <2>2
<1>12. \A i \in 1..n : i <= d => ~Precedes(c, e[i])
  <2> SUFFICES ASSUME NEW i \in 1..n, i <= d, Precedes(c, e[i]) PROVE FALSE
    OBVIOUS
  <2>1. e[i] \in T /\ Rank(e[i], S) = i - 1
    BY <1>8, <1>9
  <2>2. PICK r \in 0..(m - 1) : r = Rank(e[i], T)
    <3>1. Rank(e[i], T) \in 0..(Cardinality(T) - 1)
      BY <1>1, <1>2, <2>1, RankBounds
    <3> QED
      BY <3>1 DEF m
  <2>3. i - 1 = d + r
    BY <1>7, <2>1, <2>2
  <2> QED
    BY <1>4, <2>2, <2>3
<1>13. Passed(e, c) = d
  <2> DEFINE P(i) == /\ i = n \/ Precedes(c, e[i + 1])
                     /\ \A j \in 1..i : ~Precedes(c, e[j])
  <2>1. d \in 0..n /\ P(d)
    <3>1. d \in 0..n /\ \A j \in 1..d : j \in 1..n /\ j <= d
      BY <1>4, <1>5
    <3>2. d = n \/ (d + 1 \in 1..n /\ d + 1 > d)
      BY <1>4, <1>5
    <3> QED
      BY <1>11, <1>12, <3>1, <3>2
  <2>2. ASSUME NEW i \in 0..n, P(i)
        PROVE  i = d
    <3>1. CASE i > d
      <4>1. d + 1 \in 1..i /\ d + 1 \in 1..n /\ d + 1 > d
        BY <1>4, <3>1
      <4> QED
        BY <1>11, <2>2, <4>1
    <3>2. CASE i < d
      <4>1. i # n /\ i + 1 \in 1..n /\ i + 1 <= d
        BY <1>4, <1>5, <3>2
      <4> QED
        BY <1>12, <2>2, <4>1
    <3> QED
      BY <1>4, <3>1, <3>2
  <2>3. Passed(e, c) = CHOOSE i \in 0..n : P(i)
    BY <1>8 DEF Passed
  <2> HIDE DEF P
  <2> QED
    BY <2>1, <2>2, <2>3
<1> QED
  BY <1>4, <1>5, <1>10, <1>13 DEF d, n, m, e, t

\* Both stores' pages, from every cursor or offset and of every size.
LEMMA PagesAgree ==
    ASSUME NEW S \in SUBSET PageKey, IsFiniteSet(S), NEW after \in PageKey \cup {None},
           NEW limit \in Nat \ {0}, NEW offset \in Nat
    PROVE  MemoryPage(S, after, limit, offset) = SQLitePage(S, after, limit, offset)
<1> DEFINE T == {k \in S : After(k, after)}
           e == Sorted(S)
           t == Sorted(T)
           n == Cardinality(S)
           m == Cardinality(T)
           skip == IF after = None THEN offset ELSE 0
           start == IF after = None THEN Min({offset, n}) ELSE Passed(e, after)
           end == Min({start + limit, n})
           rows == SubSeq(t, skip + 1, Min({skip + limit + 1, m}))
<1>1. T \in SUBSET S /\ T \in SUBSET PageKey
  OBVIOUS
<1>2. IsFiniteSet(T)
  BY <1>1, FS_Subset
<1>3. Lists(e, S) /\ Lists(t, T)
  BY <1>1, <1>2, SortedLists
<1>4. /\ n \in Nat /\ m \in Nat /\ Len(e) = n /\ Len(t) = m
      /\ e \in Seq(PageKey) /\ t \in Seq(PageKey)
  <2>1. /\ n \in Nat /\ m \in Nat /\ Len(e) = n /\ Len(t) = m
        /\ e \in Seq(S) /\ t \in Seq(T)
    BY <1>3 DEF Lists
  <2> HIDE DEF e, t, n, m, T
  <2>2. e \in Seq(PageKey) /\ t \in Seq(PageKey)
    BY <1>1, <2>1
  <2> QED
    BY <2>1, <2>2
<1>5. /\ MemoryPage(S, after, limit, offset) =
            [items |-> SubSeq(e, start + 1, end), total |-> n,
             next |-> IF end < n /\ end > start THEN e[end] ELSE None]
      /\ SQLitePage(S, after, limit, offset) =
            IF Len(rows) > limit
            THEN [items |-> SubSeq(rows, 1, limit), total |-> n, next |-> rows[limit]]
            ELSE [items |-> rows, total |-> n, next |-> None]
  BY <1>4 DEF MemoryPage, SQLitePage
\* Where the rows of the one begin in the list of the other.
<1>6. \E d \in Nat : /\ n = d + m
                     /\ \A i \in 1..m : t[i] = e[d + i]
                     /\ IF after = None THEN d = 0 ELSE start = d
  <2>1. CASE after = None
    <3>1. T = S
      BY <2>1 DEF After
    <3> HIDE DEF T
    <3>2. t = e /\ m = n
      BY <3>1
    <3> HIDE DEF t, e, m, n
    <3>3. 0 \in Nat /\ n = 0 + m /\ \A i \in 1..m : t[i] = e[0 + i]
      BY <1>4, <3>2
    <3> QED
      BY <2>1, <3>3
  <2>2. CASE after # None
    <3>1. after \in PageKey /\ T = {k \in S : Precedes(after, k)}
      BY <2>2 DEF After
    <3>2. start = Passed(Sorted(S), after)
      BY <2>2
    <3> HIDE DEF T, start
    <3> QED
      BY <2>2, <3>1, <3>2, RestOfList
  <2> QED
    BY <2>1, <2>2
<1>7. PICK d \in Nat : /\ n = d + m
                       /\ \A i \in 1..m : t[i] = e[d + i]
                       /\ IF after = None THEN d = 0 ELSE start = d
  BY <1>6
<1>8. skip \in Nat
  OBVIOUS
<1>9. start = IF after = None THEN (IF offset <= n THEN offset ELSE n) ELSE d
  BY <1>4, <1>7, OfTwo
<1>10. start \in Nat /\ start <= n /\ (start = d + skip \/ (start = n /\ d + skip > n))
  BY <1>4, <1>7, <1>9
<1> DEFINE last == Min({skip + limit + 1, m})
<1> HIDE DEF e, t, n, m, T, skip, start
<1>11. end = (IF start + limit <= n THEN start + limit ELSE n) /\ end \in Nat /\ end <= n
  <2>1. start + limit \in Int /\ n \in Int
    BY <1>4, <1>10
  <2>2. end = IF start + limit <= n THEN start + limit ELSE n
    BY <2>1, OfTwo
  <2> HIDE DEF end
  <2> QED
    BY <1>4, <1>10, <2>2
<1>12. last = (IF skip + limit + 1 <= m THEN skip + limit + 1 ELSE m) /\ last \in Nat /\ last <= m
  <2>1. skip + limit + 1 \in Int /\ m \in Int
    BY <1>4, <1>8
  <2>2. last = IF skip + limit + 1 <= m THEN skip + limit + 1 ELSE m
    BY <2>1, OfTwo
  <2> HIDE DEF last
  <2> QED
    BY <1>4, <1>8, <2>2
<1>13. rows = SubSeq(t, skip + 1, last)
  OBVIOUS
<1>14. PICK shown : shown = SubSeq(e, start + 1, end)
  OBVIOUS
<1> HIDE DEF end, last, rows
<1>15. /\ rows \in Seq(PageKey)
       /\ Len(rows) = IF skip + 1 <= last THEN last - (skip + 1) + 1 ELSE 0
       /\ \A i \in 1..Len(rows) : rows[i] = t[skip + 1 + i - 1]
  <2>1. skip + 1 \in Nat \ {0} /\ last <= Len(t)
    BY <1>4, <1>8, <1>12
  <2> QED
    BY <1>4, <1>12, <1>13, <2>1, Stretch, SMTT(60)
<1>16. /\ shown \in Seq(PageKey)
       /\ Len(shown) = IF start + 1 <= end THEN end - (start + 1) + 1 ELSE 0
       /\ \A i \in 1..Len(shown) : shown[i] = e[start + 1 + i - 1]
  <2>1. start + 1 \in Nat \ {0} /\ end <= Len(e)
    BY <1>4, <1>10, <1>11
  <2> QED
    BY <1>4, <1>11, <1>14, <2>1, Stretch, SMTT(60)
<1>17. CASE Len(rows) > limit
  <2>1. last = skip + limit + 1 /\ skip + limit < m
    BY <1>8, <1>12, <1>15, <1>17, <1>4
  <2>2. start = d + skip /\ end = start + limit /\ end < n /\ end > start
    BY <2>1, <1>4, <1>7, <1>8, <1>10, <1>11
  <2>3. PICK items : items = SubSeq(rows, 1, limit)
    OBVIOUS
  <2>4. /\ items \in Seq(PageKey) /\ Len(items) = limit
        /\ \A i \in 1..limit : items[i] = rows[i]
    <3>0. Len(rows) = last - (skip + 1) + 1
      BY <1>15, <2>1, <1>8
    <3>1. limit <= Len(rows) /\ limit \in Nat /\ 1 \in Nat \ {0}
      BY <3>0, <2>1, <1>8
    <3>2. /\ items \in Seq(PageKey) /\ Len(items) = IF 1 <= limit THEN limit - 1 + 1 ELSE 0
          /\ \A i \in 1..Len(items) : items[i] = rows[1 + i - 1]
      BY <1>15, <2>3, <3>1, Stretch
    <3> QED
      BY <3>2
  <2>5. Len(shown) = limit
    BY <1>16, <2>2, <1>10
  <2>6. ASSUME NEW i \in 1..limit
        PROVE  rows[i] = e[start + i]
    <3>1. i \in 1..Len(rows) /\ skip + i \in 1..m /\ skip + 1 + i - 1 = skip + i
      BY <1>8, <1>15, <1>17, <2>1, <1>4
    <3>2. rows[i] = t[skip + i]
      BY <1>15, <3>1
    <3>3. t[skip + i] = e[d + (skip + i)]
      BY <1>7, <3>1
    <3>4. d + (skip + i) = start + i
      BY <2>2, <1>8, <1>10
    <3> QED
      BY <3>2, <3>3, <3>4
  <2>7. \A i \in 1..limit : shown[i] = e[start + i]
    <3> TAKE i \in 1..limit
    <3>1. start + 1 + i - 1 = start + i /\ i \in 1..Len(shown)
      BY <1>10, <2>5
    <3> QED
      BY <1>16, <3>1
  <2>8. items = shown
    <3>1. \A i \in 1..Len(items) : items[i] = shown[i]
      BY <2>4, <2>6, <2>7
    <3> QED
      BY <1>16, <2>4, <2>5, <3>1, SeqEqual
  <2>9. rows[limit] = e[end]
    <3>1. limit \in 1..limit
      OBVIOUS
    <3> QED
      BY <2>2, <2>6, <3>1
  <2> QED
    BY <1>5, <1>14, <1>17, <2>2, <2>3, <2>8, <2>9
<1>18. CASE ~(Len(rows) > limit)
  <2>1. ~(skip + limit < m)
    BY <1>4, <1>8, <1>12, <1>15, <1>18
  <2>2. end = n
    BY <2>1, <1>4, <1>7, <1>8, <1>10, <1>11
  <2>3. last = m
    BY <2>1, <1>4, <1>8, <1>12
  <2>4. Len(rows) = Len(shown)
    <3>1. CASE start = d + skip
      BY <3>1, <2>2, <2>3, <1>4, <1>7, <1>8, <1>15, <1>16
    <3>2. CASE start = n /\ d + skip > n
      BY <3>2, <2>2, <2>3, <1>4, <1>7, <1>8, <1>15, <1>16
    <3> QED
      BY <1>10, <3>1, <3>2
  <2>5. ASSUME NEW i \in 1..Len(rows)
        PROVE  rows[i] = shown[i]
    <3>1. /\ Len(rows) = m - skip /\ Len(rows) \in Nat
          /\ i \in Int /\ 1 <= i /\ i <= m - skip
      BY <1>4, <1>8, <1>15, <2>3
    <3>2. start = d + skip
      BY <1>4, <1>7, <1>8, <1>10, <3>1
    <3>3. skip + i \in 1..m /\ skip + 1 + i - 1 = skip + i
      BY <1>4, <1>8, <3>1
    <3>4. rows[i] = t[skip + i]
      BY <1>15, <3>3
    <3>5. t[skip + i] = e[d + (skip + i)]
      BY <1>7, <3>3
    <3>6. d + (skip + i) = start + 1 + i - 1
      BY <1>8, <3>1, <3>2
    <3>7. shown[i] = e[start + 1 + i - 1]
      BY <1>16, <2>4
    <3> QED
      BY <3>4, <3>5, <3>6, <3>7
  <2>6. rows = shown
    BY <1>15, <1>16, <2>4, <2>5, SeqEqual
  <2>7. ~(end < n)
    BY <2>2, <1>4
  <2>8. MemoryPage(S, after, limit, offset) = [items |-> shown, total |-> n, next |-> None]
    BY <1>5, <1>14, <2>7
  <2>9. SQLitePage(S, after, limit, offset) = [items |-> rows, total |-> n, next |-> None]
    BY <1>5, <1>18
  <2> QED
    BY <2>6, <2>8, <2>9
<1> QED
  BY <1>17, <1>18
-----------------------------------------------------------------------------
(***************************************************************************)
(* The invariant.                                                          *)
(***************************************************************************)

\* A table: finitely many issues and events, with their times.
TableOK(table, rows) ==
    /\ DOMAIN table \subseteq Issue /\ IsFiniteSet(DOMAIN table)
    /\ \A f \in DOMAIN table : table[f].last \in Nat
    /\ IsFiniteSet(rows) /\ \A e \in rows : e.seq \in Nat /\ e.at \in Nat

WalkType ==
    [list : {"none", "issues", "events"}, status : Status \cup {""}, issue : Nat, limit : Nat \ {0},
     after : PageKey \cup {None}, state : {"none", "going", "done", "gone"},
     seen : Seq(PageKey), stable : SUBSET PageKey, removed : SUBSET Issue]

\* The parts of what a walk w has behind it.  Its keys descend, and until the
\* last page they end at the cursor.
Descends(w) ==
    /\ \A i, j \in DOMAIN w.seen : i < j => Precedes(w.seen[i], w.seen[j])
    /\ w.state # "done" =>
          /\ w.after = None => w.seen = <<>>
          /\ w.after # None => \A i \in DOMAIN w.seen :
                                  w.seen[i] = w.after \/ Precedes(w.seen[i], w.after)

\* An issue was deleted since its key was returned, or has the same key or an
\* earlier one in the list: this is why it is not met again.
StaysBehind(w, table) ==
    w.list = "issues" =>
       /\ \A i \in DOMAIN w.seen :
             \/ w.seen[i].tie \in w.removed
             \/ w.seen[i].tie \in DOMAIN table /\ table[w.seen[i].tie].last >= w.seen[i].at
       /\ \A i, j \in DOMAIN w.seen :
             i < j /\ w.seen[i].tie = w.seen[j].tie => w.seen[i].tie \in w.removed

\* What kept its place is listed still, and is returned when the cursor passes.
Complete(w, table, rows) ==
    /\ w.stable \subseteq Listed(w, table, rows)
    /\ \A k \in w.stable :
          k \in Range(w.seen) <=>
             (w.state = "done" \/ (w.after # None /\ ~Precedes(w.after, k)))

Follows(w, table, rows) ==
    w \in WalkType /\ Descends(w) /\ StaysBehind(w, table) /\ Complete(w, table, rows)

PagesInv ==
    /\ TableOK(issues, events) /\ now \in Nat /\ now >= 2 /\ sweep.cutoff \in Int
    /\ Follows(walk, issues, events)
\* The values of a function on a finite set are finitely many.
LEMMA FiniteValues ==
    ASSUME NEW S, IsFiniteSet(S), NEW g, g = [x \in S |-> g[x]]
    PROVE  IsFiniteSet({g[x] : x \in S})
<1> DEFINE T == {g[x] : x \in S}
<1>1. g \in [S -> T]
  OBVIOUS
<1>2. \A y \in T : \E x \in S : g[x] = y
  OBVIOUS
<1>3. g \in Surjection(S, T)
  BY <1>1, <1>2, Zenon DEF Surjection
<1> HIDE DEF T
<1>4. IsFiniteSet(T)
  BY <1>3, FS_Surjection
<1> QED
  BY <1>4 DEF T

\* Fingerprints, in the model.
LEMMA IssuesAreNumbers == IsFiniteSet(Issue) /\ \A f \in Issue : f \in Nat
BY ConstantsAssumption DEF ConstantsAssumption

\* The limits configured.
LEMMA LimitsAreNumbers ==
    MaxIssues \in Nat \ {0} /\ Days \in Nat \ {0} /\ PruneBatchSize \in Nat \ {0}
BY ConstantsAssumption DEF ConstantsAssumption

\* What a walk lists is a finite set of keys.
LEMMA ListedKeys ==
    ASSUME NEW table, NEW rows, TableOK(table, rows), NEW w
    PROVE  /\ Listed(w, table, rows) \in SUBSET PageKey
           /\ IsFiniteSet(Listed(w, table, rows))
<1>1. ASSUME NEW status
      PROVE  IssueKeys(table, status) \in SUBSET PageKey /\ IsFiniteSet(IssueKeys(table, status))
  <2> DEFINE S == {f \in DOMAIN table : status \in {"", table[f].status}}
             g == [f \in S |-> [at |-> table[f].last, tie |-> f]]
  <2>0. DOMAIN table \in SUBSET Issue /\ \A f \in DOMAIN table : table[f].last \in Nat
    BY DEF TableOK
  <2>1. \A f \in S : table[f].last \in Nat /\ f \in Int
    <3>1. \A f \in DOMAIN table : f \in Int
      BY <2>0, IssuesAreNumbers
    <3> QED
      BY <2>0, <3>1
  <2>2. IsFiniteSet(S)
    <3>1. S \in SUBSET DOMAIN table /\ IsFiniteSet(DOMAIN table)
      BY DEF TableOK
    <3> HIDE DEF S
    <3> QED
      BY <3>1, FS_Subset
  <2>3. IssueKeys(table, status) = {g[f] : f \in S}
    BY DEF IssueKeys
  <2>4. \A f \in S : g[f] \in PageKey
    BY <2>1 DEF PageKey
  <2>5. g = [f \in S |-> g[f]]
    OBVIOUS
  <2> HIDE DEF S, g
  <2>6. IsFiniteSet({g[f] : f \in S})
    BY <2>2, <2>5, FiniteValues
  <2> QED
    BY <2>3, <2>4, <2>6
<1>2. ASSUME NEW f
      PROVE  EventKeys(rows, f) \in SUBSET PageKey /\ IsFiniteSet(EventKeys(rows, f))
  <2> DEFINE S == {r \in rows : r.issue = f}
             g == [e \in S |-> [at |-> e.at, tie |-> -e.seq]]
  <2>1. \A e \in S : e.at \in Nat /\ -e.seq \in Int
    BY DEF TableOK
  <2>2. IsFiniteSet(S)
    <3>1. S \in SUBSET rows /\ IsFiniteSet(rows)
      BY DEF TableOK
    <3> HIDE DEF S
    <3> QED
      BY <3>1, FS_Subset
  <2>3. EventKeys(rows, f) = {g[e] : e \in S}
    BY DEF EventKeys
  <2>4. \A e \in S : g[e] \in PageKey
    BY <2>1 DEF PageKey
  <2>5. g = [e \in S |-> g[e]]
    OBVIOUS
  <2> HIDE DEF S, g
  <2>6. IsFiniteSet({g[e] : e \in S})
    BY <2>2, <2>5, FiniteValues
  <2> QED
    BY <2>3, <2>4, <2>6
<1>3. {} \in SUBSET PageKey /\ IsFiniteSet({})
  BY FS_EmptySet
<1> QED
  BY <1>1, <1>2, <1>3 DEF Listed

\* The largest of finitely many numbers.
LEMMA LargestOf ==
    ASSUME NEW N \in SUBSET Nat, IsFiniteSet(N), N # {}
    PROVE  Max(N) \in N /\ \A x \in N : Max(N) >= x
<1> DEFINE g == [x \in N |-> [at |-> x, tie |-> 0]]
           S == {g[x] : x \in N}
<1>1. g = [x \in N |-> g[x]] /\ \A x \in N : g[x] \in PageKey /\ g[x].at = x
  BY DEF PageKey
<1> HIDE DEF g
<1>2. S \in SUBSET PageKey /\ \A k \in S : k.at \in N
  BY <1>1
<1>3. IsFiniteSet(S)
  BY <1>1, FiniteValues
<1>4. \E k \in S : k \in S
  OBVIOUS
<1> HIDE DEF S
<1>5. PICK n : n = Cardinality(S)
  OBVIOUS
<1>6. n \in Nat \ {0}
  BY <1>2, <1>3, <1>4, <1>5, RankBounds
<1>7. PICK k \in S : Rank(k, S) = 0
  <2>1. 0 \in 0..(Cardinality(S) - 1)
    BY <1>5, <1>6
  <2> QED
    BY <1>2, <1>3, <2>1, RankReached
<1>8. \A l \in S : l.at <= k.at
  <2> TAKE l \in S
  <2>1. l = k \/ Precedes(k, l) \/ Precedes(l, k)
    BY <1>2, KeyOrder
  <2>2. ~Precedes(l, k)
    <3>1. Precedes(l, k) => Rank(l, S) < Rank(k, S)
      BY <1>2, <1>3, RankOrder
    <3>2. Rank(l, S) \in 0..(Cardinality(S) - 1)
      BY <1>2, <1>3, RankBounds
    <3> QED
      BY <1>5, <1>6, <1>7, <3>1, <3>2
  <2>3. l.at \in Nat /\ k.at \in Nat
    BY <1>2 DEF PageKey
  <2> QED
    BY <2>1, <2>2, <2>3 DEF Precedes
<1>9. k.at \in N /\ \A x \in N : x <= k.at
  BY <1>1, <1>2, <1>8 DEF S
<1>10. \E x \in N : \A y \in N : x >= y
  BY <1>9
<1> QED
  BY <1>10 DEF Max
-----------------------------------------------------------------------------
(***************************************************************************)
(* Pages and changes keep it.                                              *)
(***************************************************************************)

\* A page: the keys after the cursor, up to the next one.
LEMMA PageKeeps ==
    ASSUME NEW table, NEW rows, TableOK(table, rows),
           NEW w, Follows(w, table, rows), w.state = "going",
           NEW page, PageOf(page, {k \in Listed(w, table, rows) : After(k, w.after)}),
           NEW v, v = [w EXCEPT !.seen = @ \o page.items, !.after = page.next,
                                !.state = IF page.next = None THEN "done" ELSE "going"]
    PROVE  Follows(v, table, rows)
<1> DEFINE S == Listed(w, table, rows)
           T == {k \in S : After(k, w.after)}
           p == w.seen
           q == page.items
<1>1. w \in WalkType /\ Descends(w) /\ StaysBehind(w, table) /\ Complete(w, table, rows)
  BY DEF Follows
<1>2. /\ v.seen = p \o q /\ v.after = page.next
      /\ v.state = IF page.next = None THEN "done" ELSE "going"
      /\ v.list = w.list /\ v.status = w.status /\ v.issue = w.issue /\ v.limit = w.limit
      /\ v.stable = w.stable /\ v.removed = w.removed
  BY <1>1 DEF WalkType
<1>3. /\ S \in SUBSET PageKey /\ IsFiniteSet(S) /\ T \in SUBSET S
      /\ w.stable \in SUBSET S
  BY <1>1, ListedKeys DEF Complete
<1>4. /\ q \in Seq(T) /\ page.next \in T \cup {None}
      /\ \A i, j \in DOMAIN q : i < j => Precedes(q[i], q[j])
      /\ page.next = None => \A k \in T : k \in Range(q)
      /\ page.next # None => \A k \in T : k \in Range(q) <=> ~Precedes(page.next, k)
  BY DEF PageOf
<1>5. p \in Seq(PageKey) /\ w.after \in PageKey \cup {None}
  BY <1>1 DEF WalkType
<1>6. /\ w.after = None => p = <<>>
      /\ w.after # None => \A i \in DOMAIN p : p[i] = w.after \/ Precedes(p[i], w.after)
      /\ \A i, j \in DOMAIN p : i < j => Precedes(p[i], p[j])
  BY <1>1 DEF Descends
<1>7. \A k \in T : w.after # None => Precedes(w.after, k)
  BY DEF After
<1>8. Listed(v, table, rows) = S
  BY <1>2 DEF Listed
<1>9. q \in Seq(PageKey) /\ page.next \in PageKey \cup {None}
  <2> HIDE DEF S, T, q
  <2> QED
    BY <1>3, <1>4
<1>10. \A k \in S : k \in T <=> w.after = None \/ Precedes(w.after, k)
  BY DEF After
<1> HIDE DEF S, T, p, q
<1>11. /\ p \o q \in Seq(PageKey) /\ Len(p \o q) = Len(p) + Len(q)
       /\ \A i \in 1..Len(p) + Len(q) :
             (p \o q)[i] = IF i <= Len(p) THEN p[i] ELSE q[i - Len(p)]
       /\ Range(p \o q) = Range(p) \cup Range(q)
  BY <1>5, <1>9, ConcatProperties, RangeConcatenation
<1>12. PICK s : s = p \o q
  OBVIOUS
<1>13. /\ Len(p) \in Nat /\ Len(q) \in Nat /\ DOMAIN p = 1..Len(p) /\ DOMAIN q = 1..Len(q)
       /\ s \in Seq(PageKey) /\ DOMAIN s = 1..Len(p) + Len(q)
       /\ \A i \in DOMAIN s : i <= Len(p) => i \in DOMAIN p /\ s[i] = p[i]
       /\ \A i \in DOMAIN s : i > Len(p) => i - Len(p) \in DOMAIN q /\ s[i] = q[i - Len(p)]
  BY <1>5, <1>9, <1>11, <1>12
<1>14. \A i \in DOMAIN q : q[i] \in T
  BY <1>4
<1>15. \A i \in DOMAIN p : p[i] \in PageKey
  BY <1>5
\* The rows of the page come after those before it, and in order.
<1>16. \A i, j \in DOMAIN s : i < j => Precedes(s[i], s[j])
  <2> SUFFICES ASSUME NEW i \in DOMAIN s, NEW j \in DOMAIN s, i < j
               PROVE  Precedes(s[i], s[j])
    OBVIOUS
  <2>1. i \in Int /\ j \in Int
    BY <1>13
  <2>2. CASE j <= Len(p)
    BY <1>6, <1>13, <2>1, <2>2
  <2>3. CASE i > Len(p)
    <3>1. i - Len(p) < j - Len(p) /\ j > Len(p)
      BY <1>13, <2>1, <2>3
    <3> QED
      BY <1>4, <1>13, <2>3, <3>1
  <2>4. CASE i <= Len(p) /\ j > Len(p)
    <3>1. s[i] \in PageKey /\ i \in DOMAIN p /\ s[i] = p[i]
      BY <1>13, <1>15, <2>4
    <3>2. s[j] \in T /\ s[j] \in PageKey
      BY <1>3, <1>13, <1>14, <2>4
    <3>3. w.after # None
      <4>1. p # <<>>
        BY <1>13, <2>1, <2>4, <3>1
      <4> QED
        BY <1>6, <4>1
    <3>4. Precedes(w.after, s[j])
      BY <1>7, <3>2, <3>3
    <3>5. s[i] = w.after \/ Precedes(s[i], w.after)
      BY <1>6, <3>1, <3>3
    <3> QED
      BY <1>5, <3>1, <3>2, <3>3, <3>4, <3>5, KeyOrder
  <2> QED
    BY <1>13, <2>1, <2>2, <2>3, <2>4
<1>17. Range(s) = Range(p) \cup Range(q)
  BY <1>11, <1>12
<1>18. v.seen = s
  BY <1>2, <1>12
<1>19. Descends(v)
  <2>1. v.state # "done" => v.after # None
    BY <1>2
  <2>2. ASSUME v.after # None, NEW i \in DOMAIN s
        PROVE  s[i] = v.after \/ Precedes(s[i], v.after)
    <3>1. v.after \in T /\ v.after \in PageKey
      BY <1>2, <1>3, <1>4, <2>2
    <3>2. v.after \in Range(q)
      <4>1. ~Precedes(v.after, v.after)
        BY <3>1, KeyOrder
      <4> QED
        BY <1>2, <1>4, <2>2, <3>1, <4>1
    <3>3. s[i] \in PageKey
      BY <1>13
    <3>4. CASE i > Len(p)
      <4>1. s[i] \in T /\ s[i] \in Range(q)
        BY <1>13, <1>14, <3>4 DEF Range
      <4>2. ~Precedes(v.after, s[i])
        BY <1>2, <1>4, <2>2, <4>1
      <4> QED
        BY <3>1, <3>3, <4>2, KeyOrder
    <3>5. CASE i <= Len(p)
      <4>1. i \in DOMAIN p /\ s[i] = p[i] /\ p # <<>>
        BY <1>13, <3>5
      <4>2. w.after # None
        BY <1>6, <4>1
      <4>3. Precedes(w.after, v.after) /\ (s[i] = w.after \/ Precedes(s[i], w.after))
        BY <1>6, <1>7, <3>1, <4>1, <4>2
      <4> QED
        BY <1>5, <3>1, <3>3, <4>2, <4>3, KeyOrder
    <3> QED
      BY <1>13, <3>4, <3>5
  <2> QED
    BY <1>16, <1>18, <2>1, <2>2 DEF Descends
\* A key returned again would have to be behind itself.
<1>20. StaysBehind(v, table)
  <2> SUFFICES ASSUME w.list = "issues" PROVE StaysBehind(v, table)
    BY <1>2 DEF StaysBehind
  <2>1. /\ \A i \in DOMAIN p :
              \/ p[i].tie \in w.removed
              \/ p[i].tie \in DOMAIN table /\ table[p[i].tie].last >= p[i].at
        /\ \A i, j \in DOMAIN p : i < j /\ p[i].tie = p[j].tie => p[i].tie \in w.removed
    BY <1>1 DEF StaysBehind, p
  <2>2. \A k \in T : k.tie \in DOMAIN table /\ k.at = table[k.tie].last
    <3>1. S = IssueKeys(table, w.status)
      BY DEF S, Listed
    <3>2. \A k \in IssueKeys(table, w.status) :
             k.tie \in DOMAIN table /\ k.at = table[k.tie].last
      <4> DEFINE U == {g \in DOMAIN table : w.status \in {"", table[g].status}}
      <4>1. U \in SUBSET DOMAIN table
        OBVIOUS
      <4>2. IssueKeys(table, w.status) = {[at |-> table[f].last, tie |-> f] : f \in U}
        BY DEF IssueKeys
      <4> HIDE DEF U
      <4> QED
        BY <4>1, <4>2
    <3>3. \A k \in T : k \in S
      BY <1>3
    <3> QED
      BY <3>1, <3>2, <3>3
  <2>3. \A k \in T : k.at \in Nat
    BY <1>3 DEF PageKey
  <2>4. \A i \in DOMAIN s :
           \/ s[i].tie \in w.removed
           \/ s[i].tie \in DOMAIN table /\ table[s[i].tie].last >= s[i].at
    <3> TAKE i \in DOMAIN s
    <3>1. CASE i <= Len(p)
      BY <1>13, <2>1, <3>1
    <3>2. CASE i > Len(p)
      <4>1. s[i] \in T
        BY <1>13, <1>14, <3>2
      <4> QED
        BY <2>2, <2>3, <4>1
    <3> QED
      BY <1>13, <3>1, <3>2
  <2>5. ASSUME NEW i \in DOMAIN s, NEW j \in DOMAIN s, i < j, s[i].tie = s[j].tie
        PROVE  s[i].tie \in w.removed
    <3>1. CASE j <= Len(p)
      BY <1>13, <2>1, <2>5, <3>1
    <3>2. CASE j > Len(p)
      <4>1. s[j] \in T
        BY <1>13, <1>14, <3>2
      <4>2. s[j].at = table[s[i].tie].last /\ s[j].at \in Nat
        BY <2>2, <2>3, <2>5, <4>1
      <4>3. s[i] \in PageKey /\ s[j] \in PageKey /\ Precedes(s[i], s[j])
        BY <1>13, <1>16, <2>5
      <4>4. s[i].at > s[j].at
        BY <2>5, <4>3 DEF Precedes, PageKey
      <4>5. ~(table[s[i].tie].last >= s[i].at)
        BY <4>2, <4>3, <4>4 DEF PageKey
      <4> QED
        BY <2>4, <4>5
    <3> QED
      BY <1>13, <3>1, <3>2
  <2> QED
    BY <1>2, <1>18, <2>4, <2>5, ZenonT(60) DEF StaysBehind
\* What kept its place was behind the cursor, or is on this page, or follows.
<1>21. Complete(v, table, rows)
  <2>1. \A k \in w.stable : k \in Range(p) <=> (w.after # None /\ ~Precedes(w.after, k))
    BY <1>1 DEF Complete, p
  <2>2. ASSUME NEW k \in w.stable
        PROVE  k \in Range(s) <=>
                  (v.state = "done" \/ (v.after # None /\ ~Precedes(v.after, k)))
    <3>1. k \in S /\ k \in PageKey
      BY <1>3
    <3>2. CASE k \in T
      <4>1. k \notin Range(p)
        BY <1>10, <2>1, <3>1, <3>2
      <4> QED
        BY <1>2, <1>4, <1>17, <3>2, <4>1
    <3>3. CASE k \notin T
      <4>1. w.after # None /\ ~Precedes(w.after, k)
        BY <1>10, <3>1, <3>3
      <4>2. k \in Range(s)
        BY <1>17, <2>1, <4>1
      <4>3. v.after # None => ~Precedes(v.after, k)
        <5> SUFFICES ASSUME v.after # None, Precedes(v.after, k) PROVE FALSE
          OBVIOUS
        <5>1. v.after \in T /\ v.after \in PageKey
          BY <1>2, <1>3, <1>4
        <5>2. Precedes(w.after, v.after)
          BY <1>7, <4>1, <5>1
        <5> QED
          BY <1>5, <3>1, <4>1, <5>1, <5>2, KeyOrder
      <4> QED
        BY <1>2, <4>2, <4>3
    <3> QED
      BY <3>2, <3>3
  <2>3. v.stable \subseteq Listed(v, table, rows)
    BY <1>2, <1>3, <1>8
  <2> QED
    BY <1>2, <1>18, <2>2, <2>3 DEF Complete
<1>22. v \in WalkType
  <2>1. v.state \in {"none", "going", "done", "gone"} /\ v.after \in PageKey \cup {None}
    BY <1>2, <1>9
  <2> QED
    BY <1>1, <1>13, <1>18, <2>1 DEF WalkType
<1> QED
  BY <1>19, <1>20, <1>21, <1>22 DEF Follows
\* The walk v is w, with what a change of the table leaves of its history.
Watched(v, w, table, table2, rows2) ==
    v = [w EXCEPT
           !.stable = @ \cap Listed(w, table2, rows2),
           !.removed = IF w.list = "issues" THEN @ \cup (DOMAIN table \ DOMAIN table2)
                       ELSE {}]

\* A change of the table: what moves up or disappears leaves the stable keys,
\* what is deleted is remembered, and what keeps its time stays behind.
LEMMA WatchKeeps ==
    ASSUME NEW table, NEW rows, NEW w, Follows(w, table, rows),
           NEW table2, NEW rows2,
           DOMAIN table \in SUBSET Issue,
           \A f \in DOMAIN table : table[f].last \in Nat,
           \A f \in DOMAIN table \cap DOMAIN table2 :
              table2[f].last \in Nat /\ table2[f].last >= table[f].last,
           NEW v, Watched(v, w, table, table2, rows2)
    PROVE  Follows(v, table2, rows2)
<1>1. w \in WalkType /\ Descends(w) /\ StaysBehind(w, table) /\ Complete(w, table, rows)
  BY DEF Follows
<1>2. /\ v.seen = w.seen /\ v.after = w.after /\ v.state = w.state
      /\ v.list = w.list /\ v.status = w.status /\ v.issue = w.issue
      /\ v.stable = w.stable \cap Listed(w, table2, rows2)
      /\ v.removed = IF w.list = "issues" THEN w.removed \cup (DOMAIN table \ DOMAIN table2)
                     ELSE {}
  BY <1>1 DEF WalkType, Watched
<1>3. v \in WalkType
  <2>1. v.stable \in SUBSET PageKey /\ v.removed \in SUBSET Issue
    BY <1>1, <1>2 DEF WalkType
  <2> QED
    BY <1>1, <2>1 DEF WalkType, Watched
<1>4. Descends(v)
  BY <1>1, <1>2 DEF Descends
<1>5. Listed(v, table2, rows2) = Listed(w, table2, rows2)
  BY <1>2 DEF Listed
<1>6. Complete(v, table2, rows2)
  BY <1>1, <1>2, <1>5 DEF Complete
<1>7. StaysBehind(v, table2)
  <2> SUFFICES ASSUME w.list = "issues" PROVE StaysBehind(v, table2)
    BY <1>2 DEF StaysBehind
  <2>1. v.removed = w.removed \cup (DOMAIN table \ DOMAIN table2)
    BY <1>2
  <2>2. ASSUME NEW i \in DOMAIN w.seen
        PROVE  \/ w.seen[i].tie \in v.removed
               \/ /\ w.seen[i].tie \in DOMAIN table2
                  /\ table2[w.seen[i].tie].last >= w.seen[i].at
    <3> DEFINE f == w.seen[i].tie
    <3>1. f \in w.removed \/ (f \in DOMAIN table /\ table[f].last >= w.seen[i].at)
      BY <1>1 DEF StaysBehind
    <3>2. w.seen[i].at \in Nat
      <4>1. w.seen \in Seq(PageKey)
        BY <1>1 DEF WalkType
      <4>2. w.seen[i] \in PageKey
        BY <4>1
      <4> QED
        BY <4>2 DEF PageKey
    <3> QED
      BY <2>1, <3>1, <3>2
  <2>3. \A i, j \in DOMAIN w.seen :
           i < j /\ w.seen[i].tie = w.seen[j].tie => w.seen[i].tie \in v.removed
    BY <1>1, <2>1 DEF StaysBehind
  <2> QED
    BY <1>2, <2>2, <2>3 DEF StaysBehind
<1> QED
  BY <1>3, <1>4, <1>6, <1>7 DEF Follows

-----------------------------------------------------------------------------
\* At startup nobody walks.
LEMMA PagesInitInv == Init => PagesInv
<1> SUFFICES ASSUME Init PROVE PagesInv
  OBVIOUS
<1>1. /\ Issue \subseteq Nat \ {0} /\ IsFiniteSet(Issue) /\ Days \in Nat \ {0}
  BY ConstantsAssumption DEF ConstantsAssumption
<1>2. /\ now = 2 /\ DOMAIN issues = Issue /\ walk = NoWalk /\ sweep.cutoff = now - Days
      /\ \A f \in Issue : issues[f].last \in {1, 2}
      /\ events = {[seq |-> f, issue |-> f, at |-> issues[f].last] : f \in Issue}
  BY DEF Init
<1>3. IsFiniteSet(events)
  <2> DEFINE g == [f \in Issue |-> [seq |-> f, issue |-> f, at |-> issues[f].last]]
  <2>1. events = {g[f] : f \in Issue} /\ g = [f \in Issue |-> g[f]]
    BY <1>2
  <2> HIDE DEF g
  <2>2. IsFiniteSet({g[f] : f \in Issue})
    BY <1>1, <2>1, FiniteValues
  <2> QED
    BY <2>1, <2>2
<1>4. TableOK(issues, events)
  <2>1. \A e \in events : e.seq \in Nat /\ e.at \in Nat
    BY <1>1, <1>2
  <2>2. \A f \in DOMAIN issues : issues[f].last \in Nat
    BY <1>2
  <2> QED
    BY <1>1, <1>2, <1>3, <2>1, <2>2 DEF TableOK
<1>5. Follows(walk, issues, events)
  <2>1. walk \in WalkType
    <3>1. <<>> \in Seq(PageKey)
      OBVIOUS
    <3>2. NoWalk \in WalkType
      <4>1. 0 \in Nat /\ 1 \in Nat \ {0}
        OBVIOUS
      <4>2. {} \in SUBSET PageKey /\ {} \in SUBSET Issue
        OBVIOUS
      <4>3. None \in PageKey \cup {None}
        OBVIOUS
      <4>4. "" \in Status \cup {""}
        OBVIOUS
      <4> QED
        BY <3>1, <4>1, <4>2, <4>3, <4>4, Zenon DEF NoWalk, WalkType
    <3> QED
      BY <1>2, <3>2
  <2>2. /\ walk.seen = <<>> /\ walk.after = None /\ walk.stable = {} /\ walk.list = "none"
        /\ DOMAIN walk.seen = {}
    <3>1. /\ NoWalk.seen = <<>> /\ NoWalk.after = None /\ NoWalk.stable = {}
          /\ NoWalk.list = "none"
      BY DEF NoWalk
    <3>2. DOMAIN NoWalk.seen = {}
      BY <3>1
    <3> QED
      BY <1>2, <3>1, <3>2
  <2>3. Descends(walk) /\ StaysBehind(walk, issues) /\ Complete(walk, issues, events)
    BY <2>2 DEF Descends, StaysBehind, Complete
  <2> QED
    BY <2>1, <2>3 DEF Follows
<1> QED
  BY <1>1, <1>2, <1>4, <1>5 DEF PagesInv

\* A walk begins with every key it lists as one that may keep its place.
LEMMA BeginKeepsInv ==
    ASSUME PagesInv, NEW w, Begin(w), w \in WalkType,
           w.seen = <<>>, w.after = None
    PROVE  PagesInv'
<1>1. /\ walk' = [w EXCEPT !.state = "going", !.stable = Listed(w, issues, events)]
      /\ issues' = issues /\ events' = events /\ now' = now /\ sweep' = sweep
  BY DEF Begin
<1>2. TableOK(issues, events)
  BY DEF PagesInv
<1>3. Listed(w, issues, events) \in SUBSET PageKey
  BY <1>2, ListedKeys
<1>4. PICK v : v = [w EXCEPT !.state = "going", !.stable = Listed(w, issues, events)]
  OBVIOUS
<1>5. /\ v.state = "going" /\ v.stable = Listed(w, issues, events) /\ v.seen = <<>>
      /\ v.after = None /\ v.list = w.list /\ v.status = w.status /\ v.issue = w.issue
  BY <1>4 DEF WalkType
<1>6. v \in WalkType
  BY <1>3, <1>4 DEF WalkType
<1>7. Listed(v, issues, events) = Listed(w, issues, events)
  BY <1>5 DEF Listed
<1>8. DOMAIN v.seen = {} /\ Range(v.seen) = {}
  BY <1>5 DEF Range
<1>9. Follows(v, issues, events)
  BY <1>5, <1>6, <1>7, <1>8 DEF Follows, Descends, StaysBehind, Complete
<1> QED
  BY <1>1, <1>4, <1>9 DEF PagesInv
\* A page of the walk is read.
LEMMA NextPageKeepsInv == ASSUME PagesInv, NextPage PROVE PagesInv'
<1> DEFINE S == Listed(walk, issues, events)
           page == SQLitePage(S, walk.after, walk.limit, 0)
<1>1. TableOK(issues, events) /\ Follows(walk, issues, events)
  BY DEF PagesInv
<1>2. S \in SUBSET PageKey /\ IsFiniteSet(S)
  BY <1>1, ListedKeys
<1>3. walk.limit \in Nat \ {0}
  BY <1>1 DEF Follows, WalkType
<1>4. PageOf(page, {k \in S : After(k, walk.after)})
  <2> HIDE DEF S
  <2> QED
    BY <1>2, <1>3, WalkPage
<1>5. /\ walk.state = "going"
      /\ walk' = [walk EXCEPT !.seen = @ \o page.items, !.after = page.next,
                              !.state = IF page.next = None THEN "done" ELSE "going"]
      /\ UNCHANGED <<issues, events, now, changes, sweep>>
  BY DEF NextPage
<1> HIDE DEF page
<1>6. Follows(walk', issues, events)
  BY <1>1, <1>4, <1>5, PageKeeps
<1> QED
  BY <1>5, <1>6 DEF PagesInv

\* A page of a history whose issue is gone ends the walk.
LEMMA NotFoundKeepsInv == ASSUME PagesInv, NotFound PROVE PagesInv'
<1>1. /\ walk.state = "going" /\ walk' = [walk EXCEPT !.state = "gone"]
      /\ UNCHANGED <<issues, events, now, changes, sweep>>
  BY DEF NotFound
<1>2. Follows(walk, issues, events)
  BY DEF PagesInv
<1>3. PICK v : v = [walk EXCEPT !.state = "gone"]
  OBVIOUS
<1>4. /\ v \in WalkType /\ v.state = "gone" /\ v.seen = walk.seen /\ v.after = walk.after
      /\ v.list = walk.list /\ v.status = walk.status /\ v.issue = walk.issue
      /\ v.stable = walk.stable /\ v.removed = walk.removed
  BY <1>2, <1>3 DEF Follows, WalkType
<1>5. Listed(v, issues, events) = Listed(walk, issues, events)
  BY <1>4 DEF Listed
<1>6. Follows(v, issues, events)
  BY <1>1, <1>2, <1>4, <1>5 DEF Follows, Descends, StaysBehind, Complete
<1> QED
  BY <1>1, <1>3, <1>6 DEF PagesInv

\* Whatever changes the table, no issue it leaves there gets an earlier time.
LEMMA ChangeKeepsInv ==
    ASSUME PagesInv, Watch, TableOK(issues', events'),
           \A f \in DOMAIN issues \cap DOMAIN issues' : issues'[f].last >= issues[f].last,
           now' = now, sweep'.cutoff \in Int
    PROVE  PagesInv'
<1>1. TableOK(issues, events) /\ Follows(walk, issues, events)
  BY DEF PagesInv
<1>2. DOMAIN issues \in SUBSET Issue /\ \A f \in DOMAIN issues : issues[f].last \in Nat
  BY <1>1 DEF TableOK
<1>3. \A f \in DOMAIN issues \cap DOMAIN issues' :
         issues'[f].last \in Nat /\ issues'[f].last >= issues[f].last
  BY DEF TableOK
<1>4. Watched(walk', walk, issues, issues', events')
  BY DEF Watch, Watched
<1>5. Follows(walk', issues', events')
  BY <1>1, <1>2, <1>3, <1>4, WatchKeeps
<1> QED
  BY <1>5 DEF PagesInv

\* An occurrence is recorded: the last time of its issue never falls.
LEMMA RecordKeepsInv ==
    ASSUME PagesInv, NEW f \in Issue, NEW at \in {now - 1, now}, Record(f, at)
    PROVE  PagesInv'
<1>1. /\ TableOK(issues, events) /\ now \in Nat /\ now >= 2 /\ sweep.cutoff \in Int
  BY DEF PagesInv
<1>2. /\ DOMAIN issues \in SUBSET Issue /\ IsFiniteSet(DOMAIN issues)
      /\ \A g \in DOMAIN issues : issues[g].last \in Nat
      /\ IsFiniteSet(events) /\ \A e \in events : e.seq \in Nat /\ e.at \in Nat
  BY <1>1 DEF TableOK
<1>3. at \in Nat
  BY <1>1
<1> DEFINE row == [seq |-> NextSequence, issue |-> f, at |-> at]
           mine == {e \in events : e.issue = f} \cup {row}
<1>4. /\ issues' = [g \in DOMAIN issues \cup {f} |->
                       IF g = f THEN Upserted(f, at) ELSE issues[g]]
      /\ events' = {e \in events : e.issue # f} \cup Newest(mine, MaxEventsPerIssue)
      /\ Watch /\ now' = now /\ sweep' = sweep
  BY DEF Record
<1>5. NextSequence \in Nat
  <2> DEFINE g == [e \in events |-> e.seq]
             N == {0} \cup {e.seq : e \in events}
  <2>1. g = [e \in events |-> g[e]] /\ N = {0} \cup {g[e] : e \in events}
    OBVIOUS
  <2>2. N \in SUBSET Nat /\ 0 \in N
    BY <1>2
  <2> HIDE DEF g
  <2>3. IsFiniteSet({g[e] : e \in events}) /\ IsFiniteSet({0})
    BY <1>2, <2>1, FiniteValues, FS_Singleton
  <2>4. IsFiniteSet({0} \cup {g[e] : e \in events})
    BY <2>3, FS_Union
  <2>5. Max(N) \in N
    <3>1. IsFiniteSet(N) /\ N # {}
      BY <2>1, <2>2, <2>4
    <3> HIDE DEF N
    <3> QED
      BY <2>2, <3>1, LargestOf
  <2> QED
    BY <2>2, <2>5 DEF NextSequence
<1>6. Newest(mine, MaxEventsPerIssue) \in SUBSET mine
  BY DEF Newest
<1>7. row.seq \in Nat /\ row.at \in Nat
  BY <1>3, <1>5
<1> HIDE DEF row
<1>8. events' \in SUBSET (events \cup {row})
  BY <1>4, <1>6
<1>9. IsFiniteSet(events') /\ \A e \in events' : e.seq \in Nat /\ e.at \in Nat
  <2>1. IsFiniteSet(events \cup {row})
    BY <1>2, FS_AddElement
  <2>2. IsFiniteSet(events')
    BY <1>8, <2>1, FS_Subset
  <2> QED
    BY <1>2, <1>7, <1>8, <2>2
<1>10. /\ Upserted(f, at).last \in Nat
       /\ f \in DOMAIN issues => Upserted(f, at).last >= issues[f].last
  <2>1. CASE f \notin DOMAIN issues
    BY <1>3, <2>1 DEF Upserted
  <2>2. CASE f \in DOMAIN issues
    <3>1. Upserted(f, at).last = Max({issues[f].last, at})
      BY <2>2 DEF Upserted
    <3>2. issues[f].last \in Nat /\ issues[f].last \in Int /\ at \in Int
      BY <1>2, <1>3, <2>2
    <3>3. Max({issues[f].last, at}) = IF issues[f].last >= at THEN issues[f].last ELSE at
      BY <3>2, OfTwo
    <3> QED
      BY <1>3, <3>1, <3>2, <3>3
  <2> QED
    BY <2>1, <2>2
<1>11. DOMAIN issues' = DOMAIN issues \cup {f} /\ IsFiniteSet(DOMAIN issues \cup {f})
  BY <1>2, <1>4, FS_AddElement
<1>12. \A g \in DOMAIN issues' :
          /\ issues'[g].last \in Nat
          /\ g \in DOMAIN issues => issues'[g].last >= issues[g].last
  <2> TAKE g \in DOMAIN issues'
  <2>1. CASE g = f
    BY <1>4, <1>10, <1>11, <2>1
  <2>2. CASE g # f
    BY <1>2, <1>4, <1>11, <2>2
  <2> QED
    BY <2>1, <2>2
<1>13. TableOK(issues', events')
  BY <1>2, <1>9, <1>11, <1>12 DEF TableOK
<1> QED
  BY <1>1, <1>4, <1>12, <1>13, ChangeKeepsInv

\* A status is set.
LEMMA SetIssueStatusKeepsInv ==
    ASSUME PagesInv, NEW f \in DOMAIN issues, NEW status, SetIssueStatus(f, status)
    PROVE  PagesInv'
<1>1. TableOK(issues, events) /\ sweep.cutoff \in Int
  BY DEF PagesInv
<1>2. /\ issues' = [issues EXCEPT ![f].status = status] /\ events' = events
      /\ Watch /\ now' = now /\ sweep' = sweep
  BY DEF SetIssueStatus
<1>3. /\ DOMAIN issues' = DOMAIN issues
      /\ \A g \in DOMAIN issues : issues'[g].last = issues[g].last
  BY <1>2
<1>4. TableOK(issues', events') /\ \A g \in DOMAIN issues : issues[g].last \in Nat
  BY <1>1, <1>2, <1>3 DEF TableOK
<1>5. \A g \in DOMAIN issues \cap DOMAIN issues' : issues'[g].last >= issues[g].last
  BY <1>3, <1>4
<1> QED
  BY <1>1, <1>2, <1>4, <1>5, ChangeKeepsInv

\* Issues are deleted with their histories.
LEMMA DeleteKeepsInv ==
    ASSUME PagesInv, NEW gone, Delete(gone), sweep'.cutoff \in Int
    PROVE  PagesInv'
<1>1. TableOK(issues, events)
  BY DEF PagesInv
<1>2. /\ issues' = [f \in DOMAIN issues \ gone |-> issues[f]]
      /\ events' = {e \in events : e.issue \notin gone} /\ Watch /\ now' = now
  BY DEF Delete
<1>3. DOMAIN issues' \in SUBSET DOMAIN issues /\ events' \in SUBSET events
  BY <1>2
<1>4. IsFiniteSet(DOMAIN issues') /\ IsFiniteSet(events')
  <2>1. IsFiniteSet(DOMAIN issues) /\ IsFiniteSet(events)
    BY <1>1 DEF TableOK
  <2> QED
    BY <1>3, <2>1, FS_Subset
<1>5. \A f \in DOMAIN issues' : issues'[f] = issues[f] /\ issues[f].last \in Nat
  BY <1>1, <1>2, <1>3 DEF TableOK
<1>6. TableOK(issues', events')
  BY <1>1, <1>3, <1>4, <1>5 DEF TableOK
<1>7. \A f \in DOMAIN issues \cap DOMAIN issues' : issues'[f].last >= issues[f].last
  BY <1>5
<1> QED
  BY <1>2, <1>6, <1>7, ChangeKeepsInv

\* Every step of the server, its client and its retention.
LEMMA PagesNextKeepsInv == PagesInv /\ [Next]_vars => PagesInv'
<1> SUFFICES ASSUME PagesInv, [Next]_vars PROVE PagesInv'
  OBVIOUS
<1>0. sweep.cutoff \in Int /\ now \in Nat /\ Days \in Int
  <2>1. sweep.cutoff \in Int /\ now \in Nat
    BY DEF PagesInv
  <2>2. Days \in Int
    BY LimitsAreNumbers
  <2> QED
    BY <2>1, <2>2
<1>1. \A state, failed : SweepTo(state, failed) => sweep'.cutoff \in Int
  BY <1>0 DEF SweepTo
<1>2. CASE BeginWalk
  <2>1. PICK limit \in Limits :
           \/ \E status \in Filters :
                 Begin([NoWalk EXCEPT !.list = "issues", !.status = status, !.limit = limit])
           \/ \E f \in Histories \cap DOMAIN issues :
                 Begin([NoWalk EXCEPT !.list = "events", !.issue = f, !.limit = limit])
    BY <1>2 DEF BeginWalk
  <2>2. limit \in Nat \ {0} /\ Filters \subseteq Status \cup {""} /\ Histories \subseteq Nat
    BY ConstantsAssumption DEF ConstantsAssumption
  <2>3. {} \in SUBSET PageKey /\ {} \in SUBSET Issue /\ 0 \in Nat /\ "" \in Status \cup {""}
        /\ None \in PageKey \cup {None} /\ <<>> \in Seq(PageKey)
    OBVIOUS
  <2>4. ASSUME NEW status \in Filters,
               Begin([NoWalk EXCEPT !.list = "issues", !.status = status, !.limit = limit])
        PROVE  PagesInv'
    <3>1. PICK w : w = [NoWalk EXCEPT !.list = "issues", !.status = status, !.limit = limit]
      OBVIOUS
    <3>2. w = [list |-> "issues", status |-> status, issue |-> 0, limit |-> limit,
               after |-> None, state |-> "none", seen |-> <<>>, stable |-> {}, removed |-> {}]
      BY <3>1 DEF NoWalk
    <3>3. status \in Status \cup {""}
      BY <2>2
    <3>4. w \in WalkType
      BY <2>2, <2>3, <3>2, <3>3, Zenon DEF WalkType
    <3>5. w.seen = <<>> /\ w.after = None
      BY <3>2
    <3> QED
      BY <2>4, <3>1, <3>4, <3>5, BeginKeepsInv
  <2>5. ASSUME NEW f \in Histories \cap DOMAIN issues,
               Begin([NoWalk EXCEPT !.list = "events", !.issue = f, !.limit = limit])
        PROVE  PagesInv'
    <3>1. PICK w : w = [NoWalk EXCEPT !.list = "events", !.issue = f, !.limit = limit]
      OBVIOUS
    <3>2. w = [list |-> "events", status |-> "", issue |-> f, limit |-> limit,
               after |-> None, state |-> "none", seen |-> <<>>, stable |-> {}, removed |-> {}]
      BY <3>1 DEF NoWalk
    <3>3. f \in Nat
      BY <2>2
    <3>4. w \in WalkType
      BY <2>2, <2>3, <3>2, <3>3, Zenon DEF WalkType
    <3>5. w.seen = <<>> /\ w.after = None
      BY <3>2
    <3> QED
      BY <2>5, <3>1, <3>4, <3>5, BeginKeepsInv
  <2> QED
    BY <2>1, <2>4, <2>5
<1>3. CASE NextPage
  BY <1>3, NextPageKeepsInv
<1>4. CASE NotFound
  BY <1>4, NotFoundKeepsInv
<1>5. CASE \E f \in Issue, at \in {now - 1, now} : Record(f, at)
  BY <1>5, RecordKeepsInv
<1>6. CASE \E f \in DOMAIN issues, status \in Status : SetIssueStatus(f, status)
  BY <1>6, SetIssueStatusKeepsInv
<1>7. CASE Tick
  BY <1>0, <1>7 DEF Tick, PagesInv
<1>8. CASE PruneIssues
  <2>1. PICK gone : Delete(gone) /\ \E state : SweepTo(state, FALSE)
    BY <1>8 DEF PruneIssues
  <2> QED
    BY <1>1, <2>1, DeleteKeepsInv
<1>9. CASE EnforceIssueLimit
  <2>1. PICK gone : Delete(gone) /\ \E state : SweepTo(state, FALSE)
    BY <1>9 DEF EnforceIssueLimit
  <2> QED
    BY <1>1, <2>1, DeleteKeepsInv
<1>10. CASE SweepFails \/ AgeTick \/ LimitTick
  <2>1. UNCHANGED <<issues, events, now, walk>>
    BY <1>10 DEF SweepFails, AgeTick, LimitTick
  <2>2. sweep'.cutoff \in Int
    <3>1. CASE SweepFails
      BY <1>1, <3>1 DEF SweepFails
    <3>2. CASE AgeTick
      BY <1>0, <3>2 DEF AgeTick
    <3>3. CASE LimitTick
      BY <1>1, <3>3 DEF LimitTick
    <3> QED
      BY <1>10, <3>1, <3>2, <3>3
  <2> QED
    BY <2>1, <2>2 DEF PagesInv
<1>11. CASE UNCHANGED vars
  BY <1>11 DEF vars, PagesInv
<1> QED
  BY <1>2, <1>3, <1>4, <1>5, <1>6, <1>7, <1>8, <1>9, <1>10, <1>11 DEF Next

\* The invariant of the table, the walk and the sweep.
LEMMA PagesInvAlways == Spec => []PagesInv
BY PagesInitInv, PagesNextKeepsInv, PTL DEF Spec

\* However the table changes between its pages, a walk descends, repeats only
\* what was deleted in between, and misses nothing that kept its place.
THEOREM WalksAreComplete == Spec => []WalkIsComplete
<1>1. PagesInv => WalkIsComplete
  BY DEF PagesInv, Follows, Descends, StaysBehind, Complete, WalkIsComplete, Reached
<1> QED
  BY <1>1, PagesInvAlways, PTL

\* Both stores return the same page of the same table, from every cursor.
THEOREM StoresPageAlike == Spec => []StoresAgree
<1>1. ASSUME PagesInv PROVE StoresAgree
  <2>1. TableOK(issues, events) /\ walk.after \in PageKey \cup {None}
    BY <1>1 DEF PagesInv, Follows, WalkType
  <2>0. (\A x \in 1..2 : x \in Nat \ {0}) /\ (\A x \in 0..1 : x \in Nat) /\ 0 \in Nat
    OBVIOUS
  <2>2. \A status : /\ IssueKeys(issues, status) \in SUBSET PageKey
                    /\ IsFiniteSet(IssueKeys(issues, status))
    <3> TAKE status
    <3>1. PICK w : w = [NoWalk EXCEPT !.list = "issues", !.status = status]
      OBVIOUS
    <3>2. Listed(w, issues, events) = IssueKeys(issues, status)
      BY <3>1 DEF Listed, NoWalk
    <3> QED
      BY <2>1, <3>2, ListedKeys
  <2>3. \A f : EventKeys(events, f) \in SUBSET PageKey /\ IsFiniteSet(EventKeys(events, f))
    <3> TAKE f
    <3>1. PICK w : w = [NoWalk EXCEPT !.list = "events", !.issue = f]
      OBVIOUS
    <3>2. Listed(w, issues, events) = EventKeys(events, f)
      BY <3>1 DEF Listed, NoWalk
    <3> QED
      BY <2>1, <3>2, ListedKeys
  <2>4. ASSUME NEW keys \in {IssueKeys(issues, ""), IssueKeys(issues, "open")}
                               \cup {EventKeys(events, f) : f \in Histories},
               NEW after \in keys \cup {None, walk.after}, NEW limit \in 1..2,
               NEW offset \in IF after = None THEN 0..1 ELSE {0}
        PROVE  MemoryPage(keys, after, limit, offset) = SQLitePage(keys, after, limit, offset)
    <3>1. keys \in SUBSET PageKey /\ IsFiniteSet(keys)
      BY <2>2, <2>3
    <3>2. after \in PageKey \cup {None}
      BY <2>1, <3>1
    <3>3. limit \in Nat \ {0}
      BY <2>0, Zenon
    <3>4. offset \in Nat
      BY <2>0, Zenon
    <3> QED
      BY <3>1, <3>2, <3>3, <3>4, PagesAgree
  <2> QED
    BY <2>4 DEF StoresAgree
<1> QED
  BY <1>1, PagesInvAlways, PTL
-----------------------------------------------------------------------------
(***************************************************************************)
(* Retention.                                                              *)
(***************************************************************************)

\* What stays of a set of issues when a part of it is deleted.
LEMMA WhatStays ==
    ASSUME TableOK(issues, events), NEW gone \in SUBSET DOMAIN issues
    PROVE  /\ IsFiniteSet(gone) /\ Cardinality(gone) \in Nat /\ Cardinality(DOMAIN issues) \in Nat
           /\ Cardinality(DOMAIN issues \ gone) = Cardinality(DOMAIN issues) - Cardinality(gone)
<1>1. IsFiniteSet(DOMAIN issues)
  BY DEF TableOK
<1>2. IsFiniteSet(gone) /\ IsFiniteSet(DOMAIN issues \ gone)
  BY <1>1, FS_Subset
<1>3. Cardinality(gone) \in Nat /\ Cardinality(DOMAIN issues) \in Nat
  BY <1>1, <1>2, FS_CardinalityType
<1>4. Cardinality(DOMAIN issues \ gone)
         = Cardinality(DOMAIN issues) - Cardinality(DOMAIN issues \cap gone)
  BY <1>1, FS_Difference
<1>5. DOMAIN issues \cap gone = gone
  OBVIOUS
<1> QED
  BY <1>2, <1>3, <1>4, <1>5

\* The list of all issues has each once.
LEMMA KeysOfIssues ==
    ASSUME TableOK(issues, events)
    PROVE  LET K == IssueKeys(issues, "")
           IN  /\ K \in SUBSET PageKey /\ IsFiniteSet(K)
               /\ Cardinality(K) = Cardinality(DOMAIN issues)
               /\ \A k \in K : k.tie \in DOMAIN issues /\ k.at = issues[k.tie].last
               /\ \A f \in DOMAIN issues : \E k \in K : k.tie = f
<1> DEFINE D == DOMAIN issues
           g == [f \in D |-> [at |-> issues[f].last, tie |-> f]]
           K == {g[f] : f \in D}
<1>1. IssueKeys(issues, "") = K
  <2>1. {h \in DOMAIN issues : "" \in {"", issues[h].status}} = DOMAIN issues
    OBVIOUS
  <2> QED
    BY <2>1 DEF IssueKeys
<1>2. IsFiniteSet(D) /\ \A f \in D : issues[f].last \in Nat /\ f \in Int
  BY IssuesAreNumbers DEF TableOK
<1>3. \A f \in D : g[f].at = issues[f].last /\ g[f].tie = f /\ g[f] \in PageKey
  BY <1>2 DEF PageKey
<1>4. g \in [D -> K]
  OBVIOUS
<1>5. \A k \in K : \E f \in D : g[f] = k
  OBVIOUS
<1> HIDE DEF g
<1>6. \A k \in K : k \in PageKey /\ k.tie \in D /\ k.at = issues[k.tie].last
  BY <1>3
<1>7. \A f \in D : \E k \in K : k.tie = f
  BY <1>3
<1>8. \A f, h \in D : g[f] = g[h] => f = h
  BY <1>3
<1> HIDE DEF K
<1>9. g \in Surjection(D, K)
  BY <1>4, <1>5, Zenon DEF Surjection
<1>10. g \in Injection(D, K)
  BY <1>4, <1>8, Zenon DEF Injection, IsInjective
<1>11. IsFiniteSet(K) /\ Cardinality(K) = Cardinality(D)
  BY <1>2, <1>9, <1>10, FS_Surjection
<1> QED
  BY <1>1, <1>6, <1>7, <1>11

\* What enforceIssueLimit deletes: as many as asked for, and the oldest.
Oldest(gone, m) ==
    /\ gone \in SUBSET DOMAIN issues /\ Cardinality(gone) = m
    /\ \A f \in gone, g \in DOMAIN issues \ gone : issues[f].last <= issues[g].last

LEMMA EvictedAreOldest ==
    ASSUME TableOK(issues, events), NEW n \in Nat, n <= Cardinality(DOMAIN issues),
           NEW batch \in Nat
    PROVE  Oldest(Evicted(n, batch), IF n <= batch THEN n ELSE batch)
<1> DEFINE K == IssueKeys(issues, "")
           order == Sorted(K)
           m == Min({n, batch})
<1>1. PICK size : size = Cardinality(DOMAIN issues)
  OBVIOUS
<1>2. size \in Nat /\ n <= size
  <2>1. IsFiniteSet(DOMAIN issues)
    BY DEF TableOK
  <2> QED
    BY <1>1, <2>1, FS_CardinalityType
<1>3. /\ K \in SUBSET PageKey /\ IsFiniteSet(K) /\ Cardinality(K) = size
      /\ \A k \in K : k.tie \in DOMAIN issues /\ k.at = issues[k.tie].last
      /\ \A f \in DOMAIN issues : \E k \in K : k.tie = f
  BY <1>1, KeysOfIssues
<1>4. Evicted(n, batch) = {order[i].tie : i \in Len(order) - m + 1..Len(order)}
  BY DEF Evicted
<1> HIDE DEF K
<1>5. Lists(order, K)
  BY <1>3, SortedLists
<1> HIDE DEF order
<1>6. /\ Len(order) = size /\ \A i \in 1..size : order[i] \in K
      /\ \A k \in K : \E i \in 1..size : order[i] = k
      /\ \A i, j \in 1..size : i < j => Precedes(order[i], order[j])
  BY <1>3, <1>5 DEF Lists
<1>7. m = IF n <= batch THEN n ELSE batch
  BY OfTwo
<1>8. m \in Nat /\ m <= size
  BY <1>2, <1>7
<1> HIDE DEF m
<1> DEFINE I == size - m + 1..size
           g == [i \in I |-> order[i].tie]
           gone == {g[i] : i \in I}
<1>9. I \in SUBSET (1..size)
  BY <1>2, <1>8
<1>10. IsFiniteSet(I) /\ Cardinality(I) = m
  <2>1. size - m + 1 \in Int /\ size \in Int
    BY <1>2, <1>8
  <2>2. IsFiniteSet(I) /\ Cardinality(I) = IF size - m + 1 > size THEN 0 ELSE size - (size - m + 1) + 1
    BY <2>1, FS_Interval
  <2> HIDE DEF I
  <2> QED
    BY <1>2, <1>8, <2>2
<1>11. Evicted(n, batch) = gone
  BY <1>4, <1>6
\* Issues further down are no more recent, and different.
<1>12. ASSUME NEW i \in 1..size, NEW j \in 1..size, i < j
       PROVE  /\ order[i].tie \in DOMAIN issues /\ order[j].tie \in DOMAIN issues
              /\ order[i].tie # order[j].tie
              /\ issues[order[j].tie].last <= issues[order[i].tie].last
  <2>1. /\ order[i] \in K /\ order[j] \in K /\ Precedes(order[i], order[j])
        /\ order[i] \in PageKey /\ order[j] \in PageKey
    BY <1>3, <1>6, <1>12
  <2>2. /\ order[i].at = issues[order[i].tie].last /\ order[j].at = issues[order[j].tie].last
        /\ order[i].tie \in DOMAIN issues /\ order[j].tie \in DOMAIN issues
    BY <1>3, <2>1
  <2> QED
    BY <2>1, <2>2 DEF Precedes, PageKey
<1>13. \A i, j \in I : g[i] = g[j] => i = j
  <2> SUFFICES ASSUME NEW i \in I, NEW j \in I, g[i] = g[j], i # j PROVE FALSE
    OBVIOUS
  <2>1. i \in 1..size /\ j \in 1..size /\ (i < j \/ j < i)
    BY <1>2, <1>9
  <2>2. order[i].tie = order[j].tie
    OBVIOUS
  <2> QED
    BY <1>12, <2>1, <2>2
<1>14. gone \in SUBSET DOMAIN issues
  BY <1>3, <1>6, <1>9
<1>15. \A f \in gone, h \in DOMAIN issues \ gone : issues[f].last <= issues[h].last
  <2> SUFFICES ASSUME NEW f \in gone, NEW h \in DOMAIN issues \ gone
               PROVE  issues[f].last <= issues[h].last
    OBVIOUS
  <2>1. PICK i \in I : order[i].tie = f
    OBVIOUS
  <2>2. PICK j \in 1..size : order[j].tie = h
    BY <1>3, <1>6
  <2>3. j \notin I
    BY <2>2
  <2>4. i \in 1..size /\ j < i
    BY <1>2, <1>8, <1>9, <2>3
  <2> QED
    BY <1>12, <2>1, <2>2, <2>4
<1>16. g \in [I -> gone] /\ \A f \in gone : \E i \in I : g[i] = f
  OBVIOUS
<1> HIDE DEF I, g, gone
<1>17. g \in Surjection(I, gone)
  BY <1>16, Zenon DEF Surjection
<1>18. g \in Injection(I, gone)
  BY <1>13, <1>16, Zenon DEF Injection, IsInjective
<1>19. Cardinality(gone) = m
  BY <1>10, <1>17, <1>18, FS_Surjection
<1> QED
  BY <1>7, <1>11, <1>14, <1>15, <1>19 DEF Oldest

\* The effect of a deletion on the issues.
LEMMA DeleteLeaves ==
    ASSUME NEW gone \in SUBSET DOMAIN issues, Delete(gone)
    PROVE  /\ DOMAIN issues' = DOMAIN issues \ gone
           /\ DOMAIN issues \ DOMAIN issues' = gone
           /\ \A f \in DOMAIN issues' : issues'[f] = issues[f]
BY DEF Delete

\* One batch of enforceIssueLimit.
LEMMA OneBatchOverLimit ==
    ASSUME PagesInv, EnforceIssueLimit
    PROVE  \E gone \in SUBSET DOMAIN issues :
              /\ Delete(gone) /\ sweep.state = "limit"
              /\ \A f \in gone, g \in DOMAIN issues \ gone : issues[f].last <= issues[g].last
              /\ gone # {} => Cardinality(DOMAIN issues \ gone) >= MaxIssues
              /\ \/ sweep'.state = "idle" /\ Cardinality(DOMAIN issues \ gone) <= MaxIssues
                 \/ sweep'.state = "limit"
<1>1. PICK size : size = Cardinality(DOMAIN issues)
  OBVIOUS
<1>2. TableOK(issues, events)
  BY DEF PagesInv
<1>3. size \in Nat
  <2>1. IsFiniteSet(DOMAIN issues)
    BY <1>2 DEF TableOK
  <2> QED
    BY <1>1, <2>1, FS_CardinalityType
<1>4. PICK excess : excess = Max({0, size - MaxIssues})
  OBVIOUS
<1>5. excess = IF 0 >= size - MaxIssues THEN 0 ELSE size - MaxIssues
  <2>1. size - MaxIssues \in Int /\ 0 \in Int
    BY <1>3, LimitsAreNumbers
  <2> QED
    BY <1>4, <2>1, OfTwo
<1>6. excess \in Nat /\ excess <= size
  BY <1>3, <1>5, LimitsAreNumbers
<1>7. PICK gone : gone = Evicted(excess, PruneBatchSize)
  OBVIOUS
<1>8. PICK m : m = IF excess <= PruneBatchSize THEN excess ELSE PruneBatchSize
  OBVIOUS
<1>9. m \in Nat /\ m <= excess /\ (m < PruneBatchSize => m = excess)
  BY <1>6, <1>8, LimitsAreNumbers
<1>10. Oldest(gone, m)
  BY <1>1, <1>2, <1>6, <1>7, <1>8, LimitsAreNumbers, EvictedAreOldest
<1>11. /\ sweep.state = "limit" /\ Delete(gone)
       /\ SweepTo(IF Short(Cardinality(gone)) THEN "idle" ELSE "limit", FALSE)
  BY <1>1, <1>4, <1>7 DEF EnforceIssueLimit
<1>12. gone \in SUBSET DOMAIN issues /\ Cardinality(gone) = m
  BY <1>10 DEF Oldest
<1>13. IsFiniteSet(gone) /\ Cardinality(DOMAIN issues \ gone) = size - m
  BY <1>1, <1>2, <1>12, WhatStays
<1>14. gone # {} => m # 0
  BY <1>12, <1>13, FS_EmptySet
<1>15. gone # {} => Cardinality(DOMAIN issues \ gone) >= MaxIssues
  BY <1>3, <1>5, <1>9, <1>13, <1>14, LimitsAreNumbers
<1>16. \/ sweep'.state = "idle" /\ Cardinality(DOMAIN issues \ gone) <= MaxIssues
       \/ sweep'.state = "limit"
  <2>1. sweep'.state = IF m < PruneBatchSize THEN "idle" ELSE "limit"
    BY <1>11, <1>12 DEF SweepTo, Short
  <2>2. m < PruneBatchSize => size - m <= MaxIssues
    BY <1>3, <1>5, <1>9, LimitsAreNumbers
  <2> QED
    BY <1>13, <2>1, <2>2
<1> QED
  BY <1>10, <1>11, <1>12, <1>15, <1>16 DEF Oldest

\* One batch of pruneExpiredIssues.
LEMMA OneBatchExpired ==
    ASSUME PagesInv, PruneIssues
    PROVE  \E gone \in SUBSET {f \in DOMAIN issues : issues[f].last < sweep.cutoff} :
              /\ Delete(gone) /\ sweep.state = "age"
              /\ \A f \in gone, g \in DOMAIN issues \ gone : issues[f].last <= issues[g].last
              /\ \/ /\ sweep'.state = "limit"
                    /\ \A f \in DOMAIN issues \ gone : issues[f].last >= sweep.cutoff
                 \/ sweep'.state = "age"
<1> DEFINE expired == {f \in DOMAIN issues : issues[f].last < sweep.cutoff}
<1>1. PICK gone \in SUBSET expired :
         /\ Cardinality(gone) = IF Short(Cardinality(expired))
                                THEN Cardinality(expired) ELSE PruneBatchSize
         /\ \A f \in gone, g \in expired \ gone : issues[f].last <= issues[g].last
         /\ Delete(gone)
         /\ SweepTo(IF Short(Cardinality(gone)) THEN "limit" ELSE "age", FALSE)
  BY DEF PruneIssues
<1>2. sweep.state = "age"
  BY DEF PruneIssues
<1>3. /\ IsFiniteSet(DOMAIN issues) /\ sweep.cutoff \in Int
      /\ \A f \in DOMAIN issues : issues[f].last \in Nat
  BY DEF PagesInv, TableOK
<1>4. \A f \in gone, g \in DOMAIN issues \ gone : issues[f].last <= issues[g].last
  <2> TAKE f \in gone, g \in DOMAIN issues \ gone
  <2>1. CASE g \in expired
    BY <1>1, <2>1
  <2>2. CASE g \notin expired
    <3>1. f \in DOMAIN issues /\ issues[f].last < sweep.cutoff
      BY <1>1
    <3>2. ~(issues[g].last < sweep.cutoff)
      BY <2>2
    <3>3. issues[f].last \in Nat /\ issues[g].last \in Nat
      BY <1>3, <3>1
    <3> QED
      BY <1>3, <3>1, <3>2, <3>3
  <2> QED
    BY <2>1, <2>2
<1>5. expired \in SUBSET DOMAIN issues
  OBVIOUS
<1>6. \A f \in DOMAIN issues : f \notin expired => issues[f].last >= sweep.cutoff
  BY <1>3
<1>7. \/ /\ sweep'.state = "limit"
         /\ \A f \in DOMAIN issues \ gone : issues[f].last >= sweep.cutoff
      \/ sweep'.state = "age"
  <2> HIDE DEF expired
  <2>1. IsFiniteSet(expired)
    BY <1>3, <1>5, FS_Subset
  <2>2. sweep'.state = IF Short(Cardinality(gone)) THEN "limit" ELSE "age"
    BY <1>1 DEF SweepTo
  <2>3. ASSUME Short(Cardinality(gone))
        PROVE  \A f \in DOMAIN issues \ gone : issues[f].last >= sweep.cutoff
    <3>1. Cardinality(gone) # PruneBatchSize
      BY <2>3, LimitsAreNumbers DEF Short
    <3>2. Cardinality(gone) = Cardinality(expired)
      BY <1>1, <3>1
    <3>3. gone = expired
      BY <1>1, <2>1, <3>2, FS_Subset
    <3> QED
      BY <1>6, <3>3
  <2> QED
    BY <2>2, <2>3
<1> QED
  BY <1>1, <1>2, <1>4, <1>7

\* What a sweep leaves behind is at least as recent as what it deleted, and it
\* deletes only what is past the cutoff or beyond the limit.
THEOREM RetentionTakesOldest == Spec => OldestGoFirst
<1> DEFINE A == \A f \in DOMAIN issues \ DOMAIN issues' :
                  /\ \A g \in DOMAIN issues' : issues[f].last <= issues[g].last
                  /\ issues[f].last < sweep.cutoff \/ Cardinality(DOMAIN issues') >= MaxIssues
<1>1. ASSUME PagesInv, [Next]_vars PROVE A
  <2>1. CASE PruneIssues
    <3>1. PICK gone \in SUBSET {f \in DOMAIN issues : issues[f].last < sweep.cutoff} :
             /\ Delete(gone)
             /\ \A f \in gone, g \in DOMAIN issues \ gone : issues[f].last <= issues[g].last
      BY <1>1, <2>1, OneBatchExpired
    <3>2. gone \in SUBSET DOMAIN issues /\ \A f \in gone : issues[f].last < sweep.cutoff
      OBVIOUS
    <3>3. DOMAIN issues' = DOMAIN issues \ gone /\ DOMAIN issues \ DOMAIN issues' = gone
      BY <3>1, <3>2, DeleteLeaves
    <3> QED
      BY <3>1, <3>2, <3>3
  <2>2. CASE EnforceIssueLimit
    <3>1. PICK gone \in SUBSET DOMAIN issues :
             /\ Delete(gone)
             /\ \A f \in gone, g \in DOMAIN issues \ gone : issues[f].last <= issues[g].last
             /\ gone # {} => Cardinality(DOMAIN issues \ gone) >= MaxIssues
      BY <1>1, <2>2, OneBatchOverLimit
    <3>2. DOMAIN issues' = DOMAIN issues \ gone /\ DOMAIN issues \ DOMAIN issues' = gone
      BY <3>1, DeleteLeaves
    <3> QED
      BY <3>1, <3>2
  <2>3. CASE \/ BeginWalk \/ NextPage \/ NotFound \/ Tick \/ SweepFails \/ AgeTick \/ LimitTick
             \/ UNCHANGED vars
    <3>1. issues' = issues
      BY <2>3 DEF BeginWalk, Begin, NextPage, NotFound, Tick, SweepFails, AgeTick, LimitTick, vars
    <3> QED
      BY <3>1
  <2>4. CASE \E f \in Issue, at \in {now - 1, now} : Record(f, at)
    <3>1. DOMAIN issues \in SUBSET DOMAIN issues'
      BY <2>4 DEF Record
    <3> QED
      BY <3>1
  <2>5. CASE \E f \in DOMAIN issues, status \in Status : SetIssueStatus(f, status)
    <3>1. DOMAIN issues' = DOMAIN issues
      BY <2>5 DEF SetIssueStatus
    <3> QED
      BY <3>1
  <2> HIDE DEF A
  <2> QED
    BY <1>1, <2>1, <2>2, <2>3, <2>4, <2>5 DEF Next
<1>2. A => [A]_vars
  OBVIOUS
<1> QED
  BY <1>1, <1>2, PagesInvAlways, PTL DEF Spec, OldestGoFirst

\* A sweep that ends without an error leaves nothing past the cutoff, and no
\* more issues than the limit.
THEOREM SweepsAreThorough == Spec => SweepIsThorough
<1> DEFINE A == ~sweep'.failed =>
                  /\ sweep.state = "age" /\ sweep'.state = "limit" =>
                        \A f \in DOMAIN issues' : issues'[f].last >= sweep.cutoff
                  /\ sweep.state = "limit" /\ sweep'.state = "idle" =>
                        Cardinality(DOMAIN issues') <= MaxIssues
<1>1. ASSUME PagesInv, [Next]_vars PROVE A
  <2>1. CASE PruneIssues
    <3>1. PICK gone \in SUBSET {f \in DOMAIN issues : issues[f].last < sweep.cutoff} :
             /\ Delete(gone) /\ sweep.state = "age"
             /\ \/ /\ sweep'.state = "limit"
                   /\ \A f \in DOMAIN issues \ gone : issues[f].last >= sweep.cutoff
                \/ sweep'.state = "age"
      BY <1>1, <2>1, OneBatchExpired
    <3>2. gone \in SUBSET DOMAIN issues
      OBVIOUS
    <3>3. DOMAIN issues' = DOMAIN issues \ gone /\ \A f \in DOMAIN issues' : issues'[f] = issues[f]
      BY <3>1, <3>2, DeleteLeaves
    <3> QED
      BY <3>1, <3>3
  <2>2. CASE EnforceIssueLimit
    <3>1. PICK gone \in SUBSET DOMAIN issues :
             /\ Delete(gone) /\ sweep.state = "limit"
             /\ \/ sweep'.state = "idle" /\ Cardinality(DOMAIN issues \ gone) <= MaxIssues
                \/ sweep'.state = "limit"
      BY <1>1, <2>2, OneBatchOverLimit
    <3>2. DOMAIN issues' = DOMAIN issues \ gone
      BY <3>1, DeleteLeaves
    <3> QED
      BY <3>1, <3>2
  <2>3. CASE SweepFails
    <3>1. sweep'.failed
      BY <2>3 DEF SweepFails, SweepTo
    <3> QED
      BY <3>1
  <2>4. CASE AgeTick \/ LimitTick
    <3>1. sweep.state = "idle"
      BY <2>4 DEF AgeTick, LimitTick
    <3> QED
      BY <3>1
  <2>5. CASE \/ BeginWalk \/ NextPage \/ NotFound \/ Tick \/ UNCHANGED vars
             \/ \E f \in Issue, at \in {now - 1, now} : Record(f, at)
             \/ \E f \in DOMAIN issues, status \in Status : SetIssueStatus(f, status)
    <3>1. sweep' = sweep
      BY <2>5 DEF BeginWalk, Begin, NextPage, NotFound, Tick, Record, SetIssueStatus, vars
    <3> QED
      BY <3>1
  <2> HIDE DEF A
  <2> QED
    BY <1>1, <2>1, <2>2, <2>3, <2>4, <2>5 DEF Next
<1>2. A => [A]_vars
  OBVIOUS
<1> QED
  BY <1>1, <1>2, PagesInvAlways, PTL DEF Spec, SweepIsThorough
=============================================================================
