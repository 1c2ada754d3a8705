-------------------------- MODULE DirectoryProofs --------------------------
(***************************************************************************)
(* A cursor over the bucket names and ForEach give every bucket once and   *)
(* in order, for every set of names and however many buckets are created   *)
(* and deleted meanwhile.  The first part is about sorting: what sort      *)
(* returns exists, and a set has one increasing enumeration.               *)
(***************************************************************************)
EXTENDS Directory, FiniteSetTheorems, WellFoundedInduction, TLAPS

----------------------------------------------------------------------------
(* Sorting.                                                                *)

\* A set of numbers that is not empty has a least one.
LEMMA LeastNat ==
  ASSUME NEW T \in SUBSET Nat, T # {}
  PROVE  \E x \in T : \A y \in T : x <= y
<1>1. \E x \in T : \A y \in T : ~ (<<y, x>> \in OpToRel(<, Nat))
  BY NatLessThanWellFounded, WFMin, Zenon
<1>2. OpToRel(<, Nat) = {ss \in Nat \X Nat : ss[1] < ss[2]}
  BY Zenon DEF OpToRel
<1>3. \A x, y \in Nat : y < x => <<y, x>> \in {ss \in Nat \X Nat : ss[1] < ss[2]}
  OBVIOUS
<1>4. PICK x \in T : \A y \in T : ~ (<<y, x>> \in OpToRel(<, Nat))
  BY <1>1, Zenon
<1>5. \A y \in T : ~(y < x)
  BY <1>2, <1>3, <1>4, Zenon
<1> QED
  BY <1>5

\* The reorderings of n positions that put s in order.
Orders(n, s) ==
    {p \in Surjection(1..n, 1..n) : \A i, j \in 1..n : i < j => s[p[i]] <= s[p[j]]}

\* A list that is one longer can be put in order when shorter ones can: its least
\* name goes first.
LEMMA OrderOneMore ==
  ASSUME NEW n \in Nat, NEW s \in [1..(n + 1) -> Nat], \A u \in [1..n -> Nat] : Orders(n, u) # {}
  PROVE  Orders(n + 1, s) # {}
<1>1. PICK m \in 1..(n + 1) : \A i \in 1..(n + 1) : s[m] <= s[i]
  <2> DEFINE T == {s[i] : i \in 1..(n + 1)}
  <2>1. T \in SUBSET Nat /\ T # {}
    BY 1 \in 1..(n + 1)
  <2> HIDE DEF T
  <2>2. PICK x \in T : \A y \in T : x <= y
    BY <2>1, LeastNat
  <2> QED
    BY <2>2 DEF T
<1> DEFINE u == [i \in 1..n |-> IF i < m THEN s[i] ELSE s[i + 1]]
<1>2. u \in [1..n -> Nat]
  OBVIOUS
<1>3. PICK q \in Orders(n, u) : TRUE
  BY <1>2, Zenon
<1>4. /\ q \in [1..n -> 1..n]
      /\ \A w \in 1..n : \E v \in 1..n : q[v] = w
      /\ \A i, j \in 1..n : i < j => u[q[i]] <= u[q[j]]
  BY <1>3, Zenon DEF Orders, Surjection
<1> DEFINE p == [i \in 1..(n + 1) |-> IF i = 1 THEN m
                                      ELSE IF q[i - 1] < m THEN q[i - 1] ELSE q[i - 1] + 1]
<1>11. \A i \in 1..n : i + 1 \in 1..(n + 1) /\ p[i + 1] = IF q[i] < m THEN q[i] ELSE q[i] + 1
  OBVIOUS
<1>5. \A i \in 1..n : p[i + 1] \in 1..(n + 1) /\ s[p[i + 1]] = u[q[i]]
  <2> SUFFICES ASSUME NEW i \in 1..n PROVE p[i + 1] \in 1..(n + 1) /\ s[p[i + 1]] = u[q[i]]
    BY Zenon
  <2>1. q[i] \in 1..n
    BY <1>4, Zenon
  <2>2. i + 1 \in 1..(n + 1) /\ p[i + 1] = IF q[i] < m THEN q[i] ELSE q[i] + 1
    BY <1>11
  <2>3. u[q[i]] = IF q[i] < m THEN s[q[i]] ELSE s[q[i] + 1]
    BY <2>1
  <2> HIDE DEF u, p
  <2>4. q[i] \in 1..(n + 1) /\ q[i] + 1 \in 1..(n + 1)
    BY <2>1
  <2>5. CASE q[i] < m
    BY <2>2, <2>3, <2>4, <2>5, Zenon
  <2>6. CASE ~ (q[i] < m)
    BY <2>2, <2>3, <2>4, <2>6, Zenon
  <2> QED
    BY <2>5, <2>6
<1>6. 1 \in 1..(n + 1) /\ p[1] = m
  OBVIOUS
<1>7. \A i \in 1..(n + 1) : i = 1 \/ (i - 1 \in 1..n /\ i = (i - 1) + 1)
  OBVIOUS
<1>8. p \in [1..(n + 1) -> 1..(n + 1)]
  <2> SUFFICES ASSUME NEW i \in 1..(n + 1) PROVE p[i] \in 1..(n + 1)
    BY Zenon
  <2> HIDE DEF u, p
  <2> QED
    BY <1>5, <1>6, <1>7, Zenon
<1>9. ASSUME NEW w \in 1..(n + 1) PROVE \E v \in 1..(n + 1) : p[v] = w
  <2> HIDE DEF u, p
  <2>1. CASE w = m
    BY <1>6, <2>1
  <2>2. CASE w < m
    <3>1. w \in 1..n
      BY <2>2
    <3>2. PICK v \in 1..n : q[v] = w
      BY <1>4, <3>1, Zenon
    <3>3. v + 1 \in 1..(n + 1) /\ p[v + 1] = w
      BY <1>11, <2>2, <3>2, SMTT(20)
    <3> QED
      BY <3>3
  <2>3. CASE w > m
    <3>1. w - 1 \in 1..n /\ ~(w - 1 < m) /\ (w - 1) + 1 = w
      BY <2>3
    <3>2. PICK v \in 1..n : q[v] = w - 1
      BY <1>4, <3>1, Zenon
    <3>3. v + 1 \in 1..(n + 1) /\ p[v + 1] = w
      BY <1>11, <3>1, <3>2, SMTT(20)
    <3> QED
      BY <3>3
  <2> QED
    BY <2>1, <2>2, <2>3
<1>10. ASSUME NEW i \in 1..(n + 1), NEW j \in 1..(n + 1), i < j PROVE s[p[i]] <= s[p[j]]
  <2> HIDE DEF u, p
  <2>1. p[j] \in 1..(n + 1)
    BY <1>8, Zenon
  <2>2. CASE i = 1
    BY <1>1, <1>6, <2>1, <2>2
  <2>3. CASE i # 1
    <3>1. i - 1 \in 1..n /\ j - 1 \in 1..n /\ i - 1 < j - 1
      BY <1>10, <2>3
    <3>2. u[q[i - 1]] <= u[q[j - 1]]
      BY <1>4, <3>1
    <3>3. s[p[(i - 1) + 1]] = u[q[i - 1]] /\ s[p[(j - 1) + 1]] = u[q[j - 1]]
      BY <1>5, <3>1
    <3>4. (i - 1) + 1 = i /\ (j - 1) + 1 = j
      OBVIOUS
    <3>5. s[p[i]] = u[q[i - 1]] /\ s[p[j]] = u[q[j - 1]]
      BY <3>3, <3>4, Zenon
    <3> QED
      BY <3>2, <3>5
  <2> QED
    BY <2>2, <2>3
<1> HIDE DEF p
<1> QED
  BY <1>8, <1>9, <1>10, Zenon DEF Orders, Surjection

\* Every list can be put in order.
LEMMA OrderExists == \A n \in Nat : \A s \in [1..n -> Nat] : Orders(n, s) # {}
<1> DEFINE T == {n \in Nat : \E s \in [1..n -> Nat] : Orders(n, s) = {}}
<1> SUFFICES ASSUME T # {} PROVE FALSE
  OBVIOUS
<1>1. T \in SUBSET Nat
  OBVIOUS
<1> HIDE DEF T
<1>2. PICK n \in T : \A m \in T : n <= m
  BY <1>1, LeastNat
<1>3. n \in Nat /\ \E s \in [1..n -> Nat] : Orders(n, s) = {}
  BY DEF T
<1>4. PICK s \in [1..n -> Nat] : Orders(n, s) = {}
  BY <1>3
<1>5. CASE n = 0
  <2>1. [i \in 1..n |-> i] \in Orders(n, s)
    BY <1>5 DEF Orders, Surjection
  <2> QED
    BY <1>4, <2>1
<1>6. CASE n # 0
  <2>1. n - 1 \in Nat /\ (n - 1) + 1 = n /\ ~(n <= n - 1)
    BY <1>3, <1>6
  <2>2. n - 1 \notin T
    BY <1>2, <2>1
  <2>3. \A u \in [1..(n - 1) -> Nat] : Orders(n - 1, u) # {}
    BY <2>1, <2>2, Zenon DEF T
  <2> QED
    BY <1>4, <2>1, <2>3, OrderOneMore, Zenon
<1> QED
  BY <1>5, <1>6

\* sort returns what sort.Strings does: the same names, as often, in order.
LEMMA SortProperties ==
  ASSUME NEW s \in Seq(Nat)
  PROVE  /\ sort(s) \in [1..Len(s) -> Range(s)]
         /\ \A i, j \in 1..Len(s) : i < j => sort(s)[i] <= sort(s)[j]
         /\ \A n \in Range(s) : Cardinality({i \in 1..Len(s) : sort(s)[i] = n})
                                  = Cardinality({i \in 1..Len(s) : s[i] = n})
<1> DEFINE D == 1..Len(s)
           Sorts(t) == /\ \A i, j \in D : i < j => t[i] <= t[j]
                       /\ \A n \in Range(s) :
                            Cardinality({i \in D : t[i] = n}) = Cardinality({i \in D : s[i] = n})
<1>1. Len(s) \in Nat /\ s \in [D -> Nat] /\ DOMAIN s = D
  OBVIOUS
<1>2. PICK p \in Orders(Len(s), s) : TRUE
  BY <1>1, OrderExists
<1>3. p \in Surjection(D, D) /\ \A i, j \in D : i < j => s[p[i]] <= s[p[j]]
  BY DEF Orders
<1>4. IsFiniteSet(D)
  BY <1>1, FS_Interval
<1>5. p \in Injection(D, D)
  BY <1>3, <1>4, FS_SurjSameCardinalityImpliesInj
<1> DEFINE t == [i \in D |-> s[p[i]]]
<1> HIDE DEF D
<1>6. p \in [D -> D] /\ t \in [D -> Range(s)]
  BY <1>1, <1>3, Zenon DEF Surjection, Range
<1>7. ASSUME NEW n \in Range(s)
      PROVE  Cardinality({i \in D : t[i] = n}) = Cardinality({i \in D : s[i] = n})
  <2> DEFINE A == {i \in D : t[i] = n}
             B == {i \in D : s[i] = n}
             f == [i \in A |-> p[i]]
  <2>1. \A i \in D : i \in A <=> p[i] \in B
    BY <1>6
  <2>2. f \in [A -> B]
    BY <2>1
  <2>3. f \in Injection(A, B)
    BY <1>5, <2>2 DEF Injection, IsInjective
  <2>4. f \in Surjection(A, B)
    BY <1>3, <2>1, <2>2 DEF Surjection
  <2>5. ExistsBijection(A, B)
    BY <2>3, <2>4 DEF ExistsBijection, Bijection
  <2>6. IsFiniteSet(A)
    BY <1>4, FS_Subset, Zenon
  <2> QED
    BY <2>5, <2>6, FS_Bijection
<1>8. \A i, j \in D : i < j => t[i] <= t[j]
  BY <1>3
<1>9. t \in [D -> Range(s)] /\ Sorts(t)
  BY <1>6, <1>7, <1>8, Zenon
<1> HIDE DEF t
<1>10. sort(s) = CHOOSE x \in [D -> Range(s)] : Sorts(x)
  BY DEF sort, D
<1> HIDE DEF Sorts
<1>11. sort(s) \in [D -> Range(s)] /\ Sorts(sort(s))
  BY <1>9, <1>10, Zenon
<1> QED
  BY <1>11, Zenon DEF Sorts, D

\* A function on 1..n is a list of n numbers.
LEMMA IsList ==
  ASSUME NEW n \in Nat, NEW S \in SUBSET Nat, NEW f \in [1..n -> S]
  PROVE  f \in Seq(Nat) /\ Len(f) = n
<1>1. f \in [1..n -> Nat]
  BY Zenon
<1> QED
  BY <1>1

\* Lists in order without repetition.
Increasing(s) == \A i, j \in 1..Len(s) : i < j => s[i] < s[j]

\* The names of a list as SetToSeq gives them: each once.
LEMMA ListedOnce ==
  ASSUME NEW S \in SUBSET Nat, IsFiniteSet(S)
  PROVE  /\ SetToSeq(S) \in Seq(Nat) /\ Len(SetToSeq(S)) = Cardinality(S)
         /\ Range(SetToSeq(S)) = S /\ Cardinality(S) \in Nat
         /\ \A i, j \in 1..Cardinality(S) : SetToSeq(S)[i] = SetToSeq(S)[j] => i = j
<1> DEFINE n == Cardinality(S)
           f == SetToSeq(S)
<1>1. n \in Nat /\ ExistsBijection(1..n, S)
  BY FS_CardinalityType
<1>2. \E g \in [1..n -> S] : IsInjective(g)
  BY <1>1 DEF ExistsBijection, Bijection, Injection
<1>3. f = CHOOSE g \in [1..n -> S] : IsInjective(g)
  BY DEF SetToSeq
<1> HIDE DEF n, f
<1>4. f \in [1..n -> S] /\ IsInjective(f)
  BY <1>2, <1>3, Zenon
<1>5. f \in Seq(Nat) /\ Len(f) = n
  BY <1>1, <1>4, IsList, Zenon
<1>6. f \in Injection(1..n, S) /\ Cardinality(1..n) = n
  BY <1>1, <1>4, FS_Interval DEF Injection
<1>7. f \in Surjection(1..n, S)
  BY <1>6, FS_Injection DEF n
<1>8. Range(f) = S
  BY <1>4, <1>7 DEF Range, Surjection
<1>9. \A i, j \in 1..n : f[i] = f[j] => i = j
  BY <1>4 DEF IsInjective
<1> QED
  BY <1>1, <1>5, <1>8, <1>9 DEF f, n

\* A set has an increasing enumeration, and sorted is one.
LEMMA SortedProperties ==
  ASSUME NEW S \in SUBSET Nat, IsFiniteSet(S)
  PROVE  /\ sorted(S) \in Seq(Nat) /\ Len(sorted(S)) = Cardinality(S) /\ Cardinality(S) \in Nat
         /\ Increasing(sorted(S)) /\ Range(sorted(S)) = S
<1> DEFINE l == SetToSeq(S)
           s == sort(l)
           n == Len(l)
<1>1. /\ l \in Seq(Nat) /\ n = Cardinality(S) /\ Range(l) = S /\ n \in Nat
      /\ \A i, j \in 1..n : l[i] = l[j] => i = j
  BY ListedOnce
<1>2. /\ s \in [1..n -> S]
      /\ \A i, j \in 1..n : i < j => s[i] <= s[j]
      /\ \A x \in S : Cardinality({i \in 1..n : s[i] = x}) = Cardinality({i \in 1..n : l[i] = x})
  BY <1>1, SortProperties, Zenon
<1> HIDE DEF l, s, n
<1>3. s \in Seq(Nat) /\ Len(s) = n
  BY <1>1, <1>2, IsList, Zenon
<1>4. ASSUME NEW x \in S PROVE \E i \in 1..n : {k \in 1..n : s[k] = x} = {i}
  <2>1. PICK k \in DOMAIN l : l[k] = x
    BY <1>1, Zenon DEF Range
  <2>2. k \in 1..n
    BY <1>1 DEF n
  <2>3. {i \in 1..n : l[i] = x} = {k}
    BY <1>1, <2>1, <2>2
  <2>4. Cardinality({i \in 1..n : s[i] = x}) = 1
    BY <1>2, <2>3, FS_Singleton, Zenon
  <2>5. IsFiniteSet({i \in 1..n : s[i] = x})
    <3>1. IsFiniteSet(1..n)
      BY <1>1, FS_Interval
    <3> QED
      BY <3>1, FS_Subset, Zenon
  <2>6. PICK i : {k1 \in 1..n : s[k1] = x} = {i}
    BY <2>4, <2>5, FS_Singleton, Zenon
  <2>7. i \in 1..n
    BY <2>6
  <2> QED
    BY <2>6, <2>7
<1>5. \A i, j \in 1..n : i < j => s[i] < s[j]
  <2> SUFFICES ASSUME NEW i \in 1..n, NEW j \in 1..n, i < j PROVE s[i] < s[j]
    OBVIOUS
  <2>1. s[i] \in Nat /\ s[j] \in Nat /\ s[i] <= s[j] /\ s[i] \in S
    BY <1>2, Zenon
  <2>2. PICK k \in 1..n : {k1 \in 1..n : s[k1] = s[i]} = {k}
    BY <1>4, <2>1
  <2>3. s[i] = s[j] => i = k /\ j = k
    BY <2>2
  <2> QED
    BY <2>1, <2>3
<1>6. Range(s) = S
  <2>1. \A x \in S : \E i \in 1..n : s[i] = x
    BY <1>4
  <2> QED
    BY <1>2, <2>1, Zenon DEF Range
<1>7. sorted(S) = s
  BY DEF sorted, s, l
<1> QED
  BY <1>1, <1>3, <1>5, <1>6, <1>7 DEF Increasing

\* An increasing list whose names are the least ones of S is the beginning of
\* sorted(S): S has one increasing enumeration.
LEMMA SortedPrefix ==
  ASSUME NEW S \in SUBSET Nat, IsFiniteSet(S), NEW v \in Seq(Nat), Increasing(v),
         Range(v) \subseteq S, \A x \in S, y \in Range(v) : x < y => x \in Range(v)
  PROVE  Len(v) <= Len(sorted(S)) /\ \A i \in 1..Len(v) : v[i] = sorted(S)[i]
<1> DEFINE w == sorted(S)
           Bad == {i \in 1..Len(v) : i > Len(w) \/ v[i] # w[i]}
<1>1. w \in Seq(Nat) /\ Increasing(w) /\ Range(w) = S
  BY SortedProperties
<1> HIDE DEF w
<1>2. /\ Len(v) \in Nat /\ Len(w) \in Nat
      /\ \A i \in 1..Len(v) : v[i] \in Nat /\ v[i] \in Range(v)
      /\ \A i \in 1..Len(w) : w[i] \in Nat /\ w[i] \in S
  BY <1>1 DEF Range
<1>3. ASSUME Bad # {} PROVE FALSE
  <2>1. Bad \in SUBSET Nat
    BY <1>2
  <2>2. PICK i \in Bad : \A j \in Bad : i <= j
    BY <1>3, <2>1, LeastNat, Zenon
  <2>3. i \in 1..Len(v) /\ (i > Len(w) \/ v[i] # w[i])
    OBVIOUS
  <2>4. \A j \in 1..Len(v) : j < i => j <= Len(w) /\ v[j] = w[j]
    BY <1>2, <2>2, <2>3
  <2> HIDE DEF Bad
  <2>5. PICK k \in 1..Len(w) : w[k] = v[i]
    <3>1. v[i] \in Range(w)
      BY <1>1, <1>2, <2>3
    <3> QED
      BY <1>1, <3>1 DEF Range
  <2>6. ~(k < i)
    <3> SUFFICES ASSUME k < i PROVE FALSE
      OBVIOUS
    <3>1. k \in 1..Len(v) /\ v[k] = w[k]
      BY <1>2, <2>3, <2>4, <2>5
    <3>2. v[k] < v[i]
      BY <2>3, <3>1 DEF Increasing
    <3> QED
      BY <1>2, <2>3, <2>5, <3>1, <3>2
  <2>7. ~(i < k)
    <3> SUFFICES ASSUME i < k PROVE FALSE
      OBVIOUS
    <3>1. i \in 1..Len(w) /\ w[i] < v[i]
      BY <1>1, <1>2, <2>3, <2>5 DEF Increasing
    <3>2. w[i] \in Range(v)
      BY <1>2, <2>3, <3>1
    <3>3. PICK j \in 1..Len(v) : v[j] = w[i]
      BY <3>2 DEF Range
    <3>4. j < i
      <4>1. j = i \/ (i < j => v[i] < v[j])
        BY <2>3, <3>3 DEF Increasing
      <4>2. v[j] < v[i] /\ v[i] \in Nat /\ v[j] \in Nat
        BY <1>2, <2>3, <3>1, <3>3
      <4> QED
        BY <2>3, <3>3, <4>1, <4>2
    <3>5. j \in 1..Len(w) /\ w[j] = w[i]
      BY <1>2, <2>4, <3>3, <3>4
    <3>6. w[j] < w[i]
      BY <1>1, <3>1, <3>4, <3>5 DEF Increasing
    <3> QED
      BY <1>2, <3>1, <3>5, <3>6
  <2>8. k = i
    BY <1>2, <2>3, <2>5, <2>6, <2>7
  <2> QED
    BY <1>2, <2>3, <2>5, <2>8
<1>4. \A i \in 1..Len(v) : i <= Len(w) /\ v[i] = w[i]
  BY <1>2, <1>3
<1>5. Len(v) <= Len(w)
  BY <1>2, <1>4
<1> QED
  BY <1>4, <1>5 DEF w

\* It is sorted(S) when it has all of them.
LEMMA SortedUnique ==
  ASSUME NEW S \in SUBSET Nat, IsFiniteSet(S), NEW v \in Seq(Nat), Increasing(v), Range(v) = S
  PROVE  v = sorted(S)
<1> DEFINE w == sorted(S)
<1>1. /\ Len(v) <= Len(w) /\ \A i \in 1..Len(v) : v[i] = w[i]
  BY SortedPrefix
<1>2. w \in Seq(Nat) /\ Increasing(w) /\ Range(w) = S
  BY SortedProperties
<1> HIDE DEF w
<1>3. Len(v) \in Nat /\ Len(w) \in Nat
  BY <1>2
<1>4. Len(w) <= Len(v)
  <2> SUFFICES ASSUME Len(v) < Len(w) PROVE FALSE
    BY <1>3
  <2> DEFINE n == Len(w)
  <2>0. n \in 1..Len(w)
    BY <1>3
  <2>1. n \in 1..Len(w) /\ w[n] \in Range(v) /\ w[n] \in Nat
    <3>1. w[n] \in Nat /\ n \in DOMAIN w
      BY <1>2, <2>0
    <3>2. w[n] \in Range(w)
      BY <3>1, Zenon DEF Range
    <3> QED
      BY <1>2, <2>0, <3>1, <3>2
  <2>2. PICK j \in 1..Len(v) : v[j] = w[n]
    BY <2>1 DEF Range
  <2>3. j \in 1..Len(w) /\ j < n /\ w[j] = w[n]
    BY <1>1, <1>3, <2>2
  <2>4. w[j] < w[n]
    BY <1>2, <2>1, <2>3 DEF Increasing
  <2> QED
    BY <2>1, <2>3, <2>4
<1>5. Len(v) = Len(w)
  BY <1>1, <1>3, <1>4
<1>6. v = w
  BY <1>1, <1>2, <1>5
<1> QED
  BY <1>6 DEF w

\* IsPrefix, place by place.
LEMMA SameList ==
  ASSUME NEW s \in Seq(Nat), NEW t \in Seq(Nat), Len(s) = Len(t), \A i \in 1..Len(s) : s[i] = t[i]
  PROVE  s = t
  OBVIOUS

\* A list that agrees with another place by place is a prefix of it.
LEMMA PrefixByPlace ==
  ASSUME NEW s \in Seq(Nat), NEW t \in Seq(Nat), Len(s) <= Len(t),
         \A i \in 1..Len(s) : s[i] = t[i]
  PROVE  IsPrefix(s, t)
<1>1. SubSeq(s, 1, Len(s)) = SubSeq(t, 1, Len(s))
  OBVIOUS
<1> QED
  BY <1>1 DEF IsPrefix

----------------------------------------------------------------------------
(* The invariants.                                                         *)

\* The buckets that are loaded are there, and the created ones are loaded.
TxInv ==
    /\ base \in SUBSET Names /\ created \in SUBSET Names /\ deleted \in SUBSET Names
    /\ bctx \in SUBSET Names /\ open \in BOOLEAN
    /\ created \subseteq bctx /\ bctx \subseteq nameSet

\* The scan has returned dir from place k on up to where the cursor stands, or
\* backwards from the end.
Forward(k) ==
    /\ dirIdx >= k
    /\ k + Len(seen) = IF dirIdx < Len(dir) THEN dirIdx + 1 ELSE Len(dir)
    /\ \A i \in 1..Len(seen) : seen[i] = dir[k + i]

Backward ==
    /\ dirIdx < Len(dir) \/ dirIdx = 0
    /\ Len(seen) = IF dirIdx < 0 \/ dir = <<>> THEN Len(dir) ELSE Len(dir) - dirIdx
    /\ \A i \in 1..Len(seen) : seen[i] = dir[Len(dir) + 1 - i]

ScanInv ==
    \/ from = <<"mixed">>
    \/ from = <<"new">> /\ seen = <<>> /\ (dirIdx = -1 \/ (dir = <<>> /\ dirIdx = 0))
    \/ from = <<"first">> /\ Forward(0)
    \/ \E n \in Names : from = <<"seek", n>> /\ Forward(seekIdx(n))
    \/ from = <<"last">> /\ Backward

CursorInv ==
    /\ view \in SUBSET Names /\ dir = sorted(view)
    /\ dirIdx \in Int /\ ret = dirKeyValue(dirIdx) /\ seen \in Seq(Nat)
    /\ ScanInv

visitedNames == [i \in 1..Len(visited) |-> visited[i].name]

\* ForEach has visited the least of the names it began with; those still to visit
\* are the others, and perhaps the last one again.
VisitedInv ==
    /\ start \in SUBSET Names /\ visited \in Seq([name : Names, bucket : BOOLEAN, open : BOOLEAN])
    /\ Increasing(visitedNames) /\ Range(visitedNames) \subseteq start
    /\ \A x \in start, y \in Range(visitedNames) : x < y => x \in Range(visitedNames)
    /\ \A i \in 1..Len(visited) : fitting(visited[i])

ToVisit ==
    /\ each \in Seq(Names) /\ \A i, j \in 1..Len(each) : i < j => each[i] <= each[j]
    /\ Range(each) \cup Range(visitedNames) = start
    /\ \A x \in Range(each), y \in Range(visitedNames) : y <= x

LoopInv ==
    /\ VisitedInv
    /\ each # Nil => ToVisit
    /\ each # Nil /\ open => \A n \in start \ gone : Visible(n)

DirectoryInv == TxInv /\ CursorInv /\ LoopInv

----------------------------------------------------------------------------
(* The cursor.                                                             *)

\* Any set of names is a finite set of numbers.
LEMMA NamesFinite ==
  ASSUME NEW S \in SUBSET Names
  PROVE  S \in SUBSET Nat /\ IsFiniteSet(S)
  BY DirectoryAssumption, FS_Subset, Zenon

\* dir has the names of view, in order.
LEMMA DirIsView ==
  ASSUME CursorInv
  PROVE  /\ dir \in Seq(Nat) /\ Increasing(dir) /\ Range(dir) = view /\ Len(dir) \in Nat
         /\ \A i \in 1..Len(dir) : dir[i] \in view /\ dir[i] \in Nat /\ dir[i] # Nil
<1>1. view \in SUBSET Names /\ dir = sorted(view)
  BY DEF CursorInv
<1>2. dir \in Seq(Nat) /\ Increasing(dir) /\ Range(dir) = view
  BY <1>1, NamesFinite, SortedProperties
<1>3. \A i \in 1..Len(dir) : dir[i] \in view
  BY <1>2 DEF Range
<1> QED
  BY <1>1, <1>2, <1>3, DirectoryAssumption

\* sort.Search finds the place before which all names are below n.
LEMMA SeekPlace ==
  ASSUME NEW d \in Seq(Nat), Increasing(d), NEW n \in Nat,
         NEW k, k = Cardinality({i \in 1..Len(d) : d[i] < n})
  PROVE  k \in 0..Len(d) /\ \A i \in 1..Len(d) : d[i] < n <=> i <= k
<1> DEFINE Not == {i \in 1..Len(d) : ~(d[i] < n)}
<1>1. Len(d) \in Nat /\ \A i \in 1..Len(d) : d[i] \in Nat
  OBVIOUS
<1>2. CASE Not = {}
  <2>1. {i \in 1..Len(d) : d[i] < n} = 1..Len(d)
    BY <1>2
  <2>2. Cardinality(1..Len(d)) = Len(d)
    BY <1>1, FS_Interval
  <2>3. k = Len(d)
    BY <2>1, <2>2, Zenon
  <2>4. \A i \in 1..Len(d) : d[i] < n
    BY <1>2
  <2>5. \A i \in 1..Len(d) : i <= Len(d)
    BY <1>1
  <2>6. Len(d) \in 0..Len(d)
    BY <1>1
  <2> QED
    BY <2>3, <2>4, <2>5, <2>6, Zenon
<1>3. CASE Not # {}
  <2>1. PICK b \in Not : \A c \in Not : b <= c
    <3>1. Not \in SUBSET Nat
      OBVIOUS
    <3> QED
      BY <1>3, <3>1, LeastNat, Zenon
  <2>2. b \in 1..Len(d) /\ ~(d[b] < n)
    OBVIOUS
  <2>3. \A i \in 1..Len(d) : d[i] < n <=> i <= b - 1
    <3> SUFFICES ASSUME NEW i \in 1..Len(d) PROVE d[i] < n <=> i <= b - 1
      OBVIOUS
    <3>1. CASE i < b
      BY <2>1, <2>2, <3>1
    <3>2. CASE i = b
      BY <2>2, <3>2
    <3>3. CASE i > b
      <4>1. d[b] < d[i]
        BY <2>2, <3>3 DEF Increasing
      <4> QED
        BY <1>1, <2>2, <3>3, <4>1
    <3> QED
      BY <2>2, <3>1, <3>2, <3>3
  <2> HIDE DEF Not
  <2>4. {i \in 1..Len(d) : d[i] < n} = 1..(b - 1)
    BY <1>1, <2>2, <2>3
  <2>5. Cardinality(1..(b - 1)) = b - 1
    BY <2>2, FS_Interval
  <2>6. k = b - 1
    BY <2>4, <2>5, Zenon
  <2>7. b - 1 \in 0..Len(d)
    BY <1>1, <2>2
  <2> QED
    BY <2>3, <2>6, <2>7, Zenon
<1> QED
  BY <1>2, <1>3

\* What the cursor finds at position j.
LEMMA KeyValue ==
  ASSUME CursorInv, NEW j \in Int
  PROVE  /\ j \in 0..(Len(dir) - 1) => /\ dirKeyValue(j) = dir[j + 1] /\ dirKeyValue(j) # Nil
                                       /\ dirKeyValue(j) \in Nat
         /\ j \notin 0..(Len(dir) - 1) => dirKeyValue(j) = Nil
<1>1. Len(dir) \in Nat /\ \A i \in 1..Len(dir) : dir[i] \in Nat /\ dir[i] # Nil
  BY DirIsView
<1> QED
  BY <1>1 DEF dirKeyValue

\* What appending a name does.
LEMMA NameAppended ==
  ASSUME NEW s \in Seq(Nat), NEW x \in Nat, NEW t, t = Append(s, x)
  PROVE  /\ t \in Seq(Nat) /\ Len(t) = Len(s) + 1 /\ t[Len(t)] = x
         /\ \A i \in 1..Len(s) : t[i] = s[i]
         /\ \A i \in 1..Len(t) : i \in 1..Len(s) \/ i = Len(t)
  OBVIOUS

\* A call that positions the cursor at k begins a scan there ...
LEMMA ScanBegins ==
  ASSUME CursorInv, NEW k \in 0..Len(dir), NEW f, moveTo(k), begins(f)
  PROVE  Forward(k)' /\ seen' \in Seq(Nat) /\ from' = f
<1>1. /\ dirIdx' = k /\ dir' = dir /\ ret' = dirKeyValue(k) /\ from' = f
      /\ seen' = IF ret' = Nil THEN <<>> ELSE <<ret'>>
  BY DEF moveTo, begins
<1>2. Len(dir) \in Nat
  BY DirIsView
<1>3. CASE k < Len(dir)
  <2>1. ret' = dir[k + 1] /\ ret' # Nil /\ ret' \in Nat
    BY <1>1, <1>2, <1>3, KeyValue
  <2>2. seen' = <<dir[k + 1]>> /\ seen' \in Seq(Nat)
    BY <1>1, <2>1
  <2>3. Len(seen') = 1 /\ seen'[1] = dir'[k + 1]
    BY <1>1, <2>2
  <2> QED
    BY <1>1, <1>2, <1>3, <2>2, <2>3 DEF Forward
<1>4. CASE ~(k < Len(dir))
  <2>1. seen' = <<>>
    BY <1>1, <1>2, <1>4, KeyValue
  <2> QED
    BY <1>1, <1>2, <1>4, <2>1 DEF Forward
<1> QED
  BY <1>3, <1>4

\* ... which Next continues ...
LEMMA ScanGoesOn ==
  ASSUME CursorInv, NEW k \in 0..Len(dir), Forward(k), moveTo(dirIdx + 1),
         seen' = IF ret' = Nil THEN seen ELSE Append(seen, ret')
  PROVE  Forward(k)' /\ seen' \in Seq(Nat)
<1>1. dirIdx' = dirIdx + 1 /\ dir' = dir /\ ret' = dirKeyValue(dirIdx + 1)
  BY DEF moveTo
<1>2. /\ Len(dir) \in Nat /\ dirIdx \in Int /\ seen \in Seq(Nat) /\ Len(seen) \in Nat
      /\ dirIdx >= k
      /\ k + Len(seen) = IF dirIdx < Len(dir) THEN dirIdx + 1 ELSE Len(dir)
      /\ \A i \in 1..Len(seen) : seen[i] = dir[k + i]
  BY DirIsView DEF CursorInv, Forward
<1>3. CASE dirIdx + 1 < Len(dir)
  <2>1. ret' = dir[dirIdx + 2] /\ ret' # Nil /\ ret' \in Nat
    BY <1>1, <1>2, <1>3, KeyValue
  <2>0. seen' = Append(seen, ret')
    BY <2>1, Zenon
  <2>2. /\ seen' \in Seq(Nat) /\ Len(seen') = Len(seen) + 1 /\ seen'[Len(seen')] = ret'
        /\ \A i \in 1..Len(seen) : seen'[i] = seen[i]
        /\ \A i \in 1..Len(seen') : i \in 1..Len(seen) \/ i = Len(seen')
    BY <1>2, <2>0, <2>1, NameAppended
  <2>3. k + Len(seen') = dirIdx + 2
    BY <1>2, <1>3, <2>2
  <2>6. \A i \in 1..Len(seen') : seen'[i] = dir'[k + i]
    BY <1>1, <1>2, <2>1, <2>2, <2>3, Zenon
  <2>7. dirIdx' >= k /\ dirIdx' < Len(dir') /\ k + Len(seen') = dirIdx' + 1
    BY <1>1, <1>2, <1>3, <2>3
  <2> QED
    BY <2>2, <2>6, <2>7, Zenon DEF Forward
<1>4. CASE ~(dirIdx + 1 < Len(dir))
  <2>1. seen' = seen
    BY <1>1, <1>2, <1>4, KeyValue
  <2> QED
    BY <1>1, <1>2, <1>4, <2>1 DEF Forward
<1> QED
  BY <1>3, <1>4

\* ... and Prev the one from the end.
LEMMA BackBegins ==
  ASSUME CursorInv, moveTo(IF dir = <<>> THEN 0 ELSE Len(dir) - 1), begins(<<"last">>)
  PROVE  Backward' /\ seen' \in Seq(Nat) /\ from' = <<"last">>
<1>1. /\ dir' = dir /\ from' = <<"last">> /\ dirIdx' = (IF dir = <<>> THEN 0 ELSE Len(dir) - 1)
      /\ ret' = dirKeyValue(dirIdx') /\ seen' = IF ret' = Nil THEN <<>> ELSE <<ret'>>
  BY DEF moveTo, begins
<1>2. Len(dir) \in Nat /\ dir \in Seq(Nat)
  BY DirIsView
<1>3. CASE dir # <<>>
  <2>1. dirIdx' = Len(dir) - 1 /\ Len(dir) > 0
    BY <1>1, <1>2, <1>3
  <2>2. ret' = dir[Len(dir)] /\ ret' # Nil /\ ret' \in Nat
    <3>1. Len(dir) - 1 \in 0..(Len(dir) - 1) /\ Len(dir) - 1 \in Int /\ (Len(dir) - 1) + 1 = Len(dir)
      BY <1>2, <2>1
    <3>2. /\ dirKeyValue(Len(dir) - 1) = dir[Len(dir)] /\ dirKeyValue(Len(dir) - 1) # Nil
          /\ dirKeyValue(Len(dir) - 1) \in Nat
      BY <3>1, KeyValue
    <3> QED
      BY <1>1, <2>1, <3>2, Zenon
  <2>3. seen' = <<dir[Len(dir)]>>
    BY <1>1, <2>2, Zenon
  <2>4. seen' \in Seq(Nat) /\ Len(seen') = 1 /\ seen'[1] = dir[Len(dir)]
    BY <2>2, <2>3
  <2>5. \A i \in 1..Len(seen') : seen'[i] = dir'[Len(dir') + 1 - i]
    BY <1>1, <1>2, <2>4
  <2>6. Len(dir) - (Len(dir) - 1) = 1 /\ Len(dir) - 1 < Len(dir) /\ ~(Len(dir) - 1 < 0)
    BY <1>2, <2>1
  <2> QED
    BY <1>1, <1>3, <2>1, <2>4, <2>5, <2>6, Zenon DEF Backward
<1>4. CASE dir = <<>>
  <2>1. dirIdx' = 0 /\ Len(dir) = 0
    BY <1>1, <1>4
  <2>2. seen' = <<>>
    BY <1>1, <2>1, KeyValue
  <2> QED
    BY <1>1, <1>4, <2>1, <2>2 DEF Backward
<1> QED
  BY <1>3, <1>4

\* A backward scan that takes one more step is still one.
LEMMA BackGoesOn ==
  ASSUME CursorInv, Backward, moveTo(dirIdx - 1),
         seen' = IF ret' = Nil THEN seen ELSE Append(seen, ret')
  PROVE  Backward' /\ seen' \in Seq(Nat)
<1>1. dirIdx' = dirIdx - 1 /\ dir' = dir /\ ret' = dirKeyValue(dirIdx - 1)
  BY DEF moveTo
<1>2. /\ Len(dir) \in Nat /\ dirIdx \in Int /\ seen \in Seq(Nat) /\ Len(seen) \in Nat
      /\ dirIdx < Len(dir) \/ dirIdx = 0
      /\ dir = <<>> <=> Len(dir) = 0
  BY DirIsView DEF CursorInv, Backward
<1>5. /\ Len(seen) = IF dirIdx < 0 \/ dir = <<>> THEN Len(dir) ELSE Len(dir) - dirIdx
      /\ \A i \in 1..Len(seen) : seen[i] = dir[Len(dir) + 1 - i]
  BY DEF Backward
<1>3. CASE dirIdx >= 1
  <2>1. dirIdx - 1 \in 0..(Len(dir) - 1) /\ dirIdx - 1 \in Int /\ (dirIdx - 1) + 1 = dirIdx
    BY <1>2, <1>3
  <2>2. ret' = dir[dirIdx] /\ ret' # Nil /\ ret' \in Nat
    <3>1. /\ dirKeyValue(dirIdx - 1) = dir[(dirIdx - 1) + 1] /\ dirKeyValue(dirIdx - 1) # Nil
          /\ dirKeyValue(dirIdx - 1) \in Nat
      BY <2>1, KeyValue
    <3> QED
      BY <1>1, <2>1, <3>1, Zenon
  <2>3. seen' = Append(seen, ret')
    BY <2>2, Zenon
  <2>4. /\ seen' \in Seq(Nat) /\ Len(seen') = Len(seen) + 1 /\ seen'[Len(seen')] = ret'
        /\ \A i \in 1..Len(seen) : seen'[i] = seen[i]
        /\ \A i \in 1..Len(seen') : i \in 1..Len(seen) \/ i = Len(seen')
    BY <1>2, <2>2, <2>3, NameAppended
  <2>8. ~(dirIdx < 0) /\ dir # <<>>
    BY <1>2, <1>3
  <2>9. Len(seen) = Len(dir) - dirIdx
    BY <1>5, <2>8, Zenon
  <2>5. Len(seen') = Len(dir) - dirIdx' /\ Len(dir) + 1 - Len(seen') = dirIdx
    BY <1>1, <1>2, <2>4, <2>9
  <2>6. \A i \in 1..Len(seen') : seen'[i] = dir'[Len(dir') + 1 - i]
    BY <1>1, <1>5, <2>2, <2>4, <2>5, Zenon
  <2>7. dirIdx' < Len(dir') /\ ~(dirIdx' < 0) /\ dir' # <<>>
    BY <1>1, <1>2, <1>3
  <2> QED
    BY <1>1, <2>4, <2>5, <2>6, <2>7, Zenon DEF Backward
<1>4. CASE ~(dirIdx >= 1)
  <2>1. dirIdx - 1 \notin 0..(Len(dir) - 1) /\ dirIdx - 1 \in Int
    BY <1>2, <1>4
  <2>2. seen' = seen
    BY <1>1, <2>1, KeyValue
  <2>3. Len(seen) = Len(dir) /\ dirIdx' < 0 /\ dirIdx' < Len(dir)
    BY <1>1, <1>2, <1>4, <1>5
  <2> QED
    BY <1>1, <1>2, <1>5, <2>2, <2>3, Zenon DEF Backward
<1> QED
  BY <1>3, <1>4

\* The calls that position the cursor are different.
LEMMA FromDistinct ==
  /\ <<"mixed">> # <<"new">> /\ <<"mixed">> # <<"first">> /\ <<"mixed">> # <<"last">>
  /\ <<"new">> # <<"first">> /\ <<"new">> # <<"last">> /\ <<"first">> # <<"last">>
  /\ \A n : /\ <<"seek", n>> # <<"mixed">> /\ <<"seek", n>> # <<"new">>
            /\ <<"seek", n>> # <<"first">> /\ <<"seek", n>> # <<"last">>
  OBVIOUS

\* A call that moves the cursor leaves the names alone.
LEMMA CursorFrame ==
  ASSUME CursorInv, UNCHANGED <<dir, view>>, dirIdx' \in Int, ret' = dirKeyValue(dirIdx'),
         seen' \in Seq(Nat), ScanInv'
  PROVE  CursorInv'
  BY DEF CursorInv, dirKeyValue

\* Seek: its place in dir does not change.
LEMMA SeekIdx ==
  ASSUME CursorInv, NEW n \in Names
  PROVE  \E k \in 0..Len(dir) : /\ k = seekIdx(n) /\ k = Cardinality({i \in 1..Len(dir) : dir[i] < n})
                                /\ \A i \in 1..Len(dir) : dir[i] < n <=> i <= k
<1>1. n \in Nat /\ dir \in Seq(Nat) /\ Increasing(dir)
  BY DirIsView, DirectoryAssumption
<1> DEFINE k == Cardinality({i \in 1..Len(dir) : dir[i] < n})
<1>2. k \in 0..Len(dir) /\ \A i \in 1..Len(dir) : dir[i] < n <=> i <= k
  BY <1>1, SeekPlace
<1>3. k = seekIdx(n)
  BY DEF seekIdx
<1> QED
  BY <1>2, <1>3, Zenon

\* First, Last and Seek begin a scan.
LEMMA PositionStep ==
  ASSUME CursorInv, First \/ Last_ \/ \E n \in Names : Seek(n)
  PROVE  CursorInv'
<1>0. Len(dir) \in Nat
  BY DirIsView
<1>1. CASE First
  <2>1. moveTo(0) /\ begins(<<"first">>) /\ 0 \in 0..Len(dir)
    BY <1>0, <1>1 DEF First
  <2>2. Forward(0)' /\ seen' \in Seq(Nat) /\ from' = <<"first">>
    BY <2>1, ScanBegins
  <2>3. UNCHANGED <<dir, view>> /\ dirIdx' \in Int /\ ret' = dirKeyValue(dirIdx')
    BY <2>1 DEF moveTo
  <2> QED
    BY <2>2, <2>3, CursorFrame DEF ScanInv
<1>2. CASE Last_
  <2>1. moveTo(IF dir = <<>> THEN 0 ELSE Len(dir) - 1) /\ begins(<<"last">>)
    BY <1>2 DEF Last_
  <2>2. Backward' /\ seen' \in Seq(Nat) /\ from' = <<"last">>
    BY <2>1, BackBegins
  <2>3. UNCHANGED <<dir, view>> /\ dirIdx' \in Int /\ ret' = dirKeyValue(dirIdx')
    BY <1>0, <2>1 DEF moveTo
  <2> QED
    BY <2>2, <2>3, CursorFrame DEF ScanInv
<1>3. ASSUME NEW n \in Names, Seek(n) PROVE CursorInv'
  <2>0. PICK k \in 0..Len(dir) : k = seekIdx(n) /\ k = Cardinality({i \in 1..Len(dir) : dir[i] < n})
    BY SeekIdx
  <2>1. moveTo(k) /\ begins(<<"seek", n>>)
    BY <1>3, <2>0 DEF Seek
  <2>2. Forward(k)' /\ seen' \in Seq(Nat) /\ from' = <<"seek", n>>
    BY <2>1, ScanBegins
  <2>3. UNCHANGED <<dir, view>> /\ dirIdx' \in Int /\ ret' = dirKeyValue(dirIdx')
    BY <2>1 DEF moveTo
  <2>4. seekIdx(n)' = k
    BY <2>0, <2>3 DEF seekIdx
  <2>5. Forward(seekIdx(n))'
    BY <2>2, <2>4, Zenon DEF Forward
  <2> QED
    BY <2>2, <2>3, <2>5, CursorFrame DEF ScanInv
<1> QED
  BY <1>1, <1>2, <1>3

\* Next and Prev go on with a scan in its direction and give up any other.
LEMMA NextStep == ASSUME CursorInv, NextName PROVE CursorInv'
<1>1. moveTo(dirIdx + 1) /\ ScanInv /\ dirIdx \in Int /\ Len(dir) \in Nat
  BY DirIsView DEF NextName, CursorInv
<1>2. /\ UNCHANGED <<dir, view>> /\ dirIdx' = dirIdx + 1 /\ dirIdx' \in Int
      /\ ret' = dirKeyValue(dirIdx + 1) /\ ret' = dirKeyValue(dirIdx')
  BY <1>1 DEF moveTo
<1>3. SUFFICES seen' \in Seq(Nat) /\ ScanInv'
  BY <1>2, CursorFrame
<1>4. CASE from = <<"new">>
  <2>1. begins(<<"first">>) /\ (dirIdx = -1 \/ (dir = <<>> /\ dirIdx = 0))
    BY <1>1, <1>4, FromDistinct DEF NextName, ScanInv
  <2>2. CASE dirIdx = -1
    <3>1. moveTo(0) /\ 0 \in 0..Len(dir)
      BY <1>1, <2>2 DEF moveTo
    <3>2. Forward(0)' /\ seen' \in Seq(Nat) /\ from' = <<"first">>
      BY <2>1, <3>1, ScanBegins
    <3> QED
      BY <3>2 DEF ScanInv
  <2>3. CASE dir = <<>> /\ dirIdx = 0
    <3>1. dirIdx' = 1 /\ Len(dir) = 0 /\ dir' = dir /\ ret' = dirKeyValue(1)
      BY <1>2, <2>3
    <3>2. ret' = Nil
      BY <3>1, KeyValue
    <3>3. from' = <<"first">> /\ seen' = <<>>
      BY <2>1, <3>2 DEF begins
    <3> QED
      BY <3>1, <3>3 DEF ScanInv, Forward
  <2> QED
    BY <2>1, <2>2, <2>3
<1>5. CASE from # <<"new">>
  <2> DEFINE W == {<<"first">>} \cup {<<"seek", n>> : n \in Names}
  <2>1. steps(W)
    BY <1>5 DEF NextName
  <2>2. CASE from \notin W
    BY <2>1, <2>2 DEF steps, ScanInv
  <2>3. CASE from \in W
    <3>0. from' = from /\ seen' = IF ret' = Nil THEN seen ELSE Append(seen, ret')
      BY <2>1, <2>3, Zenon DEF steps
    <3>1. CASE from = <<"first">>
      <4>1. Forward(0) /\ 0 \in 0..Len(dir)
        BY <1>1, <3>1, FromDistinct DEF ScanInv
      <4>2. Forward(0)' /\ seen' \in Seq(Nat)
        BY <1>1, <3>0, <4>1, ScanGoesOn
      <4> QED
        BY <3>0, <3>1, <4>2 DEF ScanInv
    <3>2. CASE from # <<"first">>
      <4>1. PICK n \in Names : from = <<"seek", n>> /\ Forward(seekIdx(n))
        BY <1>1, <2>3, <3>2, FromDistinct, Zenon DEF ScanInv
      <4>2. PICK k \in 0..Len(dir) : k = seekIdx(n) /\ k = Cardinality({i \in 1..Len(dir) : dir[i] < n})
        BY SeekIdx
      <4>3. Forward(k)
        BY <4>1, <4>2, Zenon
      <4>4. Forward(k)' /\ seen' \in Seq(Nat)
        BY <1>1, <3>0, <4>3, ScanGoesOn
      <4>5. seekIdx(n)' = k
        BY <1>2, <4>2 DEF seekIdx
      <4>6. Forward(seekIdx(n))'
        BY <4>4, <4>5, Zenon DEF Forward
      <4> QED
        BY <3>0, <4>1, <4>4, <4>6 DEF ScanInv
    <3> QED
      BY <3>1, <3>2
  <2> QED
    BY <2>2, <2>3
<1> QED
  BY <1>4, <1>5

\* Prev keeps the invariant of the cursor.
LEMMA PrevStep == ASSUME CursorInv, PrevName PROVE CursorInv'
<1>1. moveTo(dirIdx - 1) /\ ScanInv /\ dirIdx \in Int /\ steps({<<"last">>})
  BY DEF PrevName, CursorInv
<1>2. /\ UNCHANGED <<dir, view>> /\ dirIdx' \in Int /\ ret' = dirKeyValue(dirIdx')
  BY <1>1 DEF moveTo
<1>3. SUFFICES seen' \in Seq(Nat) /\ ScanInv'
  BY <1>2, CursorFrame
<1>4. CASE from # <<"last">>
  <2>1. from' = <<"mixed">> /\ seen' = <<>>
    BY <1>1, <1>4, SMT DEF steps
  <2> QED
    BY <2>1 DEF ScanInv
<1>5. CASE from = <<"last">>
  <2>1. from' = from /\ seen' = IF ret' = Nil THEN seen ELSE Append(seen, ret')
    BY <1>1, <1>5, Zenon DEF steps
  <2>2. Backward
    BY <1>1, <1>5, FromDistinct DEF ScanInv
  <2>3. Backward' /\ seen' \in Seq(Nat)
    BY <1>1, <2>1, <2>2, BackGoesOn
  <2> QED
    BY <1>5, <2>1, <2>3 DEF ScanInv
<1> QED
  BY <1>4, <1>5

\* What a forward scan has returned is the beginning of w, the names from where it
\* began, and all of them once it returns nil.
LEMMA ForwardScan ==
  ASSUME CursorInv, NEW k \in 0..Len(dir), Forward(k), NEW w \in Seq(Nat),
         k + Len(w) = Len(dir), \A i \in 1..Len(w) : w[i] = dir[k + i]
  PROVE  IsPrefix(seen, w) /\ (ret = Nil => seen = w)
<1>1. /\ Len(dir) \in Nat /\ dirIdx \in Int /\ seen \in Seq(Nat) /\ Len(seen) \in Nat
      /\ ret = dirKeyValue(dirIdx) /\ Len(w) \in Nat
  BY DirIsView DEF CursorInv
<1>2. /\ dirIdx >= k /\ k + Len(seen) = IF dirIdx < Len(dir) THEN dirIdx + 1 ELSE Len(dir)
      /\ \A i \in 1..Len(seen) : seen[i] = dir[k + i]
  BY DEF Forward
<1>3. Len(seen) <= Len(w)
  BY <1>1, <1>2
<1>4. \A i \in 1..Len(seen) : seen[i] = w[i]
  <2>1. \A i \in 1..Len(seen) : i \in 1..Len(w)
    BY <1>1, <1>3
  <2> QED
    BY <1>2, <2>1, Zenon
<1>5. ASSUME ret = Nil PROVE seen = w
  <2>1. dirIdx \notin 0..(Len(dir) - 1)
    BY <1>1, <1>5, KeyValue, Zenon
  <2>2. Len(seen) = Len(w)
    BY <1>1, <1>2, <2>1
  <2> QED
    BY <1>1, <1>4, <2>2, SameList, SMTT(20)
<1> QED
  BY <1>1, <1>3, <1>4, <1>5, PrefixByPlace

\* The names a scan from Seek(n) has to return, and where they are in dir.
notBelow(n) == {m \in view : m >= n}

Divides(k, n) == \A i \in 1..Len(dir) : dir[i] < n <=> i <= k

\* What is left of the directory after Seek is what is due.
LEMMA SeekDue ==
  ASSUME CursorInv, NEW n \in Names, NEW k \in 0..Len(dir), Divides(k, n),
         NEW w, w = sorted(notBelow(n))
  PROVE  /\ w \in Seq(Nat) /\ k + Len(w) = Len(dir)
         /\ \A i \in 1..Len(w) : w[i] = dir[k + i]
<1>1. PICK l \in Nat : k + l = Len(dir)
  <2>1. Len(dir) \in Nat
    BY DirIsView
  <2>2. Len(dir) - k \in Nat /\ k + (Len(dir) - k) = Len(dir)
    BY <2>1
  <2> QED
    BY <2>2, Zenon
<1> DEFINE S == notBelow(n)
           v == [i \in 1..l |-> dir[k + i]]
<1>2. /\ Len(dir) \in Nat /\ Range(dir) = view /\ n \in Nat /\ k \in Nat
      /\ \A i \in 1..Len(dir) : dir[i] \in Nat /\ dir[i] \in view
      /\ \A i, j \in 1..Len(dir) : i < j => dir[i] < dir[j]
      /\ \A i \in 1..Len(dir) : dir[i] < n <=> i <= k
  BY DirIsView, DirectoryAssumption DEF Increasing, Divides
<1>3. \A i \in 1..l : k + i \in 1..Len(dir) /\ ~ (k + i <= k)
  BY <1>1, <1>2
<1>4. v \in [1..l -> Nat]
  BY <1>2, <1>3, Zenon
<1>5. v \in Seq(Nat) /\ Len(v) = l
  BY <1>4, IsList, Zenon
<1>6. Increasing(v)
  <2>1. ASSUME NEW i \in 1..l, NEW j \in 1..l, i < j PROVE v[i] < v[j]
    <3>1. k + i \in 1..Len(dir) /\ k + j \in 1..Len(dir)
      BY <1>3
    <3>3. k + i < k + j
      BY <1>2, <2>1
    <3>2. v[i] = dir[k + i] /\ v[j] = dir[k + j]
      OBVIOUS
    <3> QED
      BY <1>2, <3>1, <3>2, <3>3
  <2> QED
    BY <1>5, <2>1, Zenon DEF Increasing
<1>7. ASSUME NEW i \in 1..l PROVE v[i] \in S
  <2>1. k + i \in 1..Len(dir) /\ ~ (k + i <= k)
    BY <1>3
  <2>2. dir[k + i] \in view /\ dir[k + i] \in Nat /\ ~ (dir[k + i] < n)
    BY <1>2, <2>1
  <2>3. dir[k + i] >= n
    BY <1>2, <2>2
  <2> QED
    BY <2>2, <2>3 DEF notBelow
<1>8. ASSUME NEW m \in S PROVE \E i \in 1..l : v[i] = m
  <2>1. PICK j \in DOMAIN dir : dir[j] = m
    <3>1. m \in Range(dir)
      BY <1>2 DEF notBelow
    <3> QED
      BY <3>1, Zenon DEF Range
  <2>2. j \in 1..Len(dir) /\ m \in Nat /\ m >= n
    BY <1>2, <2>1, DirIsView DEF notBelow
  <2>3. ~ (j <= k)
    BY <1>2, <2>1, <2>2
  <2>4. j - k \in 1..l /\ k + (j - k) = j
    BY <1>1, <1>2, <2>2, <2>3
  <2> QED
    BY <2>1, <2>4, Zenon
<1>9. DOMAIN v = 1..l
  OBVIOUS
<1> HIDE DEF v, S
<1>10. Range(v) = S
  BY <1>7, <1>8, <1>9, Zenon DEF Range
<1>11. S \in SUBSET Nat /\ IsFiniteSet(S)
  <2>1. S \in SUBSET Names
    BY DEF CursorInv, S, notBelow
  <2> QED
    BY <2>1, NamesFinite
<1>12. v = w
  BY <1>5, <1>6, <1>10, <1>11, SortedUnique DEF S
<1> QED
  BY <1>1, <1>5, <1>12, Zenon DEF v

\* A backward scan.
LEMMA BackwardScan ==
  ASSUME CursorInv, Backward
  PROVE  IsPrefix(seen, Reverse(dir)) /\ (ret = Nil => seen = Reverse(dir))
<1> DEFINE w == Reverse(dir)
<1>1. /\ Len(dir) \in Nat /\ dirIdx \in Int /\ seen \in Seq(Nat) /\ Len(seen) \in Nat
      /\ ret = dirKeyValue(dirIdx) /\ dir \in Seq(Nat) /\ (dir = <<>> <=> Len(dir) = 0)
  BY DirIsView DEF CursorInv
<1>2. w = [i \in 1..Len(dir) |-> dir[(Len(dir) - i) + 1]]
  BY DEF Reverse
<1>3. w \in [1..Len(dir) -> Nat]
  BY <1>1, <1>2
<1>4. w \in Seq(Nat) /\ Len(w) = Len(dir)
  BY <1>1, <1>3, IsList, Zenon
<1>5. \A i \in 1..Len(dir) : w[i] = dir[Len(dir) + 1 - i]
  <2>1. \A i \in 1..Len(dir) : (Len(dir) - i) + 1 = Len(dir) + 1 - i
    BY <1>1
  <2> QED
    BY <1>2, <2>1
<1> HIDE DEF w
<1>6. /\ dirIdx < Len(dir) \/ dirIdx = 0
      /\ Len(seen) = IF dirIdx < 0 \/ dir = <<>> THEN Len(dir) ELSE Len(dir) - dirIdx
      /\ \A i \in 1..Len(seen) : seen[i] = dir[Len(dir) + 1 - i]
  BY DEF Backward
<1>7. Len(seen) <= Len(w)
  BY <1>1, <1>4, <1>6
<1>8. \A i \in 1..Len(seen) : seen[i] = w[i]
  <2>1. \A i \in 1..Len(seen) : i \in 1..Len(dir)
    BY <1>1, <1>4, <1>7
  <2> QED
    BY <1>5, <1>6, <2>1, Zenon
<1>9. ASSUME ret = Nil PROVE seen = w
  <2>1. dirIdx \notin 0..(Len(dir) - 1)
    BY <1>1, <1>9, KeyValue, Zenon
  <2>2. Len(seen) = Len(w)
    BY <1>1, <1>4, <1>6, <2>1
  <2> QED
    BY <1>1, <1>4, <1>8, <2>2, SameList
<1>10. IsPrefix(seen, w)
  BY <1>1, <1>4, <1>7, <1>8, PrefixByPlace
<1> QED
  BY <1>9, <1>10 DEF w

\* The invariant gives the property.
LEMMA ScanFollows == ASSUME CursorInv PROVE ScanIsView
<1>1. /\ ScanInv /\ dir = sorted(view) /\ dir \in Seq(Nat) /\ Len(dir) \in Nat
  BY DirIsView DEF CursorInv
<1>2. CASE from = <<"new">>
  <2>1. seen = <<>> /\ due = dir
    BY <1>1, <1>2, FromDistinct DEF ScanInv, due
  <2>2. seen \in Seq(Nat) /\ Len(seen) = 0
    BY <2>1
  <2>3. IsPrefix(seen, dir)
    <3>1. Len(seen) <= Len(dir) /\ \A i \in 1..Len(seen) : seen[i] = dir[i]
      BY <1>1, <2>2
    <3> QED
      BY <1>1, <2>2, <3>1, PrefixByPlace, Zenon
  <2> QED
    BY <1>2, <2>1, <2>3 DEF ScanIsView
<1>3. CASE from = <<"first">>
  <2>1. Forward(0) /\ due = dir
    BY <1>1, <1>3, FromDistinct DEF ScanInv, due
  <2>2. 0 \in 0..Len(dir) /\ 0 + Len(dir) = Len(dir) /\ \A i \in 1..Len(dir) : dir[i] = dir[0 + i]
    BY <1>1
  <2>3. IsPrefix(seen, dir) /\ (ret = Nil => seen = dir)
    BY <1>1, <2>1, <2>2, ForwardScan, Zenon
  <2> QED
    BY <2>1, <2>3, Zenon DEF ScanIsView
<1>4. CASE from = <<"last">>
  <2>1. Backward /\ due = Reverse(dir)
    BY <1>1, <1>4, FromDistinct DEF ScanInv, due
  <2>2. IsPrefix(seen, Reverse(dir)) /\ (ret = Nil => seen = Reverse(dir))
    BY <2>1, BackwardScan
  <2> QED
    BY <2>1, <2>2, Zenon DEF ScanIsView
<1>5. ASSUME NEW n \in Names, from = <<"seek", n>>, Forward(seekIdx(n)) PROVE ScanIsView
  <2>1. PICK k \in 0..Len(dir) : /\ k = seekIdx(n)
                                 /\ \A i \in 1..Len(dir) : dir[i] < n <=> i <= k
    BY SeekIdx, Zenon
  <2>2. PICK w : w = sorted(notBelow(n))
    OBVIOUS
  <2>6. Divides(k, n)
    BY <2>1 DEF Divides
  <2>3. w \in Seq(Nat) /\ k + Len(w) = Len(dir) /\ \A i \in 1..Len(w) : w[i] = dir[k + i]
    BY <2>2, <2>6, SeekDue
  <2>4. IsPrefix(seen, w) /\ (ret = Nil => seen = w)
    BY <1>5, <2>1, <2>3, ForwardScan
  <2>5. due = w
    <3>1. from # <<"last">> /\ Head(from) = "seek" /\ from[2] = n
      BY <1>5
    <3> QED
      BY <2>2, <3>1 DEF due, notBelow
  <2> QED
    BY <2>4, <2>5, Zenon DEF ScanIsView
<1> QED
  BY <1>1, <1>2, <1>3, <1>4, <1>5 DEF ScanInv, ScanIsView

----------------------------------------------------------------------------
(* The transaction's directory.                                            *)

\* In an open transaction the names that Tx.Cursor and Tx.ForEach list are those
\* whose bucket Tx.Bucket finds.
LEMMA ListedVisible ==
  ASSUME TxInv
  PROVE  /\ Buckets \in SUBSET Names /\ nameSet \in SUBSET Names
         /\ open => Buckets = nameSet /\ \A n \in nameSet : Visible(n)
         /\ ~ open => Buckets = {}
         /\ (base \ deleted) \cup created = nameSet
  BY Zenon DEF TxInv, Buckets, Visible, nameSet

\* Every step keeps the invariant of the transaction.
LEMMA TxStep == ASSUME TxInv, Next PROVE TxInv'
<1>1. ASSUME NEW n \in Names, Bucket(n) PROVE TxInv'
  BY <1>1, Zenon DEF TxInv, Bucket, Visible, nameSet
<1>2. ASSUME NEW n \in Names, CreateBucket(n) PROVE TxInv'
  BY <1>2, Zenon DEF TxInv, CreateBucket, nameSet
<1>3. ASSUME NEW n \in Names, DeleteBucket(n) PROVE TxInv'
  <2>1. CASE n \in created
    BY <1>3, <2>1, Zenon DEF TxInv, DeleteBucket, nameSet
  <2>2. CASE n \notin created
    BY <1>3, <2>2, Zenon DEF TxInv, DeleteBucket, nameSet
  <2> QED
    BY <2>1, <2>2
<1>4. CASE CloseTx
  BY <1>4, Zenon DEF TxInv, CloseTx, nameSet
<1>5. CASE Visit
  <2>1. /\ UNCHANGED <<base, created, deleted, open>> /\ bctx \subseteq bctx'
        /\ \A n \in bctx' : n \in bctx \/ Visible(n)
    BY <1>5, Zenon DEF Visit
  <2> QED
    BY <2>1, Zenon DEF TxInv, Visible, nameSet
<1>6. CASE UNCHANGED txvars
  BY <1>6 DEF TxInv, txvars, nameSet
<1>7. CASE Cursor \/ First \/ Last_ \/ NextName \/ PrevName \/ \E n \in Names : Seek(n)
  BY <1>6, <1>7, Zenon DEF Cursor, First, Last_, NextName, PrevName, Seek, moveTo
<1>8. CASE ForEach \/ ForEachReturns
  BY <1>6, <1>8 DEF ForEach, ForEachReturns
<1> QED
  BY <1>1, <1>2, <1>3, <1>4, <1>5, <1>7, <1>8 DEF Next

\* Tx.Cursor takes the names of the transaction, none of a closed one.
LEMMA CursorStep == ASSUME TxInv, Cursor PROVE CursorInv'
<1>1. /\ dir' = (IF open THEN sorted(nameSet) ELSE <<>>) /\ dirIdx' = (IF open THEN -1 ELSE 0)
      /\ ret' = Nil /\ from' = <<"new">> /\ seen' = <<>> /\ view' = Buckets
  BY DEF Cursor
<1>2. sorted({}) = <<>>
  <2>1. /\ {} \in SUBSET Nat /\ IsFiniteSet({}) /\ <<>> \in Seq(Nat) /\ Increasing(<<>>)
        /\ Range(<<>>) = {}
    BY FS_EmptySet DEF Increasing, Range
  <2> QED
    BY <2>1, SortedUnique, Zenon
<1>3. view' \in SUBSET Names /\ dir' = sorted(view')
  BY <1>1, <1>2, ListedVisible
<1>4. dirIdx' = -1 \/ (dir' = <<>> /\ dirIdx' = 0)
  BY <1>1 DEF TxInv
<1>5. ret' = dirKeyValue(dirIdx)'
  BY <1>1, <1>4 DEF dirKeyValue
<1>6. ScanInv'
  BY <1>1, <1>4 DEF ScanInv
<1>7. sorted(view)' = sorted(view')
  BY DEF sorted, sort
<1> QED
  BY <1>1, <1>3, <1>4, <1>5, <1>6, <1>7 DEF CursorInv

\* A step that leaves the cursor alone keeps its invariant.
LEMMA CursorKept == ASSUME CursorInv, UNCHANGED cursor PROVE CursorInv'
<1>1. dir' = dir /\ dirIdx' = dirIdx /\ ret' = ret /\ from' = from /\ seen' = seen /\ view' = view
  BY DEF cursor
<1>2. ASSUME NEW k, Forward(k) PROVE Forward(k)'
  BY <1>1, <1>2 DEF Forward
<1>3. Backward => Backward'
  BY <1>1 DEF Backward
<1>4. ASSUME NEW n \in Names, Forward(seekIdx(n)) PROVE Forward(seekIdx(n))'
  BY <1>1, <1>4 DEF Forward, seekIdx
<1>5. ScanInv => ScanInv'
  BY <1>1, <1>2, <1>3, <1>4 DEF ScanInv
<1> QED
  BY <1>1, <1>5, CursorFrame DEF CursorInv

\* Every step keeps the invariant of the cursor.
LEMMA CursorInvStep == ASSUME TxInv, CursorInv, Next PROVE CursorInv'
<1>1. CASE UNCHANGED cursor
  BY <1>1, CursorKept
<1>2. CASE Cursor
  BY <1>2, CursorStep
<1>3. CASE First \/ Last_ \/ \E n \in Names : Seek(n)
  BY <1>3, PositionStep
<1>4. CASE NextName \/ PrevName
  BY <1>4, NextStep, PrevStep
<1>5. CASE CloseTx \/ ForEach \/ Visit \/ ForEachReturns
  BY <1>1, <1>5 DEF CloseTx, ForEach, Visit, ForEachReturns
<1>6. CASE \E n \in Names : Bucket(n) \/ CreateBucket(n) \/ DeleteBucket(n)
  BY <1>1, <1>6 DEF Bucket, CreateBucket, DeleteBucket
<1> QED
  BY <1>2, <1>3, <1>4, <1>5, <1>6, Zenon DEF Next

----------------------------------------------------------------------------
(* ForEach.                                                                *)

\* sort.Strings loses no name.
LEMMA SortRange ==
  ASSUME NEW s \in Seq(Nat)
  PROVE  sort(s) \in Seq(Nat) /\ Len(sort(s)) = Len(s) /\ Range(sort(s)) = Range(s)
<1> DEFINE t == sort(s)
           D == 1..Len(s)
<1>0. Len(s) \in Nat /\ DOMAIN s = D /\ Range(s) \in SUBSET Nat
  BY DEF Range
<1>1. /\ t \in [D -> Range(s)]
      /\ \A n \in Range(s) : Cardinality({i \in D : t[i] = n}) = Cardinality({i \in D : s[i] = n})
  BY SortProperties
<1> HIDE DEF t
<1>2. t \in Seq(Nat) /\ Len(t) = Len(s)
  BY <1>0, <1>1, IsList
<1>3. ASSUME NEW n \in Range(s) PROVE \E i \in D : t[i] = n
  <2>1. PICK k \in D : s[k] = n
    BY <1>0, Zenon DEF Range
  <2>2. IsFiniteSet(D)
    BY <1>0, FS_Interval
  <2>3. IsFiniteSet({i \in D : s[i] = n}) /\ IsFiniteSet({i \in D : t[i] = n})
    BY <2>2, FS_Subset
  <2>4. Cardinality({i \in D : s[i] = n}) # 0
    BY <2>1, <2>3, FS_EmptySet, Zenon
  <2>5. {i \in D : t[i] = n} # {}
    BY <1>1, <2>3, <2>4, FS_EmptySet
  <2> QED
    BY <2>5
<1>4. DOMAIN t = D /\ \A i \in D : t[i] \in Range(s)
  BY <1>1, SMTT(20)
<1>5. Range(t) = Range(s)
  BY <1>3, <1>4, Zenon DEF Range
<1> QED
  BY <1>2, <1>5 DEF t

\* The elements of a concatenation are those of its parts.
LEMMA ConcatRange ==
  ASSUME NEW a \in Seq(Nat), NEW b \in Seq(Nat)
  PROVE  a \o b \in Seq(Nat) /\ Range(a \o b) = Range(a) \cup Range(b)
<1> DEFINE s == a \o b
<1>1. /\ Len(a) \in Nat /\ Len(b) \in Nat /\ s \in Seq(Nat) /\ Len(s) = Len(a) + Len(b)
      /\ \A i \in 1..Len(a) : s[i] = a[i] /\ i \in 1..Len(s)
      /\ \A i \in 1..Len(b) : s[Len(a) + i] = b[i] /\ Len(a) + i \in 1..Len(s)
  OBVIOUS
<1> HIDE DEF s
<1>2. DOMAIN s = 1..Len(s) /\ DOMAIN a = 1..Len(a) /\ DOMAIN b = 1..Len(b)
  BY <1>1
<1>3. \A x \in Range(a) : x \in Range(s)
  BY <1>1, <1>2, Zenon DEF Range
<1>4. \A x \in Range(b) : x \in Range(s)
  BY <1>1, <1>2, Zenon DEF Range
<1>5. ASSUME NEW i \in 1..Len(s) PROVE s[i] \in Range(a) \cup Range(b)
  <2>1. CASE i <= Len(a)
    <3>1. i \in 1..Len(a)
      BY <1>1, <2>1
    <3> QED
      BY <1>1, <1>2, <3>1, Zenon DEF Range
  <2>2. CASE ~ (i <= Len(a))
    <3>1. PICK k \in 1..Len(b) : i = Len(a) + k
      <4>1. i - Len(a) \in 1..Len(b) /\ i = Len(a) + (i - Len(a))
        BY <1>1, <2>2
      <4> QED
        BY <4>1, Zenon
    <3> QED
      BY <1>1, <1>2, <3>1, Zenon DEF Range
  <2> QED
    BY <2>1, <2>2
<1>6. \A x \in Range(s) : x \in Range(a) \cup Range(b)
  BY <1>2, <1>5, Zenon DEF Range
<1> QED
  BY <1>1, <1>3, <1>4, <1>6 DEF s

\* The list of ForEach has every name of the transaction, in order.
LEMMA ForEachList ==
  ASSUME TxInv
  PROVE  /\ forEachNames \in Seq(Names) /\ Range(forEachNames) = nameSet
         /\ \A i, j \in 1..Len(forEachNames) : i < j => forEachNames[i] <= forEachNames[j]
<1> DEFINE a == SetToSeq(base \ deleted)
           b == SetToSeq(created)
           s == a \o b
           t == sort(s)
<1>1. base \ deleted \in SUBSET Names /\ created \in SUBSET Names
  BY DEF TxInv
<1>2. a \in Seq(Nat) /\ Range(a) = base \ deleted /\ b \in Seq(Nat) /\ Range(b) = created
  BY <1>1, NamesFinite, ListedOnce, Zenon
<1> HIDE DEF a, b
<1>3. s \in Seq(Nat) /\ Range(s) = Range(a) \cup Range(b)
  BY <1>2, ConcatRange
<1>4. Range(s) = nameSet /\ nameSet \in SUBSET Names
  BY <1>2, <1>3, ListedVisible
<1> HIDE DEF s
<1>5. /\ t \in Seq(Nat) /\ Len(t) = Len(s) /\ Range(t) = nameSet
      /\ \A i, j \in 1..Len(s) : i < j => t[i] <= t[j]
  BY <1>3, <1>4, SortProperties, SortRange
<1> HIDE DEF t
<1>6. \A i \in 1..Len(t) : t[i] \in Names
  BY <1>4, <1>5 DEF Range
<1>7. t \in Seq(Names)
  BY <1>5, <1>6
<1>8. forEachNames = t
  BY DEF forEachNames, t, s, a, b
<1> QED
  BY <1>5, <1>7, <1>8

\* The names that fn got.
LEMMA VisitedNames ==
  ASSUME VisitedInv
  PROVE  /\ Len(visited) \in Nat /\ visitedNames \in Seq(Nat) /\ Len(visitedNames) = Len(visited)
         /\ DOMAIN visitedNames = 1..Len(visited)
         /\ \A i \in 1..Len(visited) : visitedNames[i] = visited[i].name /\ visited[i].name \in Nat
<1>1. /\ Len(visited) \in Nat
      /\ \A i \in 1..Len(visited) : visited[i].name \in Names /\ visited[i].name \in Nat
  <2> DEFINE Calls == [name : Names, bucket : BOOLEAN, open : BOOLEAN]
  <2>1. visited \in Seq(Calls)
    BY DEF VisitedInv
  <2>2. \A c \in Calls : c.name \in Names /\ c.name \in Nat
    BY DirectoryAssumption, Zenon
  <2> HIDE DEF Calls
  <2>3. Len(visited) \in Nat /\ \A i \in 1..Len(visited) : visited[i] \in Calls
    BY <2>1
  <2> QED
    BY <2>2, <2>3
<1>2. visitedNames \in [1..Len(visited) -> Nat]
  BY <1>1 DEF visitedNames
<1>3. visitedNames \in Seq(Nat) /\ Len(visitedNames) = Len(visited)
  BY <1>1, <1>2, IsList
<1>4. \A i \in 1..Len(visited) : visitedNames[i] = visited[i].name
  BY DEF visitedNames
<1> QED
  BY <1>1, <1>2, <1>3, <1>4

\* A step that is not of the loop: a name may only leave the directory by being deleted.
LEMMA LoopFrame ==
  ASSUME LoopInv, UNCHANGED <<each, start, visited>>, gone \subseteq gone',
         each # Nil /\ open' => \A n \in start \ gone' : Visible(n)'
  PROVE  LoopInv'
<1>1. visitedNames' = visitedNames
  BY DEF visitedNames
<1>2. VisitedInv'
  <2>1. VisitedInv /\ start' = start /\ visited' = visited
    BY DEF LoopInv
  <2>2. Increasing(visitedNames)' = Increasing(visitedNames)
    BY <1>1 DEF Increasing
  <2>3. Range(visitedNames)' = Range(visitedNames)
    BY <1>1 DEF Range
  <2>4. \A i \in 1..Len(visited') : fitting(visited[i])'
    BY <2>1 DEF VisitedInv, fitting
  <2> QED
    BY <2>1, <2>2, <2>3, <2>4, Zenon DEF VisitedInv
<1>3. ToVisit => ToVisit'
  <2>1. each' = each /\ start' = start
    OBVIOUS
  <2>2. Range(visitedNames)' = Range(visitedNames) /\ Range(each)' = Range(each)
    BY <1>1 DEF Range
  <2> QED
    BY <2>1, <2>2, Zenon DEF ToVisit
<1> QED
  BY <1>2, <1>3, Zenon DEF LoopInv

\* ForEach begins with the names of the transaction.
LEMMA ForEachStep == ASSUME TxInv, ForEach PROVE LoopInv'
<1>1. /\ open /\ each' = forEachNames /\ start' = Buckets /\ visited' = <<>> /\ gone' = {}
      /\ UNCHANGED txvars
  BY DEF ForEach
<1>2. /\ Buckets \in SUBSET Names /\ nameSet = Buckets /\ \A n \in Buckets : Visible(n)
  BY <1>1, ListedVisible
<1>3. /\ each' \in Seq(Names) /\ \A i, j \in 1..Len(each') : i < j => each'[i] <= each'[j]
      /\ Range(each') = start'
  BY <1>1, <1>2, ForEachList
<1>4. /\ visitedNames' = <<>>
  BY <1>1 DEF visitedNames
<1>5. Increasing(visitedNames)' /\ Range(visitedNames)' = {}
  BY <1>4 DEF Increasing, Range
<1>6. VisitedInv'
  BY <1>1, <1>2, <1>5 DEF VisitedInv
<1>7. Range(each)' = start'
  BY <1>3 DEF Range
<1>8. ToVisit'
  BY <1>3, <1>5, <1>7 DEF ToVisit
<1>9. \A n \in start' : Visible(n)'
  BY <1>1, <1>2 DEF Visible, txvars
<1> QED
  BY <1>6, <1>8, <1>9 DEF LoopInv

\* ForEachOnce follows.
LEMMA LoopFollows == ASSUME LoopInv PROVE ForEachOnce
<1>1. VisitedInv /\ (each # Nil => ToVisit)
  BY DEF LoopInv
<1>2. /\ visitedNames \in Seq(Nat) /\ Len(visitedNames) = Len(visited) /\ Len(visited) \in Nat
  BY <1>1, VisitedNames
<1>3. start \in SUBSET Nat /\ IsFiniteSet(start)
  BY <1>1, NamesFinite DEF VisitedInv
<1>4. /\ Increasing(visitedNames) /\ Range(visitedNames) \subseteq start
      /\ \A x \in start, y \in Range(visitedNames) : x < y => x \in Range(visitedNames)
      /\ \A i \in 1..Len(visited) : fitting(visited[i])
  BY <1>1 DEF VisitedInv
<1>5. sorted(start) \in Seq(Nat) /\ Len(sorted(start)) = Cardinality(start)
  BY <1>3, SortedProperties
<1>6. /\ Len(visitedNames) <= Len(sorted(start))
      /\ \A i \in 1..Len(visitedNames) : visitedNames[i] = sorted(start)[i]
  BY <1>2, <1>3, <1>4, SortedPrefix
<1>7. IsPrefix(visitedNames, sorted(start))
  BY <1>2, <1>5, <1>6, PrefixByPlace
<1>8. ASSUME each = <<>> PROVE Len(visited) = Cardinality(start)
  <2>1. each # Nil
    <3>1. <<>> \in Seq(Names)
      OBVIOUS
    <3> QED
      BY <1>8, <3>1, DirectoryAssumption, Zenon
  <2>2. Range(each) = {}
    BY <1>8 DEF Range
  <2>3. Range(visitedNames) = start
    BY <1>1, <2>1, <2>2 DEF ToVisit
  <2>4. visitedNames = sorted(start)
    BY <1>2, <1>3, <1>4, <2>3, SortedUnique
  <2> QED
    BY <1>2, <1>5, <2>4
<1> QED
  BY <1>4, <1>7, <1>8 DEF ForEachOnce, visitedNames

\* The next name is not above the others, and they are all the names but it.
LEMMA HeadTail ==
  ASSUME NEW e \in Seq(Names), e # <<>>, \A i, j \in 1..Len(e) : i < j => e[i] <= e[j]
  PROVE  /\ Head(e) \in Names /\ Tail(e) \in Seq(Names)
         /\ \A i, j \in 1..Len(Tail(e)) : i < j => Tail(e)[i] <= Tail(e)[j]
         /\ Range(e) = {Head(e)} \cup Range(Tail(e))
         /\ \A x \in Range(e) : Head(e) <= x
<1> DEFINE t == Tail(e)
<1>1. /\ Len(e) \in Nat /\ Len(e) >= 1 /\ Head(e) = e[1] /\ e[1] \in Names /\ t \in Seq(Names)
      /\ Len(t) = Len(e) - 1 /\ \A i \in 1..Len(t) : t[i] = e[i + 1]
  OBVIOUS
<1>2. \A i \in 1..Len(e) : e[i] \in Nat
  <2>1. \A i \in 1..Len(e) : e[i] \in Names
    OBVIOUS
  <2> QED
    BY <2>1, DirectoryAssumption, Zenon
<1>3. DOMAIN e = 1..Len(e) /\ DOMAIN t = 1..Len(t)
  BY <1>1
<1> HIDE DEF t
<1>4. \A i, j \in 1..Len(t) : i < j => t[i] <= t[j]
  BY <1>1, SMTT(20)
<1>5. \A i \in 1..Len(t) : i + 1 \in 1..Len(e)
  BY <1>1
<1>6. \A i \in 1..Len(e) : i = 1 \/ \E k \in 1..Len(t) : i = k + 1
  <2> SUFFICES ASSUME NEW i \in 1..Len(e), i # 1 PROVE \E k \in 1..Len(t) : i = k + 1
    OBVIOUS
  <2>1. i - 1 \in 1..Len(t) /\ i = (i - 1) + 1
    BY <1>1
  <2> QED
    BY <2>1
<1>7. 1 \in 1..Len(e)
  BY <1>1
<1>8. \A x \in Range(e) : x \in {Head(e)} \cup Range(t)
  <2>1. \A k \in 1..Len(t) : t[k] \in Range(t)
    BY <1>3, Zenon DEF Range
  <2>2. \A i \in 1..Len(e) : e[i] \in {Head(e)} \cup Range(t)
    BY <1>1, <1>6, <2>1, Zenon
  <2> QED
    BY <1>3, <2>2, Zenon DEF Range
<1>9. \A x \in {Head(e)} \cup Range(t) : x \in Range(e)
  <2>1. \A i \in 1..Len(e) : e[i] \in Range(e)
    BY <1>3, Zenon DEF Range
  <2>2. Head(e) \in Range(e) /\ \A k \in 1..Len(t) : t[k] \in Range(e)
    BY <1>1, <1>5, <1>7, <2>1
  <2> QED
    BY <1>3, <2>2, Zenon DEF Range
<1>10. \A i \in 1..Len(e) : e[1] <= e[i]
  BY <1>1, <1>2
<1>11. \A x \in Range(e) : Head(e) <= x
  BY <1>1, <1>3, <1>10, Zenon DEF Range
<1> QED
  BY <1>1, <1>4, <1>8, <1>9, <1>11 DEF t

\* fn gets one name more, which is above the names it got before.
LEMMA NameVisited ==
  ASSUME VisitedInv, NEW n \in start, NEW b \in BOOLEAN, NEW o \in BOOLEAN,
         visited' = Append(visited, [name |-> n, bucket |-> b, open |-> o]),
         IF o THEN b \/ n \in gone ELSE ~b,
         UNCHANGED <<start, gone>>, \A y \in Range(visitedNames) : y < n,
         \A x \in start : x < n => x \in Range(visitedNames)
  PROVE  VisitedInv' /\ Range(visitedNames)' = Range(visitedNames) \cup {n}
<1> DEFINE l == Len(visited)
           Calls == [name : Names, bucket : BOOLEAN, open : BOOLEAN]
           c == [name |-> n, bucket |-> b, open |-> o]
<1>1. /\ start \in SUBSET Names /\ visited \in Seq(Calls) /\ Increasing(visitedNames)
      /\ Range(visitedNames) \subseteq start
      /\ \A x \in start, y \in Range(visitedNames) : x < y => x \in Range(visitedNames)
      /\ \A i \in 1..l : fitting(visited[i])
  BY DEF VisitedInv
<1>2. c \in Calls /\ c.name = n /\ fitting(c)
  BY <1>1 DEF fitting
<1> HIDE DEF Calls, c
<1>3. visited' = Append(visited, c)
  BY DEF c
<1>4. /\ l \in Nat /\ visited' \in Seq(Calls) /\ Len(visited') = l + 1 /\ visited'[l + 1] = c
      /\ \A i \in 1..l : visited'[i] = visited[i]
  BY <1>1, <1>2, <1>3
<1>5. /\ visitedNames \in Seq(Nat) /\ Len(visitedNames) = l /\ DOMAIN visitedNames = 1..l
      /\ \A i \in 1..l : visitedNames[i] = visited[i].name
  BY VisitedNames
<1>6. visitedNames' = [i \in 1..(l + 1) |-> visited'[i].name]
  BY <1>4 DEF visitedNames
<1>7. /\ DOMAIN visitedNames' = 1..(l + 1) /\ visitedNames'[l + 1] = n
      /\ \A i \in 1..l : visitedNames'[i] = visitedNames[i]
  BY <1>2, <1>4, <1>5, <1>6
<1>8. \A i \in 1..(l + 1) : i \in 1..l \/ i = l + 1
  BY <1>4, SMTT(20)
<1>9. \A i \in 1..l : i \in 1..(l + 1)
  BY <1>4
<1>10. l + 1 \in 1..(l + 1)
  BY <1>4
<1>11. Range(visitedNames)' = Range(visitedNames) \cup {n}
  <2>1. \A i \in 1..(l + 1) : visitedNames'[i] \in Range(visitedNames) \cup {n}
    BY <1>5, <1>7, <1>8, Zenon DEF Range
  <2>2. \A x \in Range(visitedNames) \cup {n} : \E i \in 1..(l + 1) : visitedNames'[i] = x
    BY <1>5, <1>7, <1>9, <1>10, Zenon DEF Range
  <2> QED
    BY <1>7, <2>1, <2>2, ZenonT(30) DEF Range
<1>12. Increasing(visitedNames)'
  <2> DEFINE v == visitedNames
             w == visitedNames'
  <2>1. \A i \in 1..l : v[i] < n
    BY <1>5, Zenon DEF Range
  <2>2. \A i, j \in 1..l : i < j => v[i] < v[j]
    BY <1>1, <1>5, Zenon DEF Increasing
  <2>3. Len(w) = l + 1
    <3>1. w \in [1..(l + 1) -> Nat]
      <4>1. n \in Nat /\ \A i \in 1..l : v[i] \in Nat
        BY <1>1, <1>5, DirectoryAssumption
      <4> QED
        BY <1>6, <1>7, <1>8, <4>1, Zenon
    <3> QED
      BY <1>4, <3>1, IsList
  <2>4. \A i, j \in 1..(l + 1) : i < j => w[i] < w[j]
    <3> SUFFICES ASSUME NEW i \in 1..(l + 1), NEW j \in 1..(l + 1), i < j PROVE w[i] < w[j]
      OBVIOUS
    <3>1. i \in 1..l
      BY <1>4
    <3>2. CASE j \in 1..l
      BY <1>7, <2>2, <3>1, <3>2, Zenon
    <3>3. CASE j = l + 1
      BY <1>7, <2>1, <3>1, <3>3, Zenon
    <3> QED
      BY <1>8, <3>2, <3>3
  <2> QED
    BY <2>3, <2>4, Zenon DEF Increasing
<1>13. \A i \in 1..Len(visited') : fitting(visited[i])'
  <2>1. \A i \in 1..(l + 1) : fitting(visited'[i])
    BY <1>1, <1>2, <1>4, <1>8, Zenon
  <2> QED
    BY <1>4, <2>1, Zenon DEF fitting
<1>14. \A x \in start, y \in Range(visitedNames) \cup {n} : x < y => x \in Range(visitedNames) \cup {n}
  BY <1>1, Zenon
<1> QED
  BY <1>1, <1>4, <1>11, <1>12, <1>13, <1>14, Zenon DEF VisitedInv, Calls

\* One round of the loop.
LEMMA VisitStep == ASSUME TxInv, LoopInv, Visit PROVE LoopInv'
<1> DEFINE n == Head(each)
           V == Range(visitedNames)
<1>1. /\ each # Nil /\ each # <<>> /\ each' = Tail(each)
      /\ UNCHANGED <<base, deleted, open, start, gone>>
  BY DEF Visit
<1>2. VisitedInv /\ ToVisit /\ (open => \A m \in start \ gone : Visible(m))
  BY <1>1 DEF LoopInv
<1>3. /\ each \in Seq(Names) /\ \A i, j \in 1..Len(each) : i < j => each[i] <= each[j]
      /\ Range(each) \cup V = start /\ \A x \in Range(each), y \in V : y <= x
      /\ start \in SUBSET Names
  BY <1>2 DEF ToVisit, VisitedInv
<1>4. /\ n \in Names /\ each' \in Seq(Names)
      /\ \A i, j \in 1..Len(each') : i < j => each'[i] <= each'[j]
      /\ Range(each) = {n} \cup Range(each') /\ \A x \in Range(each) : n <= x
  BY <1>1, <1>3, HeadTail
<1>5. n \in V <=> skip(n)
  <2>1. /\ DOMAIN visitedNames = 1..Len(visited)
        /\ \A i \in 1..Len(visited) : visitedNames[i] = visited[i].name
    BY <1>2, VisitedNames
  <2> QED
    BY <2>1, Zenon DEF skip, Range
<1>6. ASSUME bctx \subseteq bctx', open' PROVE \A m \in start' \ gone' : Visible(m)'
  BY <1>1, <1>2, <1>6, Zenon DEF Visible
<1>7. Range(each)' = Range(each')
  BY DEF Range
<1> HIDE DEF n, V
<1>8. CASE skip(n)
  <2>1. visited' = visited /\ bctx' = bctx
    BY <1>8, Zenon DEF Visit, n
  <2>2. visitedNames' = visitedNames
    BY <2>1 DEF visitedNames
  <2>3. Range(visitedNames)' = V /\ Increasing(visitedNames)' = Increasing(visitedNames)
    BY <2>2 DEF Range, Increasing, V
  <2>4. VisitedInv'
    BY <1>1, <1>2, <2>1, <2>3, Zenon DEF VisitedInv, V, fitting
  <2>5. Range(each') \cup V = start'
    BY <1>1, <1>3, <1>4, <1>5, <1>8, Zenon
  <2>6. \A x \in Range(each'), y \in V : y <= x
    BY <1>3, <1>4, Zenon
  <2>7. ToVisit'
    BY <1>4, <1>7, <2>3, <2>5, <2>6, Zenon DEF ToVisit
  <2> QED
    BY <1>6, <2>1, <2>4, <2>7, Zenon DEF LoopInv
<1>9. CASE ~ skip(n)
  <2>1. /\ visited' = Append(visited, [name |-> n, bucket |-> Visible(n), open |-> open])
        /\ bctx \subseteq bctx'
    BY <1>9, Zenon DEF Visit, n
  <2>2. /\ Visible(n) \in BOOLEAN /\ open \in BOOLEAN /\ n \in start
        /\ IF open THEN Visible(n) \/ n \in gone ELSE ~Visible(n)
    <3>1. n \in start
      BY <1>3, <1>4, Zenon
    <3> QED
      BY <1>2, <3>1 DEF Visible, TxInv
  <2>3. /\ \A x \in Range(each), y \in V : x \in Nat /\ y \in Nat
        /\ \A x \in start : x \in Nat
    BY <1>3, DirectoryAssumption, Zenon
  <2>4. \A y \in V : y < n
    <3> SUFFICES ASSUME NEW y \in V PROVE y < n
      OBVIOUS
    <3>1. n \in Range(each) /\ y # n
      BY <1>4, <1>5, <1>9, Zenon
    <3>2. y <= n /\ y \in Nat /\ n \in Nat
      BY <1>3, <2>3, <3>1, Zenon
    <3> QED
      BY <3>1, <3>2
  <2>5. \A x \in start : x < n => x \in V
    <3> SUFFICES ASSUME NEW x \in start, x < n, x \notin V PROVE FALSE
      OBVIOUS
    <3>1. x \in Range(each) /\ n <= x
      BY <1>3, <1>4, Zenon
    <3>2. x \in Nat /\ n \in Nat
      BY <2>2, <2>3
    <3> QED
      BY <3>1, <3>2
  <2>6. PICK b \in BOOLEAN, o \in BOOLEAN, m \in start : b = Visible(n) /\ o = open /\ m = n
    BY <2>2
  <2>7. /\ visited' = Append(visited, [name |-> m, bucket |-> b, open |-> o])
        /\ IF o THEN b \/ m \in gone ELSE ~b
        /\ UNCHANGED <<start, gone>> /\ \A y \in Range(visitedNames) : y < m
        /\ \A x \in start : x < m => x \in Range(visitedNames)
    BY <1>1, <2>1, <2>2, <2>4, <2>5, <2>6 DEF V
  <2>8. VisitedInv' /\ Range(visitedNames)' = V \cup {n}
    BY <1>2, <2>6, <2>7, NameVisited DEF V
  <2>9. Range(each') \cup (V \cup {n}) = start'
    BY <1>1, <1>3, <1>4, Zenon
  <2>10. \A x \in Range(each'), y \in V \cup {n} : y <= x
    BY <1>3, <1>4, Zenon
  <2>11. ToVisit'
    BY <1>4, <1>7, <2>8, <2>9, <2>10, Zenon DEF ToVisit
  <2> QED
    BY <1>6, <2>1, <2>8, <2>11, Zenon DEF LoopInv
<1> QED
  BY <1>8, <1>9

\* A step that leaves transaction and loop alone keeps the invariant of ForEach.
LEMMA LoopKept == ASSUME LoopInv, UNCHANGED <<txvars, loop>> PROVE LoopInv'
<1>1. UNCHANGED <<each, start, visited, gone, open>> /\ \A m : Visible(m) => Visible(m)'
  BY Zenon DEF Visible, txvars, loop
<1> QED
  BY <1>1, LoopFrame DEF LoopInv

\* Every step keeps the invariant of ForEach.
LEMMA LoopStep == ASSUME TxInv, LoopInv, Next PROVE LoopInv'
<1>1. ASSUME NEW n \in Names, Bucket(n) PROVE LoopInv'
  <2>1. UNCHANGED <<each, start, visited, gone, open>> /\ \A m : Visible(m) => Visible(m)'
    BY <1>1, Zenon DEF Bucket, Visible, loop
  <2> QED
    BY <2>1, LoopFrame DEF LoopInv
<1>2. ASSUME NEW n \in Names, CreateBucket(n) PROVE LoopInv'
  <2>1. UNCHANGED <<each, start, visited, gone, open>> /\ \A m : Visible(m) => Visible(m)'
    BY <1>2, Zenon DEF CreateBucket, Visible, loop
  <2> QED
    BY <2>1, LoopFrame DEF LoopInv
<1>3. ASSUME NEW n \in Names, DeleteBucket(n) PROVE LoopInv'
  <2>1. /\ UNCHANGED <<each, start, visited, open>> /\ gone' = gone \cup {n}
        /\ \A m : Visible(m) /\ m # n => Visible(m)'
    BY <1>3, Zenon DEF DeleteBucket, Visible
  <2> QED
    BY <2>1, LoopFrame DEF LoopInv
<1>4. CASE CloseTx
  BY <1>4, LoopFrame DEF CloseTx, loop
<1>5. CASE UNCHANGED <<txvars, loop>>
  BY <1>5, LoopKept
<1>6. CASE Cursor \/ First \/ Last_ \/ NextName \/ PrevName \/ \E n \in Names : Seek(n)
  BY <1>5, <1>6, Zenon DEF Cursor, First, Last_, NextName, PrevName, Seek, moveTo
<1>7. CASE ForEach
  BY <1>7, ForEachStep
<1>8. CASE Visit
  BY <1>8, VisitStep
<1>9. CASE ForEachReturns
  <2>1. each' = Nil /\ UNCHANGED <<start, visited, gone>>
    BY <1>9 DEF ForEachReturns
  <2>2. visitedNames' = visitedNames
    BY <2>1 DEF visitedNames
  <2>3. Range(visitedNames)' = Range(visitedNames) /\ Increasing(visitedNames)' = Increasing(visitedNames)
    BY <2>2 DEF Range, Increasing
  <2>4. VisitedInv'
    BY <2>1, <2>3, Zenon DEF LoopInv, VisitedInv, fitting
  <2> QED
    BY <2>1, <2>4 DEF LoopInv
<1> QED
  BY <1>1, <1>2, <1>3, <1>4, <1>6, <1>7, <1>8, <1>9, Zenon DEF Next

----------------------------------------------------------------------------
(* The theorems.                                                           *)

\* The invariant at first.
LEMMA DirectoryInit == Init => DirectoryInv
<1> SUFFICES ASSUME Init PROVE DirectoryInv
  OBVIOUS
<1>1. TxInv
  BY DEF Init, TxInv, nameSet
<1>2. CursorInv
  BY DEF Init, CursorInv, ScanInv, dirKeyValue
<1>3. LoopInv
  <2>1. visitedNames = <<>>
    BY DEF Init, visitedNames
  <2>2. Increasing(visitedNames) /\ Range(visitedNames) = {}
    BY <2>1 DEF Increasing, Range
  <2> QED
    BY <2>2 DEF Init, LoopInv, VisitedInv
<1> QED
  BY <1>1, <1>2, <1>3 DEF DirectoryInv

\* Every step keeps the three invariants.
LEMMA DirectoryNext == DirectoryInv /\ [Next]_vars => DirectoryInv'
<1> SUFFICES ASSUME DirectoryInv, [Next]_vars PROVE DirectoryInv'
  OBVIOUS
<1>1. CASE Next
  BY <1>1, TxStep, CursorInvStep, LoopStep DEF DirectoryInv
<1>2. CASE UNCHANGED vars
  <2>1. UNCHANGED <<txvars, cursor, loop>>
    BY <1>2 DEF vars
  <2>2. TxInv'
    BY <2>1 DEF DirectoryInv, TxInv, nameSet, txvars
  <2>3. CursorInv'
    BY <2>1, CursorKept DEF DirectoryInv
  <2>4. LoopInv'
    BY <2>1, LoopKept DEF DirectoryInv
  <2> QED
    BY <2>2, <2>3, <2>4 DEF DirectoryInv
<1> QED
  BY <1>1, <1>2

\* Whatever the calls of the goroutine and their order, for every set of names: the
\* directory of the transaction lists the buckets that Tx.Bucket finds, the cursor
\* stands where the names it has returned end, and ForEach has visited the least
\* of its names.
THEOREM DirectoryInvariance == Spec => []DirectoryInv
  BY DirectoryInit, DirectoryNext, PTL DEF Spec

\* A scan of the directory cursor returns the buckets that the transaction had when
\* Tx.Cursor made it, in order, without gap or repetition and to the end.
THEOREM DirectoryScan == Spec => []ScanIsView
<1>1. DirectoryInv => ScanIsView
  BY ScanFollows DEF DirectoryInv
<1> QED
  BY <1>1, DirectoryInvariance, PTL

\* Tx.ForEach calls fn once for each bucket the transaction had at the start, in
\* order, with nil only for one that was deleted in the loop or because fn has
\* ended the transaction.
THEOREM DirectoryForEach == Spec => []ForEachOnce
<1>1. DirectoryInv => ForEachOnce
  BY LoopFollows DEF DirectoryInv
<1> QED
  BY <1>1, DirectoryInvariance, PTL
=============================================================================
