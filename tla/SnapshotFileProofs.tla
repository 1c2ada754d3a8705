------------------------- MODULE SnapshotFileProofs -------------------------
(***************************************************************************)
(* A snapshot is all or nothing, for any number of goroutines, buckets and *)
(* keys: what CopyFile leaves in the file when it ends or the process dies,*)
(* and what Restore and Open make of such a file.                          *)
(***************************************************************************)
EXTENDS SnapshotFile, FiniteSetTheorems, TLAPS

----------------------------------------------------------------------------
(* Numbers in order.                                                       *)

\* A set of numbers that is not empty has a least one.
LEMMA LeastNumber ==
  ASSUME NEW T \in SUBSET Nat, T # {}
  PROVE  \E x \in T : \A y \in T : x <= y
<1>1. \E x \in T : \A y \in T : ~ (<<y, x>> \in OpToRel(<, Nat))
  BY NatLessThanWellFounded, WFMin, Zenon
<1>2. OpToRel(<, Nat) = {ss \in Nat \X Nat : ss[1] < ss[2]}
  BY Zenon DEF OpToRel
<1>3. \A x, y \in Nat : y < x => <<y, x>> \in {ss \in Nat \X Nat : ss[1] < ss[2]}
  OBVIOUS
<1>4. PICK x \in T : \A y \in T : ~ (<<y, x>> \in OpToRel(<, Nat))
  BY <1>1, Zenon
<1>5. \A y \in T : ~(y < x)
  BY <1>2, <1>3, <1>4, Zenon
<1> QED
  BY <1>5

Rank(S, x) == Cardinality({y \in S : y <= x})

\* The rank of an element of a finite set is one of 1..Cardinality(S).
LEMMA RankType ==
  ASSUME NEW S \in SUBSET Nat, IsFiniteSet(S), NEW x \in S
  PROVE  Rank(S, x) \in 1..Cardinality(S)
<1> DEFINE U == {y \in S : y <= x}
<1>1. U \in SUBSET S /\ x \in U
  OBVIOUS
<1>2. IsFiniteSet(U) /\ Cardinality(U) <= Cardinality(S)
  BY <1>1, FS_Subset, Zenon
<1>3. Cardinality(U) \in Nat /\ Cardinality(S) \in Nat
  BY <1>2, FS_CardinalityType, Zenon
<1>4. Cardinality(U) # 0
  BY <1>1, <1>2, FS_EmptySet, Zenon
<1>5. Cardinality(U) \in 1..Cardinality(S)
  <2> HIDE DEF U
  <2> QED BY <1>2, <1>3, <1>4
<1> QED
  BY <1>5, Zenon DEF Rank

\* Two elements of the same rank are equal.
LEMMA RankInjective ==
  ASSUME NEW S \in SUBSET Nat, IsFiniteSet(S), NEW x \in S, NEW z \in S, x < z
  PROVE  Rank(S, x) # Rank(S, z)
<1> DEFINE U == {y \in S : y <= x}
           V == {y \in S : y <= z}
<1>1. z \in V /\ z \notin U /\ V \in SUBSET S
  OBVIOUS
<1>0. U \in SUBSET V
  <2>1. \A y \in S : y <= x => y <= z
    OBVIOUS
  <2> QED
    BY <2>1, Zenon
<1>2. IsFiniteSet(V)
  BY <1>1, FS_Subset, Zenon
<1>3. Cardinality(V) = Cardinality(U) => V = U
  BY <1>0, <1>2, FS_Subset, Zenon
<1> QED
  BY <1>1, <1>3, Zenon DEF Rank

\* Every rank up to Cardinality(S) is taken.
LEMMA RankSurjective ==
  ASSUME NEW S \in SUBSET Nat, IsFiniteSet(S), NEW i \in 1..Cardinality(S)
  PROVE  \E x \in S : Rank(S, x) = i
<1> DEFINE f == [x \in S |-> Rank(S, x)]
           T == 1..Cardinality(S)
<1>1. Cardinality(S) \in Nat
  BY FS_CardinalityType, Zenon
<1>2. IsFiniteSet(T) /\ Cardinality(T) = Cardinality(S)
  BY <1>1, FS_Interval
<1>3. f \in [S -> T]
  BY RankType
<1>4. \A x, z \in S : f[x] = f[z] => x = z
  <2> SUFFICES ASSUME NEW x \in S, NEW z \in S, x # z
               PROVE  Rank(S, x) # Rank(S, z)
    BY Zenon
  <2>1. x < z \/ z < x
    OBVIOUS
  <2> QED
    BY <2>1, RankInjective, Zenon
<1>5. f \in Injection(S, T)
  BY <1>3, <1>4, Zenon DEF Injection, IsInjective
<1>6. f \in Surjection(S, T)
  BY <1>2, <1>5, FS_Injection, Zenon
<1> QED
  BY <1>6, Zenon DEF Surjection

\* What sorted returns: every element once, in as many places as there are.
LEMMA SortedElements ==
  ASSUME NEW S \in SUBSET Nat, IsFiniteSet(S)
  PROVE  /\ sorted(S) \in Seq(S)
         /\ Len(sorted(S)) = Cardinality(S)
         /\ \A i, j \in 1..Len(sorted(S)) : sorted(S)[i] = sorted(S)[j] => i = j
         /\ {sorted(S)[l] : l \in 1..Len(sorted(S))} = S
<1> DEFINE c == Cardinality(S)
<1>1. c \in Nat
  BY FS_CardinalityType, Zenon
<1>2. sorted(S) = [i \in 1..c |-> CHOOSE x \in S : Rank(S, x) = i]
  BY Zenon DEF sorted, Rank
<1>3. \A i \in 1..c : sorted(S)[i] \in S /\ Rank(S, sorted(S)[i]) = i
  <2> TAKE i \in 1..c
  <2>1. \E x \in S : Rank(S, x) = i
    BY RankSurjective, Zenon
  <2>2. sorted(S)[i] = CHOOSE x \in S : Rank(S, x) = i
    BY <1>2, Zenon
  <2> QED
    BY <2>1, <2>2, Zenon
<1> HIDE DEF c
<1>4. sorted(S) \in [1..c -> S]
  BY <1>2, <1>3, Zenon
<1>5. sorted(S) \in Seq(S) /\ Len(sorted(S)) = c
  BY <1>1, <1>4
<1>6. \A i, j \in 1..c : sorted(S)[i] = sorted(S)[j] => i = j
  BY <1>3, Zenon
<1>7. ASSUME NEW x \in S PROVE \E l \in 1..c : sorted(S)[l] = x
  <2> DEFINE l == Rank(S, x)
  <2>1. l \in 1..c
    BY RankType, Zenon DEF c
  <2>2. sorted(S)[l] \in S /\ Rank(S, sorted(S)[l]) = Rank(S, x)
    BY <2>1, <1>3, Zenon
  <2>3. ~(sorted(S)[l] < x) /\ ~(x < sorted(S)[l])
    BY <2>2, RankInjective, Zenon
  <2>4. sorted(S)[l] \in Nat /\ x \in Nat
    BY <2>2, Zenon
  <2> HIDE DEF l
  <2>5. sorted(S)[l] = x
    BY <2>3, <2>4
  <2> QED
    BY <2>1, <2>5, Zenon
<1>8. {sorted(S)[l] : l \in 1..c} = S
  BY <1>3, <1>7, Zenon
<1> QED
  BY <1>5, <1>6, <1>8, Zenon DEF c

----------------------------------------------------------------------------
(* Sequences.                                                              *)

\* A sequence of a subset's elements.
LEMMA SeqSubset ==
  ASSUME NEW S, NEW T, NEW s \in Seq(S), S \subseteq T
  PROVE  s \in Seq(T)
  OBVIOUS

\* Two sequences with the same elements are equal.
LEMMA SameElements ==
  ASSUME NEW S, NEW s \in Seq(S), NEW t \in Seq(S),
         Len(s) = Len(t), \A k \in 1..Len(s) : s[k] = t[k]
  PROVE  s = t
  OBVIOUS

\* The elements of a concatenation.
LEMMA ConcatElements ==
  ASSUME NEW S, NEW s \in Seq(S), NEW t \in Seq(S)
  PROVE  /\ s \o t \in Seq(S)
         /\ Len(s \o t) = Len(s) + Len(t)
         /\ \A k \in 1..(Len(s) + Len(t)) :
              (s \o t)[k] = IF k <= Len(s) THEN s[k] ELSE t[k - Len(s)]
  OBVIOUS

\* The empty sequence adds nothing.
LEMMA ConcatNothing ==
  ASSUME NEW S, NEW s \in Seq(S)
  PROVE  s \o <<>> = s /\ <<>> \o s = s /\ <<>> \in Seq(S)
  OBVIOUS

\* Tokens may be grouped in any way.
LEMMA Regroup ==
  ASSUME NEW s \in Seq(Tokens), NEW t \in Seq(Tokens), NEW u \in Seq(Tokens)
  PROVE  (s \o t) \o u = s \o (t \o u)
  OBVIOUS

\* The first i elements.
LEMMA Beginning ==
  ASSUME NEW S, NEW s \in Seq(S), NEW i \in 0..Len(s)
  PROVE  /\ SubSeq(s, 1, i) \in Seq(S)
         /\ Len(SubSeq(s, 1, i)) = i
         /\ \A k \in 1..i : SubSeq(s, 1, i)[k] = s[k]
  OBVIOUS

----------------------------------------------------------------------------
(* Sequences of sequences.                                                 *)

\* f is the function that Concat(s) is computed with.
ConcatBy(s, n, f) == f = [i \in 0..n |-> IF i = 0 THEN <<>> ELSE f[i - 1] \o s[i]]

\* There is such a function.
LEMMA ConcatExists ==
  ASSUME NEW T, NEW s \in Seq(Seq(T))
  PROVE  \A n \in 0..Len(s) : \E f \in [0..n -> Seq(T)] : ConcatBy(s, n, f)
<1> DEFINE B == {n \in 0..Len(s) : ~ \E f \in [0..n -> Seq(T)] : ConcatBy(s, n, f)}
<1> SUFFICES ASSUME B # {} PROVE FALSE
  BY Zenon
<1>1. B \in SUBSET Nat /\ Len(s) \in Nat
  OBVIOUS
<1>2. PICK m \in B : \A n \in B : m <= n
  BY <1>1, LeastNumber, Zenon
<1>3. m \in 0..Len(s) /\ m \in Nat
  BY <1>1
<1>4. CASE m = 0
  <2> DEFINE f == [i \in 0..0 |-> <<>>]
  <2>1. f \in [0..0 -> Seq(T)]
    OBVIOUS
  <2>2. ConcatBy(s, 0, f)
    BY DEF ConcatBy
  <2> QED
    BY <1>2, <1>4, <2>1, <2>2, Zenon
<1>5. CASE m # 0
  <2>1. m - 1 \in 0..Len(s) /\ ~(m <= m - 1) /\ m \in 1..Len(s)
    BY <1>1, <1>3, <1>5
  <2>2. m - 1 \notin B
    BY <1>2, <2>1, Zenon
  <2>3. PICK f \in [0..(m - 1) -> Seq(T)] : ConcatBy(s, m - 1, f)
    BY <2>1, <2>2, Zenon
  <2> DEFINE g == [i \in 0..m |-> IF i = m THEN f[m - 1] \o s[m] ELSE f[i]]
  <2>4. s[m] \in Seq(T) /\ f[m - 1] \in Seq(T)
    BY <1>3, <2>1
  <2>5. f[m - 1] \o s[m] \in Seq(T)
    BY <2>4
  <2>6. g \in [0..m -> Seq(T)]
    BY <1>3, <2>5
  <2>7. \A i \in 0..m : g[i] = IF i = 0 THEN <<>> ELSE g[i - 1] \o s[i]
    <3> TAKE i \in 0..m
    <3>1. CASE i = m
      <4>1. m \in 0..m /\ m - 1 \in 0..m /\ m - 1 # m
        BY <1>3, <1>5
      <4>2. g[m] = f[m - 1] \o s[m] /\ g[m - 1] = f[m - 1]
        BY <4>1, Zenon
      <4> QED
        BY <1>5, <3>1, <4>2, Zenon
    <3>2. CASE i # m
      <4>1. i \in 0..(m - 1) /\ (i # 0 => i - 1 \in 0..(m - 1) /\ i - 1 # m /\ i - 1 \in 0..m)
        BY <1>3, <3>2
      <4>2. f[i] = IF i = 0 THEN <<>> ELSE f[i - 1] \o s[i]
        BY <2>3, <4>1, Zenon DEF ConcatBy
      <4>3. g[i] = f[i] /\ (i # 0 => g[i - 1] = f[i - 1])
        BY <3>2, <4>1, Zenon
      <4> QED
        BY <4>2, <4>3, Zenon
    <3> QED
      BY <3>1, <3>2, Zenon
  <2> HIDE DEF g
  <2>8. ConcatBy(s, m, g)
    BY <2>6, <2>7, Zenon DEF ConcatBy
  <2> QED
    BY <1>2, <2>6, <2>8, Zenon
<1> QED
  BY <1>4, <1>5, Zenon

Agree(s, t, range) == \A i \in range : s[i] = t[i]

\* It depends only on what it is computed from.
LEMMA ConcatUnique ==
  ASSUME NEW s, NEW t, NEW m \in Nat, NEW n \in Nat, m <= n,
         NEW f, NEW g, ConcatBy(s, m, f), ConcatBy(t, n, g),
         Agree(s, t, 1..m)
  PROVE  Agree(f, g, 0..m)
<1> DEFINE B == {i \in 0..m : f[i] # g[i]}
<1> SUFFICES ASSUME B # {} PROVE FALSE
  BY Zenon DEF Agree
<1>1. B \in SUBSET Nat
  OBVIOUS
<1>2. PICK i \in B : \A j \in B : i <= j
  BY <1>1, LeastNumber, Zenon
<1>3. i \in 0..m /\ i \in 0..n /\ i \in Nat
  BY <1>1
<1>4. /\ f[i] = IF i = 0 THEN <<>> ELSE f[i - 1] \o s[i]
      /\ g[i] = IF i = 0 THEN <<>> ELSE g[i - 1] \o t[i]
  BY <1>3, Zenon DEF ConcatBy
<1>5. i # 0 => i - 1 \in 0..m /\ ~(i <= i - 1) /\ i \in 1..m
  BY <1>3
<1>6. i # 0 => f[i - 1] = g[i - 1]
  BY <1>2, <1>5, Zenon
<1>7. f[i] = g[i]
  BY <1>4, <1>5, <1>6, Zenon DEF Agree
<1> QED
  BY <1>2, <1>7, Zenon

\* Concat takes the last value of that function.
LEMMA ConcatValue ==
  ASSUME NEW T, NEW s \in Seq(Seq(T))
  PROVE  \E f \in [0..Len(s) -> Seq(T)] : ConcatBy(s, Len(s), f) /\ Concat(s) = f[Len(s)]
<1>1. Len(s) \in Nat /\ Len(s) \in 0..Len(s)
  OBVIOUS
<1>2. PICK f \in [0..Len(s) -> Seq(T)] : ConcatBy(s, Len(s), f)
  BY <1>1, ConcatExists, Zenon
<1> DEFINE g == CHOOSE h : ConcatBy(s, Len(s), h)
<1>3. ConcatBy(s, Len(s), g)
  BY <1>2, Zenon
<1>4. Concat(s) = g[Len(s)]
  BY Zenon DEF Concat, ConcatBy
<1> HIDE DEF g
<1>5. Len(s) <= Len(s) /\ Agree(s, s, 1..Len(s))
  BY <1>1 DEF Agree
<1>6. Agree(f, g, 0..Len(s))
  BY <1>1, <1>2, <1>3, <1>5, ConcatUnique, Zenon
<1> QED
  BY <1>1, <1>2, <1>4, <1>6, Zenon DEF Agree

\* The type of Concat, and what it makes of no sequence and of one more.
LEMMA ConcatType ==
  ASSUME NEW T, NEW s \in Seq(Seq(T))
  PROVE  Concat(s) \in Seq(T) /\ (Len(s) = 0 => Concat(s) = <<>>)
<1>1. PICK f \in [0..Len(s) -> Seq(T)] : ConcatBy(s, Len(s), f) /\ Concat(s) = f[Len(s)]
  BY ConcatValue, Zenon
<1>2. Len(s) \in 0..Len(s)
  OBVIOUS
<1>3. f[Len(s)] = IF Len(s) = 0 THEN <<>> ELSE f[Len(s) - 1] \o s[Len(s)]
  BY <1>1, <1>2, Zenon DEF ConcatBy
<1> QED
  BY <1>1, <1>2, <1>3, Zenon

\* One more sequence comes after the others.
LEMMA ConcatStep ==
  ASSUME NEW T, NEW s \in Seq(Seq(T)), NEW t \in Seq(Seq(T)),
         Len(t) = Len(s) + 1, Agree(s, t, 1..Len(s))
  PROVE  Concat(t) = Concat(s) \o t[Len(t)]
<1>1. PICK f \in [0..Len(s) -> Seq(T)] : ConcatBy(s, Len(s), f) /\ Concat(s) = f[Len(s)]
  BY ConcatValue, Zenon
<1>2. PICK g \in [0..Len(t) -> Seq(T)] : ConcatBy(t, Len(t), g) /\ Concat(t) = g[Len(t)]
  BY ConcatValue, Zenon
<1>3. /\ Len(s) \in Nat /\ Len(t) \in Nat /\ Len(s) <= Len(t) /\ Len(t) - 1 = Len(s)
      /\ Len(t) \in 0..Len(t) /\ Len(t) # 0 /\ Len(s) \in 0..Len(s)
  OBVIOUS
<1>4. g[Len(t)] = g[Len(t) - 1] \o t[Len(t)]
  BY <1>2, <1>3, Zenon DEF ConcatBy
<1>5. Agree(f, g, 0..Len(s))
  BY <1>1, <1>2, <1>3, ConcatUnique, Zenon
<1> QED
  BY <1>1, <1>2, <1>3, <1>4, <1>5, Zenon DEF Agree

----------------------------------------------------------------------------
(* The layout of a file.                                                   *)

\* A file with the first i buckets of a store.
Upto(store, i) == header \o Buckets(store, i)

NameToken(store, i) == Token("name", dirNames(store)[i])

\* A file that also has the name of the next bucket and j of its pairs.
Within(store, i, j) ==
    Upto(store, i) \o <<NameToken(store, i + 1)>> \o Pairs(store, dirNames(store)[i + 1], j)

NumBuckets(store) == Len(dirNames(store))
NumPairs(store, i) == Len(pairKeys(store, dirNames(store)[i]))

HasBucket(store, n) == n \in Names /\ store[n] # Absent

\* dirNames lists the buckets of a store.
LEMMA DirNames ==
  ASSUME NEW store \in Stores
  PROVE  /\ dirNames(store) \in Seq(Names)
         /\ NumBuckets(store) \in Nat
         /\ \A i \in 1..NumBuckets(store) : HasBucket(store, dirNames(store)[i])
         /\ \A i, j \in 1..NumBuckets(store) : dirNames(store)[i] = dirNames(store)[j] => i = j
         /\ \A n : HasBucket(store, n) => \E i \in 1..NumBuckets(store) : dirNames(store)[i] = n
<1> DEFINE S == {n \in Names : store[n] # Absent}
<1>1. S \in SUBSET Names /\ S \in SUBSET Nat /\ IsFiniteSet(S)
  <2>1. S \in SUBSET Names /\ S \in SUBSET Nat
    BY FileAssumption, Zenon
  <2> QED
    BY <2>1, FS_Subset, FileAssumption, Zenon
<1>2. \A n : HasBucket(store, n) <=> n \in S
  BY Zenon DEF HasBucket
<1>3. dirNames(store) = sorted(S)
  BY Zenon DEF dirNames
<1> HIDE DEF S
<1> DEFINE d == sorted(S)
<1>4. /\ d \in Seq(S)
      /\ \A i, j \in 1..Len(d) : d[i] = d[j] => i = j
      /\ {d[l] : l \in 1..Len(d)} = S
  BY <1>1, SortedElements, Zenon
<1> HIDE DEF d
<1>5. Len(d) \in Nat /\ d \in Seq(Names)
  <2>1. Len(d) \in Nat
    BY <1>1, <1>4
  <2>2. d \in Seq(Names)
    BY <1>1, <1>4, SeqSubset, Zenon
  <2> QED
    BY <2>1, <2>2, Zenon
<1>6. \A i \in 1..Len(d) : d[i] \in S
  BY <1>4, Zenon
<1>7. \A n \in S : \E i \in 1..Len(d) : d[i] = n
  BY <1>4, Zenon
<1> QED
  BY <1>2, <1>3, <1>4, <1>5, <1>6, <1>7, Zenon DEF NumBuckets, d

\* pairKeys lists the keys of a bucket that have a value.
LEMMA PairKeys ==
  ASSUME NEW store \in Stores, NEW n, HasBucket(store, n)
  PROVE  /\ pairKeys(store, n) \in Seq(Keys)
         /\ Len(pairKeys(store, n)) \in Nat
         /\ \A i \in 1..Len(pairKeys(store, n)) :
              pairKeys(store, n)[i] \in Keys /\ store[n][pairKeys(store, n)[i]] \in Vals
         /\ \A i, j \in 1..Len(pairKeys(store, n)) :
              pairKeys(store, n)[i] = pairKeys(store, n)[j] => i = j
         /\ \A k \in Keys : store[n][k] # NoVal =>
              \E i \in 1..Len(pairKeys(store, n)) : pairKeys(store, n)[i] = k
<1> DEFINE S == {k \in Keys : store[n][k] # NoVal}
<1>1. S \in SUBSET Keys /\ S \in SUBSET Nat /\ IsFiniteSet(S)
  <2>1. S \in SUBSET Keys /\ S \in SUBSET Nat
    BY FileAssumption, Zenon
  <2> QED
    BY <2>1, FS_Subset, FileAssumption, Zenon
<1>2. store[n] \in [Keys -> Vals \cup {NoVal}]
  BY Zenon DEF HasBucket, Stores
<1>3. \A k \in S : k \in Keys /\ store[n][k] \in Vals
  BY <1>2
<1>4. \A k \in Keys : store[n][k] # NoVal => k \in S
  OBVIOUS
<1>5. pairKeys(store, n) = sorted(S)
  BY Zenon DEF pairKeys
<1> HIDE DEF S
<1> DEFINE d == sorted(S)
<1>6. /\ d \in Seq(S)
      /\ \A i, j \in 1..Len(d) : d[i] = d[j] => i = j
      /\ {d[l] : l \in 1..Len(d)} = S
  BY <1>1, SortedElements, Zenon
<1> HIDE DEF d
<1>7. Len(d) \in Nat /\ d \in Seq(Keys)
  <2>1. Len(d) \in Nat
    BY <1>1, <1>6
  <2>2. d \in Seq(Keys)
    BY <1>1, <1>6, SeqSubset, Zenon
  <2> QED
    BY <2>1, <2>2, Zenon
<1>8. \A i \in 1..Len(d) : d[i] \in S
  BY <1>6, Zenon
<1>9. \A k \in S : \E i \in 1..Len(d) : d[i] = k
  BY <1>6, Zenon
<1> QED
  BY <1>3, <1>4, <1>5, <1>6, <1>7, <1>8, <1>9, Zenon DEF d

PairAt(store, n, l) == pair(store, n, pairKeys(store, n)[l])

\* The pairs of a bucket, one after the other.
LEMMA PairsSteps ==
  ASSUME NEW store \in Stores, NEW n, HasBucket(store, n)
  PROVE  /\ Pairs(store, n, 0) = <<>>
         /\ \A j \in 0..Len(pairKeys(store, n)) : Pairs(store, n, j) \in Seq(Tokens)
         /\ \A j \in 0..(Len(pairKeys(store, n)) - 1) :
              /\ PairAt(store, n, j + 1) \in Seq(Tokens)
              /\ Pairs(store, n, j + 1) = Pairs(store, n, j) \o PairAt(store, n, j + 1)
<1> DEFINE m == Len(pairKeys(store, n))
           q(j) == [l \in 1..j |-> PairAt(store, n, l)]
<1>1. m \in Nat
  BY PairKeys, Zenon
<1>2. \A l \in 1..m : PairAt(store, n, l) \in Seq(Tokens)
  <2> TAKE l \in 1..m
  <2> DEFINE k == pairKeys(store, n)[l]
  <2>1. k \in Keys /\ store[n][k] \in Vals
    BY PairKeys, Zenon
  <2> HIDE DEF k
  <2>2. Token("key", k) \in Tokens /\ Token("val", store[n][k]) \in Tokens
    BY <2>1, FileAssumption DEF Token, Tokens
  <2>3. pair(store, n, k) = <<Token("key", k), Token("val", store[n][k])>>
    BY Zenon DEF pair
  <2>4. pair(store, n, k) \in Seq(Tokens)
    BY <2>2, <2>3
  <2> QED
    BY <2>4, Zenon DEF PairAt, k
<1>3. \A j : Pairs(store, n, j) = Concat(q(j))
  BY Zenon DEF Pairs, PairAt
<1> HIDE DEF m
<1>4. ASSUME NEW j \in 0..m PROVE q(j) \in Seq(Seq(Tokens)) /\ Len(q(j)) = j
  <2>1. j \in Nat /\ \A l \in 1..j : l \in 1..m
    BY <1>1
  <2>2. q(j) \in [1..j -> Seq(Tokens)]
    BY <1>2, <2>1, Zenon
  <2> QED
    BY <2>1, <2>2
<1>5. 0 \in 0..m
  BY <1>1
<1>6. Pairs(store, n, 0) = <<>>
  BY <1>3, <1>4, <1>5, ConcatType, Zenon
<1>7. ASSUME NEW j \in 0..m PROVE Pairs(store, n, j) \in Seq(Tokens)
  <2>1. q(j) \in Seq(Seq(Tokens))
    BY <1>4, Zenon
  <2> HIDE DEF q
  <2> QED
    BY <2>1, <1>3, ConcatType, Zenon
<1>8. ASSUME NEW j \in 0..(m - 1)
      PROVE  /\ PairAt(store, n, j + 1) \in Seq(Tokens)
             /\ Pairs(store, n, j + 1) = Pairs(store, n, j) \o PairAt(store, n, j + 1)
  <2>1. /\ j \in 0..m /\ j + 1 \in 0..m /\ j + 1 \in 1..m /\ j + 1 \in 1..(j + 1)
        /\ \A l \in 1..j : l \in 1..(j + 1)
    BY <1>1
  <2>2. Len(q(j + 1)) = Len(q(j)) + 1
    BY <2>1, <1>4, Zenon
  <2>3. Len(q(j)) = j /\ Len(q(j + 1)) = j + 1
    BY <2>1, <1>4, Zenon
  <2>4. Agree(q(j), q(j + 1), 1..Len(q(j)))
    BY <2>1, <2>3, Zenon DEF Agree
  <2>5. q(j + 1)[j + 1] = PairAt(store, n, j + 1)
    BY <2>1, Zenon
  <2>6. q(j) \in Seq(Seq(Tokens)) /\ q(j + 1) \in Seq(Seq(Tokens))
    BY <2>1, <1>4, Zenon
  <2> HIDE DEF q
  <2>7. Concat(q(j + 1)) = Concat(q(j)) \o q(j + 1)[Len(q(j + 1))]
    BY <2>2, <2>4, <2>6, ConcatStep, Zenon
  <2> QED
    BY <1>2, <1>3, <2>1, <2>3, <2>5, <2>7, Zenon
<1> QED
  BY <1>6, <1>7, <1>8, Zenon DEF m

\* The tokens that are not of a pair.
LEMMA TokenTypes ==
  /\ <<end>> \in Seq(Tokens) /\ Len(<<end>>) = 1 /\ <<end>>[1] = end
  /\ header \in Seq(Tokens) /\ Len(header) = 3
  /\ \A n \in Names : <<Token("name", n)>> \in Seq(Tokens) /\ Len(<<Token("name", n)>>) = 1
<1>1. /\ end \in Tokens
      /\ Token("magic", 0) \in Tokens /\ Token("version", 1) \in Tokens
      /\ Token("reserved", 0) \in Tokens
      /\ \A n \in Names : Token("name", n) \in Tokens
  BY FileAssumption DEF end, Token, Tokens
<1> QED
  BY <1>1 DEF header

RecordAt(store, l) == BucketRecord(store, dirNames(store)[l])

\* The record of a bucket is its name, its pairs and the end of them.
LEMMA RecordType ==
  ASSUME NEW store \in Stores, NEW l \in 1..NumBuckets(store)
  PROVE  /\ <<NameToken(store, l)>> \in Seq(Tokens)
         /\ Pairs(store, dirNames(store)[l], NumPairs(store, l)) \in Seq(Tokens)
         /\ RecordAt(store, l) \in Seq(Tokens)
         /\ RecordAt(store, l) =
              (<<NameToken(store, l)>> \o Pairs(store, dirNames(store)[l], NumPairs(store, l)))
                \o <<end>>
<1> DEFINE n == dirNames(store)[l]
           ps == Pairs(store, n, NumPairs(store, l))
           w == <<Token("name", n)>>
<1>1. HasBucket(store, n)
  BY DirNames, Zenon
<1>2. NumPairs(store, l) \in 0..Len(pairKeys(store, n))
  <2>1. Len(pairKeys(store, n)) \in Nat
    BY <1>1, PairKeys, Zenon
  <2>2. NumPairs(store, l) = Len(pairKeys(store, n))
    BY Zenon DEF NumPairs
  <2> HIDE DEF n
  <2> QED
    BY <2>1, <2>2
<1>3. ps \in Seq(Tokens)
  BY <1>1, <1>2, PairsSteps, Zenon
<1>4. w \in Seq(Tokens) /\ <<end>> \in Seq(Tokens)
  BY <1>1, TokenTypes, Zenon DEF HasBucket
<1>5. RecordAt(store, l) = (w \o ps) \o <<end>>
  BY Zenon DEF RecordAt, BucketRecord, NumPairs
<1>6. w = <<NameToken(store, l)>>
  BY Zenon DEF NameToken
<1> HIDE DEF w, ps
<1>7. (w \o ps) \o <<end>> \in Seq(Tokens)
  BY <1>3, <1>4, ConcatElements, Zenon
<1> QED
  BY <1>3, <1>4, <1>5, <1>6, <1>7, Zenon DEF ps

\* The buckets of a store, one after the other.
LEMMA BucketsSteps ==
  ASSUME NEW store \in Stores
  PROVE  /\ Buckets(store, 0) = <<>>
         /\ \A i \in 0..NumBuckets(store) : Buckets(store, i) \in Seq(Tokens)
         /\ \A i \in 0..(NumBuckets(store) - 1) :
              Buckets(store, i + 1) = Buckets(store, i) \o RecordAt(store, i + 1)
<1> DEFINE m == NumBuckets(store)
           q(i) == [l \in 1..i |-> RecordAt(store, l)]
<1>1. m \in Nat
  BY DirNames, Zenon
<1>2. \A l \in 1..m : RecordAt(store, l) \in Seq(Tokens)
  BY RecordType, Zenon
<1>3. \A i : Buckets(store, i) = Concat(q(i))
  BY Zenon DEF Buckets, RecordAt
<1> HIDE DEF m
<1>4. ASSUME NEW j \in 0..m PROVE q(j) \in Seq(Seq(Tokens)) /\ Len(q(j)) = j
  <2>1. j \in Nat /\ \A l \in 1..j : l \in 1..m
    BY <1>1
  <2>2. q(j) \in [1..j -> Seq(Tokens)]
    BY <1>2, <2>1, Zenon
  <2> QED
    BY <2>1, <2>2
<1>5. 0 \in 0..m
  BY <1>1
<1>6. Buckets(store, 0) = <<>>
  BY <1>3, <1>4, <1>5, ConcatType, Zenon
<1>7. ASSUME NEW j \in 0..m PROVE Buckets(store, j) \in Seq(Tokens)
  <2>1. q(j) \in Seq(Seq(Tokens))
    BY <1>4, Zenon
  <2> HIDE DEF q
  <2> QED
    BY <2>1, <1>3, ConcatType, Zenon
<1>8. ASSUME NEW j \in 0..(m - 1)
      PROVE  Buckets(store, j + 1) = Buckets(store, j) \o RecordAt(store, j + 1)
  <2>1. /\ j \in 0..m /\ j + 1 \in 0..m /\ j + 1 \in 1..(j + 1)
        /\ \A l \in 1..j : l \in 1..(j + 1)
    BY <1>1
  <2>2. Len(q(j + 1)) = Len(q(j)) + 1
    BY <2>1, <1>4, Zenon
  <2>3. Len(q(j)) = j /\ Len(q(j + 1)) = j + 1
    BY <2>1, <1>4, Zenon
  <2>4. Agree(q(j), q(j + 1), 1..Len(q(j)))
    BY <2>1, <2>3, Zenon DEF Agree
  <2>5. q(j + 1)[j + 1] = RecordAt(store, j + 1)
    BY <2>1, Zenon
  <2>6. q(j) \in Seq(Seq(Tokens)) /\ q(j + 1) \in Seq(Seq(Tokens))
    BY <2>1, <1>4, Zenon
  <2> HIDE DEF q
  <2>7. Concat(q(j + 1)) = Concat(q(j)) \o q(j + 1)[Len(q(j + 1))]
    BY <2>2, <2>4, <2>6, ConcatStep, Zenon
  <2> QED
    BY <1>3, <2>3, <2>5, <2>7, Zenon
<1> QED
  BY <1>6, <1>7, <1>8, Zenon DEF m

\* How a file grows.
LEMMA UptoSteps ==
  ASSUME NEW store \in Stores
  PROVE  /\ Upto(store, 0) = header
         /\ \A i \in 0..NumBuckets(store) : Upto(store, i) \in Seq(Tokens)
         /\ Layout(store) = Upto(store, NumBuckets(store)) \o <<end>>
         /\ Layout(store) \in Seq(Tokens)
<1>1. header \in Seq(Tokens) /\ <<end>> \in Seq(Tokens)
  BY TokenTypes, Zenon
<1>2. Buckets(store, 0) = <<>> /\ \A i \in 0..NumBuckets(store) : Buckets(store, i) \in Seq(Tokens)
  BY BucketsSteps, Zenon
<1>3. Upto(store, 0) = header
  BY <1>1, <1>2, ConcatNothing, Zenon DEF Upto
<1>4. \A i \in 0..NumBuckets(store) : Upto(store, i) \in Seq(Tokens)
  BY <1>1, <1>2, ConcatElements, Zenon DEF Upto
<1>5. Layout(store) = Upto(store, NumBuckets(store)) \o <<end>>
  BY Zenon DEF Layout, Upto, NumBuckets
<1>6. NumBuckets(store) \in 0..NumBuckets(store)
  BY DirNames
<1>7. Layout(store) \in Seq(Tokens)
  BY <1>1, <1>4, <1>5, <1>6, ConcatElements, Zenon
<1> QED
  BY <1>3, <1>4, <1>5, <1>7, Zenon

\* A bucket, token by token: its name, its pairs, its end.
LEMMA WithinSteps ==
  ASSUME NEW store \in Stores, NEW i \in 0..(NumBuckets(store) - 1)
  PROVE  /\ HasBucket(store, dirNames(store)[i + 1])
         /\ NumPairs(store, i + 1) \in Nat
         /\ <<NameToken(store, i + 1)>> \in Seq(Tokens)
         /\ Within(store, i, 0) = Upto(store, i) \o <<NameToken(store, i + 1)>>
         /\ \A j \in 0..NumPairs(store, i + 1) : Within(store, i, j) \in Seq(Tokens)
         /\ \A j \in 0..(NumPairs(store, i + 1) - 1) :
              /\ PairAt(store, dirNames(store)[i + 1], j + 1) \in Seq(Tokens)
              /\ Within(store, i, j + 1) =
                   Within(store, i, j) \o PairAt(store, dirNames(store)[i + 1], j + 1)
         /\ Upto(store, i + 1) = Within(store, i, NumPairs(store, i + 1)) \o <<end>>
<1> DEFINE n == dirNames(store)[i + 1]
           m == NumPairs(store, i + 1)
           w == <<NameToken(store, i + 1)>>
           a == Upto(store, i)
           b == Buckets(store, i)
           ps(j) == Pairs(store, n, j)
<1>1. i \in 0..NumBuckets(store) /\ i + 1 \in 1..NumBuckets(store)
  BY DirNames
<1>2. HasBucket(store, n)
  BY <1>1, DirNames, Zenon
<1>3. m = Len(pairKeys(store, n)) /\ m \in Nat
  BY <1>2, PairKeys, Zenon DEF NumPairs
<1>4. w \in Seq(Tokens) /\ <<end>> \in Seq(Tokens) /\ header \in Seq(Tokens)
  BY <1>1, RecordType, TokenTypes, Zenon
<1>5. a \in Seq(Tokens) /\ b \in Seq(Tokens)
  BY <1>1, UptoSteps, BucketsSteps, Zenon
<1>14. a = header \o b
  BY Zenon DEF Upto
<1>6. /\ ps(0) = <<>>
      /\ \A j \in 0..m : ps(j) \in Seq(Tokens)
      /\ \A j \in 0..(m - 1) : /\ PairAt(store, n, j + 1) \in Seq(Tokens)
                               /\ ps(j + 1) = ps(j) \o PairAt(store, n, j + 1)
  BY <1>2, <1>3, PairsSteps, Zenon
<1>7. \A j : Within(store, i, j) = (a \o w) \o ps(j)
  BY Zenon DEF Within
<1>8. /\ Buckets(store, i + 1) = b \o RecordAt(store, i + 1)
      /\ Upto(store, i + 1) = header \o Buckets(store, i + 1)
      /\ RecordAt(store, i + 1) = (w \o ps(m)) \o <<end>>
  BY <1>1, BucketsSteps, RecordType, Zenon DEF Upto
<1> HIDE DEF m, w, a, b, ps
<1>9. a \o w \in Seq(Tokens)
  BY <1>4, <1>5, ConcatElements, Zenon
<1>10. Within(store, i, 0) = a \o w
  BY <1>6, <1>7, <1>9, ConcatNothing, Zenon
<1>11. \A j \in 0..m : Within(store, i, j) \in Seq(Tokens)
  BY <1>6, <1>7, <1>9, ConcatElements, Zenon
<1>12. ASSUME NEW j \in 0..(m - 1)
       PROVE  Within(store, i, j + 1) = Within(store, i, j) \o PairAt(store, n, j + 1)
  <2>1. j \in 0..m
    BY <1>3
  <2> DEFINE x == PairAt(store, n, j + 1)
  <2>2. ps(j) \in Seq(Tokens) /\ x \in Seq(Tokens) /\ ps(j + 1) = ps(j) \o x
    BY <1>6, <2>1, Zenon
  <2> HIDE DEF x
  <2>3. (a \o w) \o (ps(j) \o x) = ((a \o w) \o ps(j)) \o x
    BY <1>9, <2>2, Regroup, Zenon
  <2> QED
    BY <1>7, <2>2, <2>3, Zenon DEF x
<1>13. Upto(store, i + 1) = Within(store, i, m) \o <<end>>
  <2> DEFINE y == ps(m)
             e == <<end>>
             r == (w \o y) \o e
  <2>1. y \in Seq(Tokens) /\ e \in Seq(Tokens)
    <3>1. m \in 0..m
      BY <1>3
    <3> QED
      BY <1>4, <1>6, <3>1, Zenon
  <2>2. Upto(store, i + 1) = header \o (b \o r) /\ Within(store, i, m) = (a \o w) \o y
    BY <1>7, <1>8, Zenon
  <2> HIDE DEF y, e
  <2>3. w \o y \in Seq(Tokens)
    BY <1>4, <2>1, ConcatElements, Zenon
  <2>4. r \in Seq(Tokens)
    BY <2>1, <2>3, ConcatElements, Zenon
  <2>5. (a \o (w \o y)) \o e = a \o r
    BY <1>5, <2>1, <2>3, Regroup, ZenonT(30)
  <2>6. (a \o w) \o y = a \o (w \o y)
    <3>1. w \in Seq(Tokens)
      BY <1>4, Zenon
    <3> QED
      BY <1>5, <2>1, <3>1, Regroup, ZenonT(30)
  <2> HIDE DEF r
  <2>7. header \o (b \o r) = a \o r
    BY <1>4, <1>5, <1>14, <2>4, Regroup, ZenonT(30)
  <2>8. Upto(store, i + 1) = ((a \o w) \o y) \o e
    BY <2>2, <2>5, <2>6, <2>7, Zenon
  <2> QED
    BY <2>2, <2>8, Zenon DEF e
<1> QED
  BY <1>2, <1>3, <1>4, <1>6, <1>10, <1>11, <1>12, <1>13, Zenon DEF w, a, m

----------------------------------------------------------------------------
(* Prefixes.                                                               *)

Part(s, t) == \E u \in Seq(Tokens) : t = s \o u

\* What begins with s and w begins with s.
LEMMA PartStep ==
  ASSUME NEW s \in Seq(Tokens), NEW w \in Seq(Tokens), NEW t, Part(s \o w, t)
  PROVE  Part(s, t)
<1>1. PICK u \in Seq(Tokens) : t = (s \o w) \o u
  BY Zenon DEF Part
<1>2. (s \o w) \o u = s \o (w \o u) /\ w \o u \in Seq(Tokens)
  BY Regroup, ConcatElements, Zenon
<1> QED
  BY <1>1, <1>2, Zenon DEF Part

\* A sequence begins with itself.
LEMMA PartSelf ==
  ASSUME NEW s \in Seq(Tokens)
  PROVE  Part(s, s)
<1>1. s = s \o <<>> /\ <<>> \in Seq(Tokens)
  BY ConcatNothing, Zenon
<1> QED
  BY <1>1, Zenon DEF Part

\* What is written up to a pair begins what is written up to the next bucket.
LEMMA WithinPart ==
  ASSUME NEW store \in Stores, NEW i \in 0..(NumBuckets(store) - 1),
         NEW t, Part(Upto(store, i + 1), t)
  PROVE  \A j \in 0..NumPairs(store, i + 1) : Part(Within(store, i, j), t)
<1> DEFINE m == NumPairs(store, i + 1)
           B == {d \in 0..m : ~Part(Within(store, i, m - d), t)}
<1>1. m \in Nat
  BY WithinSteps, Zenon
<1>2. ASSUME B # {} PROVE FALSE
  <2>1. B \in SUBSET Nat
    BY <1>1
  <2>2. PICK d \in B : \A e \in B : d <= e
    BY <1>2, <2>1, LeastNumber, Zenon
  <2>3. d \in 0..m /\ ~Part(Within(store, i, m - d), t)
    BY Zenon
  <2> HIDE DEF m
  <2>4. m - d \in 0..m
    BY <1>1, <2>3
  <2>5. Within(store, i, m - d) \in Seq(Tokens)
    BY <2>4, WithinSteps, Zenon DEF m
  <2>6. CASE d = 0
    <3>1. m - d = m
      BY <1>1, <2>6
    <3>2. Upto(store, i + 1) = Within(store, i, m) \o <<end>>
      BY WithinSteps, Zenon DEF m
    <3>3. <<end>> \in Seq(Tokens)
      BY TokenTypes, Zenon
    <3> QED
      BY <2>3, <2>5, <3>1, <3>2, <3>3, PartStep, Zenon
  <2>7. CASE d # 0
    <3>1. /\ m - d \in 0..(m - 1) /\ d - 1 \in 0..m /\ ~(d <= d - 1)
          /\ (m - d) + 1 = m - (d - 1)
      BY <1>1, <2>3, <2>7
    <3>2. Part(Within(store, i, m - (d - 1)), t)
      BY <2>2, <3>1, Zenon
    <3>3. PICK w \in Seq(Tokens) :
            Within(store, i, (m - d) + 1) = Within(store, i, m - d) \o w
      BY <3>1, WithinSteps, Zenon DEF m
    <3> QED
      BY <2>3, <2>5, <3>1, <3>2, <3>3, PartStep, Zenon
  <2> QED
    BY <2>6, <2>7, Zenon
<1>3. ASSUME NEW j \in 0..m PROVE Part(Within(store, i, j), t)
  <2> HIDE DEF m
  <2>1. m - j \in 0..m /\ m - (m - j) = j
    BY <1>1
  <2>2. Part(Within(store, i, m - (m - j)), t)
    BY <1>2, <2>1, Zenon
  <2> QED
    BY <2>1, <2>2, Zenon
<1> QED
  BY <1>3, Zenon

\* What is written up to a bucket begins the whole file.
LEMMA UptoPart ==
  ASSUME NEW store \in Stores
  PROVE  \A i \in 0..NumBuckets(store) : Part(Upto(store, i), Layout(store))
<1> DEFINE m == NumBuckets(store)
           t == Layout(store)
           B == {d \in 0..m : ~Part(Upto(store, m - d), t)}
<1>1. m \in Nat
  BY DirNames, Zenon
<1>2. ASSUME B # {} PROVE FALSE
  <2>1. B \in SUBSET Nat
    BY <1>1
  <2>2. PICK d \in B : \A e \in B : d <= e
    BY <1>2, <2>1, LeastNumber, Zenon
  <2>3. d \in 0..m /\ ~Part(Upto(store, m - d), t)
    BY Zenon
  <2> HIDE DEF m
  <2>4. m - d \in 0..m
    BY <1>1, <2>3
  <2>5. Upto(store, m - d) \in Seq(Tokens)
    BY <2>4, UptoSteps, Zenon DEF m
  <2>6. CASE d = 0
    <3>1. m - d = m
      BY <1>1, <2>6
    <3>2. t = Upto(store, m) \o <<end>> /\ t \in Seq(Tokens)
      BY UptoSteps, Zenon DEF m
    <3>3. <<end>> \in Seq(Tokens)
      BY TokenTypes, Zenon
    <3> HIDE DEF t
    <3> QED
      BY <2>3, <2>5, <3>1, <3>2, <3>3, PartSelf, PartStep, Zenon
  <2>7. CASE d # 0
    <3>1. /\ m - d \in 0..(m - 1) /\ d - 1 \in 0..m /\ ~(d <= d - 1)
          /\ (m - d) + 1 = m - (d - 1)
      BY <1>1, <2>3, <2>7
    <3>2. Part(Upto(store, m - (d - 1)), t)
      BY <2>2, <3>1, Zenon
    <3> DEFINE i == m - d
    <3> HIDE DEF t
    <3>3. i \in 0..(NumBuckets(store) - 1)
      BY <3>1, Zenon DEF m
    <3>4. Part(Upto(store, i + 1), t)
      BY <3>1, <3>2, Zenon
    <3> HIDE DEF i
    <3>5. 0 \in 0..NumPairs(store, i + 1)
      <4>1. NumPairs(store, i + 1) \in Nat
        BY <3>3, WithinSteps, Zenon
      <4> QED
        BY <4>1
    <3>6. Part(Within(store, i, 0), t)
      BY <3>3, <3>4, <3>5, WithinPart, Zenon
    <3>7. PICK w \in Seq(Tokens) : Within(store, i, 0) = Upto(store, i) \o w
      BY <3>3, WithinSteps, Zenon
    <3> QED
      BY <2>3, <2>5, <3>6, <3>7, PartStep, Zenon DEF i
  <2> QED
    BY <2>6, <2>7, Zenon
<1>3. ASSUME NEW j \in 0..m PROVE Part(Upto(store, j), t)
  <2> HIDE DEF m, t
  <2>1. m - j \in 0..m /\ m - (m - j) = j
    BY <1>1
  <2>2. Part(Upto(store, m - (m - j)), t)
    BY <1>2, <2>1, Zenon
  <2> QED
    BY <2>1, <2>2, Zenon
<1> QED
  BY <1>3, Zenon

\* What comes next in the file of a store.
BucketWord(store, i) ==
    IF i = NumBuckets(store) THEN <<end>> ELSE <<NameToken(store, i + 1)>>
PairWord(store, i, j) ==
    IF j = NumPairs(store, i + 1) THEN <<end>>
    ELSE PairAt(store, dirNames(store)[i + 1], j + 1)

\* The word that follows the first i buckets belongs to the layout.
LEMMA BucketWords ==
  ASSUME NEW store \in Stores, NEW i \in 0..NumBuckets(store)
  PROVE  /\ Upto(store, i) \in Seq(Tokens)
         /\ BucketWord(store, i) \in Seq(Tokens)
         /\ Len(BucketWord(store, i)) = 1
         /\ Part(Upto(store, i) \o BucketWord(store, i), Layout(store))
<1>1. Upto(store, i) \in Seq(Tokens)
  BY UptoSteps, Zenon
<1>2. CASE i = NumBuckets(store)
  <2>1. BucketWord(store, i) = <<end>>
    BY <1>2, Zenon DEF BucketWord
  <2>2. Layout(store) = Upto(store, i) \o <<end>> /\ Layout(store) \in Seq(Tokens)
    BY <1>2, UptoSteps, Zenon
  <2> QED
    BY <1>1, <2>1, <2>2, TokenTypes, PartSelf, Zenon
<1>3. CASE i # NumBuckets(store)
  <2>1. i \in 0..(NumBuckets(store) - 1)
    BY <1>3, DirNames
  <2>2. BucketWord(store, i) = <<NameToken(store, i + 1)>>
    BY <1>3, Zenon DEF BucketWord
  <2>3. /\ NumPairs(store, i + 1) \in Nat
        /\ <<NameToken(store, i + 1)>> \in Seq(Tokens)
        /\ Within(store, i, 0) = Upto(store, i) \o <<NameToken(store, i + 1)>>
    BY <2>1, WithinSteps, Zenon
  <2>4. 0 \in 0..NumPairs(store, i + 1) /\ i + 1 \in 0..NumBuckets(store)
    BY <2>1, <2>3, DirNames
  <2>5. Part(Within(store, i, 0), Layout(store))
    BY <2>1, <2>4, UptoPart, WithinPart, Zenon
  <2>6. Len(<<NameToken(store, i + 1)>>) = 1
    OBVIOUS
  <2> QED
    BY <1>1, <2>2, <2>3, <2>5, <2>6, Zenon
<1> QED
  BY <1>2, <1>3, Zenon

\* The word that follows the first j pairs belongs to the layout.
LEMMA PairWords ==
  ASSUME NEW store \in Stores, NEW i \in 0..(NumBuckets(store) - 1),
         NEW j \in 0..NumPairs(store, i + 1)
  PROVE  /\ Within(store, i, j) \in Seq(Tokens)
         /\ PairWord(store, i, j) \in Seq(Tokens)
         /\ Len(PairWord(store, i, j)) = IF j = NumPairs(store, i + 1) THEN 1 ELSE 2
         /\ Part(Within(store, i, j) \o PairWord(store, i, j), Layout(store))
<1>1. Within(store, i, j) \in Seq(Tokens)
  BY WithinSteps, Zenon
<1>2. i + 1 \in 0..NumBuckets(store)
  BY DirNames
<1>3. Part(Upto(store, i + 1), Layout(store))
  BY <1>2, UptoPart, Zenon
<1>4. CASE j = NumPairs(store, i + 1)
  <2>1. PairWord(store, i, j) = <<end>>
    BY <1>4, Zenon DEF PairWord
  <2>2. Upto(store, i + 1) = Within(store, i, j) \o <<end>>
    BY <1>4, WithinSteps, Zenon
  <2> QED
    BY <1>1, <1>3, <1>4, <2>1, <2>2, TokenTypes, Zenon
<1>5. CASE j # NumPairs(store, i + 1)
  <2> DEFINE x == PairAt(store, dirNames(store)[i + 1], j + 1)
  <2>1. NumPairs(store, i + 1) \in Nat
    BY WithinSteps, Zenon
  <2>2. j \in 0..(NumPairs(store, i + 1) - 1) /\ j + 1 \in 0..NumPairs(store, i + 1)
    BY <1>5, <2>1
  <2>3. PairWord(store, i, j) = x
    BY <1>5, Zenon DEF PairWord
  <2>4. x \in Seq(Tokens) /\ Within(store, i, j + 1) = Within(store, i, j) \o x
    BY <2>2, WithinSteps, Zenon
  <2>5. Part(Within(store, i, j + 1), Layout(store))
    BY <1>3, <2>2, WithinPart, Zenon
  <2>6. Len(x) = 2
    BY DEF PairAt, pair
  <2> HIDE DEF x
  <2> QED
    BY <1>1, <1>5, <2>3, <2>4, <2>5, <2>6, Zenon
<1> QED
  BY <1>4, <1>5, Zenon

\* A file that lacks some of the next word is cut off.
LEMMA CutWord ==
  ASSUME NEW s \in Seq(Tokens), NEW w \in Seq(Tokens), NEW whole, Part(s \o w, whole),
         NEW i \in 0..(Len(w) - 1)
  PROVE  CutOff(s \o SubSeq(w, 1, i), whole) /\ s \o SubSeq(w, 1, i) \in Seq(Tokens)
<1> DEFINE v == SubSeq(w, 1, i)
           sw == s \o w
           sv == s \o v
<1>1. Len(w) \in Nat /\ Len(s) \in Nat /\ i \in Nat /\ i < Len(w)
  OBVIOUS
<1>2. v \in Seq(Tokens) /\ Len(v) = i /\ \A k \in 1..i : v[k] = w[k]
  <2>1. i \in 0..Len(w)
    BY <1>1
  <2> QED
    BY <2>1, Beginning, Zenon
<1> HIDE DEF v
<1>3. /\ sv \in Seq(Tokens) /\ Len(sv) = Len(s) + i
      /\ \A k \in 1..(Len(s) + i) : sv[k] = IF k <= Len(s) THEN s[k] ELSE v[k - Len(s)]
  BY <1>2, ConcatElements, Zenon
<1>4. /\ sw \in Seq(Tokens) /\ Len(sw) = Len(s) + Len(w)
      /\ \A k \in 1..(Len(s) + Len(w)) : sw[k] = IF k <= Len(s) THEN s[k] ELSE w[k - Len(s)]
  BY ConcatElements, Zenon
<1>5. PICK u \in Seq(Tokens) : whole = sw \o u
  BY Zenon DEF Part
<1> HIDE DEF sv, sw
<1>6. /\ whole \in Seq(Tokens) /\ Len(whole) = Len(sw) + Len(u)
      /\ \A k \in 1..(Len(sw) + Len(u)) : whole[k] = IF k <= Len(sw) THEN sw[k] ELSE u[k - Len(sw)]
  <2>1. sw \in Seq(Tokens)
    BY <1>4, Zenon
  <2> QED
    BY <1>5, <2>1, ConcatElements, Zenon
<1>7. Len(sv) < Len(whole) /\ Len(sv) \in Nat
  BY <1>1, <1>3, <1>4, <1>6
<1>8. \A k \in 1..Len(sv) : whole[k] = sv[k]
  <2> TAKE k \in 1..Len(sv)
  <2>1. k \in Nat /\ k \in 1..(Len(s) + i) /\ k \in 1..(Len(s) + Len(w)) /\ k <= Len(sw)
        /\ k \in 1..(Len(sw) + Len(u)) /\ (~(k <= Len(s)) => k - Len(s) \in 1..i)
    BY <1>1, <1>3, <1>4
  <2> QED
    BY <1>2, <1>3, <1>4, <1>6, <2>1, Zenon
<1>9. sv = SubSeq(whole, 1, Len(sv))
  <2> DEFINE x == SubSeq(whole, 1, Len(sv))
  <2>1. Len(sv) \in 0..Len(whole) /\ whole \in Seq(Tokens)
    BY <1>6, <1>7
  <2>3. x \in Seq(Tokens) /\ Len(x) = Len(sv) /\ \A k \in 1..Len(sv) : x[k] = whole[k]
    BY <2>1, Beginning, Zenon
  <2> HIDE DEF x
  <2>5. \A k \in 1..Len(sv) : sv[k] = x[k]
    BY <1>8, <2>3, Zenon
  <2>6. sv = x
    BY <1>3, <2>3, <2>5, SameElements, Zenon
  <2> QED
    BY <2>6, Zenon DEF x
<1> QED
  BY <1>3, <1>7, <1>9, Zenon DEF CutOff, sv, v

\* What is read where a word is expected is the word, as far as the file goes.
LEMMA ReadWord ==
  ASSUME NEW s \in Seq(Tokens), NEW w \in Seq(Tokens), NEW whole, Part(s \o w, whole),
         NEW f \in Seq(Tokens), f = whole \/ CutOff(f, whole)
  PROVE  /\ \A k \in 1..Len(w) : Len(s) + k <= Len(f) => f[Len(s) + k] = w[k]
         /\ f = whole => Len(s) + Len(w) <= Len(f)
<1> DEFINE sw == s \o w
<1>1. PICK u \in Seq(Tokens) : whole = sw \o u
  BY Zenon DEF Part
<1>2. /\ sw \in Seq(Tokens) /\ Len(sw) = Len(s) + Len(w)
      /\ \A k \in 1..(Len(s) + Len(w)) : sw[k] = IF k <= Len(s) THEN s[k] ELSE w[k - Len(s)]
  BY ConcatElements, Zenon
<1> HIDE DEF sw
<1>3. /\ whole \in Seq(Tokens) /\ Len(whole) = Len(sw) + Len(u)
      /\ \A k \in 1..(Len(sw) + Len(u)) : whole[k] = IF k <= Len(sw) THEN sw[k] ELSE u[k - Len(sw)]
  <2>1. sw \in Seq(Tokens)
    BY <1>2, Zenon
  <2> QED
    BY <1>1, <2>1, ConcatElements, Zenon
<1>4. Len(s) \in Nat /\ Len(w) \in Nat /\ Len(u) \in Nat /\ Len(f) \in Nat
  OBVIOUS
<1>5. f = whole => Len(s) + Len(w) <= Len(f)
  BY <1>2, <1>3, <1>4
<1>6. ASSUME NEW k \in 1..Len(w), Len(s) + k <= Len(f) PROVE f[Len(s) + k] = w[k]
  <2> DEFINE l == Len(s) + k
  <2>1. /\ l \in 1..(Len(s) + Len(w)) /\ ~(l <= Len(s)) /\ l - Len(s) = k
        /\ l <= Len(sw) /\ l \in 1..(Len(sw) + Len(u)) /\ l \in 1..Len(f)
    BY <1>2, <1>4, <1>6
  <2>2. f[l] = whole[l]
    <3>1. CASE f = whole
      BY <3>1, Zenon
    <3>2. CASE CutOff(f, whole)
      <4>1. Len(f) < Len(whole) /\ f = SubSeq(whole, 1, Len(f))
        BY <3>2, Zenon DEF CutOff
      <4>2. Len(f) \in 0..Len(whole) /\ whole \in Seq(Tokens)
        BY <1>3, <1>4, <4>1
      <4>3. SubSeq(whole, 1, Len(f))[l] = whole[l]
        BY <2>1, <4>2, Beginning, Zenon
      <4> QED
        BY <4>1, <4>3, Zenon
    <3> QED
      BY <3>1, <3>2, Zenon
  <2> QED
    BY <1>2, <1>3, <2>1, <2>2, Zenon
<1> QED
  BY <1>5, <1>6, Zenon

----------------------------------------------------------------------------
(* The invariants.                                                         *)

\* Transactions: one writer, which works on the published state.
StoreInv ==
    /\ db \in Stores \cup {Closed}
    /\ mode \in [Procs -> {"none", "read", "write"}]
    /\ snap \in [Procs -> Stores \cup {NoTx}] /\ view \in [Procs -> Stores \cup {NoTx}]
    /\ \A p \in Procs : mode[p] # "none" => snap[p] \in Stores /\ view[p] \in Stores
    /\ \A p \in Procs : mode[p] = "write" =>
         /\ db = snap[p]
         /\ \A q \in Procs : mode[q] = "write" => q = p

\* Open works alone, on an empty store.
ProcessInv ==
    /\ process \in {"down", "opening", "up"}
    /\ process = "down" => /\ out = NotCopying /\ in = NotRestoring
                           /\ \A p \in Procs : mode[p] = "none"
    /\ process = "opening" => /\ db = EmptyStore /\ in.proc # NoProc
                              /\ out = NotCopying

\* The file belongs to the view that saved tells of.
SavedInv ==
    /\ saved \in [of : Stores \cup {NoTx}, done : BOOLEAN]
    /\ IF saved.of = NoTx THEN file \in OtherFiles /\ ~saved.done
                          ELSE file \in Seq(Tokens) /\ FileIsView

\* Where CopyFile stands: what it has still to write, and what it has written.
AtBucket(i) ==
    /\ out.dir = SubSeq(dirNames(saved.of), i + 1, NumBuckets(saved.of))
    /\ file = Upto(saved.of, i)

AtPair(i, j) ==
    /\ out.dir = SubSeq(dirNames(saved.of), i + 1, NumBuckets(saved.of))
    /\ out.keys = SubSeq(pairKeys(saved.of, dirNames(saved.of)[i + 1]), j + 1,
                         NumPairs(saved.of, i + 1))
    /\ file = Within(saved.of, i, j)

CopyInv ==
    /\ out \in [proc : Procs \cup {NoProc}, at : {"none", "header", "dir", "pairs"},
                dir : Seq(Names), keys : Seq(Keys)]
    /\ IF out.proc = NoProc THEN out = NotCopying
       ELSE /\ in = NotRestoring
            /\ saved.of = copied(out.proc) /\ ~saved.done
            /\ \/ out.at = "header" /\ file = <<>>
               \/ out.at = "dir" /\ \E i \in 0..NumBuckets(saved.of) : AtBucket(i)
               \/ out.at = "pairs" /\ \E i \in 0..(NumBuckets(saved.of) - 1) :
                                        \E j \in 0..NumPairs(saved.of, i + 1) : AtPair(i, j)

\* What Restore has put into its transaction: the first i buckets, which were not
\* there before, and the first j pairs of the next one.
First(store, i) == {dirNames(store)[l] : l \in 1..i}

FirstKeys(store, n, j) == {pairKeys(store, n)[l] : l \in 1..j}

Loaded(old, new, store, i) ==
    \A n \in Names : IF n \in First(store, i) THEN old[n] = Absent /\ new[n] = store[n]
                                              ELSE new[n] = old[n]

PartLoaded(old, new, store, i, j) ==
    \A n \in Names :
        IF n \in First(store, i) THEN old[n] = Absent /\ new[n] = store[n]
        ELSE IF n = dirNames(store)[i + 1]
        THEN /\ old[n] = Absent
             /\ new[n] = [k \in Keys |-> IF k \in FirstKeys(store, n, j) THEN store[n][k] ELSE NoVal]
        ELSE new[n] = old[n]

ReadBucket(p, i) ==
    /\ in.pos = Len(Upto(saved.of, i))
    /\ Loaded(snap[p], view[p], saved.of, i)

ReadPair(p, i, j) ==
    /\ in.pos = Len(Within(saved.of, i, j))
    /\ in.bucket = dirNames(saved.of)[i + 1]
    /\ PartLoaded(snap[p], view[p], saved.of, i, j)

RestoreInv ==
    /\ in \in [proc : Procs \cup {NoProc}, at : {"none", "header", "begin", "bucket", "pairs"},
               pos : Nat, bucket : Nat]
    /\ IF in.proc = NoProc THEN in = NotRestoring
       ELSE /\ file # NoFile
            /\ \/ in.at = "header" /\ mode[in.proc] = "none"
               \/ in.at = "begin" /\ mode[in.proc] = "none" /\ headerOK /\ in.pos = Len(header)
               \/ /\ in.at = "bucket" /\ mode[in.proc] = "write" /\ headerOK
                  /\ \E i \in 0..NumBuckets(saved.of) : ReadBucket(in.proc, i)
               \/ /\ in.at = "pairs" /\ mode[in.proc] = "write" /\ headerOK
                  /\ \E i \in 0..(NumBuckets(saved.of) - 1) :
                       \E j \in 0..NumPairs(saved.of, i + 1) : ReadPair(in.proc, i, j)

FileInv == StoreInv /\ ProcessInv /\ SavedInv /\ CopyInv /\ RestoreInv

----------------------------------------------------------------------------
(* Reading.                                                                *)

\* What Restore has not read is the file without its first in.pos tokens.
LEMMA Unread ==
  ASSUME file \in Seq(Tokens), in.pos \in Nat
  PROVE  /\ Len(unread) \in Nat
         /\ \A k \in Nat : k <= Len(unread) <=> k = 0 \/ in.pos + k <= Len(file)
         /\ \A k \in 1..Len(unread) : unread[k] = file[in.pos + k]
  BY SMTT(30) DEF unread

\* Restore stands before the word w of the file that belongs to saved.of.
LEMMA ReadNext ==
  ASSUME SavedInv, saved.of \in Stores,
         NEW s \in Seq(Tokens), NEW w \in Seq(Tokens), in.pos = Len(s),
         Part(s \o w, Layout(saved.of))
  PROVE  /\ Len(unread) \in Nat
         /\ \A k \in 1..Len(w) : k <= Len(unread) => unread[k] = w[k]
         /\ saved.done => Len(w) <= Len(unread)
         /\ 0 < Len(unread) /\ ~saved.done => in.pos + 1 < Len(Layout(saved.of))
<1>1. saved.of # NoTx
  BY FileAssumption
<1>2. file \in Seq(Tokens) /\ FileIsView
  BY <1>1, Zenon DEF SavedInv
<1>3. IF saved.done THEN file = Layout(saved.of) ELSE CutOff(file, Layout(saved.of))
  BY <1>1, <1>2, Zenon DEF FileIsView
<1>4. in.pos \in Nat /\ Len(w) \in Nat /\ Len(file) \in Nat /\ Len(s) \in Nat
  BY <1>2
<1>5. /\ Len(unread) \in Nat
      /\ \A k \in Nat : k <= Len(unread) <=> k = 0 \/ in.pos + k <= Len(file)
      /\ \A k \in 1..Len(unread) : unread[k] = file[in.pos + k]
  BY <1>2, <1>4, Unread, Zenon
<1>6. /\ \A k \in 1..Len(w) : Len(s) + k <= Len(file) => file[Len(s) + k] = w[k]
      /\ file = Layout(saved.of) => Len(s) + Len(w) <= Len(file)
  BY <1>2, <1>3, ReadWord, Zenon
<1>7. ASSUME NEW k \in 1..Len(w), k <= Len(unread) PROVE unread[k] = w[k]
  <2>1. k \in Nat /\ k # 0 /\ k \in 1..Len(unread)
    BY <1>4, <1>5, <1>7
  <2>2. Len(s) + k <= Len(file)
    BY <1>5, <1>7, <2>1, Zenon
  <2> QED
    BY <1>5, <1>6, <2>1, <2>2, Zenon
<1>8. ASSUME saved.done PROVE Len(w) <= Len(unread)
  BY <1>3, <1>4, <1>5, <1>6, <1>8, Zenon
<1>9. ASSUME 0 < Len(unread), ~saved.done PROVE in.pos + 1 < Len(Layout(saved.of))
  <2>1. Len(file) < Len(Layout(saved.of))
    BY <1>3, <1>9, Zenon DEF CutOff
  <2>2. Layout(saved.of) \in Seq(Tokens)
    BY UptoSteps, Zenon
  <2>3. Len(Layout(saved.of)) \in Nat
    BY <2>2
  <2>4. 1 <= Len(unread)
    BY <1>5, <1>9
  <2>5. in.pos + 1 <= Len(file)
    BY <1>5, <2>4
  <2> QED
    BY <1>4, <2>1, <2>3, <2>5
<1> QED
  BY <1>5, <1>7, <1>8, <1>9, Zenon

\* Between two buckets.
LEMMA BucketReads ==
  ASSUME SavedInv, saved.of \in Stores, NEW i \in 0..NumBuckets(saved.of),
         in.pos = Len(Upto(saved.of, i))
  PROVE  /\ reads("end") => i = NumBuckets(saved.of) /\ saved.done
         /\ reads("name") => i # NumBuckets(saved.of) /\ unread[1].x = dirNames(saved.of)[i + 1]
         /\ saved.done => reads("end") \/ reads("name")
<1> DEFINE s == Upto(saved.of, i)
           w == BucketWord(saved.of, i)
<1>1. s \in Seq(Tokens) /\ w \in Seq(Tokens) /\ Len(w) = 1 /\ Part(s \o w, Layout(saved.of))
  BY BucketWords, Zenon
<1>2. /\ i = NumBuckets(saved.of) => w = <<end>>
      /\ i # NumBuckets(saved.of) => w = <<NameToken(saved.of, i + 1)>>
  BY Zenon DEF BucketWord
<1>3. /\ i = NumBuckets(saved.of) => w[1].kind = "end"
      /\ i # NumBuckets(saved.of) => w[1].kind = "name" /\ w[1].x = dirNames(saved.of)[i + 1]
  BY <1>2 DEF end, NameToken, Token
<1>4. i = NumBuckets(saved.of) => Len(Layout(saved.of)) = Len(s) + 1
  <2> SUFFICES ASSUME i = NumBuckets(saved.of) PROVE Len(Layout(saved.of)) = Len(s) + 1
    BY Zenon
  <2>1. Layout(saved.of) = s \o w
    BY <1>2, UptoSteps, Zenon
  <2> HIDE DEF s, w
  <2>2. Len(s \o w) = Len(s) + Len(w)
    BY <1>1, ConcatElements, Zenon
  <2> QED
    BY <1>1, <2>1, <2>2, Zenon
<1> HIDE DEF s, w
<1>5. in.pos = Len(s)
  BY Zenon DEF s
<1>6. /\ Len(unread) \in Nat
      /\ \A k \in 1..Len(w) : k <= Len(unread) => unread[k] = w[k]
      /\ saved.done => Len(w) <= Len(unread)
      /\ 0 < Len(unread) /\ ~saved.done => in.pos + 1 < Len(Layout(saved.of))
  BY <1>1, <1>5, ReadNext, Zenon
<1>7. /\ 0 < Len(unread) => unread[1] = w[1]
      /\ saved.done => 0 < Len(unread)
      /\ 0 < Len(unread) /\ i = NumBuckets(saved.of) => saved.done
  <2>1. 1 \in 1..Len(w) /\ (0 < Len(unread) <=> 1 <= Len(unread)) /\ Len(s) \in Nat
    BY <1>1, <1>6
  <2>2. 0 < Len(unread) => unread[1] = w[1]
    BY <1>6, <2>1, Zenon
  <2>3. saved.done => 0 < Len(unread)
    BY <1>1, <1>6, <2>1, Zenon
  <2>4. ~(Len(s) + 1 < Len(s) + 1)
    BY <2>1
  <2>5. 0 < Len(unread) /\ i = NumBuckets(saved.of) => saved.done
    BY <1>4, <1>5, <1>6, <2>4, Zenon
  <2> QED
    BY <2>2, <2>3, <2>5, Zenon
<1>8. \A kind : reads(kind) <=> 0 < Len(unread) /\ unread[1].kind = kind
  <2>1. Len(unread) > 0 <=> 0 < Len(unread)
    BY <1>6
  <2> QED
    BY <2>1, Zenon DEF reads
<1>9. "end" # "name"
  OBVIOUS
<1> QED
  BY <1>3, <1>7, <1>8, <1>9, Zenon

\* Between two pairs.
LEMMA PairReads ==
  ASSUME SavedInv, saved.of \in Stores, NEW i \in 0..(NumBuckets(saved.of) - 1),
         NEW j \in 0..NumPairs(saved.of, i + 1), in.pos = Len(Within(saved.of, i, j)),
         NEW n, n = dirNames(saved.of)[i + 1]
  PROVE  /\ reads("end") => j = NumPairs(saved.of, i + 1)
         /\ reads("key") => /\ j # NumPairs(saved.of, i + 1)
                            /\ unread[1].x = pairKeys(saved.of, n)[j + 1]
         /\ reads("key") /\ Len(unread) > 1 =>
              unread[2].x = saved.of[n][pairKeys(saved.of, n)[j + 1]]
         /\ saved.done => reads("end") \/ (reads("key") /\ Len(unread) > 1)
<1> DEFINE s == Within(saved.of, i, j)
           w == PairWord(saved.of, i, j)
           m == NumPairs(saved.of, i + 1)
           k == pairKeys(saved.of, n)[j + 1]
<1>1. /\ s \in Seq(Tokens) /\ w \in Seq(Tokens) /\ Part(s \o w, Layout(saved.of))
      /\ Len(w) = IF j = m THEN 1 ELSE 2
  BY PairWords, Zenon
<1>2. /\ j = m => w = <<end>>
      /\ j # m => w = <<Token("key", k), Token("val", saved.of[n][k])>>
  BY Zenon DEF PairWord, PairAt, pair
<1> HIDE DEF m, k
<1>3. /\ j = m => w[1].kind = "end"
      /\ j # m => w[1].kind = "key" /\ w[1].x = k /\ w[2].x = saved.of[n][k]
  BY <1>2 DEF end, Token
<1> HIDE DEF s, w
<1>5. in.pos = Len(s)
  BY Zenon DEF s
<1>6. /\ Len(unread) \in Nat
      /\ \A l \in 1..Len(w) : l <= Len(unread) => unread[l] = w[l]
      /\ saved.done => Len(w) <= Len(unread)
  BY <1>1, <1>5, ReadNext, Zenon
<1>7. /\ Len(unread) > 0 => unread[1] = w[1]
      /\ Len(unread) > 1 /\ j # m => unread[2] = w[2]
      /\ saved.done => Len(unread) > 0 /\ (j # m => Len(unread) > 1)
  BY <1>1, <1>6
<1>8. \A kind : reads(kind) <=> Len(unread) > 0 /\ unread[1].kind = kind
  BY Zenon DEF reads
<1>9. "end" # "key"
  OBVIOUS
<1>10. reads("end") => j = m
  BY <1>3, <1>7, <1>8, <1>9, Zenon
<1>11. reads("key") => j # m /\ unread[1].x = k
  BY <1>3, <1>7, <1>8, <1>9, Zenon
<1>12. reads("key") /\ Len(unread) > 1 => unread[2].x = saved.of[n][k]
  BY <1>3, <1>7, <1>11, Zenon
<1>13. saved.done => reads("end") \/ (reads("key") /\ Len(unread) > 1)
  BY <1>3, <1>7, <1>8, Zenon
<1> QED
  BY <1>10, <1>11, <1>12, <1>13, Zenon DEF m, k

----------------------------------------------------------------------------
(* The steps of transactions.                                              *)

OthersKeep(p) ==
    \A q \in Procs : q # p => mode'[q] = mode[q] /\ snap'[q] = snap[q] /\ view'[q] = view[q]

Contents == [Keys -> Vals \cup {NoVal}] \cup {Absent}

\* A store with another bucket in one place.
LEMMA StoreUpdate ==
  ASSUME NEW store \in Stores, NEW n \in Names, NEW c \in Contents
  PROVE  [store EXCEPT ![n] = c] \in Stores
  BY DEF Stores, Contents

\* The empty store and the empty bucket.
LEMMA EmptyTypes == EmptyStore \in Stores /\ Empty \in Contents
  BY DEF Stores, EmptyStore, Empty, Contents

\* Begin takes the published state, and there is one writer.
LEMMA BeginStore ==
  ASSUME StoreInv, NEW p \in Procs, NEW m \in {"read", "write"}, Begin(p, m)
  PROVE  /\ StoreInv' /\ OthersKeep(p)
         /\ mode'[p] = m /\ snap'[p] = db /\ view'[p] = db /\ db' = db /\ db \in Stores
<1>1. db \in Stores
  BY DEF StoreInv, Begin
<1>2. mode' = [mode EXCEPT ![p] = m] /\ snap' = [snap EXCEPT ![p] = db]
      /\ view' = [view EXCEPT ![p] = db] /\ db' = db
  BY DEF Begin
<1>3. OthersKeep(p) /\ mode'[p] = m /\ snap'[p] = db /\ view'[p] = db
  BY <1>2 DEF StoreInv, OthersKeep
<1>4. /\ mode' \in [Procs -> {"none", "read", "write"}]
      /\ snap' \in [Procs -> Stores \cup {NoTx}]
      /\ view' \in [Procs -> Stores \cup {NoTx}]
  BY <1>1, <1>2 DEF StoreInv
<1>5. ASSUME NEW q \in Procs PROVE mode'[q] # "none" => snap'[q] \in Stores /\ view'[q] \in Stores
  BY <1>1, <1>3, Zenon DEF StoreInv, OthersKeep
<1>6. ASSUME NEW q \in Procs, mode'[q] = "write"
      PROVE  db' = snap'[q] /\ \A r \in Procs : mode'[r] = "write" => r = q
  <2>1. CASE m = "write"
    <3>1. \A r \in Procs : mode[r] # "write"
      BY <2>1, Zenon DEF Begin, NoWriter
    <3> QED
      BY <1>2, <1>3, <1>6, <3>1, Zenon DEF OthersKeep
  <2>2. CASE m # "write"
    BY <1>2, <1>3, <1>6, <2>2, Zenon DEF OthersKeep, StoreInv
  <2> QED
    BY <2>1, <2>2, Zenon
<1> QED
  BY <1>1, <1>2, <1>3, <1>4, <1>5, <1>6, Zenon DEF StoreInv

\* The writer changes its view.
LEMMA ViewStore ==
  ASSUME StoreInv, NEW p \in Procs, mode[p] = "write", NEW new \in Stores,
         view' = [view EXCEPT ![p] = new], UNCHANGED <<db, mode, snap>>
  PROVE  StoreInv' /\ OthersKeep(p) /\ view'[p] = new
<1>1. OthersKeep(p) /\ view'[p] = new
  BY DEF StoreInv, OthersKeep
<1>2. view' \in [Procs -> Stores \cup {NoTx}]
  BY DEF StoreInv
<1>3. ASSUME NEW q \in Procs PROVE mode'[q] # "none" => snap'[q] \in Stores /\ view'[q] \in Stores
  <2>1. mode[q] # "none" => snap[q] \in Stores /\ view[q] \in Stores
    BY Zenon DEF StoreInv
  <2> QED
    BY <1>1, <2>1, Zenon DEF OthersKeep
<1> QED
  BY <1>1, <1>2, <1>3, Zenon DEF StoreInv

\* Put and Delete change the view of their own transaction.
LEMMA WriteStore ==
  ASSUME StoreInv, NEW p \in Procs, NEW n \in Names, NEW k \in Keys,
         NEW v \in Vals \cup {NoVal}, Write(p, n, k, v)
  PROVE  /\ StoreInv' /\ OthersKeep(p) /\ mode[p] = "write" /\ UNCHANGED <<db, mode, snap>>
         /\ view'[p] = [view[p] EXCEPT ![n] = [view[p][n] EXCEPT ![k] = v]]
<1> DEFINE new == [view[p] EXCEPT ![n] = [view[p][n] EXCEPT ![k] = v]]
<1>1. mode[p] = "write" /\ view[p][n] # Absent /\ UNCHANGED <<db, mode, snap>>
  BY DEF Write
<1>2. view[p] \in Stores
  BY <1>1, Zenon DEF StoreInv
<1>3. view[p][n] \in [Keys -> Vals \cup {NoVal}]
  BY <1>1, <1>2 DEF Stores
<1>4. [view[p][n] EXCEPT ![k] = v] \in Contents
  BY <1>3 DEF Contents
<1>5. new \in Stores
  BY <1>2, <1>4, StoreUpdate, Zenon
<1>6. view' = [view EXCEPT ![p] = new]
  BY DEF Write
<1> HIDE DEF new
<1>7. StoreInv' /\ OthersKeep(p) /\ view'[p] = new
  BY <1>1, <1>5, <1>6, ViewStore, Zenon
<1> QED
  BY <1>1, <1>7, Zenon DEF new

\* So does CreateBucket,
LEMMA CreateBucketStore ==
  ASSUME StoreInv, NEW p \in Procs, NEW n \in Names, CreateBucket(p, n)
  PROVE  /\ StoreInv' /\ OthersKeep(p) /\ mode[p] = "write" /\ UNCHANGED <<db, mode, snap>>
         /\ view'[p] = [view[p] EXCEPT ![n] = Empty]
<1> DEFINE new == [view[p] EXCEPT ![n] = Empty]
<1>1. mode[p] = "write" /\ UNCHANGED <<db, mode, snap>>
  BY DEF CreateBucket
<1>2. view[p] \in Stores
  BY <1>1, Zenon DEF StoreInv
<1>3. new \in Stores
  BY <1>2, EmptyTypes, StoreUpdate, Zenon
<1>4. view' = [view EXCEPT ![p] = new]
  BY DEF CreateBucket
<1> HIDE DEF new
<1>5. StoreInv' /\ OthersKeep(p) /\ view'[p] = new
  BY <1>1, <1>3, <1>4, ViewStore, Zenon
<1> QED
  BY <1>1, <1>5, Zenon DEF new

\* and DeleteBucket.
LEMMA DeleteBucketStore ==
  ASSUME StoreInv, NEW p \in Procs, NEW n \in Names, DeleteBucket(p, n)
  PROVE  StoreInv' /\ OthersKeep(p)
<1>1. mode[p] = "write" /\ UNCHANGED <<db, mode, snap>>
  BY DEF DeleteBucket
<1>2. view[p] \in Stores /\ snap[p] \in Stores
  BY <1>1, Zenon DEF StoreInv
<1>3. PICK c \in {Absent, snap[p][n]} : view' = [view EXCEPT ![p][n] = c]
  BY Zenon DEF DeleteBucket
<1>4. c \in Contents
  BY <1>2 DEF Stores, Contents
<1> DEFINE new == [view[p] EXCEPT ![n] = c]
<1>5. new \in Stores
  BY <1>2, <1>4, StoreUpdate, Zenon
<1>6. view' = [view EXCEPT ![p] = new]
  BY <1>3
<1> HIDE DEF new
<1> QED
  BY <1>1, <1>5, <1>6, ViewStore, Zenon

\* The transaction of p ends, and a writer may publish its view.
LEMMA EndStore ==
  ASSUME StoreInv, NEW p \in Procs, End(p), db' = db \/ (mode[p] = "write" /\ db' = view[p])
  PROVE  StoreInv' /\ OthersKeep(p) /\ mode'[p] = "none"
<1>1. mode' = [mode EXCEPT ![p] = "none"] /\ snap' = [snap EXCEPT ![p] = NoTx]
      /\ view' = [view EXCEPT ![p] = NoTx]
  BY DEF End
<1>2. OthersKeep(p) /\ mode'[p] = "none"
  BY <1>1 DEF StoreInv, OthersKeep
<1>3. /\ mode' \in [Procs -> {"none", "read", "write"}]
      /\ snap' \in [Procs -> Stores \cup {NoTx}]
      /\ view' \in [Procs -> Stores \cup {NoTx}]
  BY <1>1 DEF StoreInv
<1>4. db' \in Stores \cup {Closed}
  <2>1. mode[p] = "write" => view[p] \in Stores
    BY DEF StoreInv
  <2> QED
    BY <2>1 DEF StoreInv
<1>5. ASSUME NEW q \in Procs PROVE mode'[q] # "none" => snap'[q] \in Stores /\ view'[q] \in Stores
  <2>1. mode[q] # "none" => snap[q] \in Stores /\ view[q] \in Stores
    BY Zenon DEF StoreInv
  <2> QED
    BY <1>2, <2>1, Zenon DEF OthersKeep
<1>6. ASSUME NEW q \in Procs, mode'[q] = "write"
      PROVE  db' = snap'[q] /\ \A r \in Procs : mode'[r] = "write" => r = q
  <2>1. q # p /\ mode[q] = "write"
    <3>1. "none" # "write"
      OBVIOUS
    <3> QED
      BY <1>2, <1>6, <3>1, Zenon DEF OthersKeep
  <2>2. db = snap[q] /\ \A r \in Procs : mode[r] = "write" => r = q
    BY <2>1, Zenon DEF StoreInv
  <2>3. mode[p] # "write"
    BY <2>1, <2>2, Zenon
  <2>4. \A r \in Procs : mode'[r] = "write" => r # p
    BY <1>2
  <2> QED
    BY <1>2, <2>1, <2>2, <2>3, <2>4, Zenon DEF OthersKeep
<1> QED
  BY <1>3, <1>4, <1>5, <1>6, <1>2, Zenon DEF StoreInv

\* A step that leaves the file and the goroutines that copy and restore alone.
LEMMA Undisturbed ==
  ASSUME FileInv, process = "up", UNCHANGED filevars, StoreInv',
         \A q \in Procs : q = out.proc \/ q = in.proc =>
             mode'[q] = mode[q] /\ snap'[q] = snap[q] /\ view'[q] = view[q]
  PROVE  FileInv'
<1>1. /\ process' = process /\ file' = file /\ out' = out /\ in' = in /\ saved' = saved
  BY DEF filevars
<1>2. ProcessInv'
  BY <1>1 DEF ProcessInv
<1>3. SavedInv'
  BY <1>1 DEF FileInv, SavedInv, FileIsView
<1>4. CopyInv'
  <2>1. CASE out.proc = NoProc
    BY <1>1, <2>1 DEF FileInv, CopyInv
  <2>2. CASE out.proc # NoProc
    <3>1. out.proc \in Procs
      BY <2>2 DEF FileInv, CopyInv
    <3>2. copied(out.proc)' = copied(out.proc)
      BY <1>1, <3>1 DEF copied
    <3> QED
      BY <1>1, <2>2, <3>2 DEF FileInv, CopyInv, AtBucket, AtPair
  <2> QED
    BY <2>1, <2>2, Zenon
<1>5. RestoreInv'
  <2>1. CASE in.proc = NoProc
    BY <1>1, <2>1 DEF FileInv, RestoreInv
  <2>2. CASE in.proc # NoProc
    <3>1. in.proc \in Procs
      BY <2>2 DEF FileInv, RestoreInv
    <3>2. mode'[in.proc] = mode[in.proc] /\ snap'[in.proc] = snap[in.proc]
          /\ view'[in.proc] = view[in.proc]
      BY <3>1
    <3>3. headerOK' = headerOK
      BY <1>1, Zenon DEF headerOK
    <3>4. \A i : ReadBucket(in.proc, i)' <=> ReadBucket(in.proc, i)
      BY <1>1, <3>2, Zenon DEF ReadBucket
    <3>5. \A i, j : ReadPair(in.proc, i, j)' <=> ReadPair(in.proc, i, j)
      BY <1>1, <3>2, Zenon DEF ReadPair
    <3> QED
      BY <1>1, <2>2, <3>2, <3>3, <3>4, <3>5, Zenon DEF FileInv, RestoreInv
  <2> QED
    BY <2>1, <2>2, Zenon
<1> QED
  BY <1>2, <1>3, <1>4, <1>5, Zenon DEF FileInv

\* The transactions of the program leave CopyFile and Restore where they are.
LEMMA TransactionInv ==
  ASSUME FileInv, NEW p \in Procs, Transaction(p)
  PROVE  FileInv'
<1>1. Idle(p) /\ UNCHANGED filevars
  BY DEF Transaction, Reading, Writing, Ending
<1>2. StoreInv
  BY DEF FileInv
<1>3. StoreInv' /\ OthersKeep(p)
  <2>1. CASE Reading(p)
    <3>1. Begin(p, "read")
      BY <2>1, Zenon DEF Reading
    <3> QED
      BY <1>2, <3>1, BeginStore, Zenon
  <2>2. CASE Writing(p)
    <3>1. CASE Begin(p, "write")
      BY <1>2, <3>1, BeginStore, Zenon
    <3>2. ASSUME NEW n \in Names, NEW k \in Keys, NEW v \in Vals \cup {NoVal}, Write(p, n, k, v)
          PROVE  StoreInv' /\ OthersKeep(p)
      BY <1>2, <3>2, WriteStore, Zenon
    <3>3. ASSUME NEW n \in Names, CreateBucket(p, n) PROVE StoreInv' /\ OthersKeep(p)
      BY <1>2, <3>3, CreateBucketStore, Zenon
    <3>4. ASSUME NEW n \in Names, DeleteBucket(p, n) PROVE StoreInv' /\ OthersKeep(p)
      BY <1>2, <3>4, DeleteBucketStore, Zenon
    <3>5. CASE Commit(p)
      <4>1. End(p) /\ mode[p] = "write" /\ db' = view[p]
        BY <3>5, Zenon DEF Commit
      <4> QED
        BY <1>2, <4>1, EndStore, Zenon
    <3> QED
      BY <2>2, <3>1, <3>2, <3>3, <3>4, <3>5, Zenon DEF Writing
  <2>3. CASE Ending(p)
    <3>1. End(p) /\ db' = db
      BY <2>3, Zenon DEF Ending, Rollback
    <3> QED
      BY <1>2, <3>1, EndStore, Zenon
  <2> QED
    BY <2>1, <2>2, <2>3, Zenon DEF Transaction
<1>4. process = "up" /\ out.proc # p /\ in.proc # p
  BY <1>1, Zenon DEF Idle
<1> QED
  BY <1>1, <1>3, <1>4, Undisturbed, Zenon DEF OthersKeep

\* So does Close.
LEMMA CloseInv ==
  ASSUME FileInv, CloseDB
  PROVE  FileInv'
<1>1. process = "up" /\ UNCHANGED filevars /\ db' = Closed /\ NoWriter
      /\ mode' = mode /\ snap' = snap /\ view' = view
  BY DEF CloseDB, Close
<1>2. StoreInv'
  BY <1>1, Zenon DEF FileInv, StoreInv, NoWriter
<1> QED
  BY <1>1, <1>2, Undisturbed, Zenon

\* The layout of a store is never empty.
LEMMA EmptyCutOff ==
  ASSUME NEW store \in Stores
  PROVE  CutOff(<<>>, Layout(store))
<1>1. Upto(store, 0) = header /\ Part(Upto(store, 0), Layout(store))
  <2>1. 0 \in 0..NumBuckets(store)
    BY DirNames
  <2> QED
    BY <2>1, UptoSteps, UptoPart, Zenon
<1>2. header \in Seq(Tokens) /\ Len(header) = 3
  BY TokenTypes, Zenon
<1>3. <<>> \in Seq(Tokens) /\ <<>> \o header = header
  BY <1>2, ConcatNothing, Zenon
<1>4. 0 \in 0..(Len(header) - 1)
  BY <1>2
<1>5. CutOff(<<>> \o SubSeq(header, 1, 0), Layout(store))
  BY <1>1, <1>2, <1>3, <1>4, CutWord, Zenon
<1>6. <<>> \o SubSeq(header, 1, 0) = <<>>
  BY <1>2
<1> QED
  BY <1>5, <1>6, Zenon

\* CopyFile walks a store, also on a transaction that has ended.
LEMMA CopiedType ==
  ASSUME StoreInv, NEW p \in Procs
  PROVE  copied(p) \in Stores /\ copied(p) # NoTx
<1>1. copied(p) \in Stores
  BY EmptyTypes, Zenon DEF copied, StoreInv
<1> QED
  BY <1>1, FileAssumption, Zenon

\* CopyFile truncates the file.
LEMMA CopyFileInv ==
  ASSUME FileInv, NEW p \in Procs, CopyFile(p)
  PROVE  FileInv'
<1>1. /\ process = "up" /\ in.proc = NoProc /\ file' = <<>>
      /\ out' = [proc |-> p, at |-> "header", dir |-> <<>>, keys |-> <<>>]
      /\ saved' = [of |-> copied(p), done |-> FALSE]
      /\ UNCHANGED <<db, mode, snap, view>> /\ process' = process /\ in' = in
  BY Zenon DEF CopyFile, Idle, NotCopying, svars
<1>2. StoreInv /\ StoreInv'
  BY <1>1 DEF FileInv, StoreInv
<1>3. copied(p) \in Stores /\ copied(p) # NoTx
  BY <1>2, CopiedType, Zenon
<1>4. ProcessInv'
  BY <1>1 DEF ProcessInv
<1>5. saved'.of = copied(p) /\ ~saved'.done /\ saved' \in [of : Stores \cup {NoTx}, done : BOOLEAN]
  BY <1>1, <1>3
<1>6. SavedInv'
  <2>1. CutOff(<<>>, Layout(copied(p)))
    BY <1>3, EmptyCutOff, Zenon
  <2>2. FileIsView'
    BY <1>1, <1>5, <2>1 DEF FileIsView
  <2>3. file' \in Seq(Tokens)
    BY <1>1
  <2> QED
    BY <1>3, <1>5, <2>2, <2>3 DEF SavedInv
<1>7. CopyInv'
  <2>1. in = NotRestoring
    BY <1>1, Zenon DEF FileInv, RestoreInv
  <2>2. copied(p)' = copied(p)
    BY <1>1 DEF copied
  <2>3. p # NoProc
    BY FileAssumption
  <2>4. out'.proc = p /\ out'.at = "header"
        /\ out' \in [proc : Procs \cup {NoProc}, at : {"none", "header", "dir", "pairs"},
                     dir : Seq(Names), keys : Seq(Keys)]
    BY <1>1
  <2> QED
    BY <1>1, <1>5, <2>1, <2>2, <2>3, <2>4 DEF CopyInv, NotRestoring
<1>8. RestoreInv'
  BY <1>1 DEF FileInv, RestoreInv, NotRestoring
<1> QED
  BY <1>2, <1>4, <1>6, <1>7, <1>8, Zenon DEF FileInv

----------------------------------------------------------------------------
(* The steps of CopyFile.                                                  *)

\* Only the empty sequence has no elements.
LEMMA EmptyLength ==
  ASSUME NEW S, NEW s \in Seq(S)
  PROVE  s = <<>> <=> Len(s) = 0
  OBVIOUS

\* What is left of a sequence after its first i elements.
LEMMA Remainder ==
  ASSUME NEW S, NEW s \in Seq(S), NEW i \in 0..Len(s),
         NEW r, r = SubSeq(s, i + 1, Len(s))
  PROVE  /\ r \in Seq(S)
         /\ r = <<>> <=> i = Len(s)
         /\ i # Len(s) => /\ Head(r) = s[i + 1]
                          /\ Tail(r) = SubSeq(s, (i + 1) + 1, Len(s)) /\ Tail(r) \in Seq(S)
<1>1. Len(s) \in Nat /\ i \in Nat
  OBVIOUS
<1>2. r \in Seq(S) /\ Len(r) = Len(s) - i /\ \A k \in 1..Len(r) : r[k] = s[i + k]
  OBVIOUS
<1>3. r = <<>> <=> i = Len(s)
  <2>1. r = <<>> <=> Len(r) = 0
    BY <1>2, EmptyLength, Zenon
  <2>2. Len(r) = 0 <=> i = Len(s)
    BY <1>1, <1>2
  <2> QED
    BY <2>1, <2>2, Zenon
<1>4. ASSUME i # Len(s)
      PROVE  /\ Head(r) = s[i + 1]
             /\ Tail(r) = SubSeq(s, (i + 1) + 1, Len(s)) /\ Tail(r) \in Seq(S)
  <2> DEFINE t == SubSeq(s, (i + 1) + 1, Len(s))
             u == Tail(r)
  <2>1. Head(r) = s[i + 1]
    BY <1>1, <1>2, <1>4
  <2>2. t \in Seq(S) /\ Len(t) = Len(s) - (i + 1) /\ \A k \in 1..Len(t) : t[k] = s[(i + 1) + k]
    BY <1>1, <1>4
  <2>3. u \in Seq(S) /\ Len(u) = Len(r) - 1 /\ \A k \in 1..Len(u) : u[k] = r[k + 1]
    BY <1>1, <1>2, <1>3, <1>4
  <2> HIDE DEF t, u
  <2>4. Len(u) = Len(t) /\ \A k \in 1..Len(u) : u[k] = t[k]
    <3>1. Len(u) = Len(t) /\ Len(u) \in Nat /\ Len(r) = Len(u) + 1
      BY <1>1, <1>2, <2>2, <2>3
    <3>2. ASSUME NEW k \in 1..Len(u) PROVE u[k] = t[k]
      <4>1. k + 1 \in 1..Len(r) /\ k \in 1..Len(t) /\ i + (k + 1) = (i + 1) + k
        BY <1>1, <3>1
      <4> QED
        BY <1>2, <2>2, <2>3, <4>1, Zenon
    <3> QED
      BY <3>1, <3>2, Zenon
  <2>5. u = t
    BY <2>2, <2>3, <2>4, SameElements, Zenon
  <2> QED
    BY <2>1, <2>3, <2>5, Zenon DEF t, u
<1> QED
  BY <1>2, <1>3, <1>4, Zenon

\* At every place the file is cut off.
LEMMA PlaceCutOff ==
  ASSUME NEW s \in Seq(Tokens), NEW w \in Seq(Tokens), NEW whole, Part(s \o w, whole),
         Len(w) # 0
  PROVE  CutOff(s, whole)
<1>1. 0 \in 0..(Len(w) - 1)
  OBVIOUS
<1>2. CutOff(s \o SubSeq(w, 1, 0), whole)
  BY <1>1, CutWord, Zenon
<1>3. s \o SubSeq(w, 1, 0) = s
  OBVIOUS
<1> QED
  BY <1>2, <1>3, Zenon

\* What CopyFile has written up to a bucket is not yet the file,
LEMMA BucketCutOff ==
  ASSUME NEW store \in Stores, NEW i \in 0..NumBuckets(store)
  PROVE  CutOff(Upto(store, i), Layout(store)) /\ Upto(store, i) \in Seq(Tokens)
<1>1. 1 # 0
  OBVIOUS
<1>2. Len(BucketWord(store, i)) # 0
  BY <1>1, BucketWords, Zenon
<1> QED
  BY <1>2, BucketWords, PlaceCutOff, Zenon

\* and neither is what it has written up to a pair.
LEMMA PairCutOff ==
  ASSUME NEW store \in Stores, NEW i \in 0..(NumBuckets(store) - 1),
         NEW j \in 0..NumPairs(store, i + 1)
  PROVE  CutOff(Within(store, i, j), Layout(store)) /\ Within(store, i, j) \in Seq(Tokens)
<1>1. 1 # 0 /\ 2 # 0
  OBVIOUS
<1>2. Len(PairWord(store, i, j)) # 0
  BY <1>1, PairWords, Zenon
<1> QED
  BY <1>2, PairWords, PlaceCutOff, Zenon

\* What a running CopyFile knows.
LEMMA Copying ==
  ASSUME FileInv, NEW p \in Procs, out.proc = p
  PROVE  /\ p # NoProc /\ in = NotRestoring /\ in.proc = NoProc /\ process = "up"
         /\ saved.of = copied(p) /\ saved.of \in Stores /\ saved.of # NoTx /\ ~saved.done
         /\ \/ out.at = "header" /\ file = <<>>
            \/ out.at = "dir" /\ \E i \in 0..NumBuckets(saved.of) : AtBucket(i)
            \/ out.at = "pairs" /\ \E i \in 0..(NumBuckets(saved.of) - 1) :
                                     \E j \in 0..NumPairs(saved.of, i + 1) : AtPair(i, j)
<1>1. p # NoProc
  BY FileAssumption
<1>2. /\ in = NotRestoring /\ saved.of = copied(p) /\ ~saved.done
      /\ \/ out.at = "header" /\ file = <<>>
         \/ out.at = "dir" /\ \E i \in 0..NumBuckets(saved.of) : AtBucket(i)
         \/ out.at = "pairs" /\ \E i \in 0..(NumBuckets(saved.of) - 1) :
                                  \E j \in 0..NumPairs(saved.of, i + 1) : AtPair(i, j)
  BY <1>1, Zenon DEF FileInv, CopyInv
<1>3. copied(p) \in Stores /\ copied(p) # NoTx
  BY CopiedType, Zenon DEF FileInv
<1>4. out # NotCopying /\ in.proc = NoProc
  BY <1>1, <1>2 DEF NotCopying, NotRestoring
<1>5. process = "up"
  BY <1>4, Zenon DEF FileInv, ProcessInv
<1> QED
  BY <1>1, <1>2, <1>3, <1>4, <1>5, Zenon

\* What it writes next.
LEMMA NextBucketWord ==
  ASSUME FileInv, NEW p \in Procs, out.proc = p, out.at = "dir",
         NEW i \in 0..NumBuckets(saved.of), AtBucket(i)
  PROVE  nextWrite(p) = BucketWord(saved.of, i) /\ (out.dir = <<>> <=> i = NumBuckets(saved.of))
         /\ (i # NumBuckets(saved.of) => Head(out.dir) = dirNames(saved.of)[i + 1])
<1>1. saved.of \in Stores
  BY Copying, Zenon
<1> DEFINE d == dirNames(saved.of)
<1>2. d \in Seq(Names) /\ Len(d) = NumBuckets(saved.of)
  BY <1>1, DirNames, Zenon DEF NumBuckets
<1>3. out.dir = SubSeq(d, i + 1, Len(d)) /\ i \in 0..Len(d)
  BY <1>2, Zenon DEF AtBucket
<1> HIDE DEF d
<1>4. (out.dir = <<>> <=> i = Len(d)) /\ (i # Len(d) => Head(out.dir) = d[i + 1])
  BY <1>2, <1>3, Remainder, Zenon
<1>5. nextWrite(p) = IF i = Len(d) THEN <<end>> ELSE <<Token("name", d[i + 1])>>
  BY <1>4 DEF nextWrite
<1> QED
  BY <1>2, <1>4, <1>5, Zenon DEF d, BucketWord, NameToken

\* What CopyFile writes within a bucket is the next word of the layout.
LEMMA NextPairWord ==
  ASSUME FileInv, NEW p \in Procs, out.proc = p, out.at = "pairs",
         NEW i \in 0..(NumBuckets(saved.of) - 1),
         NEW j \in 0..NumPairs(saved.of, i + 1), AtPair(i, j)
  PROVE  nextWrite(p) = PairWord(saved.of, i, j)
         /\ (out.keys = <<>> <=> j = NumPairs(saved.of, i + 1))
<1>1. saved.of \in Stores /\ saved.of = copied(p)
  BY Copying, Zenon
<1> DEFINE d == dirNames(saved.of)
           n == d[i + 1]
           ks == pairKeys(saved.of, n)
<1>2. d \in Seq(Names) /\ Len(d) = NumBuckets(saved.of) /\ Len(d) \in Nat
  BY <1>1, DirNames, Zenon DEF NumBuckets
<1>3. i \in 0..Len(d) /\ i # Len(d)
  BY <1>2
<1>4. out.dir = SubSeq(d, i + 1, Len(d))
  BY <1>2, Zenon DEF AtPair
<1>5. HasBucket(saved.of, n)
  BY <1>1, WithinSteps, Zenon
<1>6. ks \in Seq(Keys) /\ Len(ks) = NumPairs(saved.of, i + 1)
  <2>1. ks \in Seq(Keys)
    <3>1. saved.of \in Stores
      BY <1>1, Zenon
    <3> HIDE DEF n
    <3> QED
      BY <1>5, <3>1, PairKeys, Zenon
  <2>2. Len(ks) = NumPairs(saved.of, i + 1)
    BY Zenon DEF NumPairs
  <2> QED
    BY <2>1, <2>2, Zenon
<1>7. out.keys = SubSeq(ks, j + 1, Len(ks)) /\ j \in 0..Len(ks)
  BY <1>6, Zenon DEF AtPair
<1> HIDE DEF d
<1>8. Head(out.dir) = n
  BY <1>2, <1>3, <1>4, Remainder, Zenon
<1> HIDE DEF n, ks
<1>9. (out.keys = <<>> <=> j = Len(ks)) /\ (j # Len(ks) => Head(out.keys) = ks[j + 1])
  BY <1>6, <1>7, Remainder, Zenon
<1>10. nextWrite(p) = IF j = Len(ks) THEN <<end>> ELSE pair(saved.of, n, ks[j + 1])
  BY <1>1, <1>8, <1>9 DEF nextWrite
<1> QED
  BY <1>6, <1>9, <1>10, Zenon DEF d, n, ks, PairWord, PairAt

\* CopyFile goes on from a file that is cut off, or ends.
LEMMA CopyFrame ==
  ASSUME FileInv, NEW p \in Procs, out.proc = p,
         UNCHANGED <<svars, process, readOnly, in>>,
         saved'.of = saved.of, saved'.done \in BOOLEAN,
         saved' \in [of : Stores \cup {NoTx}, done : BOOLEAN],
         file' \in Seq(Tokens),
         IF saved'.done THEN file' = Layout(saved.of) ELSE CutOff(file', Layout(saved.of)),
         CopyInv'
  PROVE  FileInv'
<1>1. /\ in.proc = NoProc /\ in = NotRestoring /\ process = "up"
      /\ saved.of \in Stores /\ saved.of # NoTx
  BY Copying, Zenon
<1>2. db' = db /\ mode' = mode /\ snap' = snap /\ view' = view /\ process' = process /\ in' = in
  BY DEF svars
<1>3. StoreInv'
  BY <1>2 DEF FileInv, StoreInv
<1>4. ProcessInv'
  BY <1>1, <1>2 DEF ProcessInv
<1>5. SavedInv'
  <2>1. FileIsView'
    BY DEF FileIsView
  <2> QED
    BY <1>1, <2>1 DEF SavedInv
<1>6. RestoreInv'
  BY <1>1, <1>2 DEF FileInv, RestoreInv, NotRestoring
<1> QED
  BY <1>3, <1>4, <1>5, <1>6, Zenon DEF FileInv

OutType == [proc : Procs \cup {NoProc}, at : {"none", "header", "dir", "pairs"},
            dir : Seq(Names), keys : Seq(Keys)]

\* It goes on.
LEMMA CopyGoesOn ==
  ASSUME FileInv, NEW p \in Procs, CopyWrite(p), out' \in OutType, out'.proc = p,
         \/ out'.at = "dir" /\ \E i \in 0..NumBuckets(saved.of) :
              /\ out'.dir = SubSeq(dirNames(saved.of), i + 1, NumBuckets(saved.of))
              /\ file' = Upto(saved.of, i)
         \/ out'.at = "pairs" /\ \E i \in 0..(NumBuckets(saved.of) - 1) :
              \E j \in 0..NumPairs(saved.of, i + 1) :
                /\ out'.dir = SubSeq(dirNames(saved.of), i + 1, NumBuckets(saved.of))
                /\ out'.keys = SubSeq(pairKeys(saved.of, dirNames(saved.of)[i + 1]), j + 1,
                                      NumPairs(saved.of, i + 1))
                /\ file' = Within(saved.of, i, j)
  PROVE  FileInv'
<1>1. out.proc = p /\ UNCHANGED <<svars, process, readOnly, in>>
      /\ saved' = [saved EXCEPT !.done = (out' = NotCopying)]
  BY DEF CopyWrite
<1>2. /\ p # NoProc /\ in = NotRestoring /\ saved.of = copied(p) /\ saved.of \in Stores
  BY <1>1, Copying, Zenon
<1>3. saved'.of = saved.of /\ saved'.done = FALSE
      /\ saved' \in [of : Stores \cup {NoTx}, done : BOOLEAN]
  <2>1. out' # NotCopying
    BY <1>2 DEF NotCopying
  <2> QED
    BY <1>1, <2>1, Zenon DEF FileInv, SavedInv
<1>4. file' \in Seq(Tokens) /\ CutOff(file', Layout(saved.of))
  BY <1>2, BucketCutOff, PairCutOff, Zenon
<1>5. copied(p)' = copied(p) /\ in' = in
  BY <1>1 DEF copied, svars
<1>6. CopyInv'
  BY <1>2, <1>3, <1>5, ZenonT(30) DEF CopyInv, OutType, AtBucket, AtPair, NotRestoring
<1> QED
  BY <1>1, <1>3, <1>4, <1>6, CopyFrame

\* A write of CopyFile leads to the next place of the layout.
LEMMA CopyWriteInv ==
  ASSUME FileInv, NEW p \in Procs, CopyWrite(p)
  PROVE  FileInv'
<1>1. /\ out.proc = p /\ UNCHANGED <<svars, process, readOnly, in>>
      /\ file' = file \o nextWrite(p) /\ out' = afterWrite(p)
      /\ saved' = [saved EXCEPT !.done = (out' = NotCopying)]
  BY DEF CopyWrite
<1>2. saved.of = copied(p)
  BY <1>1, Copying, Zenon
<1>3. saved.of \in Stores
  BY <1>1, Copying, Zenon
<1>4. out \in OutType
  BY DEF FileInv, CopyInv, OutType
<1> DEFINE store == saved.of
           d == dirNames(store)
<1>5. d \in Seq(Names) /\ Len(d) = NumBuckets(store) /\ Len(d) \in Nat
  BY <1>3, DirNames, Zenon DEF NumBuckets
<1>6. CASE out.at = "header" /\ file = <<>>
  <2>1. out' = [out EXCEPT !.at = "dir", !.dir = d]
    BY <1>1, <1>2, <1>6 DEF afterWrite
  <2>2. file' = <<>> \o header
    BY <1>1, <1>6 DEF nextWrite
  <2>3. file' = Upto(store, 0)
    BY <1>3, <2>2, TokenTypes, ConcatNothing, UptoSteps, Zenon
  <2>4. d = SubSeq(d, 0 + 1, NumBuckets(store)) /\ 0 \in 0..NumBuckets(store)
    <3> HIDE DEF d
    <3> QED
      BY <1>5
  <2> HIDE DEF d
  <2>5. out' \in OutType /\ out'.proc = p /\ out'.at = "dir" /\ out'.dir = d
    BY <1>1, <1>4, <1>5, <2>1, Zenon DEF OutType
  <2> QED
    BY <2>3, <2>4, <2>5, CopyGoesOn, Zenon DEF d
<1>7. ASSUME out.at = "dir", NEW i \in 0..NumBuckets(store), AtBucket(i),
             i # NumBuckets(store)
      PROVE  FileInv'
  <2> DEFINE n == d[i + 1]
             ks == pairKeys(store, n)
  <2>1. nextWrite(p) = BucketWord(store, i) /\ out.dir # <<>> /\ Head(out.dir) = n
    BY <1>1, <1>7, NextBucketWord, Zenon
  <2>2. i \in 0..(NumBuckets(store) - 1)
    BY <1>5, <1>7
  <2>3. file' = Within(store, i, 0)
    <3>1. BucketWord(store, i) = <<NameToken(store, i + 1)>>
      BY <1>7, Zenon DEF BucketWord
    <3>2. file = Upto(store, i)
      BY <1>7, Zenon DEF AtBucket
    <3> QED
      BY <1>1, <1>3, <2>1, <2>2, <3>1, <3>2, WithinSteps, Zenon
  <2>4. out' = [out EXCEPT !.at = "pairs", !.keys = ks]
    BY <1>1, <1>2, <1>7, <2>1, Zenon DEF afterWrite
  <2>5. HasBucket(store, n)
    BY <1>3, <2>2, WithinSteps, Zenon
  <2>6. ks \in Seq(Keys) /\ Len(ks) = NumPairs(store, i + 1)
    <3>1. Len(ks) = NumPairs(store, i + 1)
      BY Zenon DEF NumPairs
    <3> HIDE DEF n
    <3>2. ks \in Seq(Keys)
      BY <1>3, <2>5, PairKeys, Zenon
    <3> QED
      BY <3>1, <3>2, Zenon
  <2>7. out.dir = SubSeq(d, i + 1, NumBuckets(store))
    BY <1>7, Zenon DEF AtBucket
  <2> HIDE DEF ks, n, d
  <2>8. ks = SubSeq(ks, 0 + 1, NumPairs(store, i + 1)) /\ 0 \in 0..NumPairs(store, i + 1)
    BY <2>6
  <2>9. out' \in OutType /\ out'.proc = p /\ out'.at = "pairs" /\ out'.dir = out.dir /\ out'.keys = ks
    BY <1>1, <1>4, <2>4, <2>6, Zenon DEF OutType
  <2> QED
    BY <2>2, <2>3, <2>7, <2>8, <2>9, CopyGoesOn, Zenon DEF ks, n, d
<1>8. ASSUME out.at = "dir", NEW i \in 0..NumBuckets(store), AtBucket(i),
             i = NumBuckets(store)
      PROVE  FileInv'
  <2>1. nextWrite(p) = <<end>> /\ out.dir = <<>>
    BY <1>1, <1>8, NextBucketWord, Zenon DEF BucketWord
  <2>2. file = Upto(store, i)
    BY <1>8, Zenon DEF AtBucket
  <2>3. file' = Layout(store) /\ Layout(store) \in Seq(Tokens)
    BY <1>1, <1>3, <1>8, <2>1, <2>2, UptoSteps, Zenon
  <2>4. out' = NotCopying
    BY <1>1, <1>8, <2>1 DEF afterWrite
  <2>5. saved'.of = store /\ saved'.done = TRUE
        /\ saved' \in [of : Stores \cup {NoTx}, done : BOOLEAN]
    BY <1>1, <2>4, Zenon DEF FileInv, SavedInv
  <2>6. CopyInv'
    BY <2>4 DEF CopyInv, NotCopying
  <2> QED
    BY <1>1, <2>3, <2>5, <2>6, CopyFrame
<1>9. ASSUME out.at = "pairs", NEW i \in 0..(NumBuckets(store) - 1),
             NEW j \in 0..NumPairs(store, i + 1), AtPair(i, j)
      PROVE  FileInv'
  <2> DEFINE n == d[i + 1]
             ks == pairKeys(store, n)
             m == NumPairs(store, i + 1)
  <2>1. nextWrite(p) = PairWord(store, i, j) /\ (out.keys = <<>> <=> j = m)
    BY <1>1, <1>9, NextPairWord, Zenon
  <2>2. /\ out.dir = SubSeq(d, i + 1, NumBuckets(store))
        /\ out.keys = SubSeq(ks, j + 1, m)
        /\ file = Within(store, i, j)
    BY <1>9, Zenon DEF AtPair
  <2>3. HasBucket(store, n) /\ m \in Nat
    BY <1>3, WithinSteps, Zenon
  <2>4. Len(ks) = m
    BY Zenon DEF NumPairs
  <2>5. ks \in Seq(Keys)
    <3> HIDE DEF n
    <3> QED
      BY <1>3, <2>3, PairKeys, Zenon
  <2>6. CASE j # m
    <3>1. j \in 0..(m - 1) /\ j + 1 \in 0..m
      <4>1. j \in 0..m
        BY Zenon
      <4> HIDE DEF m
      <4> QED
        BY <2>3, <2>6, <4>1
    <3>2. file' = Within(store, i, j + 1)
      <4>1. PairWord(store, i, j) = PairAt(store, n, j + 1)
        BY <2>6, Zenon DEF PairWord
      <4> QED
        BY <1>1, <1>3, <2>1, <2>2, <3>1, <4>1, WithinSteps, Zenon
    <3>3. out' = [out EXCEPT !.keys = Tail(out.keys)]
      BY <1>1, <1>9, <2>1, <2>6 DEF afterWrite
    <3>8. j \in 0..Len(ks) /\ j # Len(ks) /\ out.keys = SubSeq(ks, j + 1, Len(ks))
      BY <2>2, <2>4, <2>6, Zenon
    <3> HIDE DEF ks, n, d, m
    <3>7. Tail(out.keys) = SubSeq(ks, (j + 1) + 1, Len(ks)) /\ Tail(out.keys) \in Seq(Keys)
      BY <2>5, <3>8, Remainder, Zenon
    <3>4. Tail(out.keys) = SubSeq(ks, (j + 1) + 1, m)
      BY <2>4, <3>7, Zenon
    <3>5. Tail(out.keys) \in Seq(Keys)
      BY <3>7, Zenon
    <3>6. out' \in OutType /\ out'.proc = p /\ out'.at = "pairs" /\ out'.dir = out.dir
          /\ out'.keys = Tail(out.keys)
      BY <1>1, <1>4, <1>9, <3>3, <3>5, Zenon DEF OutType
    <3> QED
      BY <2>2, <3>1, <3>2, <3>4, <3>6, CopyGoesOn, Zenon DEF ks, n, d, m
  <2>7. CASE j = m
    <3>1. i + 1 \in 0..NumBuckets(store) /\ i \in 0..NumBuckets(store) /\ i # NumBuckets(store)
      BY <1>5
    <3>2. file' = Upto(store, i + 1)
      <4>1. PairWord(store, i, j) = <<end>>
        BY <2>7, Zenon DEF PairWord
      <4> QED
        BY <1>1, <1>3, <2>1, <2>2, <2>7, <4>1, WithinSteps, Zenon
    <3>3. out' = [out EXCEPT !.at = "dir", !.dir = Tail(out.dir)]
      BY <1>1, <1>9, <2>1, <2>7 DEF afterWrite
    <3>8. i \in 0..Len(d) /\ i # Len(d) /\ out.dir = SubSeq(d, i + 1, Len(d))
      BY <1>5, <2>2, <3>1, Zenon
    <3>9. d \in Seq(Names)
      BY <1>5, Zenon
    <3> HIDE DEF ks, n, d, m
    <3>7. Tail(out.dir) = SubSeq(d, (i + 1) + 1, Len(d)) /\ Tail(out.dir) \in Seq(Names)
      BY <3>8, <3>9, Remainder, Zenon
    <3>4. Tail(out.dir) = SubSeq(d, (i + 1) + 1, NumBuckets(store))
      BY <1>5, <3>7, Zenon
    <3>5. Tail(out.dir) \in Seq(Names)
      BY <3>7, Zenon
    <3>6. out' \in OutType /\ out'.proc = p /\ out'.at = "dir" /\ out'.dir = Tail(out.dir)
      BY <1>1, <1>4, <3>3, <3>5, Zenon DEF OutType
    <3> QED
      BY <3>1, <3>2, <3>4, <3>6, CopyGoesOn, Zenon DEF d
  <2> QED
    BY <2>6, <2>7, Zenon
<1> QED
  BY <1>1, <1>6, <1>7, <1>8, <1>9, Copying, Zenon

\* A write that fails leaves a proper prefix.
LEMMA CopyErrorInv ==
  ASSUME FileInv, NEW p \in Procs, CopyError(p)
  PROVE  FileInv'
<1>1. /\ out.proc = p /\ out' = NotCopying /\ saved' = saved
      /\ UNCHANGED <<svars, process, readOnly, in>>
  BY DEF CopyError
<1>2. PICK k \in 0..(Len(nextWrite(p)) - 1) : file' = file \o SubSeq(nextWrite(p), 1, k)
  BY Zenon DEF CopyError
<1>3. saved.of \in Stores /\ ~saved.done
  BY <1>1, Copying, Zenon
<1>4. file \in Seq(Tokens) /\ nextWrite(p) \in Seq(Tokens)
      /\ Part(file \o nextWrite(p), Layout(saved.of))
  <2>1. CASE out.at = "header" /\ file = <<>>
    <3>1. nextWrite(p) = header
      BY <2>1 DEF nextWrite
    <3>2. header \in Seq(Tokens)
      BY TokenTypes, Zenon
    <3>3. <<>> \o header = header /\ <<>> \in Seq(Tokens)
      BY <3>2, ConcatNothing, Zenon
    <3>4. 0 \in 0..NumBuckets(saved.of)
      BY <1>3, DirNames
    <3>5. Part(header, Layout(saved.of))
      BY <1>3, <3>4, UptoSteps, UptoPart, Zenon
    <3> QED
      BY <2>1, <3>1, <3>2, <3>3, <3>5, Zenon
  <2>2. ASSUME out.at = "dir", NEW i \in 0..NumBuckets(saved.of), AtBucket(i)
        PROVE  file \in Seq(Tokens) /\ nextWrite(p) \in Seq(Tokens)
               /\ Part(file \o nextWrite(p), Layout(saved.of))
    <3>1. nextWrite(p) = BucketWord(saved.of, i)
      BY <1>1, <2>2, NextBucketWord, Zenon
    <3>2. file = Upto(saved.of, i)
      BY <2>2, Zenon DEF AtBucket
    <3> QED
      BY <1>3, <3>1, <3>2, BucketWords, Zenon
  <2>3. ASSUME out.at = "pairs", NEW i \in 0..(NumBuckets(saved.of) - 1),
               NEW j \in 0..NumPairs(saved.of, i + 1), AtPair(i, j)
        PROVE  file \in Seq(Tokens) /\ nextWrite(p) \in Seq(Tokens)
               /\ Part(file \o nextWrite(p), Layout(saved.of))
    <3>1. nextWrite(p) = PairWord(saved.of, i, j)
      BY <1>1, <2>3, NextPairWord, Zenon
    <3>2. file = Within(saved.of, i, j)
      BY <2>3, Zenon DEF AtPair
    <3> QED
      BY <1>3, <3>1, <3>2, PairWords, Zenon
  <2> QED
    BY <1>1, <2>1, <2>2, <2>3, Copying, Zenon
<1>5. CutOff(file', Layout(saved.of)) /\ file' \in Seq(Tokens)
  BY <1>2, <1>4, CutWord, Zenon
<1>6. saved \in [of : Stores \cup {NoTx}, done : BOOLEAN]
  BY DEF FileInv, SavedInv
<1>7. CopyInv'
  BY <1>1 DEF CopyInv, NotCopying
<1>8. saved'.of = saved.of /\ saved'.done = FALSE
  BY <1>1, <1>3, <1>6
<1> QED
  BY <1>1, <1>5, <1>6, <1>7, <1>8, CopyFrame

----------------------------------------------------------------------------
(* The steps of Restore and Open.                                          *)

\* Where a Restore that runs can be.
LEMMA Restoring ==
  ASSUME FileInv, in.at # "none"
  PROVE  /\ in.proc # NoProc /\ in.proc \in Procs /\ file # NoFile
         /\ out = NotCopying /\ process # "down"
         /\ in.at = "header" => mode[in.proc] = "none"
         /\ in.at = "begin" => mode[in.proc] = "none" /\ headerOK /\ in.pos = Len(header)
         /\ in.at = "bucket" => /\ mode[in.proc] = "write" /\ headerOK
                                /\ \E i \in 0..NumBuckets(saved.of) : ReadBucket(in.proc, i)
         /\ in.at = "pairs" => /\ mode[in.proc] = "write" /\ headerOK
                               /\ \E i \in 0..(NumBuckets(saved.of) - 1) :
                                    \E j \in 0..NumPairs(saved.of, i + 1) : ReadPair(in.proc, i, j)
<1>1. in # NotRestoring
  BY DEF NotRestoring
<1>2. in.proc # NoProc /\ in.proc \in Procs /\ file # NoFile
  BY <1>1 DEF FileInv, RestoreInv
<1>3. out = NotCopying /\ process # "down"
  BY <1>1, Zenon DEF FileInv, CopyInv, ProcessInv
<1>4. RestoreInv
  BY Zenon DEF FileInv
<1> QED
  BY <1>2, <1>3, <1>4 DEF RestoreInv

\* A file with the header is one that a CopyFile has written.
LEMMA HeaderSaved ==
  ASSUME FileInv, headerOK, file # NoFile
  PROVE  saved.of \in Stores
<1>1. SavedInv
  BY Zenon DEF FileInv
<1>2. CASE saved.of = NoTx
  <2>1. file \in OtherFiles
    BY <1>1, <1>2, Zenon DEF SavedInv
  <2>2. Len(header) = 3 /\ header[2].x = 1
    BY DEF header, Token
  <2>3. CASE file = <<Token("foreign", 0)>>
    BY <2>2, <2>3 DEF headerOK
  <2>4. CASE file = <<Token("magic", 0), Token("version", 2), Token("reserved", 0), end>>
    <3>1. SubSeq(file, 1, 3)[2] = Token("version", 2)
      BY <2>4
    <3>2. SubSeq(file, 1, 3)[2].x = 2
      BY <3>1 DEF Token
    <3> QED
      BY <2>2, <3>2 DEF headerOK
  <2> QED
    BY <2>1, <2>3, <2>4 DEF OtherFiles
<1>3. CASE saved.of # NoTx
  BY <1>1, <1>3 DEF SavedInv
<1> QED
  BY <1>2, <1>3, Zenon

InType == [proc : Procs \cup {NoProc}, at : {"none", "header", "begin", "bucket", "pairs"},
           pos : Nat, bucket : Nat]

\* A step of Restore to another place.
LEMMA InStep ==
  ASSUME in \in InType, NEW a \in {"begin", "bucket", "pairs"}, NEW q \in Nat, NEW b \in Nat,
         in' = [in EXCEPT !.at = a, !.pos = q, !.bucket = b]
  PROVE  in' \in InType /\ in'.proc = in.proc /\ in'.at = a /\ in'.pos = q /\ in'.bucket = b
<1>1. in' \in InType
  BY Zenon DEF InType
<1>2. in'.proc = in.proc
  BY Zenon DEF InType
<1>3. in'.at = a /\ in'.pos = q /\ in'.bucket = b
  BY Zenon DEF InType
<1> QED
  BY <1>1, <1>2, <1>3, Zenon

\* A step of Restore that neither ends it nor changes the published state.
LEMMA RestoreFrame ==
  ASSUME FileInv, in.at # "none", UNCHANGED <<process, readOnly, file, out, saved>>, db' = db,
         StoreInv', in'.proc = in.proc, RestoreInv'
  PROVE  FileInv'
<1>1. in.proc # NoProc /\ out = NotCopying /\ process # "down"
  BY Restoring, Zenon
<1>2. ProcessInv'
  BY <1>1 DEF FileInv, ProcessInv
<1>3. SavedInv'
  BY DEF FileInv, SavedInv, FileIsView
<1>4. CopyInv'
  BY <1>1 DEF FileInv, CopyInv, NotCopying
<1> QED
  BY <1>2, <1>3, <1>4, Zenon DEF FileInv

\* Restore accepts the header.
LEMMA RestoreHeaderInv ==
  ASSUME FileInv, RestoreHeader
  PROVE  FileInv'
<1>1. /\ in.at = "header" /\ headerOK /\ in' = [in EXCEPT !.at = "begin", !.pos = Len(header)]
      /\ db' = db /\ mode' = mode /\ snap' = snap /\ view' = view
      /\ UNCHANGED <<process, readOnly, file, out, saved>>
  BY DEF RestoreHeader, svars
<1>2. in.at # "none"
  BY <1>1
<1>3. in.proc # NoProc /\ in.proc \in Procs /\ file # NoFile /\ mode[in.proc] = "none"
  BY <1>1, <1>2, Restoring, Zenon
<1>4. StoreInv'
  BY <1>1 DEF FileInv, StoreInv
<1>5. in \in InType
  BY DEF FileInv, RestoreInv, InType
<1>6. Len(header) \in Nat
  BY DEF header
<1>7. in' \in InType /\ in'.proc = in.proc /\ in'.at = "begin" /\ in'.pos = Len(header)
  <2>1. in' \in InType
    BY <1>1, <1>5, <1>6, Zenon DEF InType
  <2>2. in'.proc = in.proc /\ in'.at = "begin" /\ in'.pos = Len(header)
    BY <1>1, <1>5, Zenon DEF InType
  <2> QED
    BY <2>1, <2>2, Zenon
<1>8. headerOK'
  BY <1>1 DEF headerOK
<1>9. RestoreInv'
  BY <1>1, <1>3, <1>7, <1>8 DEF RestoreInv, InType
<1> QED
  BY <1>1, <1>2, <1>4, <1>7, <1>9, RestoreFrame, Zenon

\* Its Update begins on the published state.
LEMMA RestoreBeginInv ==
  ASSUME FileInv, RestoreBegin
  PROVE  FileInv'
<1>1. /\ in.at = "begin" /\ Begin(in.proc, "write") /\ in' = [in EXCEPT !.at = "bucket"]
      /\ UNCHANGED <<process, readOnly, file, out, saved>>
  BY DEF RestoreBegin
<1>2. in.at # "none"
  BY <1>1
<1>3. /\ in.proc # NoProc /\ in.proc \in Procs /\ file # NoFile
      /\ headerOK /\ in.pos = Len(header)
  BY <1>1, <1>2, Restoring, Zenon
<1> DEFINE p == in.proc
<1>4. StoreInv' /\ mode'[p] = "write" /\ snap'[p] = db /\ view'[p] = db /\ db' = db
  BY <1>1, <1>3, BeginStore, Zenon DEF FileInv
<1>5. in \in InType
  BY DEF FileInv, RestoreInv, InType
<1>6. in' \in InType /\ in'.proc = p /\ in'.at = "bucket" /\ in'.pos = in.pos
  BY <1>1, <1>5 DEF InType
<1>7. headerOK'
  BY <1>1, <1>3 DEF headerOK
<1>8. saved.of \in Stores
  BY <1>3, HeaderSaved, Zenon
<1>9. Upto(saved.of, 0) = header /\ 0 \in 0..NumBuckets(saved.of)
  BY <1>8, UptoSteps, DirNames
<1>10. Loaded(snap'[p], view'[p], saved.of, 0)
  <2>1. First(saved.of, 0) = {}
    BY DEF First
  <2> QED
    BY <1>4, <2>1, Zenon DEF Loaded
<1>11. RestoreInv'
  <2>1. in'.pos = Len(Upto(saved'.of, 0)) /\ Loaded(snap'[in'.proc], view'[in'.proc], saved'.of, 0)
    BY <1>1, <1>3, <1>6, <1>9, <1>10
  <2>2. \E i \in 0..NumBuckets(saved'.of) : ReadBucket(in.proc, i)'
    BY <1>1, <1>6, <1>9, <2>1, Zenon DEF ReadBucket
  <2> QED
    BY <1>1, <1>3, <1>4, <1>6, <1>7, <2>2 DEF RestoreInv, InType
<1> QED
  BY <1>1, <1>2, <1>4, <1>6, <1>11, RestoreFrame, Zenon

\* The name that comes next is new.
LEMMA FirstStep ==
  ASSUME NEW store \in Stores, NEW i \in 0..(NumBuckets(store) - 1)
  PROVE  /\ First(store, i + 1) = First(store, i) \cup {dirNames(store)[i + 1]}
         /\ dirNames(store)[i + 1] \notin First(store, i)
         /\ dirNames(store)[i + 1] \in Names
<1> DEFINE d == dirNames(store)
           N == NumBuckets(store)
<1>1. N \in Nat /\ \A k, l \in 1..N : d[k] = d[l] => k = l
  BY DirNames, Zenon
<1>2. HasBucket(store, d[i + 1])
  BY WithinSteps, Zenon
<1>3. i \in 0..(N - 1)
  BY Zenon
<1> HIDE DEF d, N
<1>4. 1..(i + 1) = (1..i) \cup {i + 1} /\ i + 1 \in 1..N /\ \A l \in 1..i : l \in 1..N /\ l # i + 1
  BY <1>1, <1>3
<1>5. {d[l] : l \in 1..(i + 1)} = {d[l] : l \in 1..i} \cup {d[i + 1]}
  BY <1>4, Zenon
<1>6. d[i + 1] \notin {d[l] : l \in 1..i}
  BY <1>1, <1>4, Zenon
<1> QED
  BY <1>2, <1>5, <1>6, Zenon DEF First, d, HasBucket

\* The keys that come next.
LEMMA FirstKeysStep ==
  ASSUME NEW store \in Stores, NEW n, HasBucket(store, n),
         NEW j \in 0..(Len(pairKeys(store, n)) - 1)
  PROVE  /\ FirstKeys(store, n, j + 1) = FirstKeys(store, n, j) \cup {pairKeys(store, n)[j + 1]}
         /\ pairKeys(store, n)[j + 1] \in Keys
         /\ store[n][pairKeys(store, n)[j + 1]] \in Vals
<1> DEFINE d == pairKeys(store, n)
           N == Len(d)
<1>1. N \in Nat /\ \A l \in 1..N : d[l] \in Keys /\ store[n][d[l]] \in Vals
  BY PairKeys, Zenon
<1>2. j \in 0..(N - 1)
  BY Zenon
<1> HIDE DEF d, N
<1>3. 1..(j + 1) = (1..j) \cup {j + 1} /\ j + 1 \in 1..N
  BY <1>1, <1>2
<1>4. {d[l] : l \in 1..(j + 1)} = {d[l] : l \in 1..j} \cup {d[j + 1]}
  BY <1>3, Zenon
<1> QED
  BY <1>1, <1>3, <1>4, Zenon DEF FirstKeys, d

\* All of them are what the store has.
LEMMA FirstAll ==
  ASSUME NEW store \in Stores
  PROVE  \A n \in Names : n \in First(store, NumBuckets(store)) <=> store[n] # Absent
<1>1. \A i \in 1..NumBuckets(store) : HasBucket(store, dirNames(store)[i])
  BY DirNames, Zenon
<1>2. \A n : HasBucket(store, n) => \E i \in 1..NumBuckets(store) : dirNames(store)[i] = n
  BY DirNames, Zenon
<1> QED
  BY <1>1, <1>2, Zenon DEF First, HasBucket

\* All keys of a bucket are its contents.
LEMMA FirstKeysAll ==
  ASSUME NEW store \in Stores, NEW n, HasBucket(store, n)
  PROVE  store[n] = [k \in Keys |->
             IF k \in FirstKeys(store, n, Len(pairKeys(store, n))) THEN store[n][k] ELSE NoVal]
<1>1. \A k \in Keys : store[n][k] # NoVal =>
        \E i \in 1..Len(pairKeys(store, n)) : pairKeys(store, n)[i] = k
  BY PairKeys, Zenon
<1>2. \A k \in Keys : store[n][k] # NoVal => k \in FirstKeys(store, n, Len(pairKeys(store, n)))
  BY <1>1, Zenon DEF FirstKeys
<1>3. store[n] \in [Keys -> Vals \cup {NoVal}]
  BY Zenon DEF HasBucket, Stores
<1> QED
  BY <1>2, <1>3, Zenon

\* Restore creates the next bucket of the view,
LEMMA RestoreBucketInv ==
  ASSUME FileInv, RestoreBucket
  PROVE  FileInv'
<1>1. in.at = "bucket" /\ reads("name") /\ CreateBucket(in.proc, unread[1].x)
  BY DEF RestoreBucket
<1>2. in' = [in EXCEPT !.at = "pairs", !.pos = @ + 1, !.bucket = unread[1].x]
  BY DEF RestoreBucket
<1>3. UNCHANGED <<process, readOnly, file, out, saved>>
  BY DEF RestoreBucket
<1>4. in.at # "none"
  BY <1>1
<1>5. in.proc # NoProc /\ in.proc \in Procs /\ file # NoFile /\ headerOK
  BY <1>1, <1>4, Restoring, Zenon
<1>6. saved.of \in Stores
  BY <1>5, HeaderSaved, Zenon
<1> DEFINE p == in.proc
           store == saved.of
<1>7. PICK i \in 0..NumBuckets(store) : ReadBucket(p, i)
  BY <1>1, <1>4, Restoring, Zenon
<1>8. in.pos = Len(Upto(store, i)) /\ Loaded(snap[p], view[p], store, i)
  BY <1>7, Zenon DEF ReadBucket
<1> DEFINE n == dirNames(store)[i + 1]
<1>9. i # NumBuckets(store) /\ unread[1].x = n
  BY <1>1, <1>6, <1>8, BucketReads, Zenon DEF FileInv
<1>10. i \in 0..(NumBuckets(store) - 1)
  BY <1>6, <1>9, DirNames
<1>11. n \in Names /\ n \notin First(store, i)
  BY <1>6, <1>10, FirstStep, Zenon
<1>12. /\ StoreInv' /\ mode[p] = "write" /\ UNCHANGED <<db, mode, snap>>
       /\ view'[p] = [view[p] EXCEPT ![n] = Empty]
  BY <1>1, <1>5, <1>9, <1>11, CreateBucketStore, Zenon DEF FileInv
<1>13. view[p][n] = Absent /\ view[p] \in Stores
  BY <1>1, <1>5, <1>9, <1>12, Zenon DEF CreateBucket, FileInv, StoreInv
<1>14. PartLoaded(snap[p], view'[p], store, i, 0)
  <2>1. FirstKeys(store, n, 0) = {}
    BY DEF FirstKeys
  <2>2. Empty = [k \in Keys |-> IF k \in FirstKeys(store, n, 0) THEN store[n][k] ELSE NoVal]
    BY <2>1 DEF Empty
  <2>3. DOMAIN view[p] = Names
    BY <1>13 DEF Stores
  <2>4. view'[p][n] = Empty /\ \A x \in Names : x # n => view'[p][x] = view[p][x]
    <3> HIDE DEF n, p
    <3> QED
      BY <1>11, <1>12, <2>3
  <2>5. snap[p][n] = Absent
    BY <1>8, <1>11, <1>13, Zenon DEF Loaded
  <2> QED
    BY <1>8, <1>11, <2>2, <2>4, <2>5, Zenon DEF Loaded, PartLoaded
<1>15. in.pos + 1 = Len(Within(store, i, 0)) /\ 0 \in 0..NumPairs(store, i + 1)
  <2>1. /\ Within(store, i, 0) = Upto(store, i) \o <<NameToken(store, i + 1)>>
        /\ <<NameToken(store, i + 1)>> \in Seq(Tokens) /\ NumPairs(store, i + 1) \in Nat
    BY <1>6, <1>10, WithinSteps, Zenon
  <2>2. Upto(store, i) \in Seq(Tokens)
    BY <1>6, UptoSteps, Zenon
  <2> DEFINE w == <<NameToken(store, i + 1)>>
  <2>3. Len(w) = 1
    OBVIOUS
  <2>5. w \in Seq(Tokens) /\ Within(store, i, 0) = Upto(store, i) \o w
    BY <2>1, Zenon
  <2> HIDE DEF w
  <2>6. Len(Upto(store, i) \o w) = Len(Upto(store, i)) + Len(w)
    <3>1. w \in Seq(Tokens)
      BY <2>5, Zenon
    <3> QED
      BY <2>2, <3>1, ConcatElements, Zenon
  <2>4. Len(Within(store, i, 0)) = Len(Upto(store, i)) + 1
    BY <2>3, <2>5, <2>6, Zenon
  <2> QED
    BY <1>8, <2>1, <2>4
<1>16. in' \in InType /\ in'.proc = p /\ in'.at = "pairs" /\ in'.pos = in.pos + 1 /\ in'.bucket = n
  <2>1. in \in InType
    BY DEF FileInv, RestoreInv, InType
  <2>2. n \in Nat
    BY <1>11, FileAssumption, Zenon
  <2>3. in.pos + 1 \in Nat
    BY <2>1 DEF InType
  <2>4. in' = [in EXCEPT !.at = "pairs", !.pos = in.pos + 1, !.bucket = n]
    BY <1>2, <1>9, Zenon
  <2>5. "pairs" \in {"begin", "bucket", "pairs"}
    BY Zenon
  <2> HIDE DEF n
  <2> QED
    BY <2>1, <2>2, <2>3, <2>4, <2>5, InStep, Zenon
<1>17. saved' = saved /\ file' = file /\ snap' = snap /\ mode' = mode /\ headerOK' /\ db' = db
  BY <1>3, <1>5, <1>12 DEF headerOK
<1>18. ReadPair(in.proc, i, 0)'
  BY <1>14, <1>15, <1>16, <1>17, Zenon DEF ReadPair
<1>19. RestoreInv'
  BY <1>5, <1>10, <1>12, <1>15, <1>16, <1>17, <1>18 DEF RestoreInv, InType
<1> QED
  BY <1>3, <1>4, <1>12, <1>16, <1>17, <1>19, RestoreFrame, Zenon

\* puts the next pair of the bucket,
LEMMA RestorePairInv ==
  ASSUME FileInv, RestorePair
  PROVE  FileInv'
<1>1. in.at = "pairs" /\ reads("key") /\ Len(unread) > 1
      /\ Write(in.proc, in.bucket, unread[1].x, unread[2].x)
  BY DEF RestorePair
<1>2. in' = [in EXCEPT !.pos = @ + 2]
  BY DEF RestorePair
<1>3. UNCHANGED <<process, readOnly, file, out, saved>>
  BY DEF RestorePair
<1>4. in.at # "none"
  BY <1>1
<1>5. in.proc # NoProc /\ in.proc \in Procs /\ file # NoFile /\ headerOK
  BY <1>1, <1>4, Restoring, Zenon
<1>6. saved.of \in Stores
  BY <1>5, HeaderSaved, Zenon
<1> DEFINE p == in.proc
           store == saved.of
<1>0. PICK i \in 0..(NumBuckets(store) - 1) : \E j \in 0..NumPairs(store, i + 1) : ReadPair(p, i, j)
  BY <1>1, <1>4, Restoring, Zenon
<1>7. PICK j \in 0..NumPairs(store, i + 1) : ReadPair(p, i, j)
  BY <1>0, Zenon
<1> DEFINE n == dirNames(store)[i + 1]
           ks == pairKeys(store, n)
           k == ks[j + 1]
           v == store[n][k]
           m == NumPairs(store, i + 1)
<1>8. in.pos = Len(Within(store, i, j)) /\ in.bucket = n
      /\ PartLoaded(snap[p], view[p], store, i, j)
  BY <1>7, Zenon DEF ReadPair
<1>9. j # m /\ unread[1].x = k /\ unread[2].x = v
  BY <1>1, <1>6, <1>8, PairReads, Zenon DEF FileInv
<1>10. HasBucket(store, n) /\ m \in Nat /\ n \in Names
  BY <1>6, WithinSteps, Zenon DEF HasBucket
<1>11. m = Len(ks)
  BY Zenon DEF NumPairs
<1>12. j \in 0..(m - 1) /\ j + 1 \in 0..m
  <2>1. j \in 0..m
    BY Zenon
  <2> HIDE DEF m
  <2> QED
    BY <1>9, <1>10, <2>1
<1>13. FirstKeys(store, n, j + 1) = FirstKeys(store, n, j) \cup {k} /\ k \in Keys /\ v \in Vals
  <2>1. j \in 0..(Len(ks) - 1)
    BY <1>11, <1>12, Zenon
  <2> HIDE DEF n
  <2> QED
    BY <1>6, <1>10, <2>1, FirstKeysStep, Zenon
<1>14. n \notin First(store, i)
  BY <1>6, FirstStep, Zenon
<1>15. /\ StoreInv' /\ mode[p] = "write" /\ UNCHANGED <<db, mode, snap>>
       /\ view'[p] = [view[p] EXCEPT ![n] = [view[p][n] EXCEPT ![k] = v]]
  <2>1. Write(p, n, k, v)
    BY <1>1, <1>8, <1>9, Zenon
  <2>2. v \in Vals \cup {NoVal}
    BY <1>13, Zenon
  <2>3. StoreInv /\ p \in Procs
    BY <1>5, Zenon DEF FileInv
  <2>4. n \in Names /\ k \in Keys
    BY <1>10, <1>13, Zenon
  <2> HIDE DEF n, k, v, p
  <2> QED
    BY <2>1, <2>2, <2>3, <2>4, WriteStore
<1>16. view[p] \in Stores
  BY <1>5, <1>15, Zenon DEF FileInv, StoreInv
<1>17. PartLoaded(snap[p], view'[p], store, i, j + 1)
  <2> DEFINE F == FirstKeys(store, n, j)
             G == FirstKeys(store, n, j + 1)
  <2>1. DOMAIN view[p] = Names
    BY <1>16 DEF Stores
  <2>2. view[p][n] = [x \in Keys |-> IF x \in F THEN store[n][x] ELSE NoVal]
        /\ snap[p][n] = Absent
    BY <1>8, <1>10, <1>14, Zenon DEF PartLoaded
  <2>3. G = F \cup {k}
    BY <1>13, Zenon
  <2>4. view'[p][n] = [view[p][n] EXCEPT ![k] = v]
        /\ \A x \in Names : x # n => view'[p][x] = view[p][x]
    <3> HIDE DEF n, p, k, v
    <3> QED
      BY <1>10, <1>15, <2>1
  <2>5. view'[p][n] = [x \in Keys |-> IF x \in G THEN store[n][x] ELSE NoVal]
    <3>1. v = store[n][k]
      BY Zenon
    <3> HIDE DEF n, p, k, v, F, G
    <3> QED
      BY <1>13, <2>2, <2>3, <2>4, <3>1
  <2> QED
    BY <1>8, <1>10, <1>14, <2>2, <2>4, <2>5, Zenon DEF PartLoaded
<1>18. in.pos + 2 = Len(Within(store, i, j + 1))
  <2> DEFINE w == PairAt(store, n, j + 1)
             s == Within(store, i, j)
  <2>1. w \in Seq(Tokens) /\ Within(store, i, j + 1) = s \o w
    BY <1>6, <1>12, WithinSteps, Zenon
  <2>2. s \in Seq(Tokens)
    BY <1>6, WithinSteps, Zenon
  <2>3. Len(w) = 2
    BY DEF PairAt, pair
  <2> HIDE DEF w, s
  <2>4. Len(s \o w) = Len(s) + Len(w)
    <3>1. w \in Seq(Tokens)
      BY <2>1, Zenon
    <3> QED
      BY <2>2, <3>1, ConcatElements, Zenon
  <2> QED
    BY <1>8, <2>1, <2>3, <2>4, Zenon DEF s
<1>19. in' \in InType /\ in'.proc = p /\ in'.at = "pairs" /\ in'.pos = in.pos + 2 /\ in'.bucket = n
  <2>1. in \in InType
    BY DEF FileInv, RestoreInv, InType
  <2>2. in.pos + 2 \in Nat
    BY <2>1 DEF InType
  <2>3. in' = [in EXCEPT !.pos = in.pos + 2]
    BY <1>2, Zenon
  <2>4. in' \in InType
    BY <2>1, <2>2, <2>3, Zenon DEF InType
  <2>5. in'.proc = p /\ in'.at = in.at /\ in'.pos = in.pos + 2 /\ in'.bucket = in.bucket
    BY <2>1, <2>3, Zenon DEF InType
  <2> QED
    BY <1>1, <1>8, <2>4, <2>5, Zenon
<1>20. saved' = saved /\ file' = file /\ snap' = snap /\ mode' = mode /\ headerOK' /\ db' = db
  BY <1>3, <1>5, <1>15 DEF headerOK
<1>21. ReadPair(in.proc, i, j + 1)'
  BY <1>17, <1>18, <1>19, <1>20, Zenon DEF ReadPair
<1>22. RestoreInv'
  BY <1>5, <1>12, <1>15, <1>19, <1>20, <1>21, Zenon DEF RestoreInv, InType
<1> QED
  BY <1>3, <1>4, <1>15, <1>19, <1>20, <1>22, RestoreFrame, Zenon

\* and has the whole bucket at its end.
LEMMA RestoreEndOfBucketInv ==
  ASSUME FileInv, RestoreEndOfBucket
  PROVE  FileInv'
<1>1. in.at = "pairs" /\ reads("end") /\ db' = db /\ mode' = mode /\ snap' = snap /\ view' = view
  BY DEF RestoreEndOfBucket, svars
<1>2. in' = [in EXCEPT !.at = "bucket", !.pos = @ + 1, !.bucket = 0]
  BY DEF RestoreEndOfBucket
<1>3. UNCHANGED <<process, readOnly, file, out, saved>>
  BY DEF RestoreEndOfBucket
<1>4. in.at # "none"
  BY <1>1
<1>5. in.proc # NoProc /\ in.proc \in Procs /\ file # NoFile /\ headerOK /\ mode[in.proc] = "write"
  BY <1>1, <1>4, Restoring, Zenon
<1>6. saved.of \in Stores
  BY <1>5, HeaderSaved, Zenon
<1> DEFINE p == in.proc
           store == saved.of
<1>0. PICK i \in 0..(NumBuckets(store) - 1) : \E j \in 0..NumPairs(store, i + 1) : ReadPair(p, i, j)
  BY <1>1, <1>4, Restoring, Zenon
<1>7. PICK j \in 0..NumPairs(store, i + 1) : ReadPair(p, i, j)
  BY <1>0, Zenon
<1> DEFINE n == dirNames(store)[i + 1]
<1>8. in.pos = Len(Within(store, i, j)) /\ PartLoaded(snap[p], view[p], store, i, j)
  BY <1>7, Zenon DEF ReadPair
<1>9. j = NumPairs(store, i + 1)
  BY <1>1, <1>6, <1>8, PairReads, Zenon DEF FileInv
<1>10. HasBucket(store, n)
  BY <1>6, WithinSteps, Zenon
<1>11. First(store, i + 1) = First(store, i) \cup {n} /\ n \notin First(store, i)
  BY <1>6, FirstStep, Zenon
<1>12. Loaded(snap[p], view[p], store, i + 1)
  <2>1. store[n] = [k \in Keys |-> IF k \in FirstKeys(store, n, j) THEN store[n][k] ELSE NoVal]
    <3>1. j = Len(pairKeys(store, n))
      BY <1>9, Zenon DEF NumPairs
    <3>2. store[n] = [k \in Keys |->
              IF k \in FirstKeys(store, n, Len(pairKeys(store, n))) THEN store[n][k] ELSE NoVal]
      <4> HIDE DEF n, store
      <4>1. store \in Stores
        BY <1>6, Zenon DEF store
      <4> QED
        BY <1>10, <4>1, FirstKeysAll, Zenon
    <3> HIDE DEF n, store
    <3> QED
      BY <3>1, <3>2
  <2> QED
    BY <1>8, <1>11, <2>1, Zenon DEF Loaded, PartLoaded
<1>13. in.pos + 1 = Len(Upto(store, i + 1)) /\ i + 1 \in 0..NumBuckets(store)
  <2> DEFINE w == <<end>>
             s == Within(store, i, j)
  <2>1. w \in Seq(Tokens) /\ Len(w) = 1
    BY TokenTypes, Zenon
  <2>2. s \in Seq(Tokens) /\ Upto(store, i + 1) = s \o w
    BY <1>6, <1>9, WithinSteps, Zenon
  <2>3. i + 1 \in 0..NumBuckets(store)
    BY <1>6, DirNames
  <2> HIDE DEF w, s
  <2>4. Len(s \o w) = Len(s) + Len(w)
    <3>1. s \in Seq(Tokens)
      BY <2>2, Zenon
    <3> QED
      BY <2>1, <3>1, ConcatElements, Zenon
  <2> QED
    BY <1>8, <2>1, <2>2, <2>3, <2>4, Zenon DEF s
<1>14. in' \in InType /\ in'.proc = p /\ in'.at = "bucket" /\ in'.pos = in.pos + 1
  <2>1. in \in InType
    BY DEF FileInv, RestoreInv, InType
  <2>2. in.pos + 1 \in Nat /\ 0 \in Nat
    BY <2>1 DEF InType
  <2>3. in' = [in EXCEPT !.at = "bucket", !.pos = in.pos + 1, !.bucket = 0]
    BY <1>2, Zenon
  <2>4. "bucket" \in {"begin", "bucket", "pairs"}
    BY Zenon
  <2> QED
    BY <2>1, <2>2, <2>3, <2>4, InStep, Zenon
<1>15. StoreInv'
  BY <1>1 DEF FileInv, StoreInv
<1>16. saved' = saved /\ file' = file /\ headerOK'
  BY <1>3, <1>5 DEF headerOK
<1>17. ReadBucket(in.proc, i + 1)'
  BY <1>1, <1>12, <1>13, <1>14, <1>16, Zenon DEF ReadBucket
<1>18. RestoreInv'
  BY <1>1, <1>5, <1>13, <1>14, <1>16, <1>17 DEF RestoreInv, InType
<1> QED
  BY <1>1, <1>3, <1>4, <1>14, <1>15, <1>18, RestoreFrame, Zenon

\* Restore has returned.
LEMMA Ended ==
  ASSUME FileInv, in.at # "none", UNCHANGED <<file, out, saved>>, process' = "up",
         in' = NotRestoring, StoreInv'
  PROVE  FileInv'
<1>1. out = NotCopying
  BY Restoring, Zenon
<1>2. ProcessInv'
  BY DEF ProcessInv
<1>3. SavedInv'
  BY DEF FileInv, SavedInv, FileIsView
<1>4. CopyInv'
  BY <1>1, Zenon DEF FileInv, CopyInv, NotCopying
<1>5. RestoreInv'
  BY DEF RestoreInv, NotRestoring
<1> QED
  BY <1>2, <1>3, <1>4, <1>5, Zenon DEF FileInv

\* Restore commits, and Open returns.
LEMMA RestoreCommitInv ==
  ASSUME FileInv, RestoreCommit
  PROVE  FileInv'
<1>1. in.at = "bucket" /\ Commit(in.proc) /\ in' = NotRestoring /\ process' = "up"
      /\ UNCHANGED <<file, out, saved>>
  BY DEF RestoreCommit, endOfBuckets
<1>2. in.at # "none"
  BY <1>1
<1>3. in.proc \in Procs
  BY <1>2, Restoring, Zenon
<1>4. End(in.proc) /\ mode[in.proc] = "write" /\ db' = view[in.proc]
  BY <1>1, Zenon DEF Commit
<1>5. StoreInv'
  BY <1>3, <1>4, EndStore, Zenon DEF FileInv
<1> QED
  BY <1>1, <1>2, <1>5, Ended, Zenon

\* A Restore that fails rolls back.
LEMMA RestoreErrorInv ==
  ASSUME FileInv, RestoreError
  PROVE  FileInv'
<1>1. in.at # "none"
  BY DEF RestoreError, restoreFails
<1>2. in.proc \in Procs
  BY <1>1, Restoring, Zenon
<1>3. abandon(in.proc) /\ in' = NotRestoring /\ process' = "up" /\ UNCHANGED <<file, out, saved>>
  BY DEF RestoreError
<1>4. StoreInv'
  <2>1. CASE UNCHANGED svars
    BY <2>1 DEF FileInv, StoreInv, svars
  <2>2. CASE Rollback(in.proc)
    <3>1. End(in.proc) /\ db' = db
      BY <2>2, Zenon DEF Rollback
    <3> QED
      BY <1>2, <3>1, EndStore, Zenon DEF FileInv
  <2> QED
    BY <1>3, <2>1, <2>2, Zenon DEF abandon
<1> QED
  BY <1>1, <1>3, <1>4, Ended, Zenon

\* The end of the process leaves the file.
LEMMA LostInv ==
  ASSUME FileInv, lost, UNCHANGED <<file, saved>>
  PROVE  FileInv'
<1>1. /\ db' = Closed /\ mode' = [p \in Procs |-> "none"]
      /\ snap' = [p \in Procs |-> NoTx] /\ view' = [p \in Procs |-> NoTx]
      /\ process' = "down" /\ out' = NotCopying /\ in' = NotRestoring
  BY DEF lost
<1>2. StoreInv'
  BY <1>1 DEF StoreInv
<1>3. ProcessInv'
  BY <1>1 DEF ProcessInv
<1>4. SavedInv'
  BY DEF FileInv, SavedInv, FileIsView
<1>5. CopyInv'
  BY <1>1 DEF CopyInv, NotCopying
<1>6. RestoreInv'
  BY <1>1 DEF RestoreInv, NotRestoring
<1> QED
  BY <1>2, <1>3, <1>4, <1>5, <1>6, Zenon DEF FileInv

\* Restore begins with the header.
LEMMA Starting ==
  ASSUME NEW p \in Procs
  PROVE  StartRestore(p) \in InType /\ StartRestore(p).proc = p /\ StartRestore(p).at = "header"
  BY Zenon DEF StartRestore, NotRestoring, InType

\* A call of Restore.
LEMMA RestoreStartInv ==
  ASSUME FileInv, NEW p \in Procs, Restore(p)
  PROVE  FileInv'
<1>1. /\ process = "up" /\ mode[p] = "none" /\ file # NoFile /\ out.proc = NoProc
      /\ in' = StartRestore(p) /\ UNCHANGED <<svars, process, readOnly, file, out, saved>>
  BY DEF Restore, Idle
<1>2. mode' = mode /\ db' = db /\ snap' = snap /\ view' = view /\ process' = process
      /\ file' = file /\ out' = out /\ saved' = saved
  BY <1>1 DEF svars
<1>3. in' \in InType /\ in'.proc = p /\ in'.at = "header"
  BY <1>1, Starting, Zenon
<1>4. StoreInv'
  BY <1>2 DEF FileInv, StoreInv
<1>5. ProcessInv'
  BY <1>1, <1>2, Zenon DEF FileInv, ProcessInv
<1>6. SavedInv'
  BY <1>2 DEF FileInv, SavedInv, FileIsView
<1>7. CopyInv'
  BY <1>1, <1>2, Zenon DEF FileInv, CopyInv
<1>8. p # NoProc
  BY FileAssumption
<1>9. RestoreInv'
  BY <1>1, <1>2, <1>3, <1>8 DEF RestoreInv, InType
<1> QED
  BY <1>4, <1>5, <1>6, <1>7, <1>9, Zenon DEF FileInv

\* Open, up to the look at the file.
LEMMA OpenInv ==
  ASSUME FileInv, Open
  PROVE  FileInv'
<1>1. /\ process = "down" /\ db' = EmptyStore
      /\ mode' = mode /\ snap' = snap /\ view' = view /\ file' = file /\ out' = out /\ saved' = saved
      /\ IF isMagic(file) THEN process' = "opening" /\ in' = StartRestore(Opener)
                          ELSE process' = "up" /\ in' = in
  BY DEF Open
<1>2. out = NotCopying /\ in = NotRestoring /\ \A p \in Procs : mode[p] = "none"
  BY <1>1 DEF FileInv, ProcessInv
<1>3. Opener \in Procs /\ Opener # NoProc
  <2>1. Opener \in Writers
    BY FileAssumption, Zenon DEF Opener
  <2> QED
    BY <2>1, FileAssumption, Zenon
<1>4. EmptyStore \in Stores
  BY EmptyTypes, Zenon
<1>5. StoreInv'
  BY <1>1, <1>2, <1>4 DEF FileInv, StoreInv
<1>6. SavedInv'
  BY <1>1 DEF FileInv, SavedInv, FileIsView
<1>7. CASE isMagic(file)
  <2>1. in' \in InType /\ in'.proc = Opener /\ in'.at = "header"
    BY <1>1, <1>3, <1>7, Starting, Zenon
  <2>2. ProcessInv'
    BY <1>1, <1>2, <1>3, <1>7, <2>1 DEF ProcessInv
  <2>3. CopyInv'
    BY <1>1, <1>2, Zenon DEF FileInv, CopyInv, NotCopying
  <2>4. RestoreInv'
    BY <1>1, <1>2, <1>3, <1>7, <2>1, Zenon DEF RestoreInv, InType, isMagic
  <2> QED
    BY <1>5, <1>6, <2>2, <2>3, <2>4, Zenon DEF FileInv
<1>8. CASE ~isMagic(file)
  <2>1. process' = "up" /\ in' = in
    BY <1>1, <1>8, Zenon
  <2>2. ProcessInv'
    BY <2>1 DEF ProcessInv
  <2>3. CopyInv'
    BY <1>1, <1>2, Zenon DEF FileInv, CopyInv, NotCopying
  <2>4. RestoreInv'
    BY <1>2, <2>1, Zenon DEF RestoreInv, NotRestoring
  <2> QED
    BY <1>5, <1>6, <2>2, <2>3, <2>4, Zenon DEF FileInv
<1> QED
  BY <1>7, <1>8, Zenon

\* A step that changes nothing.
LEMMA StutterInv ==
  ASSUME FileInv, UNCHANGED allvars
  PROVE  FileInv'
<1>1. db' = db /\ mode' = mode /\ snap' = snap /\ view' = view /\ process' = process
      /\ file' = file /\ out' = out /\ in' = in /\ saved' = saved
  BY DEF allvars, svars, filevars
<1>2. StoreInv'
  BY <1>1 DEF FileInv, StoreInv
<1>3. ProcessInv'
  BY <1>1 DEF FileInv, ProcessInv
<1>4. SavedInv'
  BY <1>1 DEF FileInv, SavedInv, FileIsView
<1>5. CopyInv'
  <2>1. copied(out.proc)' = copied(out.proc)
    BY <1>1, Zenon DEF copied
  <2>2. \A i : AtBucket(i)' <=> AtBucket(i)
    BY <1>1, Zenon DEF AtBucket
  <2>3. \A i, j : AtPair(i, j)' <=> AtPair(i, j)
    BY <1>1, Zenon DEF AtPair
  <2> QED
    BY <1>1, <2>1, <2>2, <2>3, Zenon DEF FileInv, CopyInv
<1>6. RestoreInv'
  <2>1. headerOK' = headerOK
    BY <1>1, Zenon DEF headerOK
  <2>2. \A i : ReadBucket(in.proc, i)' <=> ReadBucket(in.proc, i)
    BY <1>1, Zenon DEF ReadBucket
  <2>3. \A i, j : ReadPair(in.proc, i, j)' <=> ReadPair(in.proc, i, j)
    BY <1>1, Zenon DEF ReadPair
  <2> QED
    BY <1>1, <2>1, <2>2, <2>3, Zenon DEF FileInv, RestoreInv
<1> QED
  BY <1>2, <1>3, <1>4, <1>5, <1>6, Zenon DEF FileInv

----------------------------------------------------------------------------
(* The theorems.                                                           *)

\* The invariant at first: no process, no copy, perhaps some other file.
LEMMA FileInitInv == FileInit => FileInv
<1> SUFFICES ASSUME FileInit PROVE FileInv
  OBVIOUS
<1>1. StoreInv
  BY DEF FileInit, StoreInv
<1>2. ProcessInv
  BY DEF FileInit, ProcessInv
<1>3. SavedInv
  BY DEF FileInit, SavedInv
<1>4. CopyInv
  BY SMTT(30) DEF FileInit, CopyInv, NotCopying
<1>5. RestoreInv
  BY DEF FileInit, RestoreInv, NotRestoring
<1> QED
  BY <1>1, <1>2, <1>3, <1>4, <1>5, Zenon DEF FileInv

\* Every step keeps the invariant.
LEMMA FileStepInv == FileInv /\ [FileNext]_allvars => FileInv'
<1> SUFFICES ASSUME FileInv, [FileNext]_allvars PROVE FileInv'
  OBVIOUS
<1>1. ASSUME NEW p \in Procs, Transaction(p) PROVE FileInv'
  BY <1>1, TransactionInv, Zenon
<1>2. ASSUME NEW p \in Procs, CopyFile(p) PROVE FileInv'
  BY <1>2, CopyFileInv, Zenon
<1>3. ASSUME NEW p \in Procs, Restore(p) PROVE FileInv'
  BY <1>3, RestoreStartInv, Zenon
<1>4. ASSUME NEW p \in Procs, CopyWrite(p) PROVE FileInv'
  BY <1>4, CopyWriteInv, Zenon
<1>5. ASSUME NEW p \in Procs, CopyError(p) PROVE FileInv'
  BY <1>5, CopyErrorInv, Zenon
<1>6. CASE CloseDB
  BY <1>6, CloseInv, Zenon
<1>7. CASE RestoreStep
  <2>1. CASE OpenError
    BY <2>1, LostInv, Zenon DEF OpenError
  <2> QED
    BY <1>7, <2>1, RestoreHeaderInv, RestoreBeginInv, RestoreBucketInv, RestorePairInv,
       RestoreEndOfBucketInv, RestoreCommitInv, RestoreErrorInv, Zenon DEF RestoreStep
<1>8. CASE Open
  BY <1>8, OpenInv, Zenon
<1>9. CASE Crash
  BY <1>9, LostInv, Zenon DEF Crash
<1>10. CASE UNCHANGED allvars
  BY <1>10, StutterInv, Zenon
<1> QED
  BY <1>1, <1>2, <1>3, <1>4, <1>5, <1>6, <1>7, <1>8, <1>9, <1>10, Zenon DEF FileNext, CopyStep

\* CopyFile, Restore, Open and the crashes between their steps keep the file a
\* beginning of the layout of one view, and what Restore has put into its
\* transaction the beginning of that view which it has read.
THEOREM SnapshotInvariance == FileSpec => []FileInv
  BY FileInitInv, FileStepInv, PTL DEF FileSpec

\* A file whose CopyFile returned nil is the one of the view it was called on,
\* and any other that a CopyFile has touched a proper prefix of it.
THEOREM SnapshotIsView == FileSpec => []FileIsView
<1>1. FileInv => FileIsView
  BY Zenon DEF FileInv, SavedInv, FileIsView
<1> QED
  BY <1>1, SnapshotInvariance, PTL

\* A finished snapshot has a header that Restore accepts.
LEMMA Finished ==
  ASSUME FileInv, saved.done
  PROVE  saved.of \in Stores /\ headerOK /\ isMagic(file)
<1>1. saved.of \in Stores /\ file \in Seq(Tokens) /\ file = Layout(saved.of)
  BY DEF FileInv, SavedInv, FileIsView
<1>2. Part(header, file)
  <2>1. 0 \in 0..NumBuckets(saved.of)
    BY <1>1, DirNames
  <2> QED
    BY <1>1, <2>1, UptoSteps, UptoPart, Zenon
<1>3. PICK u \in Seq(Tokens) : file = header \o u
  BY <1>2, Zenon DEF Part
<1>4. header \in Seq(Tokens) /\ Len(header) = 3
  BY TokenTypes, Zenon
<1>5. header[1].kind = "magic"
  BY DEF header, Token
<1>6. Len(file) >= 3 /\ SubSeq(file, 1, 3) = header /\ file[1] = header[1]
  <2> DEFINE s == SubSeq(file, 1, 3)
  <2>1. /\ Len(header \o u) = Len(header) + Len(u)
        /\ \A k \in 1..(Len(header) + Len(u)) :
             (header \o u)[k] = IF k <= Len(header) THEN header[k] ELSE u[k - Len(header)]
    <3>1. header \in Seq(Tokens)
      BY <1>4, Zenon
    <3> QED
      BY <3>1, ConcatElements, Zenon
  <2>2. Len(u) \in Nat
    BY <1>3
  <2>3. Len(file) >= 3 /\ 3 \in 0..Len(file) /\ \A k \in 1..3 : file[k] = header[k]
    BY <1>3, <1>4, <2>1, <2>2
  <2>4. s \in Seq(Tokens) /\ Len(s) = 3 /\ \A k \in 1..3 : s[k] = file[k]
    BY <1>1, <2>3, Beginning, Zenon
  <2> HIDE DEF s
  <2>5. s = header
    <3>1. Len(s) = Len(header) /\ \A k \in 1..Len(s) : s[k] = header[k]
      BY <1>4, <2>3, <2>4
    <3> QED
      BY <1>4, <2>4, <3>1, SameElements
  <2>6. 1 \in 1..3
    OBVIOUS
  <2> QED
    BY <2>3, <2>5, <2>6, Zenon DEF s
<1>7. file # NoFile
  BY <1>1, FileAssumption, Zenon
<1>8. Len(file) > 0
  BY <1>1, <1>6
<1> QED
  BY <1>1, <1>4, <1>5, <1>6, <1>7, <1>8, Zenon DEF headerOK, isMagic

\* What a Restore that succeeds has put into the database.
LEMMA Committed ==
  ASSUME FileInv, RestoreCommit
  PROVE  /\ saved.done /\ saved.of \in Stores /\ db \in Stores /\ db' \in Stores
         /\ \A n \in Names : /\ db[n] = Absent \/ saved.of[n] = Absent
                             /\ db'[n] = IF db[n] = Absent THEN saved.of[n] ELSE db[n]
<1>1. in.at = "bucket" /\ reads("end") /\ Commit(in.proc)
  BY DEF RestoreCommit, endOfBuckets
<1>2. in.at # "none"
  BY <1>1
<1>3. in.proc \in Procs /\ file # NoFile /\ headerOK
      /\ \E i \in 0..NumBuckets(saved.of) : ReadBucket(in.proc, i)
  BY <1>1, <1>2, Restoring, Zenon
<1>4. saved.of \in Stores
  BY <1>3, HeaderSaved, Zenon
<1> DEFINE p == in.proc
           store == saved.of
<1>5. PICK i \in 0..NumBuckets(store) : ReadBucket(p, i)
  BY <1>3, Zenon
<1>6. in.pos = Len(Upto(store, i)) /\ Loaded(snap[p], view[p], store, i)
  BY <1>5, Zenon DEF ReadBucket
<1>7. i = NumBuckets(store) /\ saved.done
  BY <1>1, <1>4, <1>6, BucketReads, Zenon DEF FileInv
<1>8. mode[p] = "write" /\ db = snap[p] /\ db' = view[p]
  BY <1>1, Zenon DEF Commit
<1>9. db \in Stores /\ db' \in Stores
  <2>1. snap[p] \in Stores /\ view[p] \in Stores
    BY <1>3, <1>8 DEF FileInv, StoreInv
  <2> QED
    BY <1>8, <2>1, Zenon
<1>10. ASSUME NEW n \in Names
       PROVE  /\ db[n] = Absent \/ store[n] = Absent
              /\ db'[n] = IF db[n] = Absent THEN store[n] ELSE db[n]
  <2>1. n \in First(store, i) <=> store[n] # Absent
    BY <1>4, <1>7, FirstAll, Zenon
  <2>2. IF n \in First(store, i) THEN db[n] = Absent /\ db'[n] = store[n] ELSE db'[n] = db[n]
    BY <1>6, <1>8, Zenon DEF Loaded
  <2> QED
    BY <2>1, <2>2, Zenon
<1> QED
  BY <1>4, <1>7, <1>9, <1>10, Zenon

\* The steps that bring the process up.
LEMMA ComesUp ==
  ASSUME FileInv, [FileNext]_allvars, process # "up", process' = "up"
  PROVE  RestoreCommit \/ Open
<1>1. CASE UNCHANGED allvars
  BY <1>1 DEF allvars, filevars
<1>2. ASSUME NEW p \in Procs, Transaction(p) \/ CopyFile(p) \/ Restore(p) PROVE FALSE
  BY <1>2 DEF Transaction, Reading, Writing, Ending, CopyFile, Restore, Idle
<1>3. ASSUME NEW p \in Procs, CopyWrite(p) \/ CopyError(p) PROVE FALSE
  BY <1>3 DEF CopyWrite, CopyError
<1>4. ~CloseDB
  BY DEF CloseDB
<1>5. ~(Crash \/ OpenError)
  BY DEF Crash, OpenError, lost
<1>6. ~(RestoreHeader \/ RestoreBegin \/ RestoreBucket \/ RestorePair \/ RestoreEndOfBucket)
  BY DEF RestoreHeader, RestoreBegin, RestoreBucket, RestorePair, RestoreEndOfBucket
<1>7. ~RestoreError
  BY DEF RestoreError
<1> QED
  BY <1>1, <1>2, <1>3, <1>4, <1>5, <1>6, <1>7, Zenon DEF FileNext, CopyStep, RestoreStep

\* What Open has put into the database when it returns.
LEMMA Opened ==
  ASSUME FileInv, [FileNext]_allvars, process # "up", process' = "up"
  PROVE  IF saved.done THEN db' = saved.of ELSE db' = EmptyStore /\ ~isMagic(file)
<1>1. CASE RestoreCommit
  <2>1. /\ saved.done /\ saved.of \in Stores /\ db' \in Stores
        /\ \A n \in Names : db'[n] = IF db[n] = Absent THEN saved.of[n] ELSE db[n]
    BY <1>1, Committed, Zenon
  <2>2. process # "down"
    BY <1>1, Restoring DEF RestoreCommit, endOfBuckets
  <2>3. db = EmptyStore
    BY <2>2 DEF FileInv, ProcessInv
  <2>4. \A n \in Names : db'[n] = saved.of[n]
    BY <2>1, <2>3, Zenon DEF EmptyStore
  <2>5. db' = saved.of
    BY <2>1, <2>4 DEF Stores
  <2> QED
    BY <2>1, <2>5, Zenon
<1>2. CASE Open
  <2>1. db' = EmptyStore /\ ~isMagic(file)
    BY <1>2 DEF Open
  <2>2. ~saved.done
    BY <2>1, Finished, Zenon
  <2> QED
    BY <2>1, <2>2, Zenon
<1> QED
  BY <1>1, <1>2, ComesUp, Zenon

\* Open does not fail on a finished snapshot, unless the database is read-only.
LEMMA OpenFails ==
  ASSUME FileInv, OpenError
  PROVE  readOnly \/ ~saved.done
<1> SUFFICES ASSUME saved.done, ~readOnly PROVE FALSE
  BY Zenon
<1>1. process = "opening" /\ restoreFails
  BY DEF OpenError
<1>2. in.at # "none"
  BY <1>1 DEF restoreFails
<1>3. saved.of \in Stores /\ headerOK
  BY Finished, Zenon
<1>4. in.proc \in Procs
  BY <1>2, Restoring, Zenon
<1>5. db = EmptyStore /\ db # Closed
  <2>1. db = EmptyStore
    BY <1>1 DEF FileInv, ProcessInv
  <2> QED
    BY <2>1, EmptyTypes, FileAssumption, Zenon
<1> DEFINE p == in.proc
           store == saved.of
<1>6. CASE in.at = "bucket" /\ ~reads("end") /\ ~(reads("name") /\ view[p][unread[1].x] = Absent)
  <2>1. mode[p] = "write" /\ \E i \in 0..NumBuckets(store) : ReadBucket(p, i)
    BY <1>2, <1>6, Restoring, Zenon
  <2>2. PICK i \in 0..NumBuckets(store) : ReadBucket(p, i)
    BY <2>1, Zenon
  <2>3. in.pos = Len(Upto(store, i)) /\ Loaded(snap[p], view[p], store, i)
    BY <2>2, Zenon DEF ReadBucket
  <2> DEFINE n == dirNames(store)[i + 1]
  <2>4. reads("name") /\ i # NumBuckets(store) /\ unread[1].x = n
    BY <1>3, <1>6, <2>3, BucketReads, Zenon DEF FileInv
  <2>5. i \in 0..(NumBuckets(store) - 1)
    BY <1>3, <2>4, DirNames
  <2>6. n \in Names /\ n \notin First(store, i)
    BY <1>3, <2>5, FirstStep, Zenon
  <2>7. snap[p] = EmptyStore
    BY <1>4, <1>5, <2>1, Zenon DEF FileInv, StoreInv
  <2>8. view[p][n] = Absent
    BY <2>3, <2>6, <2>7, Zenon DEF Loaded, EmptyStore
  <2> QED
    BY <1>6, <2>4, <2>8, Zenon
<1>7. CASE in.at = "pairs" /\ ~reads("end") /\ ~(reads("key") /\ Len(unread) > 1)
  <2>1. PICK i \in 0..(NumBuckets(store) - 1) : \E j \in 0..NumPairs(store, i + 1) : ReadPair(p, i, j)
    BY <1>2, <1>7, Restoring, Zenon
  <2>2. PICK j \in 0..NumPairs(store, i + 1) : ReadPair(p, i, j)
    BY <2>1, Zenon
  <2>3. in.pos = Len(Within(store, i, j))
    BY <2>2, Zenon DEF ReadPair
  <2> QED
    BY <1>3, <1>7, <2>3, PairReads, Zenon DEF FileInv
<1> QED
  BY <1>1, <1>3, <1>5, <1>6, <1>7, Zenon DEF restoreFails

\* Open yields everything that the last CopyFile of the path was called on or,
\* without the magic, nothing; never a part.  It fails only on an unfinished or
\* foreign file or on a read-only database.
THEOREM SnapshotOpen == FileSpec => OpenAllOrNothing
<1>1. FileInv /\ [FileNext]_allvars =>
        [/\ process # "up" /\ process' = "up" =>
              IF saved.done THEN db' = saved.of ELSE db' = EmptyStore /\ ~isMagic(file)
         /\ OpenError => readOnly \/ ~saved.done]_allvars
  BY Opened, OpenFails, Zenon
<1> QED
  BY <1>1, SnapshotInvariance, PTL DEF FileSpec, OpenAllOrNothing

\* On a running database, a step of Restore that changes what others see is its
\* last one, and adds all buckets of a finished snapshot.
THEOREM SnapshotRestore == FileSpec => RestoreAllOrNothing
<1>1. FileInv /\ [FileNext]_allvars =>
        [process = "up" /\ RestoreStep /\ db' # db =>
           /\ saved.done
           /\ in' = NotRestoring
           /\ \A n \in Names : /\ db[n] = Absent \/ saved.of[n] = Absent
                               /\ db'[n] = IF db[n] = Absent THEN saved.of[n] ELSE db[n]]_allvars
  <2> SUFFICES ASSUME FileInv, process = "up", RestoreStep, db' # db
               PROVE  RestoreCommit /\ in' = NotRestoring
    BY Committed, Zenon
  <2>1. ~(RestoreHeader \/ RestoreBegin \/ RestoreBucket \/ RestorePair \/ RestoreEndOfBucket)
    BY DEF RestoreHeader, RestoreBegin, RestoreBucket, RestorePair, RestoreEndOfBucket,
           Begin, CreateBucket, Write, svars
  <2>2. ~RestoreError
    BY DEF RestoreError, abandon, Rollback, svars
  <2>3. ~OpenError
    BY DEF OpenError
  <2>4. RestoreCommit
    BY <2>1, <2>2, <2>3, Zenon DEF RestoreStep
  <2> QED
    BY <2>4, Zenon DEF RestoreCommit
<1> QED
  BY <1>1, SnapshotInvariance, PTL DEF FileSpec, RestoreAllOrNothing
=============================================================================
