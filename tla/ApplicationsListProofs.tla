-------------------------- MODULE ApplicationsListProofs -----------------------
(***************************************************************************)
(* For every number of applications, every page size and any number of     *)
(* requests and writes: what the list shows, whichever answers arrive.     *)
(***************************************************************************)
EXTENDS ApplicationsList, FiniteSetTheorems, FunctionTheorems, TLAPS

-------------------------------------------------------------------------------
\* Filters and sorts.

\* A count of what comes before, different for every element, takes every value.
LEMMA Counted ==
  ASSUME NEW K, IsFiniteSet(K), NEW before \in [K -> Nat],
         \A x \in K : before[x] < Cardinality(K),
         \A x, y \in K : before[x] = before[y] => x = y
  PROVE  \A n \in 1..Cardinality(K) : \E x \in K : before[x] = n - 1
<1> DEFINE C == Cardinality(K)
           f == [x \in K |-> before[x] + 1]
<1>1. C \in Nat
  BY FS_CardinalityType
<1>2. IsFiniteSet(1..C) /\ Cardinality(1..C) = C
  <2>1. IsFiniteSet(1..C) /\ Cardinality(1..C) = IF 1 > C THEN 0 ELSE C - 1 + 1
    BY <1>1, FS_Interval
  <2> QED BY <1>1, <2>1
<1>3. f \in [K -> 1..C] /\ \A x, y \in K : f[x] = f[y] => x = y
  BY <1>1
<1>4. f \in Injection(K, 1..C)
  <2> HIDE DEF f, C
  <2> QED BY <1>3, Fun_IsInj
<1>5. f \in Surjection(K, 1..C)
  <2> DEFINE T == 1..C
  <2>1. f \in Injection(K, T) /\ IsFiniteSet(T) /\ Cardinality(K) = Cardinality(T)
    BY <1>2, <1>4
  <2> HIDE DEF f, T
  <2>2. f \in Surjection(K, T)
    BY <2>1, FS_Injection
  <2> QED BY <2>2 DEF T
<1>6. \A n \in 1..C : \E x \in K : f[x] = n
  <2> HIDE DEF f, C
  <2> QED BY <1>5 DEF Surjection
<1>7. ASSUME NEW n \in 1..C PROVE \E x \in K : before[x] = n - 1
  <2>1. PICK x \in K : f[x] = n
    BY <1>6
  <2> QED BY <1>1, <2>1
<1> QED BY <1>7

\* Of two sets of which one holds more than the other, the counts tell.
LEMMA Fewer ==
  ASSUME NEW K, IsFiniteSet(K), NEW A \in SUBSET K, NEW B \in SUBSET K,
         A \subseteq B, NEW x \in B, x \notin A
  PROVE  /\ Cardinality(A) \in Nat /\ Cardinality(B) \in Nat /\ Cardinality(K) \in Nat
         /\ Cardinality(A) < Cardinality(B) /\ Cardinality(B) <= Cardinality(K)
<1>1. IsFiniteSet(A) /\ IsFiniteSet(B) /\ Cardinality(B) <= Cardinality(K)
  BY FS_Subset
<1>2. Cardinality(A) <= Cardinality(B) /\ (Cardinality(B) = Cardinality(A) => B = A)
  BY <1>1, FS_Subset
<1>3. Cardinality(A) \in Nat /\ Cardinality(B) \in Nat /\ Cardinality(K) \in Nat
  BY <1>1, FS_CardinalityType
<1> QED BY <1>1, <1>2, <1>3

\* A set that leaves out a member of a finite set holds fewer.
LEMMA FewerThanAll ==
  ASSUME NEW K, IsFiniteSet(K), NEW A \in SUBSET K, NEW x \in K, x \notin A,
         NEW C, C = Cardinality(K)
  PROVE  Cardinality(A) \in Nat /\ Cardinality(A) < C
<1>1. K \in SUBSET K /\ A \subseteq K
  OBVIOUS
<1> QED BY <1>1, Fewer

\* In a finite total order, ahead[x] being what comes before x, counting what comes
\* before gives every element its place.
LEMMA Places ==
  ASSUME NEW K, IsFiniteSet(K), NEW ahead \in [K -> SUBSET K],
         \A x \in K : x \notin ahead[x],
         \A x, y \in K : x # y => x \in ahead[y] \/ y \in ahead[x],
         \A x, y \in K : x \in ahead[y] => ahead[x] \subseteq ahead[y]
  PROVE  /\ \A x, y \in K : x \in ahead[y] => Cardinality(ahead[x]) < Cardinality(ahead[y])
         /\ \A x, y \in K : Cardinality(ahead[x]) < Cardinality(ahead[y]) => x \in ahead[y]
         /\ \A x, y \in K : Cardinality(ahead[x]) = Cardinality(ahead[y]) => x = y
         /\ \A n \in 1..Cardinality(K) : \E x \in K : Cardinality(ahead[x]) = n - 1
<1> DEFINE before == [x \in K |-> Cardinality(ahead[x])]
<1>1. ASSUME NEW x \in K
      PROVE  Cardinality(ahead[x]) \in Nat /\ Cardinality(ahead[x]) < Cardinality(K)
  <2>1. ahead[x] \in SUBSET K /\ x \notin ahead[x]
    OBVIOUS
  <2> QED BY <2>1, FewerThanAll
<1>2. ASSUME NEW x \in K, NEW y \in K, x \in ahead[y]
      PROVE  Cardinality(ahead[x]) < Cardinality(ahead[y])
  <2>1. ahead[x] \in SUBSET K /\ ahead[y] \in SUBSET K /\ x \in ahead[y] /\ x \notin ahead[x]
        /\ ahead[x] \subseteq ahead[y]
    BY <1>2
  <2> QED BY <2>1, Fewer
<1>3. ASSUME NEW x \in K, NEW y \in K
      PROVE  /\ Cardinality(ahead[x]) < Cardinality(ahead[y]) => x \in ahead[y]
             /\ Cardinality(ahead[x]) = Cardinality(ahead[y]) => x = y
  <2>1. /\ Cardinality(ahead[x]) \in Nat /\ Cardinality(ahead[y]) \in Nat
        /\ x \in ahead[y] => Cardinality(ahead[x]) < Cardinality(ahead[y])
        /\ y \in ahead[x] => Cardinality(ahead[y]) < Cardinality(ahead[x])
        /\ x # y => x \in ahead[y] \/ y \in ahead[x]
    BY <1>1, <1>2
  <2> QED BY <2>1
<1>4. /\ before \in [K -> Nat]
      /\ \A x \in K : before[x] < Cardinality(K)
      /\ \A x, y \in K : before[x] = before[y] => x = y
  BY <1>1, <1>3
<1>5. \A n \in 1..Cardinality(K) : \E x \in K : before[x] = n - 1
  <2> HIDE DEF before
  <2> QED BY <1>4, Counted
<1> QED BY <1>2, <1>3, <1>5

\* The numbers of K before x, and the positions a filter goes through.
Earlier(K, x) == { j \in K : j < x }

At(K) == [n \in 1..Cardinality(K) |->
            CHOOSE k \in K : Cardinality({ j \in K : j < k }) = n - 1]

\* What a filter keeps is there, at increasing positions, and nothing else is.
LEMMA KeptAt ==
  ASSUME NEW K \in SUBSET Nat, IsFiniteSet(K), NEW C, C = Cardinality(K)
  PROVE  /\ C \in Nat
         /\ At(K) \in [1..C -> K]
         /\ \A j, k \in 1..C : j < k => At(K)[j] < At(K)[k]
         /\ \A x \in K : \E n \in 1..C : At(K)[n] = x
         /\ \A n \in 1..C : Cardinality(Earlier(K, At(K)[n])) = n - 1
         /\ \A list : Kept(list, K) = [n \in 1..C |-> list[At(K)[n]]]
<1> DEFINE ahead == [x \in K |-> { j \in K : j < x }]
           at == [n \in 1..C |-> CHOOSE k \in K : Cardinality({ j \in K : j < k }) = n - 1]
<1>1. C \in Nat
  BY FS_CardinalityType
<1>2. /\ ahead \in [K -> SUBSET K]
      /\ \A x \in K : x \notin ahead[x]
      /\ \A x, y \in K : x # y => x \in ahead[y] \/ y \in ahead[x]
      /\ \A x, y \in K : x \in ahead[y] => ahead[x] \subseteq ahead[y]
  <2>1. \A x \in K : x \in Nat
    OBVIOUS
  <2>2. ahead \in [K -> SUBSET K]
    OBVIOUS
  <2>3. \A x, y \in K : x \in ahead[y] <=> x < y
    OBVIOUS
  <2> HIDE DEF ahead
  <2>4. \A x, y \in K : x # y => x \in ahead[y] \/ y \in ahead[x]
    BY <2>1, <2>3
  <2>5. ASSUME NEW x \in K, NEW y \in K, x \in ahead[y], NEW z \in ahead[x]
        PROVE  z \in ahead[y]
    <3>1. z \in K /\ z < x /\ x < y
      BY <2>2, <2>3, <2>5
    <3>2. z < y
      BY <2>1, <3>1
    <3> QED BY <2>3, <3>1, <3>2
  <2>6. \A x \in K : x \notin ahead[x]
    BY <2>1, <2>3
  <2> QED BY <2>2, <2>4, <2>5, <2>6
<1>3. /\ \A x, y \in K : Cardinality(ahead[x]) < Cardinality(ahead[y]) => x \in ahead[y]
      /\ \A x, y \in K : Cardinality(ahead[x]) = Cardinality(ahead[y]) => x = y
      /\ \A n \in 1..C : \E x \in K : Cardinality(ahead[x]) = n - 1
  <2> HIDE DEF ahead
  <2> QED BY <1>2, Places
<1>4. ASSUME NEW n \in 1..C PROVE at[n] \in K /\ Cardinality(ahead[at[n]]) = n - 1
  <2>1. PICK x \in K : Cardinality(ahead[x]) = n - 1
    BY <1>3
  <2>2. Cardinality({ j \in K : j < x }) = n - 1
    BY <2>1
  <2>3. at[n] \in K /\ Cardinality({ j \in K : j < at[n] }) = n - 1
    BY <2>2
  <2> QED BY <2>3
<1>5. at \in [1..C -> K]
  BY <1>4
<1>6. ASSUME NEW j \in 1..C, NEW k \in 1..C, j < k PROVE at[j] < at[k]
  <2> HIDE DEF at, ahead
  <2>0. j - 1 < k - 1
    BY <1>6
  <2>1. at[j] \in K /\ at[k] \in K /\ Cardinality(ahead[at[j]]) < Cardinality(ahead[at[k]])
    BY <1>4, <2>0
  <2>2. at[j] \in ahead[at[k]]
    BY <1>3, <2>1
  <2> QED BY <2>1, <2>2 DEF ahead
<1>7. ASSUME NEW x \in K PROVE \E n \in 1..C : at[n] = x
  <2>1. Cardinality(ahead[x]) \in Nat /\ Cardinality(ahead[x]) < C
    <3> HIDE DEF at, ahead
    <3>1. ahead[x] \in SUBSET K /\ x \notin ahead[x]
      BY <1>2
    <3> QED BY <3>1, FewerThanAll
  <2> DEFINE n == Cardinality(ahead[x]) + 1
  <2>2. n \in 1..C /\ n - 1 = Cardinality(ahead[x])
    BY <1>1, <2>1
  <2>3. at[n] \in K /\ Cardinality(ahead[at[n]]) = Cardinality(ahead[x])
    BY <1>4, <2>2
  <2>4. at[n] = x
    <3> HIDE DEF at, n, ahead
    <3> QED BY <1>3, <2>3
  <2> QED BY <2>2, <2>4
<1>8. at = At(K)
  BY DEF At
<1>9. \A n \in 1..C : Cardinality(Earlier(K, at[n])) = n - 1
  BY <1>4 DEF Earlier
<1>10. \A list : Kept(list, K) = [n \in 1..C |-> list[at[n]]]
  BY DEF Kept
<1> HIDE DEF at
<1> QED BY <1>1, <1>5, <1>6, <1>7, <1>8, <1>9, <1>10

\* A list f of m numbers that goes through K in their order.
Through(K, m, f) ==
  /\ f \in [1..m -> K]
  /\ \A j, k \in 1..m : j < k => f[j] < f[k]
  /\ \A x \in K : \E n \in 1..m : f[n] = x

\* The filter is the only list that goes through those positions in their order.
LEMMA KeptIs ==
  ASSUME NEW K \in SUBSET Nat, NEW m \in Nat, NEW f, Through(K, m, f)
  PROVE  /\ IsFiniteSet(K) /\ Cardinality(K) = m
         /\ \A n \in 1..m : At(K)[n] = f[n]
<1>0. /\ f \in [1..m -> K]
      /\ \A j, k \in 1..m : j < k => f[j] < f[k]
      /\ \A x \in K : \E n \in 1..m : f[n] = x
  BY DEF Through
<1> USE <1>0
<1>1. IsFiniteSet(1..m) /\ Cardinality(1..m) = m
  <2>1. IsFiniteSet(1..m) /\ Cardinality(1..m) = IF 1 > m THEN 0 ELSE m - 1 + 1
    BY FS_Interval
  <2> QED BY <2>1
<1>2. \A x \in K : x \in Nat
  OBVIOUS
<1>3. \A j, k \in 1..m : f[j] = f[k] => j = k
  <2> SUFFICES ASSUME NEW j \in 1..m, NEW k \in 1..m, f[j] = f[k], j # k PROVE FALSE
    OBVIOUS
  <2>1. f[j] \in K /\ f[k] \in K
    OBVIOUS
  <2>2. j < k \/ k < j
    OBVIOUS
  <2>3. f[j] < f[k] \/ f[k] < f[j]
    BY <2>2
  <2>4. f[j] \in Nat /\ f[k] \in Nat
    BY <1>2, <2>1
  <2> QED BY <2>3, <2>4
<1>4. f \in Bijection(1..m, K)
  BY <1>3, Fun_IsBij
<1>5. IsFiniteSet(K) /\ Cardinality(K) = m
  BY <1>1, <1>4, FS_Bijection, Fun_ExistsBij
<1>6. ASSUME NEW n \in 1..m PROVE Cardinality(Earlier(K, f[n])) = n - 1
  <2> DEFINE A == Earlier(K, f[n])
             g == [i \in 1..(n - 1) |-> f[i]]
  <2>1. ASSUME NEW i \in 1..(n - 1) PROVE f[i] \in A
    BY <1>2 DEF Earlier
  <2>2. ASSUME NEW a \in A PROVE \E i \in 1..(n - 1) : f[i] = a
    <3>1. PICK i \in 1..m : f[i] = a
      BY DEF Earlier
    <3>2. f[i] \in Nat /\ f[n] \in Nat /\ f[i] < f[n]
      BY <3>1 DEF Earlier
    <3>3. ~(n < i) /\ i # n
      BY <3>2
    <3> QED BY <3>1, <3>3
  <2>3. g \in [1..(n - 1) -> A]
    BY <2>1
  <2>4. \A a, b \in 1..(n - 1) : g[a] = g[b] => a = b
    BY <1>3
  <2>5. \A a \in A : \E i \in 1..(n - 1) : g[i] = a
    BY <2>2
  <2>6. g \in Bijection(1..(n - 1), A)
    <3> HIDE DEF g, A
    <3> QED BY <2>3, <2>4, <2>5, Fun_IsBij
  <2>7. IsFiniteSet(1..(n - 1)) /\ Cardinality(1..(n - 1)) = n - 1
    <3>1. n - 1 \in Int /\ 1 \in Int
      OBVIOUS
    <3>2. /\ IsFiniteSet(1..(n - 1))
          /\ Cardinality(1..(n - 1)) = IF 1 > n - 1 THEN 0 ELSE (n - 1) - 1 + 1
      BY <3>1, FS_Interval
    <3> QED BY <3>2
  <2>8. Cardinality(A) = Cardinality(1..(n - 1))
    <3> HIDE DEF g, A
    <3> QED BY <2>6, <2>7, FS_Bijection, Fun_ExistsBij
  <2> QED BY <2>7, <2>8
<1>7. K \in SUBSET Nat /\ IsFiniteSet(K) /\ m = Cardinality(K)
  BY <1>5
<1>8. /\ At(K) \in [1..m -> K]
      /\ \A n \in 1..m : Cardinality(Earlier(K, At(K)[n])) = n - 1
  BY <1>7, KeptAt
<1> DEFINE at == At(K)
<1>10. ASSUME NEW n \in 1..m PROVE at[n] = f[n]
  <2>1. ASSUME NEW x \in K, NEW y \in K, x < y
        PROVE  Cardinality(Earlier(K, x)) # Cardinality(Earlier(K, y))
    <3> DEFINE A == Earlier(K, x)
               B == Earlier(K, y)
    <3>0. \A z \in K : z < x => z < y
      BY <1>2, <2>1
    <3>1. A \in SUBSET K /\ B \in SUBSET K /\ A \subseteq B
      BY <3>0 DEF Earlier
    <3>3. x \in B /\ x \notin A
      BY <1>2, <2>1 DEF Earlier
    <3>2. Cardinality(A) \in Nat /\ Cardinality(B) \in Nat /\ Cardinality(A) < Cardinality(B)
      <4> HIDE DEF A, B
      <4> QED BY <1>5, <3>1, <3>3, Fewer
    <3> QED BY <3>2
  <2>2. at[n] \in K /\ f[n] \in K /\ at[n] \in Nat /\ f[n] \in Nat
    BY <1>2, <1>8
  <2>3. Cardinality(Earlier(K, at[n])) = Cardinality(Earlier(K, f[n]))
    BY <1>6, <1>8
  <2>4. ~(at[n] < f[n]) /\ ~(f[n] < at[n])
    BY <2>1, <2>2, <2>3
  <2> QED BY <2>2, <2>4
<1> QED BY <1>5, <1>8, <1>10

\* What is on a list, and a list that names nobody twice.
Listing(s)   == { s[k] : k \in DOMAIN s }
Picked(s, K) == { s[k] : k \in K }
Once(s)    == \A j, k \in DOMAIN s : s[j].id = s[k].id => j = k

\* The positions of a list are finitely many.
LEMMA Positions ==
  ASSUME NEW S, NEW list \in Seq(S), NEW K \in SUBSET (DOMAIN list)
  PROVE  /\ DOMAIN list = 1..Len(list) /\ Len(list) \in Nat
         /\ K \in SUBSET Nat /\ IsFiniteSet(K)
<1>1. DOMAIN list = 1..Len(list) /\ Len(list) \in Nat
  OBVIOUS
<1>2. IsFiniteSet(DOMAIN list)
  BY <1>1, FS_Interval
<1>3. IsFiniteSet(K)
  BY <1>2, FS_Subset
<1> QED BY <1>1, <1>3

\* A filter of a list holds what passes, and names nobody twice if the list does not.
LEMMA KeptOf ==
  ASSUME NEW S, NEW list \in Seq(S), NEW K \in SUBSET (DOMAIN list)
  PROVE  /\ Kept(list, K) \in Seq(S)
         /\ Listing(Kept(list, K)) = Picked(list, K)
         /\ Once(list) => Once(Kept(list, K))
<1> DEFINE m == Cardinality(K)
           f == At(K)
<1>1. K \in SUBSET Nat /\ IsFiniteSet(K) /\ m = Cardinality(K)
  BY Positions
<1> HIDE DEF m, f
<1>2. /\ m \in Nat /\ f \in [1..m -> K]
      /\ \A j, k \in 1..m : j < k => f[j] < f[k]
      /\ \A k \in K : \E n \in 1..m : f[n] = k
      /\ Kept(list, K) = [n \in 1..m |-> list[f[n]]]
  BY <1>1, KeptAt DEF f
<1>3. ASSUME NEW j \in 1..m, NEW k \in 1..m, f[j] = f[k] PROVE j = k
  <2>1. f[j] \in Nat /\ f[k] \in Nat
    BY <1>1, <1>2
  <2>2. ~(j < k) /\ ~(k < j)
    BY <1>2, <1>3, <2>1
  <2> QED BY <2>2
<1> DEFINE r == Kept(list, K)
<1>4. DOMAIN r = 1..m /\ \A n \in 1..m : r[n] = list[f[n]] /\ f[n] \in K
  BY <1>2
<1>5. r \in Seq(S)
  <2>1. \A k \in K : list[k] \in S
    OBVIOUS
  <2> QED BY <1>2, <2>1
<1>6. ASSUME NEW x \in Listing(r) PROVE x \in Picked(list, K)
  BY <1>4 DEF Listing, Picked
<1>7. ASSUME NEW x \in Picked(list, K) PROVE x \in Listing(r)
  <2>1. PICK k \in K : x = list[k]
    BY DEF Picked
  <2>2. PICK n \in 1..m : f[n] = k
    BY <1>2
  <2> QED BY <1>4, <2>1, <2>2 DEF Listing
<1>8. ASSUME Once(list) PROVE Once(r)
  BY <1>3, <1>4, <1>8 DEF Once
<1> QED BY <1>5, <1>6, <1>7, <1>8

\* The list s goes through the list of the ranks in their order, equals as they come.
Ranked(s, list, rank) ==
  \E f \in [DOMAIN list -> DOMAIN list] :
    /\ s = [n \in DOMAIN list |-> list[f[n]]]
    /\ \A j, k \in DOMAIN list : j < k => Ahead(rank, f[j], f[k])

\* A stable sort of a list holds what the list holds, in the order of the ranks, and names
\* nobody twice if the list does not.
LEMMA SortedOf ==
  ASSUME NEW S, NEW list \in Seq(S), NEW rank \in [DOMAIN list -> Nat]
  PROVE  /\ Sorted(list, rank) \in Seq(S)
         /\ Listing(Sorted(list, rank)) = Listing(list)
         /\ Once(list) => Once(Sorted(list, rank))
         /\ Ranked(Sorted(list, rank), list, rank)
<1> DEFINE K == DOMAIN list
           m == Cardinality(K)
           ahead == [x \in K |-> { j \in K : Ahead(rank, j, x) }]
           f == [n \in K |->
                   CHOOSE k \in K : Cardinality({ j \in K : Ahead(rank, j, k) }) = n - 1]
<1>1. K = 1..Len(list) /\ Len(list) \in Nat /\ K \in SUBSET Nat /\ IsFiniteSet(K)
  BY Positions
<1>2. m = Len(list)
  <2>1. Cardinality(1..Len(list)) = IF 1 > Len(list) THEN 0 ELSE Len(list) - 1 + 1
    BY <1>1, FS_Interval
  <2> QED BY <1>1, <2>1
<1>3. /\ ahead \in [K -> SUBSET K]
      /\ \A x, y \in K : x \in ahead[y] <=> Ahead(rank, x, y)
  OBVIOUS
<1>4. /\ \A x \in K : ~Ahead(rank, x, x)
      /\ \A x, y \in K : x # y => Ahead(rank, x, y) \/ Ahead(rank, y, x)
      /\ \A x, y, z \in K : Ahead(rank, x, y) /\ Ahead(rank, y, z) => Ahead(rank, x, z)
  <2>1. \A x \in K : x \in Nat /\ rank[x] \in Nat
    BY <1>1
  <2> QED BY <2>1 DEF Ahead
<1>5. /\ \A x \in K : x \notin ahead[x]
      /\ \A x, y \in K : x # y => x \in ahead[y] \/ y \in ahead[x]
      /\ \A x, y \in K : x \in ahead[y] => ahead[x] \subseteq ahead[y]
  <2> HIDE DEF ahead, K
  <2> QED BY <1>3, <1>4
<1>6. /\ \A x, y \in K : x \in ahead[y] => Cardinality(ahead[x]) < Cardinality(ahead[y])
      /\ \A x, y \in K : Cardinality(ahead[x]) < Cardinality(ahead[y]) => x \in ahead[y]
      /\ \A x, y \in K : Cardinality(ahead[x]) = Cardinality(ahead[y]) => x = y
      /\ \A n \in 1..Cardinality(K) : \E x \in K : Cardinality(ahead[x]) = n - 1
  <2>1. IsFiniteSet(K) /\ ahead \in [K -> SUBSET K]
    BY <1>1, <1>3
  <2> HIDE DEF ahead, K
  <2> QED BY <1>5, <2>1, Places
<1>7. ASSUME NEW n \in K PROVE f[n] \in K /\ Cardinality(ahead[f[n]]) = n - 1
  <2>1. PICK x \in K : Cardinality(ahead[x]) = n - 1
    BY <1>1, <1>2, <1>6
  <2>2. Cardinality({ j \in K : Ahead(rank, j, x) }) = n - 1
    BY <2>1
  <2>3. f[n] \in K /\ Cardinality({ j \in K : Ahead(rank, j, f[n]) }) = n - 1
    BY <2>2
  <2> QED BY <2>3
<1>8. ASSUME NEW x \in K PROVE \E n \in K : f[n] = x
  <2>1. Cardinality(ahead[x]) \in Nat /\ Cardinality(ahead[x]) < m
    <3>1. m = Cardinality(K)
      OBVIOUS
    <3> HIDE DEF ahead, f, K, m
    <3>2. ahead[x] \in SUBSET K /\ x \notin ahead[x] /\ IsFiniteSet(K)
      BY <1>1, <1>3, <1>5
    <3> QED BY <3>1, <3>2, FewerThanAll
  <2> DEFINE n == Cardinality(ahead[x]) + 1
  <2>2. n \in K /\ n - 1 = Cardinality(ahead[x])
    BY <1>1, <1>2, <2>1
  <2>3. f[n] \in K /\ Cardinality(ahead[f[n]]) = Cardinality(ahead[x])
    BY <1>7, <2>2
  <2>4. f[n] = x
    <3> HIDE DEF f, n, ahead, K
    <3> QED BY <1>6, <2>3
  <2> QED BY <2>2, <2>4
<1>9. Sorted(list, rank) = [n \in K |-> list[f[n]]]
  BY DEF Sorted
<1>10. \A j, k \in K : f[j] = f[k] => j = k
  <2> HIDE DEF f, ahead
  <2>1. \A j \in K : j \in Nat /\ Cardinality(ahead[f[j]]) = j - 1
    BY <1>1, <1>7
  <2> QED BY <2>1
<1>11. f \in [K -> K]
  BY <1>7
<1>18. ASSUME NEW j \in K, NEW k \in K, j < k PROVE Ahead(rank, f[j], f[k])
  <2> HIDE DEF f, ahead
  <2>1. j \in Nat /\ k \in Nat /\ j - 1 < k - 1
    BY <1>1, <1>18
  <2>2. f[j] \in K /\ f[k] \in K /\ Cardinality(ahead[f[j]]) < Cardinality(ahead[f[k]])
    BY <1>7, <2>1
  <2>3. f[j] \in ahead[f[k]]
    BY <1>6, <2>2
  <2> QED BY <1>3, <2>2, <2>3
<1> HIDE DEF f
<1>19. Ranked(Sorted(list, rank), list, rank)
  BY <1>9, <1>11, <1>18 DEF Ranked
<1> DEFINE r == Sorted(list, rank)
           N == Len(list)
<1>12. /\ r = [n \in 1..N |-> list[f[n]]] /\ N \in Nat /\ f \in [1..N -> K] /\ K = 1..N
       /\ \A k \in K : \E n \in 1..N : f[n] = k
  BY <1>1, <1>8, <1>9, <1>11
<1>13. DOMAIN r = 1..N /\ \A n \in 1..N : r[n] = list[f[n]] /\ f[n] \in K
  BY <1>12
<1>14. r \in Seq(S)
  <2>1. \A k \in K : list[k] \in S
    OBVIOUS
  <2> QED BY <1>12, <2>1
<1>15. ASSUME NEW x \in Listing(r) PROVE x \in Picked(list, K)
  BY <1>13 DEF Listing, Picked
<1>16. ASSUME NEW x \in Picked(list, K) PROVE x \in Listing(r)
  <2>1. PICK k \in K : x = list[k]
    BY DEF Picked
  <2>2. PICK n \in 1..N : f[n] = k
    BY <1>12
  <2> QED BY <1>13, <2>1, <2>2 DEF Listing
<1>17. ASSUME Once(list) PROVE Once(r)
  BY <1>10, <1>12, <1>13, <1>17 DEF Once
<1> QED BY <1>14, <1>15, <1>16, <1>17, <1>19 DEF Listing, Picked

\* Newest first is all of them, each once and the greatest first.
LEMMA DescendingOf ==
  ASSUME NEW K \in SUBSET Nat, IsFiniteSet(K), NEW C, C = Cardinality(K)
  PROVE  /\ C \in Nat
         /\ Descending(K) \in [1..C -> K]
         /\ \A j, k \in 1..C : j < k => Descending(K)[j] > Descending(K)[k]
         /\ \A x \in K : \E n \in 1..C : Descending(K)[n] = x
<1> DEFINE ahead == [x \in K |-> { j \in K : j > x }]
           f == [n \in 1..C |-> CHOOSE k \in K : Cardinality({ j \in K : j > k }) = n - 1]
<1>0. C \in Nat
  BY FS_CardinalityType
<1>1. \A x \in K : x \in Nat
  OBVIOUS
<1>2. ahead \in [K -> SUBSET K] /\ \A x, y \in K : x \in ahead[y] <=> x > y
  OBVIOUS
<1>3. /\ \A x \in K : x \notin ahead[x]
      /\ \A x, y \in K : x # y => x \in ahead[y] \/ y \in ahead[x]
      /\ \A x, y \in K : x \in ahead[y] => ahead[x] \subseteq ahead[y]
  <2> HIDE DEF ahead
  <2>1. \A x, y, z \in K : x > y /\ y > z => x > z
    BY <1>1
  <2>2. \A x, y \in K : (x # y => x > y \/ y > x) /\ ~(x > x)
    BY <1>1
  <2> QED BY <1>2, <2>1, <2>2
<1>4. /\ \A x, y \in K : x \in ahead[y] => Cardinality(ahead[x]) < Cardinality(ahead[y])
      /\ \A x, y \in K : Cardinality(ahead[x]) < Cardinality(ahead[y]) => x \in ahead[y]
      /\ \A x, y \in K : Cardinality(ahead[x]) = Cardinality(ahead[y]) => x = y
      /\ \A n \in 1..Cardinality(K) : \E x \in K : Cardinality(ahead[x]) = n - 1
  <2>1. ahead \in [K -> SUBSET K]
    BY <1>2
  <2> HIDE DEF ahead
  <2> QED BY <1>3, <2>1, Places
<1>5. ASSUME NEW n \in 1..C PROVE f[n] \in K /\ Cardinality(ahead[f[n]]) = n - 1
  <2>1. PICK x \in K : Cardinality(ahead[x]) = n - 1
    BY <1>4
  <2>2. Cardinality({ j \in K : j > x }) = n - 1
    BY <2>1
  <2>3. f[n] \in K /\ Cardinality({ j \in K : j > f[n] }) = n - 1
    BY <2>2
  <2> QED BY <2>3
<1>6. ASSUME NEW x \in K PROVE \E n \in 1..C : f[n] = x
  <2>1. Cardinality(ahead[x]) \in Nat /\ Cardinality(ahead[x]) < C
    <3> HIDE DEF ahead, f
    <3>1. ahead[x] \in SUBSET K /\ x \notin ahead[x]
      BY <1>2, <1>3
    <3> QED BY <3>1, FewerThanAll
  <2> DEFINE n == Cardinality(ahead[x]) + 1
  <2>2. n \in 1..C /\ n - 1 = Cardinality(ahead[x])
    BY <1>0, <2>1
  <2>3. f[n] \in K /\ Cardinality(ahead[f[n]]) = Cardinality(ahead[x])
    BY <1>5, <2>2
  <2>4. f[n] = x
    <3> HIDE DEF f, n, ahead
    <3> QED BY <1>4, <2>3
  <2> QED BY <2>2, <2>4
<1>7. ASSUME NEW j \in 1..C, NEW k \in 1..C, j < k PROVE f[j] > f[k]
  <2> HIDE DEF f, ahead
  <2>1. j - 1 < k - 1
    BY <1>7
  <2>2. f[j] \in K /\ f[k] \in K /\ Cardinality(ahead[f[j]]) < Cardinality(ahead[f[k]])
    BY <1>5, <2>1
  <2> QED BY <1>2, <1>4, <2>2
<1>8. f \in [1..C -> K] /\ Descending(K) = f
  BY <1>5 DEF Descending
<1> HIDE DEF f
<1> QED BY <1>0, <1>6, <1>7, <1>8

-------------------------------------------------------------------------------
\* The queries.

\* Every stage has a priority.
LEMMA Priorities == \A s \in VALID_STATES : STATUS_PRIORITY(s) \in Nat
<1>1. \A e \in TRANSITIONS :
        { e.from, e.to } \subseteq {"wishlist", "draft", "applied", "phone_screen", "technical",
          "final_round", "offer", "accepted", "declined", "rejected", "ghosted", "withdrawn"}
  BY DEF TRANSITIONS, Edge, InterviewStages
<1>2. VALID_STATES \subseteq {"wishlist", "draft", "applied", "phone_screen", "technical",
        "final_round", "offer", "accepted", "declined", "rejected", "ghosted", "withdrawn",
        "archived"}
  BY <1>1 DEF VALID_STATES, TERMINAL_STATES
<1> QED BY <1>2 DEF STATUS_PRIORITY

\* The page is put in the order of importance and the archived rows are left out: what
\* remains is what was there.
LEMMA Arrived ==
  ASSUME NEW rows \in Seq(Rows)
  PROVE  /\ notArchived(rows) \in Seq(Rows)
         /\ sortByImportance(rows) \in Seq(Rows)
         /\ Listing(notArchived(rows)) = { r \in Listing(rows) : r.stage # "archived" }
         /\ Listing(sortByImportance(rows)) = Listing(rows)
         /\ Once(rows) => Once(notArchived(rows)) /\ Once(sortByImportance(rows))
<1> DEFINE K == { k \in DOMAIN rows : rows[k].stage # "archived" }
           rank == [k \in DOMAIN rows |-> STATUS_PRIORITY(rows[k].stage)]
<1>1. \A k \in DOMAIN rows : rows[k] \in Rows /\ rows[k].stage \in VALID_STATES
  <2>1. \A k \in DOMAIN rows : rows[k] \in Rows
    OBVIOUS
  <2>2. \A r \in Rows : r.stage \in VALID_STATES
    BY DEF Rows
  <2> QED BY <2>1, <2>2
<1>2. K \in SUBSET (DOMAIN rows) /\ rank \in [DOMAIN rows -> Nat]
  BY <1>1, Priorities
<1>3. /\ Kept(rows, K) \in Seq(Rows)
      /\ Listing(Kept(rows, K)) = Picked(rows, K)
      /\ Once(rows) => Once(Kept(rows, K))
  <2> HIDE DEF K
  <2> QED BY <1>2, KeptOf
<1>4. /\ Sorted(rows, rank) \in Seq(Rows)
      /\ Listing(Sorted(rows, rank)) = Listing(rows)
      /\ Once(rows) => Once(Sorted(rows, rank))
  <2> HIDE DEF rank
  <2> QED BY <1>2, SortedOf
<1>5. Picked(rows, K) = { r \in Listing(rows) : r.stage # "archived" }
  BY DEF Picked, Listing
<1> QED BY <1>3, <1>4, <1>5 DEF notArchived, sortByImportance

\* The rows of the table as the types have them.
TableTyped ==
  /\ stage \in [Ids -> VALID_STATES \cup {None}]
  /\ writes \in Nat

\* A cursor, and the rows it has reached.
Cursors == Ids \cup {None}
Reached(from) == { i \in Existing : from # None => i >= from }

\* None is nothing else.
LEMMA NoneFacts ==
  /\ None \notin Ids /\ None \notin Nat /\ None \notin VALID_STATES /\ None \notin Terms
  /\ Ids \subseteq Nat
<1>1. Ids \subseteq Nat
  BY ListAssumption DEF Ids
<1> QED BY <1>1, ListAssumption

\* A row of the table is a row, and tells its application apart.
LEMMA RowFacts ==
  ASSUME TableTyped
  PROVE  /\ Existing \in SUBSET Ids /\ Existing \in SUBSET Nat /\ IsFiniteSet(Existing)
         /\ \A i \in Existing : Row(i) \in Rows /\ Row(i).id = i /\ Row(i).stage = stage[i]
<1>1. Existing \in SUBSET Ids
  BY DEF Existing
<1>2. Ids \in SUBSET Nat /\ IsFiniteSet(Ids)
  <2>1. MaxId \in Nat
    BY ListAssumption
  <2> QED BY <2>1, FS_Interval DEF Ids
<1>3. IsFiniteSet(Existing)
  BY <1>1, <1>2, FS_Subset
<1>4. ASSUME NEW i \in Existing PROVE Row(i) \in Rows
  <2>1. i \in Ids /\ stage[i] \in VALID_STATES
    BY DEF Existing, TableTyped
  <2> QED BY <2>1 DEF Row, Rows
<1> QED BY <1>1, <1>2, <1>3, <1>4 DEF Row

\* A page of the API: the newest rows past the cursor that the filters find, down to the
\* next cursor, each once; all that are left when there is no next one.
LEMMA Page ==
  ASSUME TableTyped, NEW f, NEW after, NEW a, a = ListQuery(f, after)
  PROVE  /\ a.ok = TRUE /\ a.at = writes
         /\ a.rows \in Seq(Rows) /\ Once(a.rows)
         /\ a.next \in Cursors /\ (a.next # None => a.next \in Wanted(f, after))
         /\ Listing(a.rows) = { Row(i) : i \in Wanted(f, after) \cap Reached(a.next) }
<1> DEFINE W == Wanted(f, after)
           C == Cardinality(W)
           d == Descending(W)
           more == C > Limit
           M == IF more THEN Limit ELSE C
<1>1. /\ W \in SUBSET Existing /\ W \in SUBSET Nat /\ W \in SUBSET Ids /\ IsFiniteSet(W)
      /\ \A i \in W : Row(i) \in Rows /\ Row(i).id = i
  <2>1. W \in SUBSET Existing
    BY DEF Wanted
  <2> QED BY <2>1, RowFacts, FS_Subset
<1> HIDE DEF W
<1>2. /\ C \in Nat /\ d \in [1..C -> W]
      /\ \A j, k \in 1..C : j < k => d[j] > d[k]
      /\ \A x \in W : \E n \in 1..C : d[n] = x
  BY <1>1, DescendingOf
<1>3. Limit \in Nat /\ Limit > 0 /\ None \notin Ids
  BY NoneFacts, ListAssumption
<1>4. /\ a.ok = TRUE /\ a.at = writes
      /\ a.rows = [k \in 1..M |-> Row(d[k])]
      /\ a.next = IF more THEN d[Limit] ELSE None
  BY DEF ListQuery, W
<1> HIDE DEF C, d
<1>0. \A k \in 1..C : d[k] \in W /\ d[k] \in Nat /\ d[k] \in Ids
  BY <1>1, <1>2
<1>5. M \in Nat /\ M <= C /\ \A k \in 1..M : k \in 1..C /\ d[k] \in W
  BY <1>2, <1>3
<1>6. a.rows \in Seq(Rows) /\ DOMAIN a.rows = 1..M /\ \A k \in 1..M : a.rows[k] = Row(d[k])
  <2>1. \A k \in 1..M : Row(d[k]) \in Rows
    BY <1>1, <1>5
  <2>2. DOMAIN a.rows = 1..M /\ \A k \in 1..M : a.rows[k] = Row(d[k])
    BY <1>4
  <2> HIDE DEF M
  <2> QED BY <1>4, <1>5, <2>1, <2>2
<1>7. Once(a.rows)
  <2>1. \A j, k \in 1..M : d[j] = d[k] => j = k
    <3> SUFFICES ASSUME NEW j \in 1..M, NEW k \in 1..M, d[j] = d[k], j # k PROVE FALSE
      OBVIOUS
    <3>0. j \in 1..C /\ k \in 1..C /\ d[j] \in Nat
      BY <1>5, <1>0
    <3>1. j \in 1..C /\ k \in 1..C /\ (j < k \/ k < j) /\ d[j] \in Nat
      BY <3>0, <1>2
    <3>2. d[j] > d[k] \/ d[k] > d[j]
      BY <1>2, <3>1
    <3> QED BY <3>1, <3>2
  <2>2. \A j, k \in 1..M : a.rows[j].id = d[j] /\ a.rows[k].id = d[k]
    BY <1>1, <1>5, <1>6
  <2> QED BY <1>6, <2>1, <2>2 DEF Once
<1>8. a.next \in Cursors /\ (a.next # None => a.next \in W)
  <2>1. more => Limit \in 1..C
    BY <1>2, <1>3
  <2> QED BY <1>1, <1>2, <1>3, <1>4, <2>1 DEF Cursors
<1>9. ASSUME NEW k \in 1..M PROVE d[k] \in W \cap Reached(a.next)
  <2>1. a.next # None => d[k] >= a.next
    <3>1. CASE more
      <4>0. k <= Limit /\ k \in 1..C /\ Limit \in 1..C
        BY <1>2, <1>3, <3>1
      <4>1. k <= Limit /\ k \in 1..C /\ Limit \in 1..C /\ d[k] \in Nat /\ d[Limit] \in Nat
        BY <1>0, <4>0
      <4>2. k = Limit \/ d[k] > d[Limit]
        BY <1>2, <4>1
      <4> QED BY <1>4, <3>1, <4>1, <4>2
    <3>2. CASE ~more
      BY <1>4, <3>2
    <3> QED BY <3>1, <3>2
  <2> QED BY <1>1, <1>5, <2>1 DEF Reached
<1>10. ASSUME NEW i \in W \cap Reached(a.next) PROVE \E k \in 1..M : d[k] = i
  <2>1. PICK n \in 1..C : d[n] = i
    BY <1>2
  <2>2. n \in 1..M
    <3>1. CASE more
      <4>0. a.next = d[Limit] /\ Limit \in 1..C
        BY <1>2, <1>3, <1>4, <3>1
      <4>1. a.next = d[Limit] /\ Limit \in 1..C /\ d[Limit] \in Ids /\ d[Limit] \in Nat /\ i \in Nat
        BY <1>1, <1>0, <4>0
      <4>2. ~(d[n] < d[Limit])
        BY <1>3, <2>1, <4>1 DEF Reached
      <4>3. ~(Limit < n)
        BY <1>2, <2>1, <4>1, <4>2
      <4> QED BY <1>2, <1>3, <3>1, <4>3
    <3>2. CASE ~more
      BY <3>2
    <3> QED BY <3>1, <3>2
  <2> QED BY <2>1, <2>2
<1>11. Listing(a.rows) = { Row(i) : i \in W \cap Reached(a.next) }
  <2>1. ASSUME NEW x \in Listing(a.rows)
        PROVE  x \in { Row(i) : i \in W \cap Reached(a.next) }
    <3>1. PICK k \in 1..M : x = a.rows[k]
      BY <1>6 DEF Listing
    <3> QED BY <1>6, <1>9, <3>1
  <2>2. ASSUME NEW x \in { Row(i) : i \in W \cap Reached(a.next) }
        PROVE  x \in Listing(a.rows)
    <3>1. PICK i \in W \cap Reached(a.next) : x = Row(i)
      OBVIOUS
    <3>2. PICK k \in 1..M : d[k] = i
      BY <1>10
    <3> QED BY <1>6, <3>1, <3>2 DEF Listing
  <2> QED BY <2>1, <2>2
<1> QED BY <1>4, <1>6, <1>7, <1>8, <1>11 DEF W

-------------------------------------------------------------------------------
\* The invariant.

\* The types, requests and the address in full.
Urls == [statuses: ((SUBSET VALID_STATES) \ {{}}) \cup {None}, company: Companies \cup {None},
         source: Sources \cup {None}, level: Levels \cup {None}, q: Terms \cup {None}]

Answers == {None} \cup [ok: {FALSE}]
             \cup [ok: {TRUE}, rows: Seq(Rows), next: Cursors, at: Nat]

Requests == [ticket: Nat \ {0}, for: Filters, default: SUBSET VALID_STATES,
             after: Cursors, answer: Answers]

Props == /\ active \in {ACTIVE_STATES, {}}
         /\ \A r \in listed : r \in Rows /\ r.stage # "archived"

FiltersTyped == filters \in Filters /\ "archived" \notin filters.statuses

ItemsTyped == /\ items \in Seq(Rows) /\ \A x \in Listing(items) : x.stage # "archived"
              /\ next \in Cursors

UrlTyped == url \in Urls /\ (url.statuses # None => "archived" \notin url.statuses)

RequestsTyped == /\ seq \in Nat /\ requests \subseteq Requests
                 /\ \A r \in requests : r.ticket <= seq /\ "archived" \notin r.for.statuses

Typed == /\ TableTyped /\ Props /\ FiltersTyped /\ ItemsTyped /\ UrlTyped /\ RequestsTyped
         /\ box \in Terms \cup {None} /\ stored \in Seq(Nat)

\* Tickets are given out once, and the newest is under way just while the list is dimmed.
TicketInv ==
  /\ \A q, r \in requests : q.ticket = r.ticket => q = r
  /\ loading <=> \E r \in requests : Newest(r)

\* The rows of a table st that filters find, behind a cursor and down to one.
Hits(st, f, i) ==
  /\ f.statuses = {} \/ st[i] \in f.statuses
  /\ f.company \in {None, Company[i]}
  /\ f.source  \in {None, Source[i]}
  /\ f.level   \in {None, Level[i]}
  /\ f.q # None => i \in Mentions[f.q]

Span(st, f, after, from) ==
  { [id |-> i, stage |-> st[i]] :
      i \in { j \in Ids : /\ st[j] # None /\ Hits(st, f, j)
                          /\ after # None => j < after
                          /\ from # None => j >= from } }

\* What an answer on its way says, and what it still says while nobody has written.
Says(st, count, r) ==
  LET a == r.answer
  IN  /\ Once(a.rows) /\ a.at <= count
      /\ \A x \in Listing(a.rows) :
           /\ r.for.statuses # {} => x.stage \in r.for.statuses
           /\ r.after # None => x.id < r.after
           /\ a.next # None => x.id >= a.next
      /\ a.next # None /\ r.after # None => a.next < r.after
      /\ a.at = count => Listing(a.rows) = Span(st, r.for, r.after, a.next)

Come(r) == r.answer # None /\ r.answer.ok

AnswerInv == \A r \in requests : Come(r) => Says(stage, writes, r)

\* The newest request, if it asks for another page, asks for the page behind this list.
MoreInv ==
  \A r \in requests : Newest(r) /\ r.after # None =>
    /\ r.after = next
    /\ filters.statuses # {} => r.for = filters
    /\ Come(r) /\ asOf # None => asOf <= r.answer.at

ListInv ==
  /\ Once(items)
  /\ \A x \in Listing(items) : /\ filters.statuses # {} => x.stage \in filters.statuses
                               /\ next # None => x.id >= next
  /\ asOf # None => asOf \in Nat /\ asOf <= writes
  /\ asOf = writes /\ filters.statuses # {} =>
       Listing(items) = Span(stage, filters, None, next)

IInv == Typed /\ TicketInv /\ AnswerInv /\ MoreInv /\ ListInv

-------------------------------------------------------------------------------
\* The first paint of an address.

\* Active stages are stages and archived is none of them; a stage with a row in the table
\* has a chip, unless it is archived.
LEMMA StageSets ==
  ASSUME TableTyped
  PROVE  /\ ACTIVE_STATES \subseteq VALID_STATES \ {"archived"}
         /\ \A r \in Current : r \in Rows /\ r.stage # "archived"
         /\ { r.stage : r \in Current } \subseteq VALID_STATES \ {"archived"}
         /\ \A i \in Existing : stage[i] # "archived" => stage[i] \in { r.stage : r \in Current }
<1>1. ACTIVE_STATES \subseteq VALID_STATES \ {"archived"}
  BY DEF ACTIVE_STATES, TERMINAL_STATES
<1>2. \A r \in Current : r \in Rows /\ r.stage # "archived"
  BY RowFacts DEF Current
<1>3. { r.stage : r \in Current } \subseteq VALID_STATES \ {"archived"}
  <2>1. \A r \in Rows : r.stage \in VALID_STATES
    BY DEF Rows
  <2> QED BY <1>2, <2>1
<1>4. ASSUME NEW i \in Existing, stage[i] # "archived"
      PROVE  stage[i] \in { r.stage : r \in Current }
  <2>1. Row(i) \in Current /\ Row(i).stage = stage[i]
    BY <1>4, RowFacts DEF Current
  <2> QED BY <2>1
<1> QED BY <1>1, <1>2, <1>3, <1>4

\* The stages that have a chip after a render.
Chips == { r.stage : r \in Current }

\* The chips of c claim every row that asking the server for d finds, but for archived ones,
\* and no other when the chips can claim the address.
Agree(u, c, d) ==
  /\ c \subseteq VALID_STATES \ {"archived"} /\ d \subseteq VALID_STATES
  /\ \A i \in Existing : stage[i] # "archived" /\ (d # {} => stage[i] \in d) => stage[i] \in c
  /\ u.statuses = None \/ Chips \cap u.statuses # {} =>
       \A i \in Existing : stage[i] \in c => d # {} /\ stage[i] \in d

\* The stages the server is asked for and those the chips claim find the same rows, but
\* for archived ones, whenever the address is one the chips can claim.
LEMMA Claims ==
  ASSUME TableTyped, NEW u \in Urls, u.statuses # None => "archived" \notin u.statuses,
         NEW actives \in {ACTIVE_STATES, {}},
         NEW c, c = Claimed(u, Chips, actives), NEW d, d = defaultStatus(u, Chips, actives)
  PROVE  Agree(u, c, d)
<1> USE DEF Agree
<1>1. /\ Chips \subseteq VALID_STATES \ {"archived"}
      /\ \A i \in Existing : stage[i] # "archived" => stage[i] \in Chips
      /\ actives \subseteq VALID_STATES \ {"archived"}
  BY StageSets DEF Chips
<1>2. u.statuses = None \/ (u.statuses \subseteq VALID_STATES \ {"archived"} /\ u.statuses # {})
  BY DEF Urls
<1>3. CASE u.statuses # None /\ Chips \cap u.statuses # {}
  <2>1. c = Chips \cap u.statuses /\ d = u.statuses
    BY <1>3 DEF Claimed, defaultStatus
  <2> QED BY <1>1, <1>2, <1>3, <2>1
<1>4. CASE u.statuses # None /\ Chips \cap u.statuses = {}
  <2>1. c \subseteq Chips /\ d = u.statuses
    BY <1>4 DEF Claimed, defaultStatus, Default
  <2> QED BY <1>1, <1>2, <1>4, <2>1
<1>5. CASE u.statuses = None /\ actives = {}
  <2>1. c = Chips /\ d = Chips
    BY <1>5 DEF Claimed, defaultStatus, Default
  <2> QED BY <1>1, <2>1
<1>6. CASE u.statuses = None /\ actives # {} /\ Chips \cap actives = {}
  <2>1. c = Chips /\ d = VALID_STATES \ {"archived"}
    BY <1>6 DEF Claimed, defaultStatus, Default
  <2>2. d # {}
    BY <1>1, <1>6, <2>1
  <2> QED BY <1>1, <2>1, <2>2
<1>7. CASE u.statuses = None /\ actives # {} /\ Chips \cap actives # {}
  <2>1. c = Chips \cap actives /\ d = actives
    BY <1>7 DEF Claimed, defaultStatus, Default
  <2> QED BY <1>1, <1>7, <2>1
<1> QED BY <1>3, <1>4, <1>5, <1>6, <1>7

\* The first paint is a list of its filters without a gap, whatever the address says.
LEMMA Paint ==
  ASSUME TableTyped, NEW u \in Urls, u.statuses # None => "archived" \notin u.statuses,
         NEW actives \in {ACTIVE_STATES, {}}, NEW p, p = Painted(u, actives)
  PROVE  /\ p.filters \in Filters /\ "archived" \notin p.filters.statuses
         /\ p.items \in Seq(Rows) /\ Once(p.items) /\ p.next \in Cursors
         /\ \A x \in Listing(p.items) :
              /\ x.stage # "archived" /\ x.stage \in p.filters.statuses
              /\ p.next # None => x.id >= p.next
         /\ p.asOf \in {None, writes}
         /\ p.asOf = writes /\ p.filters.statuses # {} =>
              Listing(p.items) =
                { Row(i) : i \in { j \in Existing : Finds(p.filters, j) } \cap Reached(p.next) }
<1> DEFINE stages == Chips
           c == Claimed(u, stages, actives)
           d == defaultStatus(u, stages, actives)
           f == [u EXCEPT !.statuses = d]
           g == [u EXCEPT !.statuses = c]
           a == ListQuery(f, None)
<1>1. /\ p.filters = g /\ p.items = sortByImportance(notArchived(a.rows)) /\ p.next = a.next
      /\ p.asOf = IF u.statuses = None \/ stages \cap u.statuses # {} THEN a.at ELSE None
  BY DEF Painted, Chips
<1>2. /\ c \subseteq VALID_STATES \ {"archived"} /\ d \subseteq VALID_STATES
      /\ \A i \in Existing : stage[i] # "archived" /\ (d # {} => stage[i] \in d) => stage[i] \in c
      /\ u.statuses = None \/ stages \cap u.statuses # {} =>
           \A i \in Existing : stage[i] \in c => d # {} /\ stage[i] \in d
  <2>1. c = Claimed(u, Chips, actives) /\ d = defaultStatus(u, Chips, actives) /\ stages = Chips
    OBVIOUS
  <2> HIDE DEF c, d, stages, f, g, a
  <2>2. Agree(u, c, d)
    BY <2>1, Claims
  <2> QED BY <2>1, <2>2 DEF Agree
<1> HIDE DEF c, d, stages
<1>3. /\ g \in Filters /\ f \in Filters /\ g.statuses = c /\ f.statuses = d
      /\ f.company = g.company /\ f.source = g.source /\ f.level = g.level /\ f.q = g.q
  BY <1>2 DEF Urls, Filters
<1> HIDE DEF f, g, a
<1>4. /\ a.ok = TRUE /\ a.at = writes
      /\ a.rows \in Seq(Rows) /\ Once(a.rows)
      /\ a.next \in Cursors /\ (a.next # None => a.next \in Wanted(f, None))
      /\ Listing(a.rows) = { Row(i) : i \in Wanted(f, None) \cap Reached(a.next) }
  BY Page DEF a
<1>5. /\ p.items \in Seq(Rows) /\ Once(p.items)
      /\ Listing(p.items) = { x \in Listing(a.rows) : x.stage # "archived" }
  <2> DEFINE b == notArchived(a.rows)
  <2>1. /\ b \in Seq(Rows) /\ Once(b)
        /\ Listing(b) = { x \in Listing(a.rows) : x.stage # "archived" }
    BY <1>4, Arrived
  <2> HIDE DEF b
  <2>2. /\ sortByImportance(b) \in Seq(Rows) /\ Once(sortByImportance(b))
        /\ Listing(sortByImportance(b)) = Listing(b)
    BY <2>1, Arrived
  <2> QED BY <1>1, <2>1, <2>2 DEF b
<1>6. \A i : i \in Wanted(f, None) <=>
               i \in Existing /\ (d # {} => stage[i] \in d)
               /\ f.company \in {None, Company[i]} /\ f.source \in {None, Source[i]}
               /\ f.level \in {None, Level[i]} /\ (f.q # None => i \in Mentions[f.q])
  BY <1>3 DEF Wanted, Finds
<1>7. \A i : i \in Existing /\ Finds(g, i) <=>
               i \in Existing /\ (c # {} => stage[i] \in c)
               /\ f.company \in {None, Company[i]} /\ f.source \in {None, Source[i]}
               /\ f.level \in {None, Level[i]} /\ (f.q # None => i \in Mentions[f.q])
  BY <1>3 DEF Finds
<1>8. ASSUME NEW x \in Listing(p.items)
      PROVE  /\ x.stage # "archived" /\ x.stage \in c
             /\ p.next # None => x.id >= p.next
  <2>1. x \in Listing(a.rows) /\ x.stage # "archived"
    BY <1>5
  <2>2. PICK i \in Wanted(f, None) \cap Reached(a.next) : x = Row(i)
    BY <1>4, <2>1
  <2>3. i \in Existing /\ x.stage = stage[i] /\ x.id = i
    BY <2>2, RowFacts DEF Reached
  <2>4. d # {} => stage[i] \in d
    BY <1>6, <2>2
  <2> QED BY <1>1, <1>2, <2>1, <2>2, <2>3, <2>4 DEF Reached
<1>9. ASSUME p.asOf = writes, c # {}
      PROVE  Listing(p.items) =
               { Row(i) : i \in { j \in Existing : Finds(p.filters, j) } \cap Reached(p.next) }
  <2>1. u.statuses = None \/ stages \cap u.statuses # {}
    BY <1>1, <1>9, NoneFacts DEF TableTyped
  <2>2. ASSUME NEW x \in Listing(p.items)
        PROVE  x \in { Row(i) : i \in { j \in Existing : Finds(p.filters, j) } \cap Reached(p.next) }
    <3>1. x \in Listing(a.rows) /\ x.stage # "archived" /\ x.stage \in c
      BY <1>5, <1>8
    <3>2. PICK i \in Wanted(f, None) \cap Reached(a.next) : x = Row(i)
      BY <1>4, <3>1
    <3>3. i \in Existing /\ x.stage = stage[i]
      BY <3>2, RowFacts DEF Reached
    <3>4. Finds(g, i)
      BY <1>6, <1>7, <3>1, <3>2, <3>3
    <3> QED BY <1>1, <3>2, <3>3, <3>4
  <2>3. ASSUME NEW i \in Existing, Finds(g, i), i \in Reached(p.next)
        PROVE  Row(i) \in Listing(p.items)
    <3>1. stage[i] \in c
      BY <1>7, <1>9, <2>3
    <3>2. d # {} /\ stage[i] \in d /\ stage[i] # "archived"
      BY <1>2, <2>1, <3>1
    <3>3. i \in Wanted(f, None)
      BY <1>6, <1>7, <2>3, <3>2
    <3>4. Row(i) \in Listing(a.rows) /\ Row(i).stage # "archived"
      BY <1>1, <1>4, <2>3, <3>2, <3>3, RowFacts
    <3> QED BY <1>5, <3>4
  <2> QED BY <1>1, <2>2, <2>3
<1> QED BY <1>1, <1>2, <1>3, <1>4, <1>5, <1>8, <1>9

-------------------------------------------------------------------------------
\* The steps, by what they touch.

\* Other filters are asked for, or the filters that show nothing are taken at once.
Refilter ==
  \E f \in Filters :
    "archived" \notin f.statuses /\ applyFilters(f) /\ box' \in Terms \cup {None}

BoxOnly == /\ box' \in Terms \cup {None}
           /\ UNCHANGED <<table, props, view, loading, seq, requests, url, stored, asOf>>

PinsOnly == /\ stored' \in Seq(Nat)
            /\ UNCHANGED <<table, props, view, box, loading, seq, requests, url, asOf>>

\* The stages a chip row can select are never archived.
LEMMA ChipRow ==
  ASSUME Typed
  PROVE  /\ rendered \subseteq VALID_STATES \ {"archived"}
         /\ defaultStages \subseteq VALID_STATES \ {"archived"}
<1>1. \A r \in listed : r.stage \in VALID_STATES \ {"archived"}
  BY DEF Typed, Props, Rows
<1>2. rendered \subseteq VALID_STATES \ {"archived"}
  BY <1>1 DEF rendered
<1>3. defaultStages \subseteq rendered
  BY DEF defaultStages, Default
<1> QED BY <1>2, <1>3

\* What is read from local storage, and what a toggle writes there, are lists of numbers.
LEMMA PinsTyped ==
  ASSUME NEW raw \in Seq(Nat), NEW id \in Nat
  PROVE  parsePins(raw) \in Seq(Nat) /\ togglePin(parsePins(raw), id) \in Seq(Nat)
<1> DEFINE firsts == { k \in DOMAIN raw : raw[k] > 0 /\ \A j \in 1..(k - 1) : raw[j] # raw[k] }
           count  == Cardinality(firsts)
           ids    == Kept(raw, firsts)
           cut    == IF count > MAX_PINS THEN MAX_PINS ELSE count
           pp     == parsePins(raw)
<1>1. firsts \in SUBSET (DOMAIN raw)
  OBVIOUS
<1>2. /\ count \in Nat
      /\ ids \in Seq(Nat)
      /\ DOMAIN ids = 1..count
  <2>1. IsFiniteSet(firsts) /\ firsts \in SUBSET Nat
    BY <1>1, Positions
  <2>2. DOMAIN ids = 1..count
    BY DEF Kept
  <2> HIDE DEF firsts
  <2> QED BY <1>1, <2>1, <2>2, KeptOf, FS_CardinalityType
<1>3. pp = [n \in 1..cut |-> ids[n]]
  BY DEF parsePins
<1> HIDE DEF ids, count, pp
<1>4. MAX_PINS \in Nat
  BY PinsAssumption
<1>5. cut \in Nat /\ \A n \in 1..cut : ids[n] \in Nat
  BY <1>2, <1>4
<1> HIDE DEF cut
<1>6. pp \in Seq(Nat)
  BY <1>3, <1>5
<1>7. togglePin(pp, id) \in Seq(Nat)
  <2> DEFINE K == { k \in DOMAIN pp : pp[k] # id }
  <2>1. K \in SUBSET (DOMAIN pp)
    OBVIOUS
  <2> HIDE DEF K
  <2>2. Kept(pp, K) \in Seq(Nat)
    BY <1>6, <2>1, KeptOf
  <2>3. Append(pp, id) \in Seq(Nat)
    BY <1>6
  <2> QED BY <2>2, <2>3 DEF togglePin, K
<1> QED BY <1>6, <1>7 DEF pp

\* Every step is one of ten.
LEMMA Kinds ==
  ASSUME Typed, Next
  PROVE  \/ Reload \/ Refilter \/ BoxOnly \/ loadMore \/ PinsOnly \/ Write
         \/ \E r \in requests : Serve(r) \/ Fail(r) \/ Drop(r) \/ Toast(r) \/ ShowPage(r) \/ AppendPage(r)
<1>1. /\ filters \in Filters /\ "archived" \notin filters.statuses
      /\ box \in Terms \cup {None} /\ stored \in Seq(Nat)
  BY DEF Typed, FiltersTyped
<1>2. /\ rendered \subseteq VALID_STATES \ {"archived"}
      /\ defaultStages \subseteq VALID_STATES \ {"archived"}
  BY ChipRow
<1>3. ASSUME NEW s \in rendered, toggleStatus(s) PROVE Refilter
  <2> DEFINE f == [filters EXCEPT !.statuses = IF s \in @ THEN @ \ {s} ELSE rendered \cap (@ \cup {s})]
  <2>1. f \in Filters /\ "archived" \notin f.statuses
    BY <1>1, <1>2 DEF Filters
  <2>2. applyFilters(f) /\ box' = box
    BY <1>3 DEF toggleStatus
  <2> HIDE DEF f
  <2> QED BY <1>1, <2>1, <2>2 DEF Refilter
<1>4. ASSUME Preset PROVE Refilter
  <2>1. PICK stages \in {rendered, activeRendered, {}} :
          applyFilters([filters EXCEPT !.statuses = stages])
    BY <1>4 DEF Preset
  <2> DEFINE f == [filters EXCEPT !.statuses = stages]
  <2>2. f \in Filters /\ "archived" \notin f.statuses
    BY <1>1, <1>2 DEF Filters, activeRendered
  <2>3. applyFilters(f) /\ box' = box
    BY <1>4, <2>1 DEF Preset
  <2> HIDE DEF f
  <2> QED BY <1>1, <2>2, <2>3 DEF Refilter
<1>5. ASSUME NEW c \in Companies \cup {None}, changeCompany(c) PROVE Refilter
  <2> DEFINE f == [filters EXCEPT !.company = c,
                     !.source = IF c # None /\ @ # None /\ ~Together(c, @) THEN None ELSE @]
  <2>1. f \in Filters /\ "archived" \notin f.statuses
    BY <1>1 DEF Filters
  <2>2. applyFilters(f) /\ box' = box
    BY <1>5 DEF changeCompany
  <2> HIDE DEF f
  <2> QED BY <1>1, <2>1, <2>2 DEF Refilter
<1>6. ASSUME NEW s \in Sources \cup {None}, changeSource(s) PROVE Refilter
  <2> DEFINE f == [filters EXCEPT !.source = s,
                     !.company = IF s # None /\ @ # None /\ ~Together(@, s) THEN None ELSE @]
  <2>1. f \in Filters /\ "archived" \notin f.statuses
    BY <1>1 DEF Filters
  <2>2. applyFilters(f) /\ box' = box
    BY <1>6 DEF changeSource
  <2> HIDE DEF f
  <2> QED BY <1>1, <2>1, <2>2 DEF Refilter
<1>7. ASSUME NEW l \in Levels \cup {None}, changeLevel(l) PROVE Refilter
  <2> DEFINE f == [filters EXCEPT !.level = l]
  <2>1. f \in Filters /\ "archived" \notin f.statuses
    BY <1>1 DEF Filters
  <2>2. applyFilters(f) /\ box' = box
    BY <1>7 DEF changeLevel
  <2> HIDE DEF f
  <2> QED BY <1>1, <2>1, <2>2 DEF Refilter
<1>8. ASSUME submitSearch PROVE Refilter
  <2> DEFINE f == [filters EXCEPT !.q = box]
  <2>1. f \in Filters /\ "archived" \notin f.statuses
    BY <1>1 DEF Filters
  <2>2. applyFilters(f) /\ box' = box
    BY <1>8 DEF submitSearch
  <2> HIDE DEF f
  <2> QED BY <1>1, <2>1, <2>2 DEF Refilter
<1>9. ASSUME ClearBox PROVE Refilter \/ BoxOnly
  <2> DEFINE f == [filters EXCEPT !.q = None]
  <2>1. f \in Filters /\ "archived" \notin f.statuses
    BY <1>1 DEF Filters
  <2>2. box' = None
    BY <1>9 DEF ClearBox
  <2>3. CASE filters.q # None
    <3>1. applyFilters(f)
      BY <1>9, <2>3 DEF ClearBox
    <3> HIDE DEF f
    <3> QED BY <2>1, <2>2, <3>1 DEF Refilter
  <2>4. CASE ~(filters.q # None)
    BY <1>9, <2>2, <2>4 DEF ClearBox, BoxOnly
  <2> QED BY <2>3, <2>4
<1>10. ASSUME clearAllFilters PROVE Refilter
  <2>1. noFilters \in Filters /\ "archived" \notin noFilters.statuses
    BY <1>2 DEF Filters, noFilters
  <2>2. applyFilters(noFilters) /\ box' = None
    BY <1>10 DEF clearAllFilters
  <2> QED BY <2>1, <2>2 DEF Refilter
<1>11. ASSUME NEW term \in Terms, Type(term) PROVE BoxOnly
  BY <1>11 DEF Type, BoxOnly
<1>12. ASSUME NEW id \in Pinnable, onPinToggle(id) PROVE PinsOnly
  <2>1. id \in Nat
    BY ListAssumption, NoneFacts
  <2>2. stored' = togglePin(parsePins(stored), id)
    BY <1>12 DEF onPinToggle, pins
  <2>3. stored' \in Seq(Nat)
    BY <1>1, <2>1, <2>2, PinsTyped
  <2> QED BY <1>12, <2>3 DEF onPinToggle, PinsOnly
<1>13. ASSUME clearPins PROVE PinsOnly
  BY <1>13 DEF clearPins, PinsOnly
<1> QED BY <1>3, <1>4, <1>5, <1>6, <1>7, <1>8, <1>9, <1>10, <1>11, <1>12, <1>13 DEF Next

-------------------------------------------------------------------------------
\* The types are kept.

\* A new render brings rows that are not archived.
LEMMA RenderTyped ==
  ASSUME TableTyped, active' \in Transitions, listed' = Current
  PROVE  Props'
<1>1. active' \in {ACTIVE_STATES, {}}
  BY ListAssumption
<1> QED BY <1>1, StageSets DEF Props

\* Whatever is written elsewhere, the table is one.
LEMMA TableKept ==
  ASSUME TableTyped, Write \/ UNCHANGED table
  PROVE  TableTyped'
<1>1. CASE UNCHANGED table
  BY <1>1 DEF TableTyped, table
<1>2. CASE Write
  <2>1. writes' \in Nat
    BY <1>2 DEF Write, TableTyped
  <2>2. Stages \subseteq VALID_STATES
    BY ListAssumption
  <2>3. stage' \in [Ids -> VALID_STATES \cup {None}]
    <3>1. \/ \E i \in Existing, s \in Stages \cup {None} : stage' = [stage EXCEPT ![i] = s]
          \/ \E s \in Stages : stage' = [stage EXCEPT ![born'] = s]
      BY <1>2 DEF Write
    <3> QED BY <2>2, <3>1 DEF TableTyped
  <2> QED BY <2>1, <2>3 DEF TableTyped
<1> QED BY <1>1, <1>2

\* A new request takes the next ticket.
LEMMA RequestStep ==
  ASSUME RequestsTyped, TicketInv, NEW f \in Filters, "archived" \notin f.statuses,
         NEW after \in Cursors, defaultStages \subseteq VALID_STATES, Request(f, after)
  PROVE  RequestsTyped' /\ TicketInv'
<1> DEFINE new == [ticket |-> seq + 1, for |-> f, default |-> defaultStages,
                   after |-> after, answer |-> None]
<1>1. seq \in Nat /\ seq' = seq + 1 /\ requests' = requests \cup {new} /\ loading' = TRUE
  BY DEF Request, RequestsTyped
<1>2. new \in Requests /\ new.ticket = seq' /\ "archived" \notin new.for.statuses
  BY <1>1 DEF Requests, Answers
<1> HIDE DEF new
<1>3. \A r \in requests : r.ticket \in Nat /\ r.ticket <= seq /\ r \in Requests
                          /\ "archived" \notin r.for.statuses
  BY DEF RequestsTyped, Requests
<1>4. \A r \in requests : r.ticket < seq' /\ r.ticket # new.ticket
  BY <1>1, <1>2, <1>3
<1>5. RequestsTyped'
  BY <1>1, <1>2, <1>3, <1>4 DEF RequestsTyped
<1>6. TicketInv'
  <2>1. \A q, r \in requests' : q.ticket = r.ticket => q = r
    BY <1>1, <1>4 DEF TicketInv
  <2>2. \E r \in requests' : (Newest(r))'
    BY <1>1, <1>2 DEF Newest
  <2> QED BY <1>1, <2>1, <2>2 DEF TicketInv
<1> QED BY <1>5, <1>6

\* An answer changes neither the tickets nor what was asked.
LEMMA AnswerStep ==
  ASSUME RequestsTyped, TicketInv, NEW r \in requests, NEW a \in Answers,
         Answered(r, a), UNCHANGED <<seq, loading>>
  PROVE  RequestsTyped' /\ TicketInv'
<1> DEFINE new == [r EXCEPT !.answer = a]
<1>1. requests' = (requests \ {r}) \cup {new} /\ seq' = seq /\ loading' = loading
  BY DEF Answered
<1>2. /\ new \in Requests /\ new.ticket = r.ticket /\ new.for = r.for
  BY DEF Requests, RequestsTyped
<1> HIDE DEF new
<1>3. RequestsTyped'
  BY <1>1, <1>2 DEF RequestsTyped
<1>4. \A p, q \in requests' : p.ticket = q.ticket => p = q
  BY <1>1, <1>2 DEF TicketInv
<1>5. (\E q \in requests' : (Newest(q))') <=> \E q \in requests : Newest(q)
  BY <1>1, <1>2 DEF Newest
<1> QED BY <1>1, <1>3, <1>4, <1>5 DEF TicketInv

\* With an answer its request is gone; of the newest, the waiting is over.
LEMMA DoneStep ==
  ASSUME RequestsTyped, TicketInv, NEW r \in requests, Done(r),
         loading' = IF Newest(r) THEN FALSE ELSE loading
  PROVE  RequestsTyped' /\ TicketInv'
<1>1. requests' = requests \ {r} /\ seq' = IF requests' = {} THEN 0 ELSE seq
  BY DEF Done
<1>2. \A q \in requests : q.ticket \in Nat \ {0} /\ q.ticket <= seq /\ q \in Requests
                          /\ "archived" \notin q.for.statuses
  BY DEF RequestsTyped, Requests
<1>3. seq' \in Nat /\ (requests' # {} => seq' = seq)
  BY <1>1 DEF RequestsTyped
<1>4. RequestsTyped'
  BY <1>1, <1>2, <1>3 DEF RequestsTyped
<1>5. \A p, q \in requests' : p.ticket = q.ticket => p = q
  BY <1>1 DEF TicketInv
<1>6. CASE Newest(r)
  <2>1. \A q \in requests' : q.ticket # seq'
    BY <1>1, <1>3, <1>6 DEF TicketInv, Newest
  <2> QED BY <1>4, <1>5, <1>6, <2>1 DEF TicketInv, Newest
<1>7. CASE ~Newest(r)
  <2>1. (\E q \in requests' : q.ticket = seq') <=> \E q \in requests : q.ticket = seq
    BY <1>1, <1>2, <1>3, <1>7 DEF Newest
  <2> QED BY <1>4, <1>5, <1>7, <2>1 DEF TicketInv, Newest
<1> QED BY <1>6, <1>7

\* Nothing is asked and nothing answered.
LEMMA QuietStep ==
  ASSUME RequestsTyped, TicketInv, UNCHANGED <<loading, seq, requests>>
  PROVE  RequestsTyped' /\ TicketInv'
BY DEF RequestsTyped, TicketInv, Newest

\* A page of the API is an answer.
LEMMA QueryAnswers ==
  ASSUME TableTyped, NEW f, NEW after
  PROVE  ListQuery(f, after) \in Answers
<1> DEFINE a == ListQuery(f, after)
<1>1. a.rows \in Seq(Rows) /\ a.next \in Cursors /\ a.at \in Nat
  <2>1. a = ListQuery(f, after)
    OBVIOUS
  <2> HIDE DEF a
  <2> QED BY <2>1, Page DEF TableTyped
<1>2. \E rw, nx, at : a = [ok |-> TRUE, rows |-> rw, next |-> nx, at |-> at]
  BY DEF ListQuery
<1> HIDE DEF a
<1>3. PICK rw, nx, at : a = [ok |-> TRUE, rows |-> rw, next |-> nx, at |-> at]
  BY <1>2
<1>4. rw \in Seq(Rows) /\ nx \in Cursors /\ at \in Nat
  BY <1>1, <1>3
<1>5. a \in [ok: {TRUE}, rows: Seq(Rows), next: Cursors, at: Nat]
  BY <1>3, <1>4
<1> QED BY <1>5 DEF Answers, a

\* What an answer that came well holds.
LEMMA AnswerTyped ==
  ASSUME RequestsTyped, NEW r \in requests, Come(r)
  PROVE  /\ r.answer.rows \in Seq(Rows) /\ r.answer.next \in Cursors /\ r.answer.at \in Nat
         /\ r.for \in Filters /\ "archived" \notin r.for.statuses /\ r.after \in Cursors
<1>1. r \in Requests
  BY DEF RequestsTyped
<1>2. r.answer \in Answers /\ r.answer # None /\ r.answer.ok
  BY <1>1 DEF Come, Requests
<1>3. r.answer \in [ok: {TRUE}, rows: Seq(Rows), next: Cursors, at: Nat]
  BY <1>2 DEF Answers
<1> QED BY <1>1, <1>3 DEF RequestsTyped, Requests

\* Two lists, one behind the other.
LEMMA Joined ==
  ASSUME NEW p \in Seq(Rows), NEW q \in Seq(Rows)
  PROVE  /\ p \o q \in Seq(Rows)
         /\ Listing(p \o q) = Listing(p) \cup Listing(q)
         /\ Once(p) /\ Once(q) /\ (\A x \in Listing(p), y \in Listing(q) : x.id # y.id)
              => Once(p \o q)
<1> DEFINE m == Len(p)
           n == Len(q)
           r == p \o q
<1>1. /\ m \in Nat /\ n \in Nat /\ r \in Seq(Rows)
      /\ DOMAIN p = 1..m /\ DOMAIN q = 1..n /\ DOMAIN r = 1..(m + n)
      /\ \A k \in 1..m : r[k] = p[k]
      /\ \A k \in (m + 1)..(m + n) : r[k] = q[k - m]
  OBVIOUS
<1> HIDE DEF m, n, r
<1>2. /\ \A k \in 1..(m + n) : k \in 1..m \/ (k \in (m + 1)..(m + n) /\ k - m \in 1..n)
      /\ \A k \in 1..m : k \in 1..(m + n)
      /\ \A k \in 1..n : k + m \in 1..(m + n) /\ k + m \in (m + 1)..(m + n) /\ (k + m) - m = k
  BY <1>1
<1>3. ASSUME NEW x \in Listing(r) PROVE x \in Listing(p) \cup Listing(q)
  BY <1>1, <1>2 DEF Listing
<1>4. ASSUME NEW x \in Listing(p) PROVE x \in Listing(r)
  BY <1>1, <1>2 DEF Listing
<1>5. ASSUME NEW x \in Listing(q) PROVE x \in Listing(r)
  <2>1. PICK k \in 1..n : x = q[k]
    BY <1>1 DEF Listing
  <2>2. x = r[k + m]
    BY <1>1, <1>2, <2>1
  <2> QED BY <1>1, <1>2, <2>2 DEF Listing
<1>6. ASSUME Once(p), Once(q), \A x \in Listing(p), y \in Listing(q) : x.id # y.id
      PROVE  Once(r)
  <2> SUFFICES ASSUME NEW j \in 1..(m + n), NEW k \in 1..(m + n), r[j].id = r[k].id
               PROVE  j = k
    BY <1>1 DEF Once
  <2>1. CASE j \in 1..m /\ k \in 1..m
    BY <1>1, <1>6, <2>1 DEF Once
  <2>2. CASE j \notin 1..m /\ k \notin 1..m
    <3>1. j - m \in 1..n /\ k - m \in 1..n /\ r[j] = q[j - m] /\ r[k] = q[k - m]
      BY <1>1, <1>2, <2>2
    <3>2. j - m = k - m
      BY <1>1, <1>6, <3>1 DEF Once
    <3> QED BY <1>1, <3>2
  <2>3. CASE j \in 1..m /\ k \notin 1..m
    <3>1. r[j] \in Listing(p) /\ r[k] \in Listing(q)
      BY <1>1, <1>2, <2>3 DEF Listing
    <3> QED BY <1>6, <3>1
  <2>4. CASE j \notin 1..m /\ k \in 1..m
    <3>1. r[k] \in Listing(p)
      BY <1>1, <2>4 DEF Listing
    <3>2. j - m \in 1..n /\ r[j] = q[j - m]
      BY <1>1, <1>2, <2>4
    <3>3. r[j] \in Listing(q)
      BY <1>1, <3>2 DEF Listing
    <3> QED BY <1>6, <3>1, <3>3
  <2> QED BY <2>1, <2>2, <2>3, <2>4
<1> QED BY <1>1, <1>3, <1>4, <1>5, <1>6 DEF r

\* The rows between two cursors, by the definitions of the queries.
LEMMA SpanIs ==
  ASSUME TableTyped, NEW f, NEW after, NEW from
  PROVE  /\ { Row(i) : i \in Wanted(f, after) \cap Reached(from) } = Span(stage, f, after, from)
         /\ { Row(i) : i \in { j \in Existing : Finds(f, j) } \cap Reached(from) }
              = Span(stage, f, None, from)
<1>1. Wanted(f, after) \cap Reached(from)
        = { j \in Ids : /\ stage[j] # None /\ Hits(stage, f, j)
                        /\ after # None => j < after
                        /\ from # None => j >= from }
  BY DEF Wanted, Reached, Existing, Finds, Hits
<1>2. { j \in Existing : Finds(f, j) } \cap Reached(from)
        = { j \in Ids : /\ stage[j] # None /\ Hits(stage, f, j)
                        /\ None # None => j < None
                        /\ from # None => j >= from }
  BY DEF Reached, Existing, Finds, Hits
<1> QED BY <1>1, <1>2 DEF Span, Row

\* An address is one, and stays without archived.
LEMMA UrlStep ==
  ASSUME NEW f \in Filters, "archived" \notin f.statuses, NEW default, syncUrl(f, default),
         TableTyped
  PROVE  UrlTyped' /\ Props'
<1>1. url' = [f EXCEPT !.statuses = IF @ \in {{}, default} THEN None ELSE @]
  BY DEF syncUrl
<1>2. url' \in Urls /\ (url'.statuses # None => "archived" \notin url'.statuses)
  BY <1>1 DEF Urls, Filters
<1>3. Props'
  BY RenderTyped DEF syncUrl
<1> QED BY <1>2, <1>3 DEF UrlTyped

\* Opening the address shows a list of the right types.
LEMMA ReloadTyped ==
  ASSUME Typed, Reload
  PROVE  Typed' /\ TicketInv'
<1> DEFINE p == Painted(url, active')
<1>1. /\ active' \in Transitions /\ listed' = Current
      /\ filters' = p.filters /\ items' = p.items /\ next' = p.next /\ asOf' = p.asOf
      /\ box' = url.q /\ loading' = FALSE /\ seq' = 0 /\ requests' = {}
      /\ UNCHANGED table /\ url' = url /\ stored' = stored
  BY DEF Reload
<1>2. active' \in {ACTIVE_STATES, {}}
  BY <1>1, ListAssumption
<1>3. TableTyped /\ url \in Urls /\ (url.statuses # None => "archived" \notin url.statuses)
      /\ stored \in Seq(Nat)
  BY DEF Typed, UrlTyped
<1>4. /\ p.filters \in Filters /\ "archived" \notin p.filters.statuses
      /\ p.items \in Seq(Rows) /\ p.next \in Cursors
      /\ \A x \in Listing(p.items) : x.stage # "archived"
  <2>1. p = Painted(url, active')
    OBVIOUS
  <2> HIDE DEF p
  <2> QED BY <1>2, <1>3, <2>1, Paint
<1> HIDE DEF p
<1>5. FiltersTyped' /\ ItemsTyped'
  BY <1>1, <1>4 DEF FiltersTyped, ItemsTyped
<1>6. TableTyped' /\ Props'
  BY <1>1, <1>3, TableKept, RenderTyped
<1>7. UrlTyped' /\ box' \in Terms \cup {None} /\ stored' \in Seq(Nat)
  BY <1>1, <1>3 DEF UrlTyped, Urls
<1>8. RequestsTyped' /\ TicketInv'
  BY <1>1 DEF RequestsTyped, TicketInv
<1> QED BY <1>5, <1>6, <1>7, <1>8 DEF Typed

\* Filtering keeps the types.
LEMMA RefilterTyped ==
  ASSUME Typed, TicketInv, Refilter
  PROVE  Typed' /\ TicketInv'
<1>1. PICK f \in Filters :
        "archived" \notin f.statuses /\ applyFilters(f) /\ box' \in Terms \cup {None}
  BY DEF Refilter
<1>2. /\ UNCHANGED table /\ items' = items /\ next' = next /\ stored' = stored
      /\ TableTyped' /\ ItemsTyped' /\ stored' \in Seq(Nat)
  <2>1. UNCHANGED table /\ items' = items /\ next' = next /\ stored' = stored
    BY <1>1 DEF applyFilters
  <2> QED BY <2>1, TableKept DEF Typed, ItemsTyped
<1>3. CASE f.statuses = {}
  <2>1. filters' = f /\ syncUrl(f, defaultStages) /\ UNCHANGED <<loading, seq, requests>>
    BY <1>1, <1>3 DEF applyFilters
  <2>2. UrlTyped' /\ Props' /\ FiltersTyped'
    BY <1>1, <2>1, UrlStep DEF Typed, FiltersTyped
  <2>3. RequestsTyped' /\ TicketInv'
    BY <2>1, QuietStep DEF Typed
  <2> QED BY <1>1, <1>2, <2>2, <2>3 DEF Typed
<1>4. CASE f.statuses # {}
  <2>1. Request(f, None) /\ UNCHANGED <<filters, url, props>>
    BY <1>1, <1>4 DEF applyFilters
  <2>2. UrlTyped' /\ Props' /\ FiltersTyped'
    BY <2>1 DEF Typed, FiltersTyped, UrlTyped, Props, props
  <2>3. RequestsTyped' /\ TicketInv'
    BY <1>1, <2>1, RequestStep, ChipRow DEF Typed, Cursors
  <2> QED BY <1>1, <1>2, <2>2, <2>3 DEF Typed
<1> QED BY <1>3, <1>4

\* An answer that lands keeps the types.
LEMMA LandTyped ==
  ASSUME Typed, TicketInv, NEW r \in requests, Toast(r) \/ ShowPage(r) \/ AppendPage(r)
  PROVE  Typed' /\ TicketInv'
<1>1. /\ r.answer # None /\ Newest(r) /\ Done(r) /\ loading' = FALSE
      /\ UNCHANGED table /\ box' = box /\ stored' = stored
  BY DEF Toast, ShowPage, AppendPage, Land
<1>2. RequestsTyped' /\ TicketInv'
  BY <1>1, DoneStep DEF Typed
<1>3. TableTyped' /\ box' \in Terms \cup {None} /\ stored' \in Seq(Nat)
  BY <1>1, TableKept DEF Typed
<1>4. CASE Toast(r)
  <2>1. UNCHANGED <<view, url, props>>
    BY <1>4 DEF Toast
  <2> QED BY <1>2, <1>3, <2>1 DEF Typed, FiltersTyped, ItemsTyped, UrlTyped, Props, props, view
<1>5. ASSUME r.answer.ok
      PROVE  /\ r.answer.rows \in Seq(Rows) /\ r.answer.next \in Cursors
             /\ r.for \in Filters /\ "archived" \notin r.for.statuses
             /\ notArchived(r.answer.rows) \in Seq(Rows)
             /\ \A x \in Listing(notArchived(r.answer.rows)) : x.stage # "archived"
  <2>1. Come(r) /\ RequestsTyped
    BY <1>1, <1>5 DEF Come, Typed
  <2> QED BY <2>1, AnswerTyped, Arrived
<1>6. CASE ShowPage(r)
  <2> DEFINE b == notArchived(r.answer.rows)
  <2>1. /\ r.answer.ok /\ filters' = r.for /\ syncUrl(r.for, r.default)
        /\ items' = sortByImportance(b) /\ next' = r.answer.next
    BY <1>6 DEF ShowPage
  <2>2. b \in Seq(Rows) /\ \A x \in Listing(b) : x.stage # "archived"
    BY <1>5, <2>1
  <2> HIDE DEF b
  <2>3. items' \in Seq(Rows) /\ \A x \in Listing(items') : x.stage # "archived"
    BY <2>1, <2>2, Arrived
  <2>4. FiltersTyped' /\ ItemsTyped'
    BY <1>5, <2>1, <2>3 DEF FiltersTyped, ItemsTyped
  <2>5. UrlTyped' /\ Props'
    BY <1>5, <2>1, UrlStep DEF Typed
  <2> QED BY <1>2, <1>3, <2>4, <2>5 DEF Typed
<1>7. CASE AppendPage(r)
  <2> DEFINE b == notArchived(r.answer.rows)
  <2>1. /\ r.answer.ok /\ items' = items \o b /\ next' = r.answer.next
        /\ UNCHANGED <<filters, url, props>>
    BY <1>7 DEF AppendPage, Appended
  <2>2. b \in Seq(Rows) /\ \A x \in Listing(b) : x.stage # "archived"
    BY <1>5, <2>1
  <2> HIDE DEF b
  <2>3. items \in Seq(Rows) /\ \A x \in Listing(items) : x.stage # "archived"
    BY DEF Typed, ItemsTyped
  <2>4. items' \in Seq(Rows) /\ \A x \in Listing(items') : x.stage # "archived"
    BY <2>1, <2>2, <2>3, Joined
  <2>5. FiltersTyped' /\ ItemsTyped' /\ UrlTyped' /\ Props'
    BY <1>5, <2>1, <2>4 DEF Typed, FiltersTyped, ItemsTyped, UrlTyped, Props, props
  <2> QED BY <1>2, <1>3, <2>5 DEF Typed
<1> QED BY <1>4, <1>6, <1>7

\* Every step keeps the types and the tickets.
LEMMA TypedStep ==
  ASSUME Typed, TicketInv, [Next]_vars
  PROVE  Typed' /\ TicketInv'
<1>1. CASE UNCHANGED vars
  BY <1>1, QuietStep, TableKept
     DEF vars, Typed, FiltersTyped, ItemsTyped, UrlTyped, Props, props, view
<1>2. CASE Reload
  BY <1>2, ReloadTyped
<1>3. CASE Refilter
  BY <1>3, RefilterTyped
<1>4. ASSUME UNCHANGED <<props, view, url>>, TableTyped', RequestsTyped', TicketInv',
             box' \in Terms \cup {None}, stored' \in Seq(Nat)
      PROVE  Typed' /\ TicketInv'
  BY <1>4 DEF Typed, FiltersTyped, ItemsTyped, UrlTyped, Props, props, view
<1>5. CASE BoxOnly
  <2>1. UNCHANGED <<table, props, view, url>> /\ UNCHANGED <<loading, seq, requests>>
        /\ stored' = stored /\ box' \in Terms \cup {None}
    BY <1>5 DEF BoxOnly
  <2> QED BY <1>4, <2>1, QuietStep, TableKept DEF Typed
<1>6. CASE PinsOnly
  <2>1. UNCHANGED <<table, props, view, url>> /\ UNCHANGED <<loading, seq, requests>>
        /\ stored' \in Seq(Nat) /\ box' = box
    BY <1>6 DEF PinsOnly
  <2> QED BY <1>4, <2>1, QuietStep, TableKept DEF Typed
<1>7. CASE Write
  <2>1. UNCHANGED <<props, view, url>> /\ UNCHANGED <<loading, seq, requests>>
        /\ stored' = stored /\ box' = box
    BY <1>7 DEF Write
  <2> QED BY <1>4, <1>7, <2>1, QuietStep, TableKept DEF Typed
<1>8. CASE loadMore
  <2>1. UNCHANGED <<table, props, view, url>> /\ stored' = stored /\ box' = box
        /\ Request(filters, next)
    BY <1>8 DEF loadMore
  <2>2. RequestsTyped' /\ TicketInv'
    BY <2>1, RequestStep, ChipRow DEF Typed, FiltersTyped, ItemsTyped
  <2> QED BY <1>4, <2>1, <2>2, TableKept DEF Typed
<1>9. ASSUME NEW r \in requests, Serve(r) \/ Fail(r) PROVE Typed' /\ TicketInv'
  <2>1. UNCHANGED <<table, props, view, url>> /\ UNCHANGED <<seq, loading>>
        /\ stored' = stored /\ box' = box
    BY <1>9 DEF Serve, Fail
  <2>2. PICK a \in Answers : Answered(r, a)
    BY <1>9, QueryAnswers DEF Serve, Fail, Typed, Answers
  <2>3. RequestsTyped' /\ TicketInv'
    BY <2>1, <2>2, AnswerStep DEF Typed
  <2> QED BY <1>4, <2>1, <2>3, TableKept DEF Typed
<1>10. ASSUME NEW r \in requests, Drop(r) PROVE Typed' /\ TicketInv'
  <2>1. UNCHANGED <<table, props, view, url>> /\ stored' = stored /\ box' = box
        /\ Done(r) /\ ~Newest(r) /\ loading' = loading
    BY <1>10 DEF Drop
  <2>2. RequestsTyped' /\ TicketInv'
    BY <2>1, DoneStep DEF Typed
  <2> QED BY <1>4, <2>1, <2>2, TableKept DEF Typed
<1> QED BY <1>1, <1>2, <1>3, <1>5, <1>6, <1>7, <1>8, <1>9, <1>10, LandTyped, Kinds

-------------------------------------------------------------------------------
\* What answers say.

\* A page holds the rows between two cursors.
LEMMA PageSpan ==
  ASSUME TableTyped, NEW f, NEW after, NEW a, a = ListQuery(f, after)
  PROVE  /\ a.at = writes /\ Once(a.rows)
         /\ a.next \in Cursors /\ (a.next # None => a.next \in Wanted(f, after))
         /\ Listing(a.rows) = Span(stage, f, after, a.next)
<1>1. Listing(a.rows) = { Row(i) : i \in Wanted(f, after) \cap Reached(a.next) }
  BY Page
<1>2. { Row(i) : i \in Wanted(f, after) \cap Reached(a.next) } = Span(stage, f, after, a.next)
  BY SpanIs
<1>3. /\ a.at = writes /\ Once(a.rows)
      /\ a.next \in Cursors /\ (a.next # None => a.next \in Wanted(f, after))
  BY Page
<1> QED BY <1>1, <1>2, <1>3

\* The API's answer to a request says what it must.
LEMMA ServedSays ==
  ASSUME TableTyped, NEW f, NEW after, NEW a, a = ListQuery(f, after),
         NEW r, r.for = f, r.after = after, r.answer = a
  PROVE  Says(stage, writes, r)
<1>1. /\ a.at = writes /\ Once(a.rows)
      /\ a.next \in Cursors /\ (a.next # None => a.next \in Wanted(f, after))
      /\ Listing(a.rows) = Span(stage, f, after, a.next)
  BY PageSpan
<1>4. writes \in Nat
  BY DEF TableTyped
<1>5. \A i \in Wanted(f, after) :
        /\ i \in Existing
        /\ f.statuses # {} => stage[i] \in f.statuses
        /\ after # None => i < after
  BY DEF Wanted, Finds
<1>6. ASSUME NEW x \in Listing(a.rows)
      PROVE  /\ f.statuses # {} => x.stage \in f.statuses
             /\ after # None => x.id < after
             /\ a.next # None => x.id >= a.next
  <2>1. PICK i \in Ids : /\ x = [id |-> i, stage |-> stage[i]]
                         /\ stage[i] # None /\ Hits(stage, f, i)
                         /\ after # None => i < after
                         /\ a.next # None => i >= a.next
    BY <1>1 DEF Span
  <2> QED BY <2>1 DEF Hits
<1>7. a.next # None /\ after # None => a.next < after
  BY <1>1, <1>5
<1> QED BY <1>1, <1>4, <1>6, <1>7 DEF Says

\* What an answer says it still says, whatever is written and whoever else is answered.
LEMMA AnswersStep ==
  ASSUME Typed, AnswerInv, [Next]_vars
  PROVE  AnswerInv'
<1>1. ASSUME UNCHANGED table, requests' \subseteq requests PROVE AnswerInv'
  BY <1>1 DEF AnswerInv, table, Come
<1>2. ASSUME UNCHANGED table, NEW f, NEW after, Request(f, after) PROVE AnswerInv'
  <2> DEFINE new == [ticket |-> seq + 1, for |-> f, default |-> defaultStages,
                     after |-> after, answer |-> None]
  <2>1. requests' = requests \cup {new} /\ new.answer = None
    BY <1>2 DEF Request
  <2> HIDE DEF new
  <2> QED BY <1>2, <2>1 DEF AnswerInv, table, Come
<1>3. CASE UNCHANGED vars
  BY <1>1, <1>3 DEF vars
<1>4. CASE Reload
  BY <1>1, <1>4 DEF Reload
<1>5. CASE Refilter
  <2>1. PICK f \in Filters : applyFilters(f)
    BY <1>5 DEF Refilter
  <2> QED BY <1>1, <1>2, <2>1 DEF applyFilters
<1>6. CASE BoxOnly
  BY <1>1, <1>6 DEF BoxOnly
<1>7. CASE PinsOnly
  BY <1>1, <1>7 DEF PinsOnly
<1>8. CASE loadMore
  BY <1>2, <1>8 DEF loadMore
<1>9. CASE Write
  <2>1. requests' = requests /\ writes' = writes + 1 /\ writes \in Nat
    BY <1>9 DEF Write, Typed, TableTyped
  <2>2. ASSUME NEW r \in requests, Come(r) PROVE Says(stage', writes', r)
    <3>1. Says(stage, writes, r) /\ r.answer.at \in Nat
      BY <2>2, AnswerTyped DEF AnswerInv, Typed
    <3>2. r.answer.at <= writes' /\ r.answer.at # writes'
      BY <2>1, <3>1 DEF Says
    <3> QED BY <3>1, <3>2 DEF Says
  <2> QED BY <2>1, <2>2 DEF AnswerInv, Come
<1>10. ASSUME NEW r \in requests, Serve(r) PROVE AnswerInv'
  <2> DEFINE new == [r EXCEPT !.answer = ListQuery(r.for, r.after)]
  <2>1. requests' = (requests \ {r}) \cup {new} /\ stage' = stage /\ writes' = writes
    BY <1>10 DEF Serve, Answered, table
  <2>2. r \in Requests
    BY DEF Typed, RequestsTyped
  <2>3. new.for = r.for /\ new.after = r.after /\ new.answer = ListQuery(r.for, r.after)
    BY <2>2 DEF Requests
  <2> HIDE DEF new
  <2>4. Says(stage, writes, new)
    BY <2>3, ServedSays DEF Typed
  <2> QED BY <2>1, <2>4 DEF AnswerInv, Come
<1>11. ASSUME NEW r \in requests, Fail(r) PROVE AnswerInv'
  <2> DEFINE new == [r EXCEPT !.answer = [ok |-> FALSE]]
  <2>1. requests' = (requests \ {r}) \cup {new} /\ stage' = stage /\ writes' = writes
    BY <1>11 DEF Fail, Answered, table
  <2>2. r \in Requests
    BY DEF Typed, RequestsTyped
  <2>3. new.answer.ok = FALSE
    BY <2>2 DEF Requests
  <2> HIDE DEF new
  <2> QED BY <2>1, <2>3 DEF AnswerInv, Come
<1>12. ASSUME NEW r \in requests, Drop(r) \/ Toast(r) \/ ShowPage(r) \/ AppendPage(r)
       PROVE  AnswerInv'
  <2>1. UNCHANGED table /\ Done(r)
    BY <1>12 DEF Drop, Toast, ShowPage, AppendPage, Land
  <2> QED BY <1>1, <2>1 DEF Done
<1> QED BY <1>3, <1>4, <1>5, <1>6, <1>7, <1>8, <1>9, <1>10, <1>11, <1>12, Kinds

\* The newest request for more asks behind the list, until another request is the newest.
LEMMA MoreStep ==
  ASSUME Typed, TicketInv, MoreInv, ListInv, [Next]_vars
  PROVE  MoreInv'
<1>0. \A r \in requests : r \in Requests /\ r.ticket \in Nat /\ r.ticket <= seq /\ seq \in Nat
  BY DEF Typed, RequestsTyped, Requests
<1>1. ASSUME UNCHANGED <<view, asOf, seq, requests>> PROVE MoreInv'
  BY <1>1 DEF MoreInv, view, Newest, Come
<1>2. ASSUME NEW f, NEW after, Request(f, after),
             after # None => after = next' /\ f = filters'
      PROVE  MoreInv'
  <2> DEFINE new == [ticket |-> seq', for |-> f, default |-> defaultStages,
                     after |-> after, answer |-> None]
  <2>1. /\ requests' = requests \cup {new} /\ seq' = seq + 1
        /\ new.answer = None /\ new.for = f /\ new.after = after
    BY <1>2 DEF Request
  <2> HIDE DEF new
  <2>2. \A r \in requests : r.ticket # seq'
    BY <1>0, <2>1
  <2> QED BY <1>2, <2>1, <2>2 DEF MoreInv, Newest, Come
<1>3. CASE UNCHANGED vars
  BY <1>1, <1>3 DEF vars
<1>4. CASE Reload
  BY <1>4 DEF Reload, MoreInv
<1>5. CASE Refilter
  <2>1. PICK f \in Filters : applyFilters(f)
    BY <1>5 DEF Refilter
  <2>2. CASE f.statuses = {}
    <3>1. filters' = f /\ next' = next /\ asOf' = asOf /\ seq' = seq /\ requests' = requests
      BY <2>1, <2>2 DEF applyFilters
    <3> QED BY <2>2, <3>1 DEF MoreInv, Newest, Come
  <2>3. CASE f.statuses # {}
    BY <1>2, <2>1, <2>3 DEF applyFilters
  <2> QED BY <2>2, <2>3
<1>6. CASE BoxOnly
  BY <1>1, <1>6 DEF BoxOnly
<1>7. CASE PinsOnly
  BY <1>1, <1>7 DEF PinsOnly
<1>8. CASE loadMore
  BY <1>2, <1>8 DEF loadMore, view
<1>9. CASE Write
  BY <1>1, <1>9 DEF Write
<1>10. ASSUME NEW r \in requests, NEW a, Answered(r, a), UNCHANGED <<view, asOf, seq>>,
              a # None /\ a.ok /\ asOf # None => asOf <= a.at
       PROVE  MoreInv'
  <2> DEFINE new == [r EXCEPT !.answer = a]
  <2>1. /\ requests' = (requests \ {r}) \cup {new}
        /\ filters' = filters /\ next' = next /\ asOf' = asOf /\ seq' = seq
    BY <1>10 DEF Answered, view
  <2>2. new.for = r.for /\ new.after = r.after /\ new.ticket = r.ticket /\ new.answer = a
    BY <1>0 DEF Requests
  <2> HIDE DEF new
  <2> QED BY <1>10, <2>1, <2>2 DEF MoreInv, Newest, Come
<1>11. ASSUME NEW r \in requests, Serve(r) PROVE MoreInv'
  <2> DEFINE a == ListQuery(r.for, r.after)
  <2>1. a.at = writes
    BY DEF ListQuery
  <2>2. Answered(r, a) /\ UNCHANGED <<view, asOf, seq>>
    BY <1>11 DEF Serve
  <2> HIDE DEF a
  <2> QED BY <1>10, <2>1, <2>2 DEF ListInv
<1>12. ASSUME NEW r \in requests, Fail(r) PROVE MoreInv'
  BY <1>10, <1>12 DEF Fail
<1>13. ASSUME NEW r \in requests, Drop(r) PROVE MoreInv'
  <2>1. requests' = requests \ {r} /\ (requests' # {} => seq' = seq) /\ UNCHANGED <<view, asOf>>
    BY <1>13 DEF Drop, Done
  <2> QED BY <2>1 DEF MoreInv, Newest, Come, view
<1>14. ASSUME NEW r \in requests, Toast(r) \/ ShowPage(r) \/ AppendPage(r) PROVE MoreInv'
  <2>1. requests' = requests \ {r} /\ (requests' # {} => seq' = seq) /\ Newest(r)
    BY <1>14 DEF Toast, ShowPage, AppendPage, Land, Done
  <2>2. \A q \in requests' : q.ticket # seq'
    BY <2>1 DEF TicketInv, Newest
  <2> QED BY <2>2 DEF MoreInv, Newest
<1> QED BY <1>3, <1>4, <1>5, <1>6, <1>7, <1>8, <1>9, <1>11, <1>12, <1>13, <1>14, Kinds

-------------------------------------------------------------------------------
\* What the list shows.

\* A page painted at once is a list without a gap.
LEMMA PaintSpan ==
  ASSUME TableTyped, NEW u \in Urls, u.statuses # None => "archived" \notin u.statuses,
         NEW actives \in {ACTIVE_STATES, {}}, NEW p, p = Painted(u, actives)
  PROVE  /\ Once(p.items)
         /\ \A x \in Listing(p.items) :
              /\ p.filters.statuses # {} => x.stage \in p.filters.statuses
              /\ p.next # None => x.id >= p.next
         /\ p.asOf # None => p.asOf \in Nat /\ p.asOf <= writes
         /\ p.asOf = writes /\ p.filters.statuses # {} =>
              Listing(p.items) = Span(stage, p.filters, None, p.next)
<1>1. p.asOf = writes /\ p.filters.statuses # {} =>
        Listing(p.items) =
          { Row(i) : i \in { j \in Existing : Finds(p.filters, j) } \cap Reached(p.next) }
  BY Paint
<1>2. { Row(i) : i \in { j \in Existing : Finds(p.filters, j) } \cap Reached(p.next) }
        = Span(stage, p.filters, None, p.next)
  BY SpanIs
<1>3. /\ Once(p.items)
      /\ \A x \in Listing(p.items) :
           /\ x.stage \in p.filters.statuses
           /\ p.next # None => x.id >= p.next
      /\ p.asOf \in {None, writes}
  BY Paint
<1>4. writes \in Nat
  BY DEF TableTyped
<1>5. p.asOf = writes /\ p.filters.statuses # {} =>
        Listing(p.items) = Span(stage, p.filters, None, p.next)
  BY <1>1, <1>2, Zenon
<1>6. p.asOf # None => p.asOf \in Nat /\ p.asOf <= writes
  BY <1>3, <1>4
<1> QED BY <1>3, <1>5, <1>6

\* A first page shows the newest rows of its filters.
LEMMA ShowPageList ==
  ASSUME Typed, AnswerInv, NEW r \in requests, ShowPage(r)
  PROVE  ListInv'
<1> DEFINE a == r.answer
           f == r.for
           b == notArchived(a.rows)
<1>1. /\ r.after = None /\ filters' = f
      /\ items' = sortByImportance(b) /\ next' = a.next /\ asOf' = a.at
      /\ stage' = stage /\ writes' = writes /\ Come(r)
  BY DEF ShowPage, Land, table, Come
<1>2. /\ a.rows \in Seq(Rows) /\ a.next \in Cursors /\ a.at \in Nat
      /\ f \in Filters /\ "archived" \notin f.statuses
  BY <1>1, AnswerTyped DEF Typed
<1>3. /\ Once(a.rows) /\ a.at <= writes
      /\ \A x \in Listing(a.rows) :
           /\ f.statuses # {} => x.stage \in f.statuses
           /\ a.next # None => x.id >= a.next
      /\ a.at = writes => Listing(a.rows) = Span(stage, f, None, a.next)
  BY <1>1 DEF AnswerInv, Says
<1>4. /\ b \in Seq(Rows) /\ Once(b)
      /\ Listing(b) = { x \in Listing(a.rows) : x.stage # "archived" }
  BY <1>2, <1>3, Arrived
<1> HIDE DEF a, f, b
<1>5. Once(items') /\ Listing(items') = Listing(b)
  BY <1>1, <1>4, Arrived
<1>6. f.statuses # {} => Listing(b) = Listing(a.rows)
  BY <1>2, <1>3, <1>4
<1> QED BY <1>1, <1>2, <1>3, <1>4, <1>5, <1>6 DEF ListInv

\* Another page continues the list where it ended.
LEMMA AppendPageList ==
  ASSUME Typed, AnswerInv, MoreInv, ListInv, NEW r \in requests, AppendPage(r)
  PROVE  ListInv'
<1> DEFINE a == r.answer
           f == r.for
           b == notArchived(a.rows)
<1>1. /\ r.after # None /\ Newest(r) /\ filters' = filters
      /\ items' = items \o b /\ next' = a.next /\ asOf' = asOf
      /\ stage' = stage /\ writes' = writes /\ Come(r)
  BY DEF AppendPage, Appended, Land, table, Come
<1>2. /\ a.rows \in Seq(Rows) /\ a.next \in Cursors /\ a.at \in Nat
      /\ f \in Filters /\ "archived" \notin f.statuses
      /\ items \in Seq(Rows) /\ next \in Cursors /\ writes \in Nat
  BY <1>1, AnswerTyped DEF Typed, ItemsTyped, TableTyped
<1>3. /\ r.after = next /\ next # None
      /\ filters.statuses # {} => f = filters
      /\ asOf # None => asOf <= a.at
  BY <1>1 DEF MoreInv
<1>4. /\ Once(a.rows) /\ a.at <= writes
      /\ \A x \in Listing(a.rows) :
           /\ f.statuses # {} => x.stage \in f.statuses
           /\ x.id < next
           /\ a.next # None => x.id >= a.next
      /\ a.next # None => a.next < next
      /\ a.at = writes => Listing(a.rows) = Span(stage, f, next, a.next)
  BY <1>1, <1>3 DEF AnswerInv, Says
<1>5. /\ b \in Seq(Rows) /\ Once(b)
      /\ Listing(b) = { x \in Listing(a.rows) : x.stage # "archived" }
  BY <1>2, <1>4, Arrived
<1> HIDE DEF a, f, b
<1>6. /\ Once(items)
      /\ \A x \in Listing(items) : /\ filters.statuses # {} => x.stage \in filters.statuses
                                   /\ x.id >= next
      /\ asOf # None => asOf \in Nat /\ asOf <= writes
      /\ asOf = writes /\ filters.statuses # {} =>
           Listing(items) = Span(stage, filters, None, next)
  BY <1>3 DEF ListInv
<1>7. next \in Nat /\ (a.next # None => a.next \in Nat)
      /\ (\A x \in Listing(items) : x.id \in Nat) /\ (\A x \in Listing(b) : x.id \in Nat)
  <2>1. \A x \in Listing(items) : x \in Rows
    BY <1>2 DEF Listing
  <2>2. \A x \in Listing(b) : x \in Rows
    BY <1>5 DEF Listing
  <2>3. \A x \in Rows : x.id \in Nat
    BY NoneFacts DEF Rows
  <2> QED BY <1>2, <1>3, <2>1, <2>2, <2>3, NoneFacts DEF Cursors
<1>8. \A x \in Listing(items), y \in Listing(b) : x.id # y.id
  BY <1>4, <1>5, <1>6, <1>7
<1>9. Once(items') /\ Listing(items') = Listing(items) \cup Listing(b)
  BY <1>1, <1>2, <1>5, <1>6, <1>8, Joined
<1>10. \A x \in Listing(items') :
         /\ filters'.statuses # {} => x.stage \in filters'.statuses
         /\ next' # None => x.id >= next'
  BY <1>1, <1>3, <1>4, <1>5, <1>6, <1>7, <1>9
<1>11. ASSUME asOf = writes, filters.statuses # {}
       PROVE  Listing(items') = Span(stage, filters, None, a.next)
  <2>1. asOf # None /\ a.at = writes /\ f = filters
    BY <1>2, <1>3, <1>4, <1>6, <1>11, NoneFacts
  <2>2. /\ Listing(items) = Span(stage, filters, None, next)
        /\ Listing(a.rows) = Span(stage, filters, next, a.next)
    BY <1>4, <1>6, <1>11, <2>1
  <2>3. Listing(b) = Listing(a.rows)
    BY <1>2, <1>4, <1>5, <1>11, <2>1
  <2>4. \A j \in Ids : j \in Nat
    BY NoneFacts
  <2>5. \A j \in Ids : (a.next # None => j >= a.next) <=>
                         (j >= next \/ (j < next /\ (a.next # None => j >= a.next)))
    BY <1>4, <1>7, <2>4
  <2>6. Span(stage, filters, None, a.next)
          = Span(stage, filters, None, next) \cup Span(stage, filters, next, a.next)
    BY <1>3, <2>5 DEF Span
  <2> QED BY <1>9, <2>2, <2>3, <2>6
<1> QED BY <1>1, <1>6, <1>9, <1>10, <1>11 DEF ListInv

\* Whatever happens, the list is one result set, without a gap as long as it is fresh.
LEMMA ListStep ==
  ASSUME Typed, AnswerInv, MoreInv, ListInv, [Next]_vars
  PROVE  ListInv'
<1>1. ASSUME UNCHANGED <<table, view, asOf>> PROVE ListInv'
  BY <1>1 DEF ListInv, table, view
<1>2. CASE UNCHANGED vars
  BY <1>1, <1>2 DEF vars
<1>3. CASE Reload
  <2> DEFINE p == Painted(url, active')
  <2>1. /\ filters' = p.filters /\ items' = p.items /\ next' = p.next /\ asOf' = p.asOf
        /\ active' \in Transitions /\ stage' = stage /\ writes' = writes
    BY <1>3 DEF Reload, table
  <2>2. active' \in {ACTIVE_STATES, {}}
    BY <2>1, ListAssumption
  <2>3. TableTyped /\ url \in Urls /\ (url.statuses # None => "archived" \notin url.statuses)
    BY DEF Typed, UrlTyped
  <2>4. /\ Once(p.items)
        /\ \A x \in Listing(p.items) :
             /\ p.filters.statuses # {} => x.stage \in p.filters.statuses
             /\ p.next # None => x.id >= p.next
        /\ p.asOf # None => p.asOf \in Nat /\ p.asOf <= writes
        /\ p.asOf = writes /\ p.filters.statuses # {} =>
             Listing(p.items) = Span(stage, p.filters, None, p.next)
    <3>1. p = Painted(url, active')
      OBVIOUS
    <3> HIDE DEF p
    <3> QED BY <2>2, <2>3, <3>1, PaintSpan
  <2> HIDE DEF p
  <2> QED BY <2>1, <2>4 DEF ListInv
<1>4. CASE Refilter
  <2>1. PICK f \in Filters : applyFilters(f)
    BY <1>4 DEF Refilter
  <2>2. CASE f.statuses = {}
    <3>1. /\ filters' = f /\ items' = items /\ next' = next /\ asOf' = asOf
          /\ stage' = stage /\ writes' = writes
      BY <2>1, <2>2 DEF applyFilters, table
    <3> QED BY <2>2, <3>1 DEF ListInv
  <2>3. CASE f.statuses # {}
    BY <1>1, <2>1, <2>3 DEF applyFilters, view
  <2> QED BY <2>2, <2>3
<1>5. CASE BoxOnly
  BY <1>1, <1>5 DEF BoxOnly
<1>6. CASE PinsOnly
  BY <1>1, <1>6 DEF PinsOnly
<1>7. CASE loadMore
  BY <1>1, <1>7 DEF loadMore
<1>8. CASE Write
  <2>1. writes' = writes + 1 /\ writes \in Nat /\ UNCHANGED <<filters, items, next, asOf>>
    BY <1>8 DEF Write, view, Typed, TableTyped
  <2>2. asOf' = writes' => FALSE
    BY <2>1, NoneFacts DEF ListInv
  <2>3. asOf' # None => asOf' \in Nat /\ asOf' <= writes'
    BY <2>1 DEF ListInv
  <2> QED BY <2>1, <2>2, <2>3 DEF ListInv
<1>9. ASSUME NEW r \in requests, Serve(r) \/ Fail(r) \/ Drop(r) \/ Toast(r) PROVE ListInv'
  BY <1>1, <1>9 DEF Serve, Fail, Drop, Toast, Land
<1> QED BY <1>2, <1>3, <1>4, <1>5, <1>6, <1>7, <1>8, <1>9, ShowPageList, AppendPageList, Kinds

-------------------------------------------------------------------------------
\* The invariant holds from the first paint on.

\* It holds when the page is opened ...
LEMMA InitInv ==
  ASSUME Init
  PROVE  IInv
<1> DEFINE p == Painted(Bare, active)
<1>1. /\ stage \in Tables /\ writes = 0 /\ active \in Transitions /\ listed = Current
      /\ filters = p.filters /\ items = p.items /\ next = p.next /\ asOf = p.asOf
      /\ box = None /\ url = Bare /\ loading = FALSE /\ seq = 0 /\ requests = {}
      /\ stored \in Junk
  BY DEF Init
<1>2. TableTyped /\ active \in {ACTIVE_STATES, {}} /\ stored \in Seq(Nat)
  BY <1>1, ListAssumption DEF TableTyped
<1>3. Bare \in Urls /\ Bare.statuses = None
  BY DEF Bare, Urls
<1>4. /\ p.filters \in Filters /\ "archived" \notin p.filters.statuses
      /\ p.items \in Seq(Rows) /\ p.next \in Cursors
      /\ \A x \in Listing(p.items) : x.stage # "archived"
  <2>1. p = Painted(Bare, active)
    OBVIOUS
  <2> HIDE DEF p
  <2> QED BY <1>2, <1>3, <2>1, Paint
<1>5. /\ Once(p.items)
      /\ \A x \in Listing(p.items) :
           /\ p.filters.statuses # {} => x.stage \in p.filters.statuses
           /\ p.next # None => x.id >= p.next
      /\ p.asOf # None => p.asOf \in Nat /\ p.asOf <= writes
      /\ p.asOf = writes /\ p.filters.statuses # {} =>
           Listing(p.items) = Span(stage, p.filters, None, p.next)
  <2>1. p = Painted(Bare, active)
    OBVIOUS
  <2> HIDE DEF p
  <2> QED BY <1>2, <1>3, <2>1, PaintSpan
<1> HIDE DEF p
<1>6. ListInv
  BY <1>1, <1>5 DEF ListInv
<1>7. Typed
  BY <1>1, <1>2, <1>3, <1>4, StageSets
     DEF Typed, Props, FiltersTyped, ItemsTyped, UrlTyped, RequestsTyped
<1>8. TicketInv /\ AnswerInv /\ MoreInv
  BY <1>1 DEF TicketInv, AnswerInv, MoreInv
<1> QED BY <1>6, <1>7, <1>8 DEF IInv

\* ... and every step keeps it.
LEMMA StepInv ==
  ASSUME IInv, [Next]_vars
  PROVE  IInv'
BY TypedStep, AnswersStep, MoreStep, ListStep DEF IInv

\* Whatever order answers come in and whatever other tabs write, the types hold, tickets
\* are given once, answers say what they were asked, the newest request for more asks
\* behind this list, and the list is one result set.
THEOREM Invariant == Spec => []IInv
BY InitInv, StepInv, PTL DEF Spec

\* Everything keeps its type.
THEOREM TypeCorrect == Spec => []TypeOK
<1>1. ASSUME IInv PROVE TypeOK
  <2>1. Typed
    BY <1>1 DEF IInv
  <2>2. \A k \in DOMAIN items : items[k] \in Rows /\ items[k].stage # "archived"
    BY <2>1 DEF Typed, ItemsTyped, Listing
  <2>3. \A k \in DOMAIN stored : stored[k] \in Nat
    BY <2>1 DEF Typed
  <2> QED BY <2>1, <2>2, <2>3
          DEF TypeOK, Typed, TableTyped, Props, FiltersTyped, ItemsTyped, RequestsTyped, Cursors
<1> QED BY <1>1, Invariant, PTL

\* The list is dimmed exactly while the newest request is under way
\* (applications-list.tsx:241-244, 257).
THEOREM LoadingCorrect == Spec => []LoadingMeansWaiting
<1>1. ASSUME IInv PROVE LoadingMeansWaiting
  BY <1>1 DEF IInv, TicketInv, LoadingMeansWaiting
<1> QED BY <1>1, Invariant, PTL

\* The list holds rows of one result set, each once (applications-list.tsx:220-222,
\* 262-264).
THEOREM ResultSetCorrect == Spec => []OneResultSet
<1>1. ASSUME IInv PROVE OneResultSet
  BY <1>1 DEF IInv, ListInv, OneResultSet, Once, Listing
<1> QED BY <1>1, Invariant, PTL

\* Until another tab writes, pages leave no gap: the list is the newest rows of its
\* filters, down to the cursor (ListQuery, page.tsx:65-90).
THEOREM PagesCorrect == Spec => []PagesHaveNoGaps
<1>1. ASSUME IInv PROVE PagesHaveNoGaps
  <2> SUFFICES ASSUME asOf = writes, filters.statuses # {}
               PROVE  { items[k] : k \in DOMAIN items }
                        = { Row(i) : i \in { j \in Existing : Finds(filters, j)
                                                              /\ (next # None => j >= next) } }
    BY DEF PagesHaveNoGaps
  <2>1. TableTyped /\ Listing(items) = Span(stage, filters, None, next)
    BY <1>1 DEF IInv, Typed, ListInv
  <2>2. { j \in Ids : /\ stage[j] # None /\ Hits(stage, filters, j)
                      /\ None # None => j < None
                      /\ next # None => j >= next }
          = { j \in Existing : Finds(filters, j) /\ (next # None => j >= next) }
    BY DEF Existing, Finds, Hits
  <2> QED BY <2>1, <2>2 DEF Listing, Span, Row
<1> QED BY <1>1, Invariant, PTL

-------------------------------------------------------------------------------
\* The numbers beside the options.

\* Rows and their applications are as many.
LEMMA SameNumber ==
  ASSUME NEW A, NEW B, IsFiniteSet(B), TableTyped, B \subseteq Existing,
         \A j \in B : Row(j) \in A,
         \A r \in A : r.id \in B /\ r = Row(r.id)
  PROVE  IsFiniteSet(A) /\ Cardinality(A) = Cardinality(B)
<1> DEFINE F == [j \in B |-> Row(j)]
<1>1. \A j \in B : Row(j).id = j
  BY RowFacts
<1>2. F \in [B -> A] /\ \A j, k \in B : F[j] = F[k] => j = k
  BY <1>1
<1>3. \A r \in A : \E j \in B : F[j] = r
  OBVIOUS
<1> HIDE DEF F
<1>4. F \in Bijection(B, A)
  BY <1>2, <1>3, Fun_IsBij
<1> QED BY <1>4, FS_Bijection, Fun_ExistsBij

\* The rows of a fresh render are those of the table that are not archived.
LEMMA FreshRows ==
  ASSUME TableTyped, listed = Current
  PROVE  /\ \A r \in listed : r.id \in Existing /\ r = Row(r.id) /\ r.stage = stage[r.id]
                              /\ stage[r.id] # "archived"
         /\ \A j \in Existing : stage[j] # "archived" => Row(j) \in listed
         /\ rendered = { stage[j] : j \in { k \in Existing : stage[k] # "archived" } }
         /\ IsFiniteSet(rendered)
<1> DEFINE B == { j \in Existing : stage[j] # "archived" }
           S == { stage[j] : j \in B }
<1>1. \A r \in listed : r.id \in B /\ r = Row(r.id) /\ r.stage = stage[r.id]
  BY RowFacts DEF Current
<1>2. \A j \in B : Row(j) \in listed /\ Row(j).stage = stage[j]
  BY RowFacts DEF Current
<1>3. rendered = S
  <2>1. ASSUME NEW x \in rendered PROVE x \in S
    BY <1>1 DEF rendered
  <2>2. ASSUME NEW x \in S PROVE x \in rendered
    <3>1. PICK j \in B : x = stage[j]
      OBVIOUS
    <3> QED BY <1>2, <3>1 DEF rendered
  <2> QED BY <2>1, <2>2
<1>4. IsFiniteSet(S)
  <2>1. IsFiniteSet(B)
    BY RowFacts, FS_Subset
  <2> DEFINE F == [j \in B |-> stage[j]]
  <2>2. F \in [B -> S] /\ \A x \in S : \E j \in B : F[j] = x
    OBVIOUS
  <2>3. F \in Surjection(B, S)
    <3> HIDE DEF F, S, B
    <3> QED BY <2>2, Fun_IsSurj
  <2> HIDE DEF F, S, B
  <2> QED BY <2>1, <2>3, FS_Surjection
<1> QED BY <1>1, <1>2, <1>3, <1>4

\* A facet counts what a query finds, when it lets pass what the query finds.
LEMMA CountIs ==
  ASSUME TableTyped, listed = Current, NEW dim, NEW key, NEW f,
         \A j \in Existing :
           Finds(f, j) <=> /\ stage[j] # "archived"
                           /\ matchesExcept(Row(j), dim) /\ Key(Row(j), dim) = key
  PROVE  countBy(dim, key) = Cardinality({ j \in Existing : Finds(f, j) })
<1> DEFINE A == { r \in listed : matchesExcept(r, dim) /\ Key(r, dim) = key }
           B == { j \in Existing : Finds(f, j) }
<1>1. /\ \A r \in listed : r.id \in Existing /\ r = Row(r.id) /\ stage[r.id] # "archived"
      /\ \A j \in Existing : stage[j] # "archived" => Row(j) \in listed
  BY FreshRows
<1>2. IsFiniteSet(B) /\ B \subseteq Existing
  BY RowFacts, FS_Subset
<1>3. ASSUME NEW j \in B PROVE Row(j) \in A
  BY <1>1
<1>4. ASSUME NEW r \in A PROVE r.id \in B /\ r = Row(r.id)
  <2>1. /\ r.id \in Existing /\ r = Row(r.id) /\ stage[r.id] # "archived"
        /\ matchesExcept(r, dim) /\ Key(r, dim) = key
    BY <1>1
  <2>2. matchesExcept(Row(r.id), dim) /\ Key(Row(r.id), dim) = key
    BY <2>1
  <2> QED BY <2>1, <2>2
<1>5. countBy(dim, key) = Cardinality(A)
  BY DEF countBy
<1> HIDE DEF A, B
<1>6. Cardinality(A) = Cardinality(B)
  BY <1>2, <1>3, <1>4, SameNumber
<1> QED BY <1>5, <1>6 DEF B

\* What a chip row lets pass, as the server would say it.
LEMMA Passes ==
  ASSUME Typed, listed = Current, filters.statuses \subseteq rendered,
         NEW j \in Existing, stage[j] # "archived", NEW dim
  PROVE  matchesExcept(Row(j), dim) <=>
           /\ dim = "company" \/ filters.company \in {None, Company[j]}
           /\ dim = "source"  \/ filters.source  \in {None, Source[j]}
           /\ dim = "level"   \/ filters.level   \in {None, Level[j]}
           /\ dim = "status"  \/ stage[j] \in filters.statuses
<1>1. TableTyped
  BY DEF Typed
<1>2. Row(j).id = j /\ Row(j).stage = stage[j] /\ stage[j] \in rendered /\ IsFiniteSet(rendered)
  BY <1>1, FreshRows, RowFacts
<1>3. Cardinality(filters.statuses) >= Cardinality(rendered) => stage[j] \in filters.statuses
  <2>1. /\ Cardinality(filters.statuses) <= Cardinality(rendered)
        /\ Cardinality(rendered) = Cardinality(filters.statuses) => rendered = filters.statuses
        /\ Cardinality(rendered) \in Nat /\ Cardinality(filters.statuses) \in Nat
    BY <1>2, FS_Subset, FS_CardinalityType
  <2> QED BY <1>2, <2>1
<1>4. /\ filters["company"] = filters.company /\ filters["source"] = filters.source
      /\ filters["level"] = filters.level
  OBVIOUS
<1>5. /\ Key(Row(j), "company") = Company[j] /\ Key(Row(j), "source") = Source[j]
      /\ Key(Row(j), "level") = Level[j]
  BY <1>2 DEF Key
<1>6. (\A d \in {"company", "source", "level"} \ {dim} : filters[d] \in {None, Key(Row(j), d)})
        <=> /\ dim = "company" \/ filters.company \in {None, Company[j]}
            /\ dim = "source"  \/ filters.source  \in {None, Source[j]}
            /\ dim = "level"   \/ filters.level   \in {None, Level[j]}
  BY <1>4, <1>5
<1> QED BY <1>2, <1>3, <1>6 DEF matchesExcept

\* Every number beside an option and on a chip is the number of rows picking it finds, as
\* long as the page knows the rows (applications-list.tsx:305-346).
THEOREM CountsCorrect == Spec => []CountsAreHonest
<1>1. ASSUME IInv PROVE CountsAreHonest
  <2> SUFFICES ASSUME listed = Current, filters.q = None, filters.statuses # {},
                      filters.statuses \subseteq rendered, NEW i \in { r.id : r \in listed }
               PROVE  LET Found(f) == Cardinality({ j \in Existing : Finds(f, j) })
                      IN  /\ countBy("company", Company[i]) = Found([filters EXCEPT !.company = Company[i]])
                          /\ countBy("source", Source[i]) = Found([filters EXCEPT !.source = Source[i]])
                          /\ Level[i] # None =>
                               countBy("level", Level[i]) = Found([filters EXCEPT !.level = Level[i]])
                          /\ countBy("status", stage[i]) = Found([filters EXCEPT !.statuses = {stage[i]}])
    BY DEF CountsAreHonest
  <2> DEFINE fc == [filters EXCEPT !.company = Company[i]]
             fs == [filters EXCEPT !.source = Source[i]]
             fl == [filters EXCEPT !.level = Level[i]]
             ft == [filters EXCEPT !.statuses = {stage[i]}]
  <2>1. Typed /\ TableTyped /\ filters \in Filters /\ "archived" \notin filters.statuses
    BY <1>1 DEF IInv, Typed, FiltersTyped
  <2>2. i \in Existing /\ stage[i] # "archived" /\ i \in Ids
    BY <2>1, FreshRows DEF Existing
  <2>3. Company[i] # None /\ Source[i] # None
    BY <2>2, ListAssumption
  <2>4. ASSUME NEW j \in Existing, stage[j] # "archived", NEW dim
        PROVE  matchesExcept(Row(j), dim) <=>
                 /\ dim = "company" \/ filters.company \in {None, Company[j]}
                 /\ dim = "source"  \/ filters.source  \in {None, Source[j]}
                 /\ dim = "level"   \/ filters.level   \in {None, Level[j]}
                 /\ dim = "status"  \/ stage[j] \in filters.statuses
    BY <2>1, <2>4, Passes
  <2>5. ASSUME NEW j \in Existing
        PROVE  /\ Key(Row(j), "company") = Company[j] /\ Key(Row(j), "source") = Source[j]
               /\ Key(Row(j), "level") = Level[j] /\ Key(Row(j), "status") = stage[j]
    BY <2>1, RowFacts DEF Key
  <2>6. /\ fc.statuses = filters.statuses /\ fc.company = Company[i] /\ fc.source = filters.source
        /\ fc.level = filters.level /\ fc.q = None
        /\ fs.statuses = filters.statuses /\ fs.company = filters.company /\ fs.source = Source[i]
        /\ fs.level = filters.level /\ fs.q = None
        /\ fl.statuses = filters.statuses /\ fl.company = filters.company
        /\ fl.source = filters.source /\ fl.level = Level[i] /\ fl.q = None
        /\ ft.statuses = {stage[i]} /\ ft.company = filters.company
        /\ ft.source = filters.source /\ ft.level = filters.level /\ ft.q = None
    BY <2>1 DEF Filters
  <2> HIDE DEF fc, fs, fl, ft
  <2>7. countBy("company", Company[i]) = Cardinality({ j \in Existing : Finds(fc, j) })
    <3>1. ASSUME NEW j \in Existing
          PROVE  Finds(fc, j) <=> /\ stage[j] # "archived" /\ matchesExcept(Row(j), "company")
                                  /\ Key(Row(j), "company") = Company[i]
      BY <2>1, <2>3, <2>4, <2>5, <2>6 DEF Finds
    <3> QED BY <2>1, <3>1, CountIs
  <2>8. countBy("source", Source[i]) = Cardinality({ j \in Existing : Finds(fs, j) })
    <3>1. ASSUME NEW j \in Existing
          PROVE  Finds(fs, j) <=> /\ stage[j] # "archived" /\ matchesExcept(Row(j), "source")
                                  /\ Key(Row(j), "source") = Source[i]
      BY <2>1, <2>3, <2>4, <2>5, <2>6 DEF Finds
    <3> QED BY <2>1, <3>1, CountIs
  <2>9. ASSUME Level[i] # None
        PROVE  countBy("level", Level[i]) = Cardinality({ j \in Existing : Finds(fl, j) })
    <3>1. ASSUME NEW j \in Existing
          PROVE  Finds(fl, j) <=> /\ stage[j] # "archived" /\ matchesExcept(Row(j), "level")
                                  /\ Key(Row(j), "level") = Level[i]
      BY <2>1, <2>9, <2>4, <2>5, <2>6 DEF Finds
    <3> QED BY <2>1, <3>1, CountIs
  <2>10. countBy("status", stage[i]) = Cardinality({ j \in Existing : Finds(ft, j) })
    <3>1. ASSUME NEW j \in Existing
          PROVE  Finds(ft, j) <=> /\ stage[j] # "archived" /\ matchesExcept(Row(j), "status")
                                  /\ Key(Row(j), "status") = stage[i]
      BY <2>1, <2>2, <2>4, <2>5, <2>6 DEF Finds
    <3> QED BY <2>1, <3>1, CountIs
  <2> QED BY <2>7, <2>8, <2>9, <2>10 DEF fc, fs, fl, ft
<1> QED BY <1>1, Invariant, PTL

-------------------------------------------------------------------------------
\* Rows do not move.

\* The positions a filter goes through, by what comes before them.
LEMMA PlaceOf ==
  ASSUME NEW K \in SUBSET Nat, IsFiniteSet(K), NEW C, C = Cardinality(K), NEW x \in K,
         NEW n \in Nat, Cardinality(Earlier(K, x)) = n
  PROVE  n + 1 \in 1..C /\ At(K)[n + 1] = x
<1>1. /\ C \in Nat
      /\ \A y \in K : \E k \in 1..C : At(K)[k] = y
      /\ \A k \in 1..C : Cardinality(Earlier(K, At(K)[k])) = k - 1
  BY KeptAt
<1>2. PICK k \in 1..C : At(K)[k] = x
  BY <1>1
<1>3. k - 1 = n
  BY <1>1, <1>2
<1>4. k = n + 1
  BY <1>1, <1>3
<1> QED BY <1>2, <1>4

\* What a filter keeps of a list it keeps, in the same places, of a longer one.
LEMMA KeptLonger ==
  ASSUME NEW S, NEW list \in Seq(S), NEW more \in Seq(S),
         NEW K \in SUBSET (DOMAIN list), NEW J \in SUBSET (DOMAIN (list \o more)),
         \A k \in Nat : k \in K <=> k \in J /\ k <= Len(list),
         NEW C, C = Cardinality(K), NEW D, D = Cardinality(J)
  PROVE  /\ C \in Nat /\ D \in Nat /\ C <= D
         /\ \A n \in 1..C : Kept(list \o more, J)[n] = Kept(list, K)[n]
<1> DEFINE long == list \o more
<1>1. /\ DOMAIN list = 1..Len(list) /\ Len(list) \in Nat /\ long \in Seq(S)
      /\ \A k \in 1..Len(list) : long[k] = list[k]
  OBVIOUS
<1>2. K \in SUBSET Nat /\ IsFiniteSet(K) /\ J \in SUBSET Nat /\ IsFiniteSet(J)
  <2>1. J \in SUBSET (DOMAIN long)
    OBVIOUS
  <2> HIDE DEF long
  <2>2. K \in SUBSET Nat /\ IsFiniteSet(K)
    BY Positions
  <2>3. J \in SUBSET Nat /\ IsFiniteSet(J)
    BY <1>1, <2>1, Positions
  <2> QED BY <2>2, <2>3
<1>3. /\ C \in Nat /\ At(K) \in [1..C -> K]
      /\ \A n \in 1..C : Cardinality(Earlier(K, At(K)[n])) = n - 1
      /\ Kept(list, K) = [n \in 1..C |-> list[At(K)[n]]]
  BY <1>2, KeptAt
<1> HIDE DEF long
<1>4. /\ D \in Nat /\ Kept(long, J) = [n \in 1..D |-> long[At(J)[n]]]
  BY <1>2, KeptAt
<1>5. ASSUME NEW n \in 1..C
      PROVE  n \in 1..D /\ At(J)[n] = At(K)[n] /\ At(K)[n] \in 1..Len(list)
  <2> DEFINE x == At(K)[n]
  <2>1. x \in K /\ x \in Nat /\ x <= Len(list) /\ x \in J /\ x \in 1..Len(list)
    BY <1>1, <1>2, <1>3
  <2>2. Cardinality(Earlier(K, x)) = n - 1
    BY <1>3
  <2> HIDE DEF x
  <2>3. \A j \in Nat : j < x => j <= Len(list)
    BY <1>1, <2>1
  <2>4. Earlier(J, x) = Earlier(K, x)
    BY <1>2, <2>3 DEF Earlier
  <2>5. n - 1 \in Nat /\ (n - 1) + 1 = n
    BY <1>3
  <2>6. (n - 1) + 1 \in 1..D /\ At(J)[(n - 1) + 1] = x
    BY <1>2, <2>1, <2>2, <2>4, <2>5, PlaceOf
  <2> QED BY <2>1, <2>5, <2>6 DEF x
<1>6. C <= D
  <2>1. CASE C = 0
    BY <1>4, <2>1
  <2>2. CASE C # 0
    <3>1. C \in 1..C
      BY <1>3, <2>2
    <3> QED BY <1>3, <1>4, <1>5, <3>1
  <2> QED BY <2>1, <2>2
<1> QED BY <1>1, <1>3, <1>4, <1>5, <1>6 DEF long

\* Two filters that go through the same values keep the same.
LEMMA KeptAlong ==
  ASSUME NEW K \in SUBSET Nat, NEW all, NEW L \in SUBSET Nat, NEW list, IsFiniteSet(L),
         NEW l, l = Cardinality(L), NEW f, Through(K, l, f),
         \A n \in 1..l : all[f[n]] = list[At(L)[n]]
  PROVE  Kept(all, K) = Kept(list, L)
<1>1. l \in Nat /\ Kept(list, L) = [n \in 1..l |-> list[At(L)[n]]]
  BY KeptAt
<1>2. IsFiniteSet(K) /\ Cardinality(K) = l /\ \A n \in 1..l : At(K)[n] = f[n]
  BY <1>1, KeptIs
<1>3. Kept(all, K) = [n \in 1..l |-> all[At(K)[n]]]
  BY <1>2, KeptAt
<1> QED BY <1>1, <1>2, <1>3

\* K picks behind t entries of all what L picks of the filter U.
Behind(t, all, K, U, list, L) ==
  /\ K \subseteq (t + 1)..(t + Cardinality(U))
  /\ \A k \in 1..Cardinality(U), x \in Nat :
       x = t + k => all[x] = list[At(U)[k]] /\ (x \in K <=> At(U)[k] \in L)

\* A filter of U that is filtered again, behind t other entries, is one filter.
LEMMA KeptTwice ==
  ASSUME NEW U \in SUBSET Nat, IsFiniteSet(U), NEW list, NEW L \in SUBSET U,
         NEW t \in Nat, NEW all, NEW K, Behind(t, all, K, U, list, L)
  PROVE  Kept(all, K) = Kept(list, L)
<1> DEFINE C == Cardinality(U)
           l == Cardinality(L)
           place == [n \in 1..l |-> Cardinality(Earlier(U, At(L)[n])) + 1]
           f == [n \in 1..l |-> t + place[n]]
<1>1. L \in SUBSET Nat /\ IsFiniteSet(L)
  BY FS_Subset
<1>0. C = Cardinality(U) /\ l = Cardinality(L)
  OBVIOUS
<1> HIDE DEF C, l
<1>2. /\ C \in Nat /\ At(U) \in [1..C -> U]
      /\ \A j, k \in 1..C : j < k => At(U)[j] < At(U)[k]
      /\ \A x \in U : \E n \in 1..C : At(U)[n] = x
      /\ \A n \in 1..C : Cardinality(Earlier(U, At(U)[n])) = n - 1
  BY <1>0, KeptAt
<1>3. /\ K \subseteq (t + 1)..(t + C)
      /\ \A k \in 1..C, x \in Nat :
           x = t + k => all[x] = list[At(U)[k]] /\ (x \in K <=> At(U)[k] \in L)
  BY DEF Behind, C
<1>4. /\ l \in Nat /\ At(L) \in [1..l -> L]
      /\ \A j, k \in 1..l : j < k => At(L)[j] < At(L)[k]
      /\ \A x \in L : \E n \in 1..l : At(L)[n] = x
  BY <1>0, <1>1, KeptAt
<1>6. ASSUME NEW n \in 1..l
      PROVE  place[n] \in 1..C /\ At(U)[place[n]] = At(L)[n]
  <2>1. PICK k \in 1..C : At(U)[k] = At(L)[n]
    BY <1>2, <1>4
  <2>2. Cardinality(Earlier(U, At(L)[n])) = k - 1
    BY <1>2, <2>1
  <2>3. place[n] = k
    BY <1>2, <2>2
  <2> QED BY <2>1, <2>3
<1>7. ASSUME NEW n \in 1..l
      PROVE  f[n] \in K /\ f[n] = t + place[n] /\ f[n] \in Nat /\ place[n] \in Nat
  <2>1. place[n] \in 1..C /\ At(U)[place[n]] \in L /\ place[n] \in Nat
    BY <1>2, <1>4, <1>6
  <2>2. f[n] = t + place[n]
    OBVIOUS
  <2> HIDE DEF f, place
  <2>3. f[n] \in Nat
    BY <2>1, <2>2
  <2> QED BY <1>3, <2>1, <2>2, <2>3
<1>8. ASSUME NEW j \in 1..l, NEW k \in 1..l, j < k PROVE f[j] < f[k]
  <2>1. At(L)[j] < At(L)[k] /\ At(L)[j] \in Nat /\ At(L)[k] \in Nat
    BY <1>1, <1>4, <1>8
  <2>2. /\ place[j] \in 1..C /\ place[k] \in 1..C
        /\ At(U)[place[j]] = At(L)[j] /\ At(U)[place[k]] = At(L)[k]
    BY <1>6
  <2>3. ~(place[k] < place[j]) /\ place[j] # place[k]
    <3> HIDE DEF place
    <3>1. place[k] < place[j] => At(L)[k] < At(L)[j]
      BY <1>2, <2>2
    <3> QED BY <2>1, <2>2, <3>1
  <2>4. /\ f[j] = t + place[j] /\ f[k] = t + place[k]
        /\ place[j] \in Nat /\ place[k] \in Nat
    BY <1>7
  <2> HIDE DEF place, f
  <2> QED BY <2>3, <2>4
<1>9. ASSUME NEW x \in K PROVE \E n \in 1..l : f[n] = x
  <2>1. x \in Nat /\ x - t \in 1..C /\ x = t + (x - t)
    BY <1>2, <1>3
  <2> DEFINE k == x - t
  <2>2. k \in 1..C /\ x = t + k
    BY <2>1
  <2> HIDE DEF k
  <2>3. At(U)[k] \in L
    BY <1>3, <2>1, <2>2
  <2>4. PICK n \in 1..l : At(L)[n] = At(U)[k]
    BY <1>4, <2>3
  <2>5. Cardinality(Earlier(U, At(L)[n])) = k - 1
    BY <1>2, <2>2, <2>4
  <2>6. place[n] = k
    BY <1>2, <2>2, <2>5
  <2> QED BY <1>7, <2>2, <2>6
<1>10. K \in SUBSET Nat
  BY <1>2, <1>3
<1>11. f \in [1..l -> K]
  BY <1>7
<1>12. ASSUME NEW n \in 1..l PROVE all[f[n]] = list[At(L)[n]]
  <2> HIDE DEF place, f
  <2>1. all[f[n]] = list[At(U)[place[n]]]
    BY <1>3, <1>6, <1>7
  <2> QED BY <1>6, <2>1
<1> HIDE DEF f
<1>13. \A n \in 1..l : all[f[n]] = list[At(L)[n]]
  BY <1>12
<1>14. Through(K, l, f)
  BY <1>8, <1>9, <1>11 DEF Through
<1> QED BY <1>0, <1>1, <1>10, <1>13, <1>14, KeptAlong

\* Hoisting pinned rows moves no other row.
LEMMA HoistLoosened ==
  ASSUME NEW list \in Seq(Rows), NEW ps \in Seq(Nat), NEW fixed, Pinned(ps) \subseteq fixed,
         NEW all, all = sortPinnedFirst(list, ps)
  PROVE  all \in Seq(Rows) /\ Loosened(all, fixed) = Loosened(list, fixed)
<1> DEFINE H == { k \in DOMAIN list : list[k].id \in Pinned(ps) }
           U == DOMAIN list \ H
           C == Cardinality(U)
           top == Kept(list, H)
           rank == [k \in DOMAIN top |-> CHOOSE n \in DOMAIN ps : ps[n] = top[k].id]
           T == Sorted(top, rank)
           R == Kept(list, U)
           t == Len(T)
           K == { k \in DOMAIN all : all[k].id \notin fixed }
           L == { k \in DOMAIN list : list[k].id \notin fixed }
<1>1. /\ H \in SUBSET (DOMAIN list) /\ U \in SUBSET (DOMAIN list) /\ L \in SUBSET U
      /\ \A k \in H : list[k].id \in Pinned(ps)
      /\ \A k \in U : k \in L <=> list[k].id \notin fixed
  OBVIOUS
<1>2. all = T \o R
  BY DEF sortPinnedFirst
<1>3. Loosened(all, fixed) = Kept(all, K) /\ Loosened(list, fixed) = Kept(list, L)
  BY DEF Loosened
<1>4. K \subseteq DOMAIN all /\ \A k \in DOMAIN all : k \in K <=> all[k].id \notin fixed
  OBVIOUS
<1>5. C = Cardinality(U)
  OBVIOUS
<1> HIDE DEF H, U, L, K, C
<1>6. top \in Seq(Rows) /\ Listing(top) = Picked(list, H)
  BY <1>1, KeptOf
<1>7. \A x \in Listing(top) : x.id \in Pinned(ps)
  BY <1>1, <1>6 DEF Picked
<1>8. rank \in [DOMAIN top -> Nat]
  <2>1. ASSUME NEW k \in DOMAIN top
        PROVE  (CHOOSE n \in DOMAIN ps : ps[n] = top[k].id) \in Nat
    <3>1. top[k].id \in Pinned(ps)
      BY <1>7 DEF Listing
    <3>2. PICK n \in DOMAIN ps : ps[n] = top[k].id
      BY <3>1 DEF Pinned
    <3>3. DOMAIN ps \subseteq Nat
      OBVIOUS
    <3> QED BY <3>2, <3>3
  <2> HIDE DEF top
  <2> QED BY <2>1
<1> HIDE DEF top, rank
<1>9. T \in Seq(Rows) /\ Listing(T) = Listing(top)
  BY <1>6, <1>8, SortedOf
<1>10. R \in Seq(Rows)
  BY <1>1, KeptOf
<1>11. U \in SUBSET Nat /\ IsFiniteSet(U)
  BY <1>1, Positions
<1>12. C \in Nat /\ At(U) \in [1..C -> U] /\ R = [n \in 1..C |-> list[At(U)[n]]]
  BY <1>5, <1>11, KeptAt
<1> HIDE DEF T, R
<1>13. Len(R) = C /\ \A k \in 1..C : R[k] = list[At(U)[k]] /\ At(U)[k] \in U
  BY <1>10, <1>12
<1>14. /\ all \in Seq(Rows) /\ t \in Nat /\ DOMAIN all = 1..(t + C)
       /\ \A k \in 1..t : all[k] = T[k] /\ k \in DOMAIN T
       /\ \A k \in 1..C, x \in Nat : x = t + k => x \in DOMAIN all /\ all[x] = R[k]
  BY <1>2, <1>9, <1>10, <1>13
<1> HIDE DEF t
<1>15. \A k \in 1..t : k \notin K
  <2>1. \A k \in 1..t : all[k] \in Listing(T)
    BY <1>14 DEF Listing
  <2>2. \A k \in 1..t : all[k].id \in fixed
    BY <1>7, <1>9, <2>1
  <2> QED BY <1>4, <2>2
<1>16. Behind(t, all, K, U, list, L)
  <2>1. K \subseteq (t + 1)..(t + C)
    BY <1>4, <1>12, <1>14, <1>15
  <2>2. ASSUME NEW k \in 1..C, NEW x \in Nat, x = t + k
        PROVE  all[x] = list[At(U)[k]] /\ (x \in K <=> At(U)[k] \in L)
    <3>1. x \in DOMAIN all /\ all[x] = R[k]
      BY <1>14, <2>2
    <3>2. all[x] = list[At(U)[k]] /\ At(U)[k] \in U
      BY <1>13, <3>1
    <3>3. x \in K <=> list[At(U)[k]].id \notin fixed
      BY <1>4, <3>1, <3>2
    <3> QED BY <1>1, <3>2, <3>3
  <2> QED BY <1>5, <2>1, <2>2 DEF Behind
<1>17. Kept(all, K) = Kept(list, L)
  BY <1>1, <1>11, <1>14, <1>16, KeptTwice
<1> QED BY <1>3, <1>14, <1>17

\* What is put behind a list is behind its loose rows too.
LEMMA AppendLoosened ==
  ASSUME NEW list \in Seq(Rows), NEW more \in Seq(Rows), NEW fixed,
         NEW a, a = Loosened(list, fixed), NEW b, b = Loosened(list \o more, fixed)
  PROVE  a \in Seq(Rows) /\ b \in Seq(Rows) /\ IsPrefix(a, b)
<1> DEFINE long == list \o more
           K == { k \in DOMAIN list : list[k].id \notin fixed }
           J == { k \in DOMAIN long : long[k].id \notin fixed }
           C == Cardinality(K)
           D == Cardinality(J)
<1>1. /\ K \in SUBSET (DOMAIN list) /\ J \in SUBSET (DOMAIN long)
      /\ \A k \in Nat : k \in K <=> k \in J /\ k <= Len(list)
  OBVIOUS
<1>2. a = Kept(list, K) /\ b = Kept(long, J) /\ long \in Seq(Rows)
  BY DEF Loosened
<1> HIDE DEF K, J
<1>3. /\ C \in Nat /\ D \in Nat /\ C <= D
      /\ \A n \in 1..C : Kept(long, J)[n] = Kept(list, K)[n]
  <2>1. C = Cardinality(K) /\ D = Cardinality(J)
    OBVIOUS
  <2> HIDE DEF C, D
  <2> QED BY <1>1, <2>1, KeptLonger
<1>4. a \in Seq(Rows) /\ b \in Seq(Rows)
  BY <1>1, <1>2, KeptOf
<1>5. DOMAIN a = 1..C /\ DOMAIN b = 1..D
  BY <1>2 DEF Kept
<1>6. Len(a) = C /\ Len(b) = D
  BY <1>3, <1>4, <1>5
<1>7. SubSeq(a, 1, C) = SubSeq(b, 1, C)
  BY <1>2, <1>3, <1>4, <1>6
<1> QED BY <1>3, <1>4, <1>6, <1>7 DEF IsPrefix

\* What a step may do to the list and the pins.
LEMMA ListMoves ==
  ASSUME Typed, Next
  PROVE  \/ items' = items
         \/ \E more \in Seq(Rows) : items' = items \o more
         \/ Reload \/ \E r \in requests : ShowPage(r)
<1>1. CASE Refilter
  BY <1>1 DEF Refilter, applyFilters
<1>2. CASE BoxOnly \/ PinsOnly \/ Write \/ loadMore
  BY <1>2 DEF BoxOnly, PinsOnly, Write, loadMore, view
<1>3. ASSUME NEW r \in requests, Serve(r) \/ Fail(r) \/ Drop(r) \/ Toast(r)
      PROVE  items' = items
  BY <1>3 DEF Serve, Fail, Drop, Toast, view
<1>4. ASSUME NEW r \in requests, AppendPage(r)
      PROVE  \E more \in Seq(Rows) : items' = items \o more
  <2>1. items' = items \o notArchived(r.answer.rows) /\ Come(r)
    BY <1>4 DEF AppendPage, Appended, Land, Come
  <2>2. notArchived(r.answer.rows) \in Seq(Rows)
    BY <2>1, AnswerTyped, Arrived DEF Typed
  <2> QED BY <2>1, <2>2
<1> QED BY <1>1, <1>2, <1>3, <1>4, Kinds

\* Rows the user is reading do not move: until another first page is shown, pages come
\* behind what is there and a pin moves only its own row (applications-list.tsx:49-53,
\* pins.ts:75-82).
THEOREM RowsStay == Spec => NothingMoves
<1> DEFINE fixed == Pinned(pins) \cup Pinned(pins')
<1>1. ASSUME IInv, IInv', Next, ~noStages', items' = items \/ \E more \in Seq(Rows) : items' = items \o more
      PROVE  Unmoved
  <2> DEFINE a == Loosened(Shown, fixed)
             b == Loosened(Shown', fixed)
  <2>1. /\ items \in Seq(Rows) /\ items' \in Seq(Rows)
        /\ stored \in Seq(Nat) /\ stored' \in Seq(Nat)
    BY <1>1 DEF IInv, Typed, ItemsTyped
  <2>2. pins \in Seq(Nat) /\ pins' \in Seq(Nat)
    <3>1. 0 \in Nat
      OBVIOUS
    <3> QED BY <2>1, <3>1, PinsTyped DEF pins
  <2>3. Shown' = sortPinnedFirst(items', pins')
    BY <1>1 DEF Shown
  <2>4. Pinned(pins) \subseteq fixed /\ Pinned(pins') \subseteq fixed
    OBVIOUS
  <2> HIDE DEF fixed
  <2>5. Shown' \in Seq(Rows) /\ b = Loosened(items', fixed)
    BY <2>1, <2>2, <2>3, <2>4, HoistLoosened
  <2>6. Shown \in Seq(Rows) /\ a \in Seq(Rows) /\ b \in Seq(Rows) /\ IsPrefix(a, b)
    <3>1. CASE noStages
      <4>1. Shown = <<>>
        BY <3>1 DEF Shown
      <4>2. b \in Seq(Rows)
        BY <2>1, <2>5, KeptOf DEF Loosened
      <4>3. a = <<>>
        BY <4>1, FS_EmptySet DEF Loosened, Kept
      <4> HIDE DEF a, b
      <4> QED BY <4>1, <4>2, <4>3 DEF IsPrefix
    <3>2. CASE ~noStages
      <4>1. Shown = sortPinnedFirst(items, pins)
        BY <3>2 DEF Shown
      <4>2. Shown \in Seq(Rows) /\ a = Loosened(items, fixed)
        BY <2>1, <2>2, <2>4, <4>1, HoistLoosened
      <4>3. PICK more \in Seq(Rows) : items' = items \o more
        <5>1. items = items \o <<>> /\ <<>> \in Seq(Rows)
          BY <2>1
        <5> QED BY <1>1, <5>1
      <4> HIDE DEF a, b
      <4> QED BY <2>1, <2>5, <4>2, <4>3, AppendLoosened
    <3> QED BY <3>1, <3>2
  <2>7. IsPrefix(Loosened(Shown, fixed), Loosened(sortPinnedFirst(items', pins'), fixed))
    BY <2>3, <2>6
  <2> HIDE DEF a, b
  <2> QED BY <2>7 DEF Unmoved, fixed
<1>2. ASSUME IInv, IInv', [Next]_vars
      PROVE  [\/ noStages' \/ Unmoved
              \/ Reload \/ \E r \in requests : ShowPage(r)]_<<items, stored, filters, listed>>
  <2>1. CASE UNCHANGED vars
    BY <2>1 DEF vars, view, props
  <2>2. CASE Next
    <3> HIDE DEF fixed
    <3> QED BY <1>1, <1>2, <2>2, ListMoves DEF IInv
  <2> QED BY <1>2, <2>1, <2>2
<1> QED BY <1>2, Invariant, PTL DEF Spec, NothingMoves
-------------------------------------------------------------------------------
\* Pins.

\* A list of pins: ids of applications, none twice, no more than the cap.
PinList(ps) == /\ ps \in Seq(Nat) /\ Len(ps) <= MAX_PINS
               /\ \A k \in DOMAIN ps : ps[k] > 0
               /\ \A j, k \in DOMAIN ps : ps[j] = ps[k] => j = k

\* Whatever numbers local storage holds, what is read from it is a list of pins.
LEMMA ParsedPins ==
  ASSUME NEW raw \in Seq(Nat)
  PROVE  PinList(parsePins(raw)) /\ Pinned(parsePins(raw)) \subseteq Pinned(raw)
<1> DEFINE K == { k \in DOMAIN raw : raw[k] > 0 /\ \A j \in 1..(k - 1) : raw[j] # raw[k] }
           C == Cardinality(K)
           cut == IF C > MAX_PINS THEN MAX_PINS ELSE C
           pp == parsePins(raw)
<1>1. /\ K \in SUBSET (DOMAIN raw)
      /\ \A k \in K : raw[k] > 0 /\ \A j \in 1..(k - 1) : raw[j] # raw[k]
  OBVIOUS
<1>2. C = Cardinality(K) /\ pp = [n \in 1..cut |-> Kept(raw, K)[n]]
  BY DEF parsePins
<1> HIDE DEF K, C, pp
<1>3. K \in SUBSET Nat /\ IsFiniteSet(K) /\ \A k \in K : k >= 1
  BY <1>1, Positions
<1>4. /\ C \in Nat /\ At(K) \in [1..C -> K]
      /\ \A j, k \in 1..C : j < k => At(K)[j] < At(K)[k]
      /\ Kept(raw, K) = [n \in 1..C |-> raw[At(K)[n]]]
  BY <1>2, <1>3, KeptAt
<1>5. cut \in Nat /\ cut <= MAX_PINS /\ \A n \in 1..cut : n \in 1..C
  BY <1>4, PinsAssumption
<1> HIDE DEF cut
<1>6. \A n \in 1..cut : pp[n] = raw[At(K)[n]] /\ At(K)[n] \in K
  BY <1>2, <1>4, <1>5
<1>7. \A n \in 1..cut : pp[n] \in Nat /\ pp[n] > 0 /\ pp[n] \in Pinned(raw)
  <2>1. \A k \in K : raw[k] \in Nat /\ raw[k] > 0 /\ raw[k] \in Pinned(raw)
    BY <1>1 DEF Pinned
  <2> QED BY <1>6, <2>1
<1>8. pp \in Seq(Nat) /\ DOMAIN pp = 1..cut /\ Len(pp) = cut
  BY <1>2, <1>5, <1>7
<1>9. ASSUME NEW j \in 1..cut, NEW k \in 1..cut, j < k PROVE pp[j] # pp[k]
  <2>1. At(K)[j] \in 1..(At(K)[k] - 1)
    <3>1. At(K)[j] < At(K)[k] /\ At(K)[j] \in K /\ At(K)[k] \in K
      BY <1>4, <1>5, <1>6, <1>9
    <3>2. \A x, y \in Nat : x >= 1 /\ x < y => x \in 1..(y - 1)
      OBVIOUS
    <3>3. At(K)[j] \in Nat /\ At(K)[j] >= 1 /\ At(K)[k] \in Nat
      BY <1>3, <3>1
    <3> QED BY <3>1, <3>2, <3>3
  <2> QED BY <1>1, <1>6, <2>1
<1>10. \A j, k \in 1..cut : pp[j] = pp[k] => j = k
  <2> SUFFICES ASSUME NEW j \in 1..cut, NEW k \in 1..cut, pp[j] = pp[k], j # k PROVE FALSE
    OBVIOUS
  <2>1. j < k \/ k < j
    BY <1>5
  <2> QED BY <1>9, <2>1
<1>11. PinList(pp)
  BY <1>5, <1>7, <1>8, <1>10 DEF PinList
<1>12. Pinned(pp) \subseteq Pinned(raw)
  <2>1. \A x \in Pinned(pp) : \E n \in 1..cut : x = pp[n]
    BY <1>8 DEF Pinned
  <2> QED BY <1>7, <2>1
<1> QED BY <1>11, <1>12 DEF pp

\* A list of pins is read as it was written.
LEMMA ParseKeeps ==
  ASSUME NEW ps, PinList(ps)
  PROVE  parsePins(ps) = ps
<1> DEFINE K == { k \in DOMAIN ps : ps[k] > 0 /\ \A j \in 1..(k - 1) : ps[j] # ps[k] }
           C == Cardinality(K)
           m == Len(ps)
           f == [n \in 1..m |-> n]
<1>1. /\ ps \in Seq(Nat) /\ m \in Nat /\ DOMAIN ps = 1..m /\ m <= MAX_PINS
      /\ \A k \in 1..m : ps[k] > 0
      /\ \A j, k \in 1..m : ps[j] = ps[k] => j = k
  BY DEF PinList
<1>2. K = 1..m
  <2>1. ASSUME NEW k \in 1..m, NEW j \in 1..(k - 1) PROVE ps[j] # ps[k]
    <3>1. j \in 1..m /\ j # k
      BY <1>1, <2>1
    <3> QED BY <1>1, <3>1
  <2> QED BY <1>1, <2>1
<1>3. parsePins(ps) = [n \in 1..(IF C > MAX_PINS THEN MAX_PINS ELSE C) |-> Kept(ps, K)[n]]
  BY DEF parsePins
<1>4. Through(K, m, f)
  <2>1. f \in [1..m -> K]
    BY <1>2
  <2>2. \A n \in 1..m : f[n] = n
    OBVIOUS
  <2> HIDE DEF f, m, K
  <2>3. \A j, k \in 1..m : j < k => f[j] < f[k]
    BY <2>2
  <2>4. \A x \in K : \E n \in 1..m : f[n] = x
    BY <1>2, <2>2
  <2> QED BY <2>1, <2>3, <2>4 DEF Through
<1>5. \A n \in 1..m : f[n] = n
  OBVIOUS
<1> HIDE DEF f, K, m
<1>6. K \in SUBSET Nat
  BY <1>1, <1>2
<1>7. IsFiniteSet(K) /\ C = m /\ \A n \in 1..m : At(K)[n] = n
  BY <1>1, <1>4, <1>5, <1>6, KeptIs
<1>8. Kept(ps, K) = [n \in 1..m |-> ps[n]]
  <2>1. Kept(ps, K) = [n \in 1..C |-> ps[At(K)[n]]]
    BY <1>6, <1>7, KeptAt
  <2> QED BY <1>7, <2>1
<1>9. parsePins(ps) = [n \in 1..m |-> ps[n]]
  BY <1>1, <1>3, <1>7, <1>8, PinsAssumption
<1>10. ps = [n \in 1..m |-> ps[n]]
  BY <1>1
<1> QED BY <1>9, <1>10

\* What a toggle pins.
Toggled(ps, id) == IF id \in Pinned(ps) THEN Pinned(ps) \ {id} ELSE Pinned(ps) \cup {id}

\* A toggle that is not refused at the cap makes a list of pins, in which that one id has
\* come or gone.
LEMMA ToggleIs ==
  ASSUME NEW ps, PinList(ps), NEW id \in Nat, id > 0, ~Full(ps, id)
  PROVE  PinList(togglePin(ps, id)) /\ Pinned(togglePin(ps, id)) = Toggled(ps, id)
<1>1. /\ ps \in Seq(Nat) /\ Len(ps) \in Nat /\ DOMAIN ps = 1..Len(ps) /\ Len(ps) <= MAX_PINS
      /\ \A k \in DOMAIN ps : ps[k] > 0
      /\ \A j, k \in DOMAIN ps : ps[j] = ps[k] => j = k
  BY DEF PinList
<1>2. CASE id \in Pinned(ps)
  <2> DEFINE K == { k \in DOMAIN ps : ps[k] # id }
             C == Cardinality(K)
             r == Kept(ps, K)
  <2>1. togglePin(ps, id) = r
    BY <1>2 DEF togglePin
  <2>2. K \in SUBSET (DOMAIN ps) /\ (\A k \in DOMAIN ps : k \in K <=> ps[k] # id) /\ C = Cardinality(K)
    OBVIOUS
  <2> HIDE DEF K, C, r
  <2>3. K \in SUBSET Nat /\ IsFiniteSet(K)
    BY <1>1, <2>2, Positions
  <2>4. r \in Seq(Nat) /\ Listing(r) = Picked(ps, K)
    BY <1>1, <2>2, KeptOf DEF r
  <2>5. /\ C \in Nat /\ At(K) \in [1..C -> K]
        /\ \A j, k \in 1..C : j < k => At(K)[j] < At(K)[k]
        /\ r = [n \in 1..C |-> ps[At(K)[n]]]
    BY <2>2, <2>3, KeptAt DEF r
  <2>6. DOMAIN r = 1..C /\ Len(r) = C /\ \A n \in 1..C : r[n] = ps[At(K)[n]] /\ At(K)[n] \in K
    BY <2>4, <2>5
  <2>7. C <= Len(ps)
    <3> DEFINE m == Len(ps)
    <3>1. m \in Nat /\ K \in SUBSET (1..m)
      BY <1>1, <2>2
    <3> HIDE DEF m
    <3>2. IsFiniteSet(1..m) /\ Cardinality(1..m) = IF 1 > m THEN 0 ELSE m - 1 + 1
      BY <3>1, FS_Interval
    <3>3. Cardinality(K) <= Cardinality(1..m)
      BY <3>1, <3>2, FS_Subset
    <3>4. Cardinality(1..m) = m
      BY <3>1, <3>2
    <3> QED BY <2>2, <3>3, <3>4 DEF m
  <2>8. \A k \in DOMAIN r : r[k] > 0
    BY <1>1, <2>2, <2>6
  <2>9. ASSUME NEW j \in 1..C, NEW k \in 1..C, r[j] = r[k] PROVE j = k
    <3>1. At(K)[j] = At(K)[k] /\ At(K)[j] \in Nat
      BY <1>1, <2>2, <2>3, <2>6, <2>9
    <3>2. ~(j < k) /\ ~(k < j)
      BY <2>5, <3>1
    <3> QED BY <2>5, <3>2
  <2>10. PinList(r)
    BY <1>1, <2>4, <2>6, <2>7, <2>8, <2>9, PinsAssumption DEF PinList
  <2>11. Pinned(r) = Pinned(ps) \ {id}
    <3>1. Pinned(r) = Picked(ps, K)
      BY <2>4 DEF Listing, Pinned
    <3> QED BY <2>2, <3>1 DEF Picked, Pinned
  <2> QED BY <1>2, <2>1, <2>10, <2>11 DEF Toggled
<1>3. CASE id \notin Pinned(ps)
  <2> DEFINE r == Append(ps, id)
             m == Len(ps)
  <2>1. togglePin(ps, id) = r /\ m < MAX_PINS
    BY <1>1, <1>3, PinsAssumption DEF togglePin, Full
  <2>2. /\ r \in Seq(Nat) /\ Len(r) = m + 1 /\ DOMAIN r = 1..(m + 1)
        /\ \A k \in 1..m : r[k] = ps[k]
        /\ r[m + 1] = id
    BY <1>1
  <2>3. \A k \in 1..m : ps[k] # id
    BY <1>1, <1>3 DEF Pinned
  <2> HIDE DEF r, m
  <2>4. m \in Nat /\ DOMAIN ps = 1..m
    BY <1>1 DEF m
  <2>5. \A k \in 1..(m + 1) : k \in 1..m \/ k = m + 1
    BY <2>4
  <2>6. PinList(r)
    <3>1. \A k \in DOMAIN r : r[k] > 0
      BY <1>1, <2>2, <2>4, <2>5
    <3>2. \A j, k \in DOMAIN r : r[j] = r[k] => j = k
      BY <1>1, <2>2, <2>3, <2>4, <2>5
    <3>3. Len(r) <= MAX_PINS
      BY <2>1, <2>2, <2>4, PinsAssumption
    <3> QED BY <2>2, <3>1, <3>2, <3>3 DEF PinList
  <2>7. Pinned(r) = Pinned(ps) \cup {id}
    <3>1. ASSUME NEW x \in Pinned(r) PROVE x \in Pinned(ps) \cup {id}
      BY <2>2, <2>4, <2>5 DEF Pinned
    <3>2. ASSUME NEW x \in Pinned(ps) \cup {id} PROVE x \in Pinned(r)
      <4>1. CASE x = id
        <5>1. m + 1 \in DOMAIN r
          BY <2>2, <2>4
        <5> QED BY <2>2, <4>1, <5>1 DEF Pinned
      <4>2. CASE x \in Pinned(ps)
        <5>1. PICK k \in 1..m : x = ps[k]
          BY <2>4, <4>2 DEF Pinned
        <5>2. k \in DOMAIN r /\ r[k] = x
          BY <2>2, <2>4, <5>1
        <5> QED BY <5>2 DEF Pinned
      <4> QED BY <3>2, <4>1, <4>2
    <3> QED BY <3>1, <3>2
  <2> QED BY <1>3, <2>1, <2>6, <2>7 DEF Toggled
<1> QED BY <1>2, <1>3

\* A pin is what the button said: from whatever local storage held, a toggle that is
\* written is read back as it was written, with that one application pinned or unpinned and
\* every other pin as it was read before (pins.ts:25-45, 63-69; use-pins.ts:101-111).
THEOREM TogglesAreKept ==
  ASSUME NEW raw \in Seq(Nat), NEW ps, ps = parsePins(raw),
         NEW id \in Nat, id > 0, ~Full(ps, id)
  PROVE  /\ parsePins(togglePin(ps, id)) = togglePin(ps, id)
         /\ Pinned(parsePins(togglePin(ps, id))) = Toggled(ps, id)
<1>1. PinList(ps)
  BY ParsedPins
<1>2. PinList(togglePin(ps, id)) /\ Pinned(togglePin(ps, id)) = Toggled(ps, id)
  BY <1>1, ToggleIs
<1>3. parsePins(togglePin(ps, id)) = togglePin(ps, id)
  BY <1>2, ParseKeeps
<1> QED BY <1>2, <1>3
\* The rows of s, pinned first: before a pinned row stand only rows pinned earlier, the
\* others are in their order, and every row is there, once.
Led(s, list, ps) ==
  /\ Listing(s) = Listing(list) /\ Once(s)
  /\ \A j, k \in DOMAIN s : j < k /\ s[k].id \in Pinned(ps) =>
       \E a, b \in DOMAIN ps : a < b /\ ps[a] = s[j].id /\ ps[b] = s[k].id
  /\ Loosened(s, Pinned(ps)) = Loosened(list, Pinned(ps))

\* The list shows every loaded row exactly once, the pinned ones first in the order they
\* were pinned, the others as the pages brought them, whatever local storage holds
\* (pins.ts:83-94, applications-list.tsx:405).
PinsLead == ~noStages => Led(Shown, items, pins)

\* Hoisting puts the pinned rows first, in the order of the pins.
LEMMA HoistLeads ==
  ASSUME NEW list \in Seq(Rows), Once(list), NEW ps, PinList(ps),
         NEW all, all = sortPinnedFirst(list, ps)
  PROVE  Led(all, list, ps)
<1> DEFINE H == { k \in DOMAIN list : list[k].id \in Pinned(ps) }
           U == DOMAIN list \ H
           top == Kept(list, H)
           rank == [k \in DOMAIN top |-> CHOOSE n \in DOMAIN ps : ps[n] = top[k].id]
           T == Sorted(top, rank)
           R == Kept(list, U)
           t == Len(T)
<1>1. /\ H \in SUBSET (DOMAIN list) /\ U \in SUBSET (DOMAIN list) /\ H \cup U = DOMAIN list
      /\ \A k \in H : list[k].id \in Pinned(ps)
      /\ \A k \in U : list[k].id \notin Pinned(ps)
  OBVIOUS
<1>2. all = T \o R
  BY DEF sortPinnedFirst
<1>3. /\ ps \in Seq(Nat) /\ DOMAIN ps \subseteq Nat
      /\ \A j, k \in DOMAIN ps : ps[j] = ps[k] => j = k
  BY DEF PinList
<1> HIDE DEF H, U
<1>4. top \in Seq(Rows) /\ Listing(top) = Picked(list, H) /\ Once(top)
  BY <1>1, KeptOf
<1>5. R \in Seq(Rows) /\ Listing(R) = Picked(list, U) /\ Once(R)
  BY <1>1, KeptOf
<1>6. \A x \in Listing(top) : x.id \in Pinned(ps)
  BY <1>1, <1>4 DEF Picked
<1>7. \A x \in Listing(R) : x.id \notin Pinned(ps)
  BY <1>1, <1>5 DEF Picked
<1>8. ASSUME NEW k \in DOMAIN top PROVE rank[k] \in DOMAIN ps /\ ps[rank[k]] = top[k].id
  <2>1. top[k].id \in Pinned(ps)
    BY <1>6 DEF Listing
  <2>2. PICK n \in DOMAIN ps : ps[n] = top[k].id
    BY <2>1 DEF Pinned
  <2> HIDE DEF top
  <2> QED BY <2>2
<1>9. rank \in [DOMAIN top -> Nat]
  <2>1. rank = [k \in DOMAIN top |-> rank[k]]
    BY DEF rank
  <2> HIDE DEF rank, top
  <2> QED BY <1>3, <1>8, <2>1
<1> HIDE DEF top, rank
<1>10. /\ T \in Seq(Rows) /\ Listing(T) = Listing(top) /\ Once(T)
       /\ Ranked(T, top, rank)
  BY <1>4, <1>9, SortedOf
<1> HIDE DEF T, R
<1>11. all \in Seq(Rows) /\ Listing(all) = Listing(T) \cup Listing(R)
  BY <1>2, <1>5, <1>10, Joined
<1>12. Once(all)
  BY <1>2, <1>5, <1>6, <1>7, <1>10, Joined
<1>13. Listing(all) = Listing(list)
  BY <1>1, <1>4, <1>5, <1>10, <1>11 DEF Listing, Picked
<1>14. /\ t \in Nat /\ DOMAIN T = 1..t /\ Len(R) \in Nat /\ DOMAIN all = 1..(t + Len(R))
       /\ \A k \in 1..t : all[k] = T[k]
       /\ \A k \in 1..(t + Len(R)) : k > t => k - t \in DOMAIN R /\ all[k] = R[k - t]
  BY <1>2, <1>5, <1>10
<1> HIDE DEF t
<1>15. ASSUME NEW k \in DOMAIN all, all[k].id \in Pinned(ps) PROVE k \in 1..t
  <2> SUFFICES ASSUME k > t PROVE FALSE
    BY <1>14
  <2>1. all[k] \in Listing(R)
    BY <1>14 DEF Listing
  <2> QED BY <1>7, <1>15, <2>1
<1>16. ASSUME NEW j \in 1..t, NEW k \in 1..t, j < k
       PROVE  \E a, b \in DOMAIN ps : a < b /\ ps[a] = T[j].id /\ ps[b] = T[k].id
  <2>1. PICK f \in [DOMAIN top -> DOMAIN top] :
          /\ T = [n \in DOMAIN top |-> top[f[n]]]
          /\ \A x, y \in DOMAIN top : x < y => Ahead(rank, f[x], f[y])
    BY <1>10 DEF Ranked
  <2>2. DOMAIN top = 1..t
    BY <1>14, <2>1
  <2> DEFINE a == rank[f[j]]
             b == rank[f[k]]
  <2>3. /\ f[j] \in DOMAIN top /\ f[k] \in DOMAIN top
        /\ T[j] = top[f[j]] /\ T[k] = top[f[k]]
        /\ Ahead(rank, f[j], f[k])
    BY <1>16, <2>1, <2>2
  <2>4. a \in DOMAIN ps /\ b \in DOMAIN ps /\ ps[a] = T[j].id /\ ps[b] = T[k].id
    BY <1>8, <2>3
  <2>5. a <= b
    BY <1>3, <2>3, <2>4 DEF Ahead
  <2>6. T[j].id # T[k].id
    <3>1. j # k /\ j \in DOMAIN T /\ k \in DOMAIN T
      BY <1>14, <1>16
    <3> QED BY <1>10, <3>1 DEF Once
  <2> HIDE DEF a, b
  <2>7. a \in Nat /\ b \in Nat /\ a # b
    BY <1>3, <2>4, <2>6
  <2>8. a < b
    BY <2>5, <2>7
  <2> QED BY <2>4, <2>8
<1>17. ASSUME NEW j \in DOMAIN all, NEW k \in DOMAIN all, j < k, all[k].id \in Pinned(ps)
       PROVE  \E a, b \in DOMAIN ps : a < b /\ ps[a] = all[j].id /\ ps[b] = all[k].id
  <2>1. k \in 1..t
    BY <1>15, <1>17
  <2>2. j \in 1..t
    BY <1>14, <1>17, <2>1
  <2>3. all[j] = T[j] /\ all[k] = T[k]
    BY <1>14, <2>1, <2>2
  <2> QED BY <1>16, <1>17, <2>1, <2>2, <2>3
<1>18. Loosened(all, Pinned(ps)) = Loosened(list, Pinned(ps))
  BY <1>3, HoistLoosened
<1> QED BY <1>12, <1>13, <1>17, <1>18 DEF Led

\* In every state, whichever answers arrived and whatever other tabs pinned.
THEOREM PinsCorrect == Spec => []PinsLead
<1>1. IInv => PinsLead
  <2> SUFFICES ASSUME IInv, ~noStages PROVE Led(Shown, items, pins)
    BY DEF PinsLead
  <2>1. items \in Seq(Rows) /\ Once(items) /\ stored \in Seq(Nat)
    BY DEF IInv, Typed, ItemsTyped, ListInv
  <2>2. PinList(pins)
    BY <2>1, ParsedPins DEF pins
  <2>3. Shown = sortPinnedFirst(items, pins)
    BY DEF Shown
  <2> QED BY <2>1, <2>2, <2>3, HoistLeads
<1> QED BY <1>1, Invariant, PTL
===============================================================================
