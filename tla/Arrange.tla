-------------------------------- MODULE Arrange --------------------------------
(***************************************************************************)
(* Filters and stable sorts of lists, by counting what comes before.       *)
(***************************************************************************)
EXTENDS Naturals, FiniteSets

\* A filter: the entries at the positions of K, in their order.
Kept(seq, K) ==
  [n \in 1..Cardinality(K) |-> seq[CHOOSE k \in K : Cardinality({ j \in K : j < k }) = n - 1]]

\* A stable sort: by rank, and equals as they come.
Ahead(rank, j, k) == rank[j] < rank[k] \/ (rank[j] = rank[k] /\ j < k)

Sorted(seq, rank) ==
  [n \in DOMAIN seq |->
     seq[CHOOSE k \in DOMAIN seq : Cardinality({ j \in DOMAIN seq : Ahead(rank, j, k) }) = n - 1]]

\* The numbers of K, the greatest first.
Descending(K) ==
  [n \in 1..Cardinality(K) |-> CHOOSE i \in K : Cardinality({ j \in K : j > i }) = n - 1]
================================================================================
