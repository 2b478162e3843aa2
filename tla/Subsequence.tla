---------------------------- MODULE Subsequence -----------------------------
(***************************************************************************)
(* The part of a sequence at a set of its places: what a loop leaves of a  *)
(* list when it unlinks some of the nodes.  SelectSeq would do, were it    *)
(* not recursive: module SubsequenceProof proves about this one.           *)
(***************************************************************************)
EXTENDS Integers, Sequences, FiniteSets

\* How far down K its member k comes.
Rank(K, k) == Cardinality({j \in K : j <= k})

\* The n-th member of K.
Nth(K, n) == CHOOSE k \in K : Rank(K, k) = n

\* The elements of q at the places of K, in their order.
AtPlaces(q, K) == [n \in 1..Cardinality(K) |-> q[Nth(K, n)]]
=============================================================================
