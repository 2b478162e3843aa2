-------------------------- MODULE SubsequenceProof --------------------------
(***************************************************************************)
(* What AtPlaces gives of a sequence of any length, and facts about        *)
(* sequences and numbers that the proofs about the components keep needing. *)
(***************************************************************************)
EXTENDS Subsequence, Functions, FiniteSetTheorems, SequenceTheorems,
        WellFoundedInduction, TLAPS

-----------------------------------------------------------------------------
(* Among natural numbers there is a least one: what stands for induction    *)
(* where a property is proved for every length.                             *)
LEMMA LeastOfSome ==
  ASSUME NEW B \in SUBSET Nat, B # {} PROVE \E k \in B : \A j \in B : k <= j
PROOF
<1>1. PICK k \in B : \A j \in B : <<j, k>> \notin OpToRel(<, Nat)
  BY NatLessThanWellFounded, WFMin
<1>2. \A j \in B : j \in Nat /\ k \in Nat /\ ~(j < k)
  BY <1>1 DEF OpToRel
<1>3. \A j \in B : k <= j
  BY <1>2
<1> QED BY <1>3

-----------------------------------------------------------------------------
(* The order of the members of K.                                           *)

LEMMA PlacesFinite ==
  ASSUME NEW n \in Nat, NEW K \in SUBSET (1..n)
  PROVE  IsFiniteSet(K) /\ Cardinality(K) \in 0..n
PROOF
<1>1. 1 \in Int /\ n \in Int
  OBVIOUS
<1>2. IsFiniteSet(1..n) /\ Cardinality(1..n) = IF 1 > n THEN 0 ELSE n-1+1
  BY <1>1, FS_Interval
<1>3. Cardinality(1..n) = n
  BY <1>2
<1>4. IsFiniteSet(K) /\ Cardinality(K) <= Cardinality(1..n)
  BY <1>2, FS_Subset
<1>5. Cardinality(K) \in Nat
  BY <1>4, FS_CardinalityType
<1> QED BY <1>3, <1>4, <1>5

(* Ranks grow with the places.                                              *)
LEMMA RankGrows ==
  ASSUME NEW n \in Nat, NEW K \in SUBSET (1..n), NEW k \in K, NEW l \in K, k < l
  PROVE  Rank(K, k) < Rank(K, l)
PROOF
<1> DEFINE A == {j \in K : j <= k}
           B == {j \in K : j <= l}
<1>1. IsFiniteSet(K)
  BY PlacesFinite
<1>2. IsFiniteSet(A) /\ IsFiniteSet(B)
  BY <1>1, FS_Subset
<1>0. \A j \in K : j \in Int
  OBVIOUS
<1>3. A \subseteq B /\ l \in B /\ l \notin A
  <2>1. k \in Int /\ l \in Int
    BY <1>0
  <2>2. \A j \in K : j <= k => j <= l
    BY <1>0, <2>1
  <2>3. l <= l /\ ~(l <= k)
    BY <2>1
  <2> QED BY <2>2, <2>3
<1> HIDE DEF A, B
<1>4. Cardinality(A) \in Nat /\ Cardinality(B) \in Nat
  BY <1>2, FS_CardinalityType
<1>5. Cardinality(A) <= Cardinality(B) /\ (Cardinality(B) = Cardinality(A) => B = A)
  BY <1>2, <1>3, FS_Subset
<1> QED BY <1>3, <1>4, <1>5 DEF Rank, A, B

LEMMA RankType ==
  ASSUME NEW n \in Nat, NEW K \in SUBSET (1..n), NEW k \in K
  PROVE  Rank(K, k) \in 1..Cardinality(K)
PROOF
<1> DEFINE A == {j \in K : j <= k}
<1>1. IsFiniteSet(K)
  BY PlacesFinite
<1>2. IsFiniteSet(A) /\ Cardinality(A) <= Cardinality(K)
  BY <1>1, FS_Subset
<1>3. Cardinality(A) \in Nat /\ Cardinality(K) \in Nat
  BY <1>1, <1>2, FS_CardinalityType
<1>4. k \in A
  OBVIOUS
<1>5. Cardinality(A) # 0
  BY <1>2, <1>4, FS_EmptySet
<1> QED BY <1>2, <1>3, <1>5 DEF Rank

(* Every rank up to the size of K is some member's.                         *)
LEMMA RankTaken ==
  ASSUME NEW n \in Nat, NEW K \in SUBSET (1..n), NEW i \in 1..Cardinality(K)
  PROVE  \E k \in K : Rank(K, k) = i
PROOF
<1> DEFINE Missing(m) == \E S \in SUBSET (1..m) : \E r \in 1..Cardinality(S) :
                           \A k \in S : Rank(S, k) # r
           Bad == {m \in Nat : Missing(m)}
<1>1. SUFFICES Bad = {}
  <2>1. ~Missing(n)
    BY <1>1
  <2> QED BY <2>1
<1>2. SUFFICES ASSUME Bad # {} PROVE FALSE
  OBVIOUS
<1>3. PICK m \in Bad : \A j \in Bad : m <= j
  <2>1. Bad \in SUBSET Nat
    OBVIOUS
  <2> QED BY <1>2, <2>1, LeastOfSome
<1>4. PICK S \in SUBSET (1..m) : \E r \in 1..Cardinality(S) :
                                   \A k \in S : Rank(S, k) # r
  BY <1>3
<1>5. PICK r \in 1..Cardinality(S) : \A k \in S : Rank(S, k) # r
  BY <1>4
<1>6. /\ m \in Nat /\ IsFiniteSet(S) /\ Cardinality(S) \in Nat
      /\ \A j \in S : j \in Int /\ 1 <= j /\ j <= m
  <2>1. m \in Nat
    BY <1>3
  <2>2. IsFiniteSet(S) /\ Cardinality(S) \in 0..m
    BY <2>1, PlacesFinite
  <2> QED BY <2>1, <2>2
<1>7. m # 0 /\ ~Missing(m - 1)
  <2>1. m # 0
    <3>1. SUFFICES ASSUME m = 0 PROVE FALSE
      OBVIOUS
    <3>2. S = {}
      BY <1>6, <3>1
    <3>3. Cardinality(S) = 0
      BY <3>2, FS_EmptySet
    <3> QED BY <1>5, <3>3
  <2>2. m - 1 \in Nat /\ ~(m <= m - 1)
    BY <1>6, <2>1
  <2> QED BY <1>3, <2>1, <2>2
<1>8. m \in S
  <2>1. SUFFICES ASSUME m \notin S PROVE FALSE
    OBVIOUS
  <2>2. S \in SUBSET (1..m-1)
    BY <1>6, <2>1
  <2> QED BY <1>5, <1>7, <2>2
<1> DEFINE T == S \ {m}
<1>9. /\ T \in SUBSET (1..m-1) /\ IsFiniteSet(T)
      /\ Cardinality(T) = Cardinality(S) - 1
  BY <1>6, <1>8, FS_RemoveElement
<1>10. CASE r = Cardinality(S)
  <2>1. {j \in S : j <= m} = S
    BY <1>6
  <2> QED BY <1>5, <1>8, <1>10, <2>1 DEF Rank
<1>11. CASE r # Cardinality(S)
  <2>1. r \in 1..Cardinality(T)
    BY <1>6, <1>9, <1>11
  <2>2. PICK k \in T : Rank(T, k) = r
    BY <1>7, <1>9, <2>1
  <2>3. k \in S /\ {j \in S : j <= k} = {j \in T : j <= k}
    BY <1>6, <1>9, <2>2
  <2> QED BY <1>5, <2>2, <2>3 DEF Rank
<1> QED BY <1>10, <1>11

LEMMA NthFacts ==
  ASSUME NEW n \in Nat, NEW K \in SUBSET (1..n)
  PROVE  /\ Cardinality(K) \in 0..n
         /\ \A i \in 1..Cardinality(K) : Nth(K, i) \in K
         /\ \A i, j \in 1..Cardinality(K) : i < j => Nth(K, i) < Nth(K, j)
         /\ \A k \in K : \E i \in 1..Cardinality(K) : Nth(K, i) = k
PROOF
<1>0. \A k \in K : k \in Int
  OBVIOUS
<1>1. Cardinality(K) \in 0..n
  BY PlacesFinite
<1>2. ASSUME NEW i \in 1..Cardinality(K)
      PROVE  Nth(K, i) \in K /\ Rank(K, Nth(K, i)) = i
  BY RankTaken DEF Nth
<1>3. ASSUME NEW i \in 1..Cardinality(K), NEW j \in 1..Cardinality(K), i < j
      PROVE  Nth(K, i) < Nth(K, j)
  <2>1. /\ Nth(K, i) \in K /\ Nth(K, j) \in K
        /\ Rank(K, Nth(K, i)) = i /\ Rank(K, Nth(K, j)) = j
    BY <1>2
  <2>2. Nth(K, i) \in Int /\ Nth(K, j) \in Int
    BY <1>0, <2>1
  <2>3. Nth(K, i) # Nth(K, j)
    BY <1>1, <1>3, <2>1
  <2>4. ~(Nth(K, j) < Nth(K, i))
    <3>1. SUFFICES ASSUME Nth(K, j) < Nth(K, i) PROVE FALSE
      OBVIOUS
    <3>2. j < i
      BY <2>1, <3>1, RankGrows
    <3> QED BY <1>1, <1>3, <3>2
  <2> QED BY <2>2, <2>3, <2>4
<1>4. ASSUME NEW k \in K
      PROVE  \E i \in 1..Cardinality(K) : Nth(K, i) = k
  <2> DEFINE i == Rank(K, k)
  <2>1. i \in 1..Cardinality(K)
    BY RankType
  <2>2. Nth(K, i) \in K /\ Rank(K, Nth(K, i)) = Rank(K, k)
    BY <1>2, <2>1
  <2>3. ~(Nth(K, i) < k) /\ ~(k < Nth(K, i))
    <3>1. \A a, b \in K : a < b => Rank(K, a) < Rank(K, b)
      BY RankGrows
    <3>2. i \in Int
      BY <2>1
    <3>3. ~(i < i) /\ Rank(K, Nth(K, i)) = i
      BY <2>2, <3>2
    <3> HIDE DEF i
    <3>4. Rank(K, k) = i
      BY DEF i
    <3> QED BY <2>2, <3>1, <3>3, <3>4
  <2>4. Nth(K, i) \in Int /\ k \in Int
    BY <1>0, <2>2
  <2> QED BY <2>1, <2>3, <2>4
<1> QED BY <1>1, <1>2, <1>3, <1>4

-----------------------------------------------------------------------------
(* What is left at the places of K: a sequence over the same set, its       *)
(* elements those at K, each once if they were, in the order they had.      *)
THEOREM AtPlacesFacts ==
  ASSUME NEW S, NEW q \in Seq(S), NEW K \in SUBSET (DOMAIN q)
  PROVE  /\ AtPlaces(q, K) \in Seq(S)
         /\ Len(AtPlaces(q, K)) = Cardinality(K)
         /\ Range(AtPlaces(q, K)) = {q[k] : k \in K}
         /\ \A m \in DOMAIN AtPlaces(q, K) : \E k \in K : AtPlaces(q, K)[m] = q[k]
         /\ IsInjective(q) => IsInjective(AtPlaces(q, K))
         /\ \A m, n \in DOMAIN AtPlaces(q, K) :
              m < n => \E k, l \in K : /\ k < l /\ AtPlaces(q, K)[m] = q[k]
                                       /\ AtPlaces(q, K)[n] = q[l]
PROOF
<1> DEFINE n == Len(q)
           c == Cardinality(K)
           r == AtPlaces(q, K)
<1>1. n \in Nat /\ DOMAIN q = 1..n /\ K \in SUBSET (1..n)
  OBVIOUS
<1>2. /\ c \in 0..n
      /\ \A i \in 1..c : Nth(K, i) \in K
      /\ \A i, j \in 1..c : i < j => Nth(K, i) < Nth(K, j)
      /\ \A k \in K : \E i \in 1..c : Nth(K, i) = k
  BY <1>1, NthFacts
<1>3. r = [i \in 1..c |-> q[Nth(K, i)]]
  BY DEF AtPlaces
<1> HIDE DEF c, r
<1>4. DOMAIN r = 1..c /\ \A i \in 1..c : r[i] = q[Nth(K, i)] /\ r[i] \in S
  BY <1>1, <1>2, <1>3
<1>5. r \in Seq(S) /\ Len(r) = c
  <2>1. c \in Nat
    BY <1>1, <1>2
  <2>2. r \in [1..c -> S]
    BY <1>3, <1>4
  <2> QED BY <2>1, <2>2
<1>6. Range(r) = {q[k] : k \in K}
  <2>1. \A i \in 1..c : \E k \in K : r[i] = q[k]
    BY <1>2, <1>4
  <2>2. \A k \in K : \E i \in 1..c : r[i] = q[k]
    BY <1>2, <1>4
  <2> QED BY <1>4, <2>1, <2>2 DEF Range
<1>7. ASSUME IsInjective(q) PROVE IsInjective(r)
  <2> SUFFICES ASSUME NEW i \in 1..c, NEW j \in 1..c, r[i] = r[j] PROVE i = j
    BY <1>4 DEF IsInjective
  <2>1. Nth(K, i) = Nth(K, j)
    BY <1>1, <1>2, <1>4, <1>7 DEF IsInjective
  <2>2. Nth(K, i) \in Int /\ i \in Int /\ j \in Int
    BY <1>1, <1>2
  <2> QED BY <1>2, <2>1, <2>2
<1>8. ASSUME NEW i \in 1..c, NEW j \in 1..c, i < j
      PROVE  \E k, l \in K : k < l /\ r[i] = q[k] /\ r[j] = q[l]
  BY <1>2, <1>4, <1>8
<1>9. \A i \in 1..c : \E k \in K : r[i] = q[k]
  BY <1>2, <1>4
<1>10. Len(r) = Cardinality(K)
  BY <1>5 DEF c
<1> QED BY <1>4, <1>5, <1>6, <1>7, <1>8, <1>9, <1>10 DEF r

-----------------------------------------------------------------------------
\* The two parts of a queue.
LEMMA SplitQueue ==
  ASSUME NEW S, NEW q \in Seq(S), NEW n \in 0..Len(q)
  PROVE  LET ds == SubSeq(q, 1, n)
             q2 == SubSeq(q, n + 1, Len(q)) IN
         /\ ds \in Seq(S) /\ Len(ds) = n /\ \A k \in 1..n : ds[k] = q[k]
         /\ q2 \in Seq(S) /\ Len(q2) = Len(q) - n
         /\ \A k \in 1..Len(q)-n : q2[k] = q[k + n]
         /\ Range(q) = Range(ds) \cup Range(q2)
         /\ IsInjective(q) => /\ IsInjective(ds) /\ IsInjective(q2)
                              /\ Range(ds) \cap Range(q2) = {}
PROOF
<1> DEFINE ds == SubSeq(q, 1, n)
           q2 == SubSeq(q, n + 1, Len(q))
           m == Len(q)
<1>1. m \in Nat /\ n \in Nat /\ n <= m /\ DOMAIN q = 1..m
  OBVIOUS
<1>2. ds \in Seq(S) /\ Len(ds) = n /\ DOMAIN ds = 1..n /\ \A k \in 1..n : ds[k] = q[k]
  BY <1>1
<1>3. /\ q2 \in Seq(S) /\ Len(q2) = m - n /\ DOMAIN q2 = 1..m-n
      /\ \A k \in 1..m-n : q2[k] = q[k + n]
  <2> HIDE DEF m
  <2>1. \A k \in n+1..m : q[k] \in S
    BY <1>1
  <2>2. /\ q2 \in Seq(S)
        /\ Len(q2) = IF n + 1 <= m THEN m - (n + 1) + 1 ELSE 0
        /\ \A k \in 1..m-(n+1)+1 : q2[k] = q[(n + 1) + k - 1]
    <3>1. n + 1 \in Int /\ m \in Int /\ q2 = SubSeq(q, n + 1, m)
      BY <1>1 DEF m
    <3> HIDE DEF q2
    <3> QED BY <2>1, <3>1, SubSeqProperties
  <2> HIDE DEF q2
  <2>3. Len(q2) = m - n /\ m - (n + 1) + 1 = m - n
    BY <1>1, <2>2
  <2>4. ASSUME NEW k \in 1..m-n PROVE q2[k] = q[k + n]
    <3>1. (n + 1) + k - 1 = k + n
      BY <1>1
    <3> QED BY <2>2, <2>3, <3>1
  <2> QED BY <2>2, <2>3, <2>4
<1> HIDE DEF ds, q2, m
<1>4. Range(q) = Range(ds) \cup Range(q2)
  <2>1. ASSUME NEW k \in 1..m PROVE q[k] \in Range(ds) \cup Range(q2)
    <3>1. CASE k <= n
      BY <1>1, <1>2, <3>1 DEF Range
    <3>2. CASE ~(k <= n)
      <4>1. k - n \in 1..m-n /\ (k - n) + n = k
        BY <1>1, <3>2
      <4> QED BY <1>3, <4>1 DEF Range
    <3> QED BY <3>1, <3>2
  <2>2. ASSUME NEW k \in 1..n PROVE ds[k] \in Range(q)
    BY <1>1, <1>2 DEF Range
  <2>3. ASSUME NEW k \in 1..m-n PROVE q2[k] \in Range(q)
    <3>1. k + n \in 1..m
      BY <1>1
    <3> QED BY <1>1, <1>3, <3>1 DEF Range
  <2>4. Range(q) \subseteq Range(ds) \cup Range(q2)
    BY <1>1, <2>1 DEF Range
  <2>5. Range(ds) \subseteq Range(q) /\ Range(q2) \subseteq Range(q)
    BY <1>2, <1>3, <2>2, <2>3 DEF Range
  <2> QED BY <2>4, <2>5
<1>5. ASSUME IsInjective(q)
      PROVE  IsInjective(ds) /\ IsInjective(q2) /\ Range(ds) \cap Range(q2) = {}
  <2>1. \A k, l \in 1..m : q[k] = q[l] => k = l
    BY <1>1, <1>5 DEF IsInjective
  <2>2. IsInjective(ds)
    BY <1>1, <1>2, <2>1 DEF IsInjective
  <2>3. IsInjective(q2)
    <3> SUFFICES ASSUME NEW k \in 1..m-n, NEW l \in 1..m-n, q2[k] = q2[l] PROVE k = l
      BY <1>3 DEF IsInjective
    <3>1. k + n \in 1..m /\ l + n \in 1..m /\ q[k + n] = q[l + n]
      BY <1>1, <1>3
    <3>2. k + n = l + n
      BY <2>1, <3>1
    <3> QED BY <1>1, <3>2
  <2>4. ASSUME NEW k \in 1..n, NEW l \in 1..m-n, ds[k] = q2[l] PROVE FALSE
    <3>1. k \in 1..m /\ l + n \in 1..m /\ k # l + n
      BY <1>1
    <3> QED BY <1>2, <1>3, <2>1, <2>4, <3>1
  <2> QED BY <1>2, <1>3, <2>2, <2>3, <2>4 DEF Range
<1>6. /\ ds \in Seq(S) /\ Len(ds) = n /\ \A k \in 1..n : ds[k] = q[k]
      /\ q2 \in Seq(S) /\ Len(q2) = Len(q) - n
      /\ \A k \in 1..Len(q)-n : q2[k] = q[k + n]
  BY <1>2, <1>3 DEF m
<1> QED BY <1>4, <1>5, <1>6 DEF ds, q2

\* Its elements with one more at the end, one less at the head, or one more there.
LEMMA RangeAppend ==
  ASSUME NEW S, NEW q \in Seq(S), NEW x \in S
  PROVE  /\ Append(q, x) \in Seq(S)
         /\ Range(Append(q, x)) = Range(q) \cup {x}
         /\ IsInjective(q) /\ x \notin Range(q) => IsInjective(Append(q, x))
PROOF
<1> DEFINE r == Append(q, x)
<1>1. /\ r \in Seq(S) /\ DOMAIN r = 1..Len(q)+1 /\ DOMAIN q = 1..Len(q) /\ Len(q) \in Nat
      /\ \A k \in 1..Len(q) : r[k] = q[k]
      /\ r[Len(q) + 1] = x
  OBVIOUS
<1> HIDE DEF r
<1>2. DOMAIN r = DOMAIN q \cup {Len(q) + 1} /\ Len(q) + 1 \notin DOMAIN q
  BY <1>1
<1>3. Range(r) = Range(q) \cup {x}
  BY <1>1, <1>2 DEF Range
<1>4. IsInjective(q) /\ x \notin Range(q) => IsInjective(r)
  BY <1>1, <1>2 DEF IsInjective, Range
<1> QED BY <1>1, <1>3, <1>4 DEF r

LEMMA RangeTail ==
  ASSUME NEW S, NEW q \in Seq(S), q # <<>>
  PROVE  /\ Head(q) \in S /\ Tail(q) \in Seq(S)
         /\ Range(q) = Range(Tail(q)) \cup {Head(q)}
         /\ IsInjective(q) => IsInjective(Tail(q)) /\ Head(q) \notin Range(Tail(q))
PROOF
<1> DEFINE t == Tail(q)
<1>1. /\ t \in Seq(S) /\ Len(q) \in Nat \ {0} /\ DOMAIN q = 1..Len(q)
      /\ DOMAIN t = 1..Len(q)-1
      /\ \A k \in 1..Len(q)-1 : t[k] = q[k + 1]
      /\ Head(q) = q[1] /\ q[1] \in S
  OBVIOUS
<1> HIDE DEF t
<1>2. Range(q) = Range(t) \cup {q[1]}
  <2>1. ASSUME NEW k \in DOMAIN q PROVE q[k] \in Range(t) \cup {q[1]}
    <3>1. CASE k = 1
      BY <3>1
    <3>2. CASE k # 1
      <4>1. k - 1 \in 1..Len(q)-1 /\ (k - 1) + 1 = k
        BY <1>1, <3>2
      <4> QED BY <1>1, <4>1 DEF Range
    <3> QED BY <3>1, <3>2
  <2>2. ASSUME NEW k \in DOMAIN t PROVE t[k] \in Range(q)
    <3>1. k + 1 \in DOMAIN q
      BY <1>1
    <3> QED BY <1>1, <3>1 DEF Range
  <2>3. 1 \in DOMAIN q
    BY <1>1
  <2> QED BY <2>1, <2>2, <2>3 DEF Range
<1>3. ASSUME IsInjective(q) PROVE IsInjective(t) /\ q[1] \notin Range(t)
  <2>1. \A i, j \in 1..Len(q) : q[i] = q[j] => i = j
    BY <1>1, <1>3 DEF IsInjective
  <2>2. \A k \in 1..Len(q)-1 : k + 1 \in 1..Len(q) /\ k + 1 # 1
    BY <1>1
  <2>3. 1 \in 1..Len(q)
    BY <1>1
  <2>4. \A i, j \in 1..Len(q)-1 : i + 1 = j + 1 => i = j
    BY <1>1
  <2>5. IsInjective(t)
    BY <1>1, <2>1, <2>2, <2>4 DEF IsInjective
  <2>6. q[1] \notin Range(t)
    BY <1>1, <2>1, <2>2, <2>3 DEF Range
  <2> QED BY <2>5, <2>6
<1> QED BY <1>1, <1>2, <1>3 DEF t

LEMMA RangeCons ==
  ASSUME NEW S, NEW q \in Seq(S), NEW x \in S
  PROVE  /\ <<x>> \o q \in Seq(S)
         /\ Range(<<x>> \o q) = Range(q) \cup {x}
         /\ Head(<<x>> \o q) = x
         /\ IsInjective(q) /\ x \notin Range(q) => IsInjective(<<x>> \o q)
PROOF
<1> DEFINE r == <<x>> \o q
<1>1. /\ r \in Seq(S) /\ DOMAIN r = 1..Len(q)+1 /\ DOMAIN q = 1..Len(q) /\ Len(q) \in Nat
      /\ \A k \in 2..Len(q)+1 : r[k] = q[k - 1]
      /\ r[1] = x /\ Head(r) = r[1]
  OBVIOUS
<1> HIDE DEF r
<1>2. ASSUME NEW k \in DOMAIN q PROVE k + 1 \in DOMAIN r /\ r[k + 1] = q[k]
  <2>1. k + 1 \in 2..Len(q)+1 /\ (k + 1) - 1 = k
    BY <1>1
  <2> QED BY <1>1, <2>1
<1>3. ASSUME NEW k \in DOMAIN r, k # 1 PROVE k - 1 \in DOMAIN q /\ r[k] = q[k - 1]
  BY <1>1, <1>3
<1>4. 1 \in DOMAIN r
  BY <1>1
<1>5. Range(r) = Range(q) \cup {x}
  <2>1. ASSUME NEW y \in Range(r) PROVE y \in Range(q) \cup {x}
    <3>1. PICK k \in DOMAIN r : y = r[k]
      BY DEF Range
    <3>2. CASE k = 1
      BY <1>1, <3>1, <3>2
    <3>3. CASE k # 1
      BY <1>3, <3>1, <3>3 DEF Range
    <3> QED BY <3>2, <3>3
  <2>2. ASSUME NEW y \in Range(q) PROVE y \in Range(r)
    BY <1>2 DEF Range
  <2>3. x \in Range(r)
    BY <1>1, <1>4 DEF Range
  <2> QED BY <2>1, <2>2, <2>3
<1>6. ASSUME IsInjective(q), x \notin Range(q) PROVE IsInjective(r)
  <2>1. \A k \in DOMAIN q : q[k] # x
    BY <1>6 DEF Range
  <2>2. ASSUME NEW i \in DOMAIN r, NEW j \in DOMAIN r, r[i] = r[j] PROVE i = j
    <3>1. CASE i = 1 \/ j = 1
      BY <1>1, <1>3, <2>1, <2>2, <3>1
    <3>2. CASE i # 1 /\ j # 1
      <4>1. i - 1 \in DOMAIN q /\ j - 1 \in DOMAIN q /\ q[i - 1] = q[j - 1]
        BY <1>3, <2>2, <3>2
      <4>2. i - 1 = j - 1
        BY <1>6, <4>1 DEF IsInjective
      <4> QED BY <1>1, <4>2
    <3> QED BY <3>1, <3>2
  <2> QED BY <2>2 DEF IsInjective
<1> QED BY <1>1, <1>5, <1>6 DEF r

-----------------------------------------------------------------------------
(* Two sequences joined, and one with an element taken out.                 *)

\* What joining two sequences of S gives
JoinOf(S, p, q, r) ==
  /\ r \in Seq(S) /\ Len(r) = Len(p) + Len(q)
  /\ \A i \in 1..Len(p) : r[i] = p[i]
  /\ \A i \in Len(p)+1..Len(p)+Len(q) : r[i] = q[i - Len(p)]

LEMMA Concatenated ==
  ASSUME NEW S, NEW p \in Seq(S), NEW q \in Seq(S)
  PROVE  JoinOf(S, p, q, p \o q)
PROOF
<1>1. p \o q \in Seq(S) /\ Len(p \o q) = Len(p) + Len(q)
  BY ConcatProperties
<1>2. ASSUME NEW i \in 1..Len(p)  PROVE (p \o q)[i] = p[i]
  BY <1>2
<1>3. ASSUME NEW i \in Len(p)+1..Len(p)+Len(q)  PROVE (p \o q)[i] = q[i - Len(p)]
  BY <1>3
<1> QED BY <1>1, <1>2, <1>3 DEF JoinOf

\* s without its k-th element
Skipping(s, k) == SubSeq(s, 1, k-1) \o SubSeq(s, k+1, Len(s))

\* s has the n elements of S, and r has them without the k-th
OneLess(S, s, n, k, r) ==
  /\ r \in Seq(S) /\ Len(r) = n - 1
  /\ \A i \in 1..k-1 : r[i] = s[i]
  /\ \A i \in k..n-1 : r[i] = s[i+1]

LEMMA Removed ==
  ASSUME NEW S, NEW s \in Seq(S), NEW n \in Nat, Len(s) = n, NEW k \in 1..n
  PROVE  OneLess(S, s, n, k, Skipping(s, k))
PROOF
<1>1. /\ SubSeq(s, 1, k-1) \in Seq(S) /\ Len(SubSeq(s, 1, k-1)) = k - 1
      /\ \A i \in 1..k-1 : SubSeq(s, 1, k-1)[i] = s[i]
  BY SubSeqProperties
<1>2. /\ SubSeq(s, k+1, n) \in Seq(S) /\ Len(SubSeq(s, k+1, n)) = n - k
      /\ \A i \in 1..n-k : SubSeq(s, k+1, n)[i] = s[k+i]
  BY SubSeqProperties
<1>3. PICK p, q, r : p = SubSeq(s, 1, k-1) /\ q = SubSeq(s, k+1, n) /\ r = Skipping(s, k)
  OBVIOUS
<1>4. r = p \o q
  BY <1>3 DEF Skipping
<1>5. p \in Seq(S) /\ q \in Seq(S)
  BY <1>1, <1>2, <1>3
<1>6. /\ Len(p) = k - 1 /\ \A i \in 1..k-1 : p[i] = s[i]
      /\ Len(q) = n - k /\ \A i \in 1..n-k : q[i] = s[k+i]
  BY <1>1, <1>2, <1>3
<1>7. JoinOf(S, p, q, r)
  BY <1>4, <1>5, Concatenated, Zenon
<1>8. /\ Len(r) = n - 1
      /\ \A i \in 1..k-1 : r[i] = s[i]
  BY <1>6, <1>7 DEF JoinOf
<1>9. ASSUME NEW i \in k..n-1  PROVE r[i] = s[i+1]
  <2>1. i \in Len(p)+1..Len(p)+Len(q)
    BY <1>6
  <2>2. r[i] = q[i - Len(p)]
    BY <1>7, <2>1, Zenon DEF JoinOf
  <2>3. i - (k-1) \in 1..n-k /\ k + (i - (k-1)) = i + 1
    OBVIOUS
  <2> QED BY <1>6, <2>2, <2>3
<1> QED BY <1>3, <1>7, <1>8, <1>9 DEF JoinOf, OneLess

=============================================================================
