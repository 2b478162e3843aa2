----------------------------- MODULE HeapProof ------------------------------
(***************************************************************************)
(* The heap of freeListMM.c, proved for any size.                          *)
(*                                                                         *)
(* A heap is a set L of free blocks, linked in the order of their          *)
(* addresses (Linked), which with the blocks U in use tile its words       *)
(* (Tiles), and of which no two touch (Apart).  Insertion is two steps:    *)
(* the block is linked in or joined to the one before, and the result is   *)
(* joined to the one after.  malloc() unlinks, splits and inserts the      *)
(* rest; free() inserts.  That a loop over the list is a function at all,  *)
(* and where it ends, is shown first.                                      *)
(***************************************************************************)
EXTENDS FreeListMM, SubsequenceProof

-----------------------------------------------------------------------------
(* The loops over the list, as functions: such a function exists, and is    *)
(* where the loop ends.                                                     *)

LEMMA Blocks ==
  ASSUME HeapWords \in Nat \ {0}
  PROVE  /\ Block = -1..HeapWords /\ Addr \subseteq Block /\ Block \subseteq Int
         /\ Start \in Block /\ End \in Block /\ Start \notin Addr /\ End \notin Addr
         /\ Null \notin Block /\ 0 \in Addr
PROOF
BY DEF Block, Addr, Start, End, Null

\* f is the walk along nx through the places of G.
IsWalk(f, nx, G) == f = [p \in Block |-> IF p \in G THEN f[nx[p]] ELSE p]

LEMMA WalkExists ==
  ASSUME HeapWords \in Nat \ {0}, NEW nx, NEW G \in SUBSET Block,
         \A p \in G : nx[p] \in Block /\ p < nx[p]
  PROVE  \E f : IsWalk(f, nx, G)
PROOF
<1> DEFINE From(n) == {p \in Block : p >= HeapWords - n}
           Part(n, f) == f = [p \in From(n) |-> IF p \in G THEN f[nx[p]] ELSE p]
           Bad == {n \in Nat : n <= HeapWords + 1 /\ ~\E f : Part(n, f)}
<1>1. CASE Bad # {}
  <2>1. PICK n \in Bad : \A m \in Bad : n <= m
    BY <1>1, LeastOfSome
  <2>2. n \in Nat /\ n <= HeapWords + 1 /\ HeapWords - n \in Block
    BY <2>1, Blocks
  <2>3. PICK q : q = HeapWords - n
    OBVIOUS
  <2>4. \A p \in Block : p \in G => nx[p] \in Block /\ p < nx[p] /\ p # HeapWords
    BY Blocks
  <2>5. CASE n = 0
    <3> DEFINE f == [p \in From(n) |-> p]
    <3>1. \A p \in From(n) : p \notin G
      BY <2>4, <2>5, Blocks
    <3>2. Part(n, f)
      BY <3>1
    <3> QED BY <2>1, <3>2
  <2>6. CASE n # 0
    <3>1. n - 1 \in Nat /\ n - 1 <= HeapWords + 1 /\ ~(n <= n - 1)
      BY <2>2, <2>6
    <3>2. n - 1 \notin Bad
      BY <2>1, <3>1
    <3>3. PICK f : Part(n - 1, f)
      BY <3>1, <3>2
    <3>4. /\ \A p \in From(n) : p = q \/ p \in From(n-1)
          /\ q \in From(n) /\ q \notin From(n-1) /\ From(n-1) \subseteq From(n)
      BY <2>2, <2>3, Blocks
    <3>5. \A p \in From(n) : p \in G => nx[p] \in From(n-1)
      BY <2>2, <2>4, Blocks
    <3> HIDE DEF From
    <3>6. \A p \in From(n-1) : f[p] = IF p \in G THEN f[nx[p]] ELSE p
      BY <3>3
    <3> DEFINE g == [p \in From(n) |-> IF p = q THEN IF q \in G THEN f[nx[q]] ELSE q ELSE f[p]]
    <3>7. \A p \in From(n-1) : g[p] = f[p]
      BY <3>4
    <3>8. \A p \in From(n) : g[p] = IF p \in G THEN g[nx[p]] ELSE p
      BY <3>4, <3>5, <3>6, <3>7
    <3>9. g = [p \in From(n) |-> IF p \in G THEN g[nx[p]] ELSE p]
      <4>1. g = [p \in From(n) |-> g[p]]
        OBVIOUS
      <4> HIDE DEF g
      <4> QED BY <3>8, <4>1
    <3> QED BY <2>1, <3>9
  <2> QED BY <2>5, <2>6
<1>2. CASE Bad = {}
  <2>1. PICK n \in Nat : n = HeapWords + 1
    OBVIOUS
  <2>2. \E f : Part(n, f)
    <3>1. n \notin Bad
      <4> HIDE DEF Bad
      <4> QED BY <1>2
    <3> HIDE DEF Part
    <3> QED BY <2>1, <3>1
  <2>3. From(n) = Block
    BY <2>1, Blocks
  <2> QED BY <2>2, <2>3 DEF IsWalk
<1> QED BY <1>1, <1>2

\* A walk ends where it started from or at a place that those lead to.
LEMMA WalkEnds ==
  ASSUME HeapWords \in Nat \ {0}, NEW nx, NEW G \in SUBSET Block, NEW f, IsWalk(f, nx, G),
         NEW I \in SUBSET Block, \A p \in I \cap G : nx[p] \in I /\ p < nx[p],
         NEW s \in I
  PROVE  f[s] \in I \ G
PROOF
<1> DEFINE Bad == {n \in Nat : \E p \in I : n = HeapWords - p /\ f[p] \notin I \ G}
<1>1. \A p \in Block : f[p] = IF p \in G THEN f[nx[p]] ELSE p
  BY DEF IsWalk
<1>2. CASE Bad # {}
  <2>1. PICK n \in Bad : \A m \in Bad : n <= m
    BY <1>2, LeastOfSome
  <2>2. PICK p \in I : n = HeapWords - p /\ f[p] \notin I \ G
    BY <2>1
  <2>3. p \in G
    BY <1>1, <2>2
  <2>4. f[p] = f[nx[p]] /\ nx[p] \in I /\ p < nx[p]
    BY <1>1, <2>3
  <2>5. HeapWords - nx[p] \in Nat /\ ~(n <= HeapWords - nx[p])
    BY <2>2, <2>4, Blocks
  <2>6. HeapWords - nx[p] \in Bad
    BY <2>2, <2>4, <2>5
  <2> QED BY <2>1, <2>5, <2>6
<1>3. CASE Bad = {}
  <2>1. HeapWords - s \in Nat
    BY Blocks
  <2> QED BY <1>3, <2>1
<1> QED BY <1>2, <1>3

LEMMA BeforeIs ==
  ASSUME HeapWords \in Nat \ {0}, NEW nx, NEW b
  PROVE  LET G == {p \in Block : nx[p] # Null /\ nx[p] < b} IN
         (\E f : IsWalk(f, nx, G)) => \E f : IsWalk(f, nx, G) /\ Before(nx, b) = f[Start]
PROOF
<1> DEFINE G == {p \in Block : nx[p] # Null /\ nx[p] < b}
           walk == CHOOSE f : f = [p \in Block |-> IF nx[p] # Null /\ nx[p] < b THEN f[nx[p]] ELSE p]
<1>1. Before(nx, b) = walk[Start]
  BY DEF Before
<1>2. \A f : IsWalk(f, nx, G) <=>
               f = [p \in Block |-> IF nx[p] # Null /\ nx[p] < b THEN f[nx[p]] ELSE p]
  BY DEF IsWalk
<1> QED BY <1>1, <1>2

-----------------------------------------------------------------------------
(* A heap: its free blocks L on the list nx, those in use U, their sizes.   *)

\* No block is smaller; the initial one may be.
Least == IF HeapWords < Header THEN HeapWords ELSE Header

Linked(nx, L) ==
  /\ nx \in [Block -> Block \cup {Null}] /\ L \in SUBSET Addr
  /\ nx[End] = Null
  /\ \A p \in Block : nx[p] = Null \/ p < nx[p]
  /\ \A p \in L \cup {Start} : nx[p] \in L \cup {End} /\ \A c \in L : c <= p \/ nx[p] <= c

Tiles(sz, H) ==
  /\ sz \in [Block -> Nat] /\ H \in SUBSET Addr /\ sz[Start] = 0
  /\ \A b \in H : Least <= sz[b] /\ b + sz[b] <= HeapWords
  /\ \A b, c \in H : b < c => b + sz[b] <= c
  /\ \A w \in Addr : \E b \in H : b <= w /\ w < b + sz[b]

Apart(sz, L) == \A b \in L : b + sz[b] \notin L

Heap(nx, sz, L, U) ==
  /\ Linked(nx, L) /\ Tiles(sz, L \cup U) /\ Apart(sz, L) /\ L \cap U = {}

\* The words of some blocks
Covered(sz, H) == {w \in Addr : \E b \in H : b <= w /\ w < b + sz[b]}

LEMMA LeastIs == ASSUME HeapWords \in Nat \ {0} PROVE Least \in Nat \ {0}
PROOF
BY DEF Least, Header

\* The place in the list where b belongs
LEMMA PlaceOf ==
  ASSUME HeapWords \in Nat \ {0}, NEW nx, NEW L, Linked(nx, L), NEW b \in Addr, b \notin L
  PROVE  LET it == Before(nx, b) IN
         /\ it \in L \cup {Start} /\ it < b
         /\ nx[it] \in L \cup {End} /\ b < nx[it]
         /\ \A c \in L : c <= it \/ nx[it] <= c
PROOF
<1> DEFINE G == {p \in Block : nx[p] # Null /\ nx[p] < b}
           I == {p \in L \cup {Start} : p < b}
<1>1. /\ L \subseteq Addr /\ \A p \in Block : nx[p] \in Block \cup {Null}
      /\ \A p \in Block : nx[p] = Null \/ p < nx[p]
      /\ \A p \in L \cup {Start} : nx[p] \in L \cup {End} /\ \A c \in L : c <= p \/ nx[p] <= c
  BY DEF Linked
<1>2. \A p \in G : nx[p] \in Block /\ p < nx[p]
  BY <1>1
<1>3. b \in Nat /\ b < HeapWords
  BY DEF Addr
<1>4. \A p \in I \cap G : nx[p] \in I /\ p < nx[p]
  BY <1>1, <1>3 DEF End
<1>5. Start \in I /\ I \in SUBSET Block
  <2>1. Start < b
    BY <1>3 DEF Start
  <2>2. L \cup {Start} \subseteq Block
    BY <1>1, Blocks
  <2> QED BY <2>1, <2>2
<1>6. \E f : IsWalk(f, nx, G)
  <2> HIDE DEF G
  <2> QED BY <1>2, WalkExists DEF G
<1>7. PICK f : IsWalk(f, nx, G) /\ Before(nx, b) = f[Start]
  BY <1>6, BeforeIs
<1>8. f[Start] \in I \ G
  <2> HIDE DEF I
  <2> QED BY <1>4, <1>5, <1>7, WalkEnds
<1>9. PICK it : it = Before(nx, b)
  OBVIOUS
<1>10. it \in L \cup {Start} /\ it < b /\ it \in Block /\ ~(nx[it] < b)
  <2>1. it \in I /\ it \notin G
    BY <1>7, <1>8, <1>9
  <2>2. it \in Block /\ it \in L \cup {Start} /\ it < b
    BY <1>5, <2>1
  <2>3. nx[it] # Null
    BY <1>1, <2>2, Blocks
  <2> QED BY <2>1, <2>2, <2>3
<1>11. nx[it] \in L \cup {End} /\ nx[it] \in Block
  BY <1>1, <1>10, Blocks
<1>12. b < nx[it]
  BY <1>3, <1>10, <1>11, Blocks
<1> QED BY <1>1, <1>9, <1>10, <1>11, <1>12

(* The steps that insertion and allocation are made of.                     *)

LEMMA LinkIn ==
  ASSUME HeapWords \in Nat \ {0}, NEW nx, NEW L, Linked(nx, L), NEW b \in Addr, b \notin L,
         NEW it \in L \cup {Start}, it < b, nx[it] \in L \cup {End}, b < nx[it],
         NEW nx2, nx2 \in [Block -> Block \cup {Null}],
         nx2[it] = b, nx2[b] = nx[it], \A p \in Block : p # it /\ p # b => nx2[p] = nx[p]
  PROVE  Linked(nx2, L \cup {b})
PROOF
<1>1. /\ L \subseteq Addr /\ nx[End] = Null
      /\ \A p \in Block : nx[p] = Null \/ p < nx[p]
      /\ \A p \in L \cup {Start} : nx[p] \in L \cup {End} /\ \A c \in L : c <= p \/ nx[p] <= c
  BY DEF Linked
<1>2. /\ b \in Block /\ it \in Block /\ it # b /\ L \cup {End} \subseteq Block
      /\ b # End /\ it # End /\ End \in Block /\ b \in Int /\ it \in Int /\ b # Null
      /\ End # Null /\ b # Start
  BY <1>1, Blocks
<1>3. nx2[End] = Null
  BY <1>1, <1>2
<1>4. \A p \in Block : nx2[p] = Null \/ p < nx2[p]
  BY <1>1, <1>2
<1>5. ASSUME NEW p \in L \cup {b} \cup {Start}, NEW c \in L \cup {b}
      PROVE  nx2[p] \in L \cup {b, End} /\ (c <= p \/ nx2[p] <= c)
  <2>1. p \in Int /\ c \in Int /\ p \in Block /\ c \in Block
    BY <1>1, <1>2, Blocks
  <2>2. nx[it] \in Int /\ nx[it] # Null
    BY <1>1, <1>2, Blocks
  <2>3. CASE p = it
    <3>1. c = b \/ c <= it \/ nx[it] <= c
      BY <1>1
    <3> QED BY <1>2, <2>1, <2>2, <2>3, <3>1
  <2>4. CASE p = b
    <3>1. c = b \/ c <= it \/ nx[it] <= c
      BY <1>1
    <3> QED BY <1>2, <2>1, <2>2, <2>4, <3>1
  <2>5. CASE p # it /\ p # b
    <3>1. p \in L \cup {Start} /\ nx2[p] = nx[p] /\ nx[p] \in L \cup {End}
      BY <1>1, <1>2, <2>1, <2>5
    <3>2. nx[p] \in Int
      BY <1>1, <1>2, <2>1, <3>1, Blocks
    <3>3. CASE c = b
      <4>1. p <= it \/ nx[it] <= p
        BY <1>1, <1>2, <2>1, <3>1, Blocks DEF Start
      <4>2. CASE nx[it] <= p
        BY <1>1, <1>2, <2>1, <2>2, <3>1, <3>3, <4>2
      <4>3. CASE p < it
        <5>1. it \in L
          BY <1>1, <1>2, <2>1, <4>3, <3>1, Blocks DEF Start, Addr
        <5>2. nx[p] <= it
          BY <1>1, <1>2, <2>1, <3>1, <4>3, <5>1
        <5> QED BY <1>2, <2>1, <3>1, <3>2, <3>3, <5>2
      <4> QED BY <1>2, <2>1, <2>5, <4>1, <4>2, <4>3
    <3>4. CASE c # b
      BY <1>1, <3>1, <3>4
    <3> QED BY <3>3, <3>4
  <2> QED BY <2>3, <2>4, <2>5
<1>6. L \cup {b} \in SUBSET Addr
  BY <1>1
<1> QED BY <1>3, <1>4, <1>5, <1>6 DEF Linked

\* A header that becomes data
LEMMA Forget ==
  ASSUME HeapWords \in Nat \ {0}, NEW nx, NEW L, Linked(nx, L), NEW b \in Addr, b \notin L,
         NEW nx2, nx2 \in [Block -> Block \cup {Null}],
         nx2[b] = Null, \A p \in Block : p # b => nx2[p] = nx[p]
  PROVE  Linked(nx2, L)
PROOF
BY Blocks DEF Linked

LEMMA Unlink ==
  ASSUME HeapWords \in Nat \ {0}, NEW nx, NEW L, Linked(nx, L),
         NEW c \in L \cup {Start}, NEW d \in L, nx[c] = d,
         NEW nx2, nx2 \in [Block -> Block \cup {Null}],
         nx2[c] = nx[d], nx2[d] \in {Null, nx[d]},
         \A p \in Block : p # c /\ p # d => nx2[p] = nx[p]
  PROVE  Linked(nx2, L \ {d})
PROOF
<1>1. /\ L \subseteq Addr /\ nx[End] = Null
      /\ \A p \in Block : nx[p] = Null \/ p < nx[p]
      /\ \A p \in L \cup {Start} : nx[p] \in L \cup {End} /\ \A x \in L : x <= p \/ nx[p] <= x
  BY DEF Linked
<1>2. /\ c \in Block /\ d \in Block /\ c < d /\ L \cup {End, Start} \subseteq Block
      /\ d # End /\ c # End /\ End \in Block /\ c \in Int /\ d \in Int
      /\ nx[d] # Null /\ nx[d] \in L \cup {End} /\ d < nx[d] /\ nx[d] \in Int /\ End # Null
  BY <1>1, Blocks
<1>3. nx2[End] = Null
  BY <1>1, <1>2
<1>4. ASSUME NEW p \in L \cup {Start}, p # c PROVE nx[p] # d
  <2>1. p \in Int
    BY <1>2, Blocks
  <2>2. p <= c \/ d <= p
    BY <1>1, <1>2, <2>1, Blocks DEF Start, Addr
  <2>3. CASE p < c
    <3>1. c \in L
      BY <1>1, <1>2, <2>1, <2>3, Blocks DEF Start, Addr
    <3>2. nx[p] <= c
      BY <1>1, <1>2, <2>1, <2>3, <3>1
    <3> QED BY <1>1, <1>2, <3>2
  <2>4. CASE d <= p
    <3>1. p < nx[p] /\ nx[p] \in Int
      BY <1>1, <1>2, Blocks
    <3> QED BY <1>2, <2>1, <2>4, <3>1
  <2> QED BY <1>2, <1>4, <2>1, <2>2, <2>3, <2>4
<1>5. ASSUME NEW p \in (L \ {d}) \cup {Start}, NEW x \in L \ {d}
      PROVE  nx2[p] \in (L \ {d}) \cup {End} /\ (x <= p \/ nx2[p] <= x)
  <2>1. x \in Int /\ p \in Int /\ p \in Block
    BY <1>1, <1>2, Blocks
  <2>2. CASE p = c
    <3>1. (x <= c \/ d <= x) /\ (x <= d \/ nx[d] <= x)
      BY <1>1
    <3> QED BY <1>2, <2>1, <2>2, <3>1
  <2>3. CASE p # c
    <3>1. p # d
      BY <1>1, <1>5, Blocks
    <3> QED BY <1>1, <1>4, <1>5, <2>1, <2>3, <3>1
  <2> QED BY <2>2, <2>3
<1>6. L \ {d} \in SUBSET Addr
  BY <1>1
<1>7. \A p \in Block : nx2[p] = Null \/ p < nx2[p]
  <2>1. \A p \in Block : nx2[p] \in {Null, nx[p]} \/ p = c
    BY <1>2
  <2>2. c < nx2[c]
    BY <1>2
  <2> QED BY <1>1, <2>1, <2>2
<1>8. \A p \in (L \ {d}) \cup {Start} : nx2[p] \in (L \ {d}) \cup {End}
  <2>1. ASSUME NEW p \in (L \ {d}) \cup {Start} PROVE nx2[p] \in (L \ {d}) \cup {End}
    <3>1. CASE p = c
      BY <1>1, <1>2, <3>1
    <3>2. CASE p # c
      <4>1. p \in L \cup {Start} /\ p # d /\ p \in Block
        BY <1>1, <1>2, Blocks
      <4> QED BY <1>1, <1>4, <3>2, <4>1
    <3> QED BY <3>1, <3>2
  <2> QED BY <2>1
<1> QED BY <1>3, <1>5, <1>6, <1>7, <1>8 DEF Linked

LEMMA TileFacts ==
  ASSUME HeapWords \in Nat \ {0}, NEW sz, NEW H, Tiles(sz, H)
  PROVE  \A b \in H : /\ b \in Block /\ b \in Addr /\ b \in Nat /\ b < HeapWords
                      /\ sz[b] \in Nat /\ sz[b] > 0 /\ Least <= sz[b] /\ b + sz[b] <= HeapWords
PROOF
<1>1. ASSUME NEW b \in H PROVE b \in Block /\ b \in Addr /\ b \in Nat /\ b < HeapWords /\ sz[b] \in Nat
  <2>1. b \in Addr /\ sz \in [Block -> Nat]
    BY DEF Tiles
  <2>2. b \in Block
    BY <2>1, Blocks
  <2> QED BY <2>1, <2>2 DEF Addr
<1>2. ASSUME NEW b \in H PROVE sz[b] > 0 /\ Least <= sz[b] /\ b + sz[b] <= HeapWords
  <2>1. Least <= sz[b] /\ b + sz[b] <= HeapWords
    BY DEF Tiles
  <2> QED BY <1>1, <2>1, LeastIs
<1> QED BY <1>1, <1>2

LEMMA TileJoin ==
  ASSUME HeapWords \in Nat \ {0}, NEW sz, NEW H, Tiles(sz, H),
         NEW a \in H, NEW d \in H, a + sz[a] = d,
         NEW sz2, sz2 \in [Block -> Nat], sz2[a] = sz[a] + sz[d],
         \A p \in Block : p # a /\ p # d => sz2[p] = sz[p]
  PROVE  Tiles(sz2, H \ {d}) /\ \A K \in SUBSET H : a \in K /\ d \in K =>
                                   Covered(sz2, K \ {d}) = Covered(sz, K)
PROOF
<1>1. \A b \in H : /\ b \in Block /\ b \in Addr /\ b \in Nat /\ b < HeapWords
                   /\ sz[b] \in Nat /\ sz[b] > 0 /\ Least <= sz[b] /\ b + sz[b] <= HeapWords
  BY TileFacts
<1>2. a # d /\ a < d /\ H \in SUBSET Addr /\ Start \notin H /\ sz[Start] = 0 /\ Least \in Nat
  <2>1. a < d
    <3>1. a \in Nat /\ sz[a] \in Nat /\ sz[a] > 0
      BY <1>1
    <3> QED BY <3>1
  <2>2. H \in SUBSET Addr /\ sz[Start] = 0
    BY DEF Tiles
  <2>3. Start \notin H /\ Least \in Nat /\ a \in Nat /\ d \in Nat
    BY <1>1, <2>2, Blocks, LeastIs
  <2> QED BY <2>1, <2>2, <2>3
<1>3. \A b \in H : b # a /\ b # d => sz2[b] = sz[b]
  BY <1>1
<1>4. sz2[Start] = 0
  BY <1>2, Blocks
<1>5. \A b \in H \ {d} : Least <= sz2[b] /\ b + sz2[b] <= HeapWords
  BY <1>1, <1>2, <1>3
<1>6. ASSUME NEW b \in H \ {d}, NEW c \in H \ {d}, b < c PROVE b + sz2[b] <= c
  <2>1. \A x, y \in H : x < y => x + sz[x] <= y
    BY DEF Tiles
  <2>2. CASE b = a
    <3>1. d <= c
      BY <1>1, <1>6, <2>1, <2>2
    <3>2. d < c
      BY <1>1, <3>1
    <3>3. d + sz[d] <= c
      BY <2>1, <3>2
    <3> QED BY <1>1, <2>2, <3>3
  <2>3. CASE b # a
    BY <1>3, <1>6, <2>1, <2>3
  <2> QED BY <2>2, <2>3
<1>7. ASSUME NEW K \in SUBSET H, a \in K, d \in K, NEW w \in Addr
      PROVE  (\E b \in K : b <= w /\ w < b + sz[b])
             <=> (\E b \in K \ {d} : b <= w /\ w < b + sz2[b])
  <2>1. w \in Nat
    BY DEF Addr
  <2>2. ASSUME NEW b \in K, b <= w, w < b + sz[b]
        PROVE  \E c \in K \ {d} : c <= w /\ w < c + sz2[c]
    <3>1. CASE b \in {a, d}
      <4>1. a <= w /\ w < a + sz2[a]
        BY <1>1, <1>2, <2>1, <2>2, <3>1
      <4> QED BY <1>2, <1>7, <4>1
    <3>2. CASE b \notin {a, d}
      <4>1. sz2[b] = sz[b]
        BY <1>3, <3>2
      <4> QED BY <2>2, <3>2, <4>1
    <3> QED BY <3>1, <3>2
  <2>3. ASSUME NEW b \in K \ {d}, b <= w, w < b + sz2[b]
        PROVE  \E c \in K : c <= w /\ w < c + sz[c]
    <3>1. CASE b = a
      <4>1. (a <= w /\ w < a + sz[a]) \/ (d <= w /\ w < d + sz[d])
        BY <1>1, <2>1, <2>3, <3>1
      <4> QED BY <1>7, <4>1
    <3>2. CASE b # a
      BY <1>3, <2>3, <3>2
    <3> QED BY <3>1, <3>2
  <2> QED BY <2>2, <2>3
<1>8. \A w \in Addr : \E b \in H \ {d} : b <= w /\ w < b + sz2[b]
  BY <1>7 DEF Tiles
<1>9. H \ {d} \in SUBSET Addr
  BY <1>2
<1>10. Tiles(sz2, H \ {d})
  BY <1>4, <1>5, <1>6, <1>8, <1>9 DEF Tiles
<1> QED BY <1>7, <1>10 DEF Covered

LEMMA TileSplit ==
  ASSUME HeapWords \in Nat \ {0}, NEW sz, NEW H, Tiles(sz, H),
         NEW sz2, sz2 \in [Block -> Nat], NEW a \in H, NEW d \in Addr, d = a + sz2[a],
         Least <= sz2[a], Least <= sz2[d], sz2[a] + sz2[d] = sz[a],
         \A p \in Block : p # a /\ p # d => sz2[p] = sz[p]
  PROVE  /\ d \notin H /\ Tiles(sz2, H \cup {d})
         /\ \A K \in SUBSET H : a \in K => Covered(sz2, K \cup {d}) = Covered(sz, K)
PROOF
<1>1. \A b \in H : /\ b \in Block /\ b \in Addr /\ b \in Nat /\ b < HeapWords
                   /\ sz[b] \in Nat /\ sz[b] > 0 /\ Least <= sz[b] /\ b + sz[b] <= HeapWords
  BY TileFacts
<1>2. H \in SUBSET Addr /\ Start \notin H /\ sz[Start] = 0 /\ Least \in Nat \ {0}
  BY Blocks, LeastIs DEF Tiles
<1>3. PICK k \in Nat, l \in Nat : k = sz2[a] /\ l = sz2[d]
  BY <1>1, Blocks
<1>4. d \in Nat /\ a < d /\ d < a + sz[a] /\ d \in Addr /\ d \in Block /\ k > 0 /\ l > 0 /\ d = a + k
  <2>1. d \in Block
    BY Blocks
  <2>2. k > 0 /\ l > 0
    BY <1>2, <1>3
  <2>3. k + l = sz[a] /\ d = a + k
    BY <1>3
  <2> QED BY <1>1, <2>1, <2>2, <2>3
<1>5. \A x, y \in H : x < y => x + sz[x] <= y
  BY DEF Tiles
<1>6. d \notin H
  BY <1>1, <1>4, <1>5
<1>7. \A b \in H : b # a => sz2[b] = sz[b]
  BY <1>1, <1>6
<1>8. sz2[Start] = 0
  BY <1>2, <1>3, <1>4, Blocks
<1>9. sz2[a] = k /\ sz2[d] = l /\ d + l = a + sz[a]
  BY <1>1, <1>3, <1>4
<1>10. \A b \in H \cup {d} : Least <= sz2[b] /\ b + sz2[b] <= HeapWords
  <2>1. ASSUME NEW b \in H \cup {d} PROVE Least <= sz2[b] /\ b + sz2[b] <= HeapWords
    <3>1. CASE b = d
      BY <1>1, <1>9, <3>1
    <3>2. CASE b = a
      BY <1>1, <1>4, <1>9, <3>2
    <3>3. CASE b # a /\ b # d
      BY <1>1, <1>7, <3>3
    <3> QED BY <3>1, <3>2, <3>3
  <2> QED BY <2>1
<1>11. ASSUME NEW b \in H \cup {d}, NEW c \in H \cup {d}, b < c PROVE b + sz2[b] <= c
  <2>1. CASE b = a
    <3>1. CASE c = d
      BY <1>3, <1>4, <1>9, <2>1, <3>1
    <3>2. CASE c # d
      <4>1. a + sz[a] <= c /\ c \in Nat
        BY <1>1, <1>5, <1>11, <2>1, <3>2
      <4> QED BY <1>1, <1>4, <1>9, <2>1, <4>1, <1>3
    <3> QED BY <3>1, <3>2
  <2>2. CASE b = d
    <3>1. c \in H /\ c \in Nat /\ a < c
      BY <1>1, <1>4, <1>11, <2>2
    <3>2. a + sz[a] <= c
      BY <1>5, <3>1
    <3> QED BY <1>9, <2>2, <3>2
  <2>3. CASE b # a /\ b # d
    <3>1. b \in H /\ sz2[b] = sz[b] /\ b \in Nat /\ sz[b] \in Nat
      BY <1>1, <1>7, <2>3
    <3>2. CASE c = d
      <4>1. b < a \/ a < b
        BY <1>1, <2>3, <3>1
      <4>2. CASE b < a
        BY <1>1, <1>4, <1>5, <3>1, <3>2, <4>2
      <4>3. CASE a < b
        <5>1. a + sz[a] <= b
          BY <1>5, <3>1, <4>3
        <5> QED BY <1>1, <1>4, <1>11, <3>1, <3>2, <5>1
      <4> QED BY <4>1, <4>2, <4>3
    <3>3. CASE c # d
      BY <1>5, <1>11, <3>1, <3>3
    <3> QED BY <3>2, <3>3
  <2> QED BY <2>1, <2>2, <2>3
<1>12. ASSUME NEW K \in SUBSET H, a \in K, NEW w \in Addr
       PROVE  (\E b \in K : b <= w /\ w < b + sz[b])
              <=> (\E b \in K \cup {d} : b <= w /\ w < b + sz2[b])
  <2>1. w \in Nat
    BY DEF Addr
  <2>2. ASSUME NEW b \in K, b <= w, w < b + sz[b]
        PROVE  \E c \in K \cup {d} : c <= w /\ w < c + sz2[c]
    <3>1. CASE b = a
      <4>1. (a <= w /\ w < a + sz2[a]) \/ (d <= w /\ w < d + sz2[d])
        BY <1>1, <1>3, <1>4, <1>9, <2>1, <2>2, <3>1
      <4> QED BY <1>12, <4>1
    <3>2. CASE b # a
      <4>1. sz2[b] = sz[b]
        BY <1>7, <3>2
      <4> QED BY <2>2, <4>1
    <3> QED BY <3>1, <3>2
  <2>3. ASSUME NEW b \in K \cup {d}, b <= w, w < b + sz2[b]
        PROVE  \E c \in K : c <= w /\ w < c + sz[c]
    <3>1. CASE b \in {a, d}
      <4>1. a <= w /\ w < a + sz[a]
        BY <1>1, <1>3, <1>4, <1>9, <2>1, <2>3, <3>1
      <4> QED BY <1>12, <4>1
    <3>2. CASE b \notin {a, d}
      BY <1>7, <2>3, <3>2
    <3> QED BY <3>1, <3>2
  <2> QED BY <2>2, <2>3
<1>13. \A w \in Addr : \E b \in H \cup {d} : b <= w /\ w < b + sz2[b]
  BY <1>12 DEF Tiles
<1>14. H \cup {d} \in SUBSET Addr
  BY <1>2, <1>4
<1>15. Tiles(sz2, H \cup {d})
  BY <1>8, <1>10, <1>11, <1>13, <1>14 DEF Tiles
<1>16. \A K \in SUBSET H : a \in K => Covered(sz2, K \cup {d}) = Covered(sz, K)
  BY <1>12 DEF Covered
<1> QED BY <1>6, <1>15, <1>16

-----------------------------------------------------------------------------
(* Insertion: the block is linked in or joined to the one before; then that *)
(* is joined to the one after.                                              *)

JoinNext(nx, sz, c) ==
  LET after == nx[c] IN
  IF Adjoins(sz, c, after) /\ after # End
  THEN [size |-> [sz EXCEPT ![c] = Joined(sz, c, after), ![after] = 0],
        next |-> [nx EXCEPT ![c] = nx[after], ![after] = Null]]
  ELSE [size |-> sz, next |-> nx]

\* What insertion leaves of the free blocks L beside the blocks U in use.
Keeps(r, nx, sz, L, U, L2) ==
  /\ L2 \in SUBSET L /\ Heap(r.next, r.size, L2, U)
  /\ Covered(r.size, L2) = Covered(sz, L)
  /\ \A x \in Addr \ L : r.next[x] = nx[x]
  /\ \A x \in U : r.size[x] = sz[x]
  /\ \A x \in L \ L2 : r.next[x] = Null

LEMMA JoinNextInv ==
  ASSUME HeapWords \in Nat \ {0}, NEW nx, NEW sz, NEW L, NEW U, NEW c \in L,
         Linked(nx, L), Tiles(sz, L \cup U), L \cap U = {},
         \A x \in L : x # c => x + sz[x] \notin L
  PROVE  \E L2 : Keeps(JoinNext(nx, sz, c), nx, sz, L, U, L2)
PROOF
<1> DEFINE after == nx[c]
           r == JoinNext(nx, sz, c)
           H == L \cup U
<1>1. /\ nx \in [Block -> Block \cup {Null}] /\ L \subseteq Addr
      /\ \A p \in Block : nx[p] = Null \/ p < nx[p]
      /\ \A p \in L \cup {Start} : nx[p] \in L \cup {End} /\ \A x \in L : x <= p \/ nx[p] <= x
  BY DEF Linked
<1>2. \A b \in H : /\ b \in Block /\ b \in Addr /\ b \in Nat /\ b < HeapWords
                   /\ sz[b] \in Nat /\ sz[b] > 0 /\ Least <= sz[b] /\ b + sz[b] <= HeapWords
  BY TileFacts
<1>3. sz \in [Block -> Nat] /\ \A x, y \in H : x < y => x + sz[x] <= y
  BY DEF Tiles
<1>4. after \in L \cup {End} /\ after \in Block /\ c < after /\ after # c /\ after \in Int /\ c \in Block
  <2>1. after \in L \cup {End} /\ c \in Block
    BY <1>1, <1>2
  <2>2. after \in Block /\ after # Null
    BY <2>1, <1>1, Blocks
  <2>3. c < after /\ after \in Int /\ c \in Int
    BY <1>1, <2>1, <2>2, Blocks
  <2> QED BY <2>1, <2>2, <2>3
<1>5. CASE c + sz[c] = after /\ after # End
  <2>1. /\ r.size = [sz EXCEPT ![c] = sz[c] + sz[after], ![after] = 0]
        /\ r.next = [nx EXCEPT ![c] = nx[after], ![after] = Null]
    BY <1>5 DEF JoinNext, Adjoins, Joined
  <2>2. after \in L /\ after \in H
    BY <1>4, <1>5
  <2>3. /\ r.size \in [Block -> Nat] /\ r.size[c] = sz[c] + sz[after]
        /\ \A p \in Block : p # c /\ p # after => r.size[p] = sz[p]
    BY <1>2, <1>3, <1>4, <2>1, <2>2
  <2>4. nx[after] \in Block \cup {Null}
    BY <1>1, <1>4
  <2>5. /\ r.next \in [Block -> Block \cup {Null}] /\ r.next[c] = nx[after] /\ r.next[after] = Null
        /\ \A p \in Block : p # c /\ p # after => r.next[p] = nx[p]
    BY <1>1, <1>4, <2>1, <2>4
  <2> HIDE DEF r
  <2> DEFINE L2 == L \ {after}
  <2>6. Linked(r.next, L2)
    BY <2>2, <2>5, Unlink
  <2>7. Tiles(r.size, H \ {after}) /\ Covered(r.size, L2) = Covered(sz, L)
    <3>1. c \in H /\ L \in SUBSET H /\ c \in L /\ after \in L /\ Tiles(sz, H)
      BY <2>2
    <3> HIDE DEF H
    <3>2. /\ Tiles(r.size, H \ {after})
          /\ \A K \in SUBSET H : c \in K /\ after \in K =>
                Covered(r.size, K \ {after}) = Covered(sz, K)
      <4>1. after \in H /\ c + sz[c] = after
        BY <1>5, <2>2
      <4> HIDE DEF after
      <4>2. PICK d, sz2 : d = after /\ sz2 = r.size
        OBVIOUS
      <4>3. /\ Tiles(sz, H) /\ c \in H /\ d \in H /\ c + sz[c] = d
            /\ sz2 \in [Block -> Nat] /\ sz2[c] = sz[c] + sz[d]
            /\ \A p \in Block : p # c /\ p # d => sz2[p] = sz[p]
        BY <2>3, <3>1, <4>1, <4>2
      <4>4. /\ Tiles(sz2, H \ {d})
            /\ \A K \in SUBSET H : c \in K /\ d \in K =>
                  Covered(sz2, K \ {d}) = Covered(sz, K)
        BY <4>3, TileJoin
      <4> QED BY <4>2, <4>4
    <3> QED BY <3>1, <3>2
  <2>8. H \ {after} = L2 \cup U /\ L2 \cap U = {}
    BY <2>2
  <2>9. ASSUME NEW x \in L2 PROVE x + r.size[x] \notin L2
    <3>1. CASE x = c
      <4>1. after + sz[after] \notin L
        BY <1>4, <2>2
      <4>2. x + r.size[x] = after + sz[after]
        BY <1>2, <1>5, <2>2, <2>3, <3>1
      <4> QED BY <4>1, <4>2
    <3>2. CASE x # c
      BY <1>2, <2>3, <2>9, <3>2
    <3> QED BY <3>1, <3>2
  <2>10. Heap(r.next, r.size, L2, U)
    BY <2>6, <2>7, <2>8, <2>9 DEF Heap, Apart
  <2>11. /\ \A x \in Addr \ L : r.next[x] = nx[x]
         /\ \A x \in U : r.size[x] = sz[x]
    <3>1. Addr \subseteq Block /\ \A x \in U : x \in Block /\ x \notin L
      BY <1>2, Blocks
    <3> QED BY <2>2, <2>3, <2>5, <3>1
  <2>12. \A x \in L \ L2 : r.next[x] = Null
    BY <2>5
  <2> HIDE DEF L2
  <2>13. L2 \in SUBSET L
    BY DEF L2
  <2>14. Keeps(r, nx, sz, L, U, L2)
    BY <2>7, <2>10, <2>11, <2>12, <2>13 DEF Keeps
  <2> QED BY <2>14 DEF r
<1>6. CASE ~(c + sz[c] = after /\ after # End)
  <2>1. r.size = sz /\ r.next = nx
    BY <1>6 DEF JoinNext, Adjoins
  <2> HIDE DEF r
  <2>2. c + sz[c] \notin L
    <3>1. SUFFICES ASSUME c + sz[c] \in L PROVE FALSE
      OBVIOUS
    <3>2. PICK y \in L : y = c + sz[c]
      BY <3>1
    <3>3. c < y /\ y \in Nat /\ y < HeapWords
      BY <1>2, <3>2
    <3>4. after <= y
      BY <1>1, <1>2, <3>3
    <3>5. after \in L
      BY <1>4, <3>3, <3>4 DEF End
    <3>6. y <= after
      BY <1>3, <1>4, <3>2, <3>5
    <3>7. y = after
      BY <1>4, <3>3, <3>4, <3>6
    <3>8. after # End
      BY <3>3, <3>7 DEF End
    <3> QED BY <1>6, <3>2, <3>7, <3>8
  <2>3. \A x \in L : x + sz[x] \notin L
    BY <2>2
  <2>4. Heap(r.next, r.size, L, U)
    BY <2>1, <2>3 DEF Heap, Apart
  <2>5. Keeps(r, nx, sz, L, U, L)
    BY <2>1, <2>4 DEF Keeps
  <2> QED BY <2>5 DEF r
<1> QED BY <1>5, <1>6

LEMMA InsertInv ==
  ASSUME HeapWords \in Nat \ {0}, NEW nx, NEW sz, NEW L, NEW U, NEW b \in Addr,
         Linked(nx, L), Tiles(sz, L \cup U \cup {b}), Apart(sz, L),
         b \notin L, b \notin U, L \cap U = {}
  PROVE  \E L2 : Keeps(Insert(nx, sz, b), nx, sz, L \cup {b}, U, L2)
PROOF
<1> DEFINE H == L \cup U \cup {b}
<1>1. PICK it : it = Before(nx, b)
  OBVIOUS
<1>2. PICK after : after = nx[it]
  OBVIOUS
<1>3. /\ it \in L \cup {Start} /\ it < b /\ after \in L \cup {End} /\ b < after
      /\ \A c \in L : c <= it \/ after <= c
  BY <1>1, <1>2, PlaceOf
<1>4. \A x \in H : /\ x \in Block /\ x \in Addr /\ x \in Nat /\ x < HeapWords
                   /\ sz[x] \in Nat /\ sz[x] > 0 /\ Least <= sz[x] /\ x + sz[x] <= HeapWords
  BY TileFacts
<1>5. nx \in [Block -> Block \cup {Null}] /\ sz \in [Block -> Nat] /\ sz[Start] = 0
  BY DEF Linked, Tiles
<1>6. /\ b \in Block /\ b \in Nat /\ it \in Block /\ it \in Int /\ after \in Block /\ after \in Int
      /\ it # b /\ after # b /\ after # it /\ sz[b] \in Nat
  BY <1>3, <1>4, Blocks
<1>7. CASE it + sz[it] = b
  <2>1. it \in L
    BY <1>3, <1>5, <1>6, <1>7 DEF Start
  <2> DEFINE nx1 == [nx EXCEPT ![b] = Null]
             sz1 == [sz EXCEPT ![it] = @ + sz[b], ![b] = 0]
  <2>2. /\ nx1 \in [Block -> Block \cup {Null}] /\ nx1[b] = Null /\ nx1[it] = after
        /\ \A p \in Block : p # b => nx1[p] = nx[p]
    BY <1>2, <1>5, <1>6
  <2>3. /\ sz1 \in [Block -> Nat] /\ sz1[it] = sz[it] + sz[b]
        /\ \A p \in Block : p # it /\ p # b => sz1[p] = sz[p]
    BY <1>4, <1>5, <1>6, <2>1
  <2>4. Insert(nx, sz, b) = JoinNext(nx1, sz1, it)
    <3> DEFINE nxA == [nx EXCEPT ![b] = Null, ![it] = it]
    <3>1. [nxA EXCEPT ![it] = after] = nx1
      BY <1>2, <1>5, <1>6
    <3>2. [nxA EXCEPT ![it] = nx[after], ![after] = Null] = [nx1 EXCEPT ![it] = nx1[after], ![after] = Null]
      BY <1>2, <1>5, <1>6, <2>2
    <3>3. Insert(nx, sz, b) =
            IF Adjoins(sz1, it, after) /\ after # End
            THEN [size |-> [sz1 EXCEPT ![it] = Joined(sz1, it, after), ![after] = 0],
                  next |-> [nxA EXCEPT ![it] = nx[after], ![after] = Null]]
            ELSE [size |-> sz1, next |-> [nxA EXCEPT ![it] = after]]
      <4> HIDE DEF nx1
      <4> QED BY <1>1, <1>2, <1>7 DEF Insert
    <3>4. JoinNext(nx1, sz1, it) =
            IF Adjoins(sz1, it, after) /\ after # End
            THEN [size |-> [sz1 EXCEPT ![it] = Joined(sz1, it, after), ![after] = 0],
                  next |-> [nx1 EXCEPT ![it] = nx1[after], ![after] = Null]]
            ELSE [size |-> sz1, next |-> nx1]
      <4> HIDE DEF nx1, sz1
      <4> QED BY <2>2 DEF JoinNext
    <3> HIDE DEF nx1, sz1, nxA
    <3> QED BY <3>1, <3>2, <3>3, <3>4
  <2> HIDE DEF nx1, sz1
  <2>5. Linked(nx1, L)
    BY <2>2, Forget
  <2>6. Tiles(sz1, H \ {b}) /\ Covered(sz1, (L \cup {b}) \ {b}) = Covered(sz, L \cup {b})
    <3>1. it \in H /\ b \in H /\ L \cup {b} \in SUBSET H /\ it \in L \cup {b} /\ b \in L \cup {b}
      BY <2>1
    <3> HIDE DEF H
    <3>2. Tiles(sz, H)
      BY DEF H
    <3> QED BY <1>7, <2>3, <3>1, <3>2, TileJoin
  <2>7. H \ {b} = L \cup U /\ (L \cup {b}) \ {b} = L
    OBVIOUS
  <2>8. \A x \in L : x # it => x + sz1[x] \notin L
    BY <1>4, <2>3 DEF Apart
  <2>9. Tiles(sz1, L \cup U) /\ Covered(sz1, L) = Covered(sz, L \cup {b})
    BY <2>6, <2>7
  <2>10. PICK L2 : Keeps(JoinNext(nx1, sz1, it), nx1, sz1, L, U, L2)
    BY <2>1, <2>5, <2>8, <2>9, JoinNextInv
  <2>11. /\ \A x \in Addr \ (L \cup {b}) : x \in Addr \ L /\ nx1[x] = nx[x]
         /\ \A x \in U : sz1[x] = sz[x]
         /\ b \in Addr \ L /\ nx1[b] = Null
    BY <1>4, <2>1, <2>2, <2>3, Blocks
  <2>12. Keeps(JoinNext(nx1, sz1, it), nx, sz, L \cup {b}, U, L2)
    BY <2>9, <2>10, <2>11 DEF Keeps
  <2> QED BY <2>4, <2>12
<1>8. CASE it + sz[it] # b
  <2> DEFINE nx1 == [nx EXCEPT ![b] = after, ![it] = b]
  <2>2. /\ nx1 \in [Block -> Block \cup {Null}] /\ nx1[b] = after /\ nx1[it] = b
        /\ \A p \in Block : p # it /\ p # b => nx1[p] = nx[p]
    BY <1>2, <1>5, <1>6
  <2>4. Insert(nx, sz, b) = JoinNext(nx1, sz, b)
    <3> DEFINE nxA == [nx EXCEPT ![b] = Null, ![it] = b]
    <3>1. [nxA EXCEPT ![b] = after] = nx1
      BY <1>2, <1>5, <1>6
    <3>2. [nxA EXCEPT ![b] = nx[after], ![after] = Null] = [nx1 EXCEPT ![b] = nx1[after], ![after] = Null]
      BY <1>2, <1>5, <1>6, <2>2
    <3>3. Insert(nx, sz, b) =
            IF Adjoins(sz, b, after) /\ after # End
            THEN [size |-> [sz EXCEPT ![b] = Joined(sz, b, after), ![after] = 0],
                  next |-> [nxA EXCEPT ![b] = nx[after], ![after] = Null]]
            ELSE [size |-> sz, next |-> [nxA EXCEPT ![b] = after]]
      <4> HIDE DEF nx1
      <4> QED BY <1>1, <1>2, <1>8 DEF Insert
    <3>4. JoinNext(nx1, sz, b) =
            IF Adjoins(sz, b, after) /\ after # End
            THEN [size |-> [sz EXCEPT ![b] = Joined(sz, b, after), ![after] = 0],
                  next |-> [nx1 EXCEPT ![b] = nx1[after], ![after] = Null]]
            ELSE [size |-> sz, next |-> nx1]
      <4> HIDE DEF nx1
      <4> QED BY <2>2 DEF JoinNext
    <3> HIDE DEF nx1, nxA
    <3> QED BY <3>1, <3>2, <3>3, <3>4
  <2> HIDE DEF nx1
  <2> DEFINE L1 == L \cup {b}
  <2>5. Linked(nx1, L1)
    BY <1>2, <1>3, <2>2, LinkIn
  <2>6. Tiles(sz, L1 \cup U) /\ L1 \cap U = {} /\ b \in L1
    <3>1. L1 \cup U = H
      OBVIOUS
    <3> QED BY <3>1
  <2>7. \A x \in L : x + sz[x] # b
    <3>1. SUFFICES ASSUME NEW x \in L, x + sz[x] = b PROVE FALSE
      OBVIOUS
    <3>2. x \in Nat /\ sz[x] \in Nat /\ sz[x] > 0
      BY <1>4
    <3>3. x <= it /\ x # it
      BY <1>3, <1>6, <1>8, <3>1, <3>2
    <3>4. it \in L
      BY <1>3, <3>2, <3>3 DEF Start
    <3>5. x + sz[x] <= it
      BY <1>6, <3>2, <3>3, <3>4 DEF Tiles
    <3> QED BY <1>3, <1>6, <3>1, <3>5
  <2>8. \A x \in L1 : x # b => x + sz[x] \notin L1
    BY <2>7 DEF Apart
  <2> HIDE DEF L1
  <2>10. PICK L2 : Keeps(JoinNext(nx1, sz, b), nx1, sz, L1, U, L2)
    BY <2>5, <2>6, <2>8, JoinNextInv
  <2>11. \A x \in Addr \ L1 : nx1[x] = nx[x]
    <3>1. \A x \in Addr : x \in Block /\ x # Start
      BY Blocks
    <3>2. \A x \in Addr \ L1 : x # it /\ x # b
      BY <1>3, <3>1 DEF L1
    <3> QED BY <2>2, <3>1, <3>2
  <2>12. Keeps(JoinNext(nx1, sz, b), nx, sz, L1, U, L2)
    BY <2>10, <2>11 DEF Keeps
  <2> QED BY <2>4, <2>12 DEF L1
<1> QED BY <1>7, <1>8

-----------------------------------------------------------------------------
(* The count of free words.                                                 *)

LEMMA CoveredOne ==
  ASSUME HeapWords \in Nat \ {0}, NEW sz, NEW H, Tiles(sz, H),
         NEW K \in SUBSET H, NEW b \in H, b \notin K
  PROVE  /\ Cardinality(Covered(sz, K)) \in Nat
         /\ Cardinality(Covered(sz, K \cup {b})) = Cardinality(Covered(sz, K)) + sz[b]
PROOF
<1> DEFINE C == Covered(sz, K)
           W == b..b+sz[b]-1
<1>1. \A x \in H : /\ x \in Addr /\ x \in Nat /\ x < HeapWords
                   /\ sz[x] \in Nat /\ sz[x] > 0 /\ x + sz[x] <= HeapWords
  BY TileFacts
<1>2. IsFiniteSet(Addr)
  BY FS_Interval DEF Addr
<1>3. C \subseteq Addr /\ W \subseteq Addr
  BY <1>1 DEF Covered, Addr
<1>4. IsFiniteSet(C) /\ IsFiniteSet(W) /\ Cardinality(C) \in Nat
  BY <1>2, <1>3, FS_Subset, FS_CardinalityType
<1>5. Cardinality(W) = sz[b]
  <2>1. b \in Int /\ b + sz[b] - 1 \in Int
    BY <1>1
  <2>2. PICK e \in Int : e = b + sz[b] - 1
    BY <2>1
  <2>3. Cardinality(b..e) = IF b > e THEN 0 ELSE e - b + 1
    BY <2>1, FS_Interval
  <2>4. Cardinality(b..e) = sz[b]
    BY <1>1, <2>2, <2>3
  <2> QED BY <2>2, <2>4
<1>6. Covered(sz, K \cup {b}) = C \cup W
  <2>1. \A w \in Addr : w \in W <=> b <= w /\ w < b + sz[b]
    BY <1>1 DEF Addr
  <2> HIDE DEF W
  <2> QED BY <1>3, <2>1 DEF Covered
<1>7. C \cap W = {}
  <2>1. SUFFICES ASSUME NEW w \in C, w \in W PROVE FALSE
    OBVIOUS
  <2>2. PICK x \in K : x <= w /\ w < x + sz[x]
    BY DEF Covered
  <2>3. w \in Nat /\ b <= w /\ w < b + sz[b]
    BY <1>1, <2>1
  <2>4. x + sz[x] <= b \/ b + sz[b] <= x
    <3>1. x < b \/ b < x
      BY <1>1
    <3> QED BY <3>1 DEF Tiles
  <2> QED BY <1>1, <2>2, <2>3, <2>4
<1>8. Cardinality(C \cup W) = Cardinality(C) + Cardinality(W) - Cardinality(C \cap W)
  BY <1>4, FS_Union
<1>9. Cardinality(C \cap W) = 0
  BY <1>7, FS_EmptySet
<1>10. sz[b] \in Nat
  BY <1>1
<1> HIDE DEF C, W
<1>11. Cardinality(C \cup W) = Cardinality(C) + sz[b]
  BY <1>4, <1>5, <1>8, <1>9, <1>10
<1> QED BY <1>4, <1>6, <1>11 DEF C

\* The block that internalMalloc() stops before
LEMMA FitIs ==
  ASSUME HeapWords \in Nat \ {0}, NEW L, Linked(next, L), NEW need
  PROVE  LET p == BeforeFit(need) IN
         /\ p \in L \cup {Start} /\ next[p] \in L \cup {End}
         /\ next[p] # End => ~TooSmall(next[p], need)
         /\ next[p] = End => \A c \in L : TooSmall(c, need)
PROOF
<1> DEFINE G == {p \in Block : next[p] # Null /\ TooSmall(next[p], need) /\ next[next[p]] # Null}
           I == {p \in L \cup {Start} : \A c \in L : c <= p => TooSmall(c, need)}
           walk == CHOOSE f : f = [p \in Block |->
                     IF next[p] # Null /\ TooSmall(next[p], need) /\ next[next[p]] # Null
                     THEN f[next[p]] ELSE p]
<1>1. /\ L \subseteq Addr /\ next \in [Block -> Block \cup {Null}] /\ next[End] = Null
      /\ \A p \in Block : next[p] = Null \/ p < next[p]
      /\ \A p \in L \cup {Start} : next[p] \in L \cup {End} /\ \A c \in L : c <= p \/ next[p] <= c
  BY DEF Linked
<1>2. L \cup {Start} \subseteq Block /\ L \cup {End} \subseteq Block /\ \A p \in Block : p \in Int /\ p # Null
  BY <1>1, Blocks
<1>3. \A p \in G : next[p] \in Block /\ p < next[p]
  BY <1>1
<1>4. \E f : IsWalk(f, next, G)
  <2>1. G \in SUBSET Block
    OBVIOUS
  <2> HIDE DEF G
  <2> QED BY <1>3, <2>1, WalkExists
<1>5. \A f : IsWalk(f, next, G) <=> f = [p \in Block |->
                     IF next[p] # Null /\ TooSmall(next[p], need) /\ next[next[p]] # Null
                     THEN f[next[p]] ELSE p]
  BY DEF IsWalk
<1>6. BeforeFit(need) = walk[Start]
  BY DEF BeforeFit
<1>7. IsWalk(walk, next, G)
  <2> HIDE DEF G
  <2> QED BY <1>4, <1>5
<1>8. ASSUME NEW p \in I, p \in G PROVE next[p] \in I /\ p < next[p]
  <2>1. next[p] \in L \cup {End} /\ p < next[p] /\ next[p] # End
    BY <1>1, <1>3, <1>8
  <2>2. ASSUME NEW c \in L, c <= next[p] PROVE TooSmall(c, need)
    <3>1. c <= p \/ c = next[p]
      <4>1. c <= p \/ next[p] <= c
        BY <1>1
      <4> QED BY <1>2, <2>1, <2>2, <4>1
    <3> QED BY <1>8, <3>1
  <2> QED BY <2>1, <2>2
<1>9. Start \in I /\ I \in SUBSET Block
  <2>1. \A c \in L : ~(c <= Start)
    BY <1>1 DEF Addr, Start
  <2> QED BY <1>2, <2>1
<1>10. walk[Start] \in I \ G
  <2>1. \A p \in I \cap G : next[p] \in I /\ p < next[p]
    BY <1>8
  <2>2. G \in SUBSET Block
    OBVIOUS
  <2> HIDE DEF I, G, walk
  <2> QED BY <1>7, <1>9, <2>1, <2>2, WalkEnds
<1>11. PICK p : p = BeforeFit(need)
  OBVIOUS
<1> HIDE DEF walk
<1>12. p \in I /\ p \notin G /\ p \in Block
  BY <1>6, <1>9, <1>10, <1>11
<1>13. next[p] \in L \cup {End} /\ p \in L \cup {Start} /\ next[p] # Null
  BY <1>1, <1>2, <1>12
<1>14. next[p] # End => ~TooSmall(next[p], need)
  <2>1. next[p] # End => next[p] \in L /\ next[next[p]] \in L \cup {End}
    BY <1>1, <1>13
  <2>2. next[p] # End => next[next[p]] # Null
    BY <1>2, <2>1
  <2> QED BY <1>12, <1>13, <2>2
<1>15. next[p] = End => \A c \in L : TooSmall(c, need)
  <2>1. \A c \in L : c <= p \/ next[p] <= c
    BY <1>1, <1>13
  <2>2. \A c \in L : ~(End <= c)
    BY <1>1, Blocks DEF End, Addr
  <2> QED BY <1>12, <2>1, <2>2
<1> QED BY <1>11, <1>13, <1>14, <1>15

-----------------------------------------------------------------------------
(* The inductive invariant: the blocks with a link are a list in order, and *)
(* they and those in use tile the heap, no two free ones touching.          *)

OnList == {b \in Addr : next[b] # Null}

HeapInv ==
  /\ Heap(next, size, OnList, InUse)
  /\ allocated \in [Block -> BOOLEAN]
  /\ bytesAvailable = Cardinality(Covered(size, OnList))

LEMMA InitInv ==
  ASSUME HeapWords \in Nat \ {0}, Init
  PROVE  HeapInv
PROOF
<1>1. OnList = {0} /\ InUse = {}
  BY Blocks DEF Init, OnList, InUse, End, Null, Start, Addr
<1>2. /\ next[Start] = 0 /\ next[0] = End /\ next[End] = Null
      /\ \A b \in Block : b # Start /\ b # 0 => next[b] = Null
  <2>1. Start # 0 /\ Start \in Block /\ 0 \in Block /\ End # 0 /\ End # Start /\ End \in Block
    BY Blocks DEF Start, End
  <2> QED BY <2>1 DEF Init
<1>3. Linked(next, {0})
  <2>1. next \in [Block -> Block \cup {Null}]
    BY Blocks DEF Init
  <2>2. \A p \in Block : next[p] = Null \/ p < next[p]
    BY <1>2, Blocks DEF Start, End
  <2>3. next[Start] \in {0} \cup {End} /\ \A c \in {0} : c <= Start \/ next[Start] <= c
    BY <1>2
  <2>4. next[0] \in {0} \cup {End} /\ \A c \in {0} : c <= 0 \/ next[0] <= c
    BY <1>2
  <2>5. {0} \in SUBSET Addr
    BY Blocks
  <2> QED BY <1>2, <2>1, <2>2, <2>3, <2>4, <2>5 DEF Linked
<1>4. size \in [Block -> Nat] /\ size[0] = HeapWords /\ size[Start] = 0
  BY Blocks DEF Init, Start
<1>5. Tiles(size, {0})
  <2>1. Least <= HeapWords
    BY DEF Least, Header
  <2>2. \A w \in Addr : 0 <= w /\ w < 0 + size[0]
    BY <1>4 DEF Addr
  <2>3. {0} \in SUBSET Addr
    BY Blocks
  <2> QED BY <1>4, <2>1, <2>2, <2>3 DEF Tiles
<1>6. Apart(size, {0})
  BY <1>4 DEF Apart
<1>7. Cardinality(Covered(size, {0})) = HeapWords
  <2>1. Cardinality(Covered(size, {} \cup {0})) = Cardinality(Covered(size, {})) + size[0]
    BY <1>5, CoveredOne
  <2>2. Cardinality(Covered(size, {})) = 0
    <3>1. Covered(size, {}) = {}
      BY DEF Covered
    <3> QED BY <3>1, FS_EmptySet
  <2>3. {} \cup {0} = {0}
    OBVIOUS
  <2> QED BY <1>4, <2>1, <2>2, <2>3
<1>8. allocated \in [Block -> BOOLEAN] /\ bytesAvailable = HeapWords
  BY DEF Init
<1>9. {0} \cup {} = {0} /\ {0} \cap {} = {}
  OBVIOUS
<1> QED BY <1>1, <1>3, <1>5, <1>6, <1>7, <1>8, <1>9 DEF HeapInv, Heap

\* What is on the list after a step
LEMMA OnListIs ==
  ASSUME HeapWords \in Nat \ {0}, NEW nx, NEW L, Linked(nx, L),
         \A x \in Addr \ L : nx[x] = Null
  PROVE  {b \in Addr : nx[b] # Null} = L
PROOF
<1>1. L \subseteq Addr /\ \A p \in L : nx[p] \in L \cup {End}
  BY DEF Linked
<1>2. \A p \in L : nx[p] # Null
  BY <1>1, Blocks
<1> QED BY <1>1, <1>2

LEMMA FreeInv ==
  ASSUME HeapWords \in Nat \ {0}, HeapInv, NEW b \in Addr, Free(b)
  PROVE  /\ HeapInv'
         /\ b \in InUse /\ InUse' = InUse \ {b} /\ \A x \in InUse' : size'[x] = size[x]
         /\ OnList' \cup InUse' \subseteq OnList \cup InUse
PROOF
<1> DEFINE L == OnList
           U == InUse \ {b}
           ins == Insert(next, size, b)
<1>1. b \in InUse /\ b \notin L /\ b \notin U /\ b \in Block
  BY Blocks DEF Free, Freeable, InUse, OnList
<1>2. Linked(next, L) /\ Apart(size, L) /\ L \cap InUse = {} /\ Tiles(size, L \cup InUse)
  BY DEF HeapInv, Heap
<1>3. L \cup U \cup {b} = L \cup InUse
  BY <1>1
<1>4. Tiles(size, L \cup U \cup {b}) /\ L \cap U = {}
  BY <1>2, <1>3
<1>5. PICK L2 : Keeps(ins, next, size, L \cup {b}, U, L2)
  <2> HIDE DEF L, U
  <2> QED BY <1>1, <1>2, <1>4, InsertInv
<1>6. /\ next' = ins.next /\ size' = ins.size
      /\ allocated' = [allocated EXCEPT ![b] = FALSE]
      /\ bytesAvailable' = bytesAvailable + size[b]
  BY DEF Free
<1> HIDE DEF ins
<1>7. InUse' = U /\ allocated' \in [Block -> BOOLEAN]
  BY <1>1, <1>6, Blocks DEF HeapInv, InUse
<1>8. Heap(next', size', L2, U) /\ L2 \in SUBSET (L \cup {b})
      /\ Covered(size', L2) = Covered(size, L \cup {b})
  BY <1>5, <1>6 DEF Keeps
<1>9. \A x \in Addr \ L2 : next'[x] = Null
  <2>1. \A x \in Addr \ (L \cup {b}) : next'[x] = next[x] /\ next[x] = Null
    BY <1>5, <1>6 DEF Keeps, OnList
  <2>2. \A x \in (L \cup {b}) \ L2 : next'[x] = Null
    BY <1>5, <1>6 DEF Keeps
  <2> QED BY <2>1, <2>2
<1>10. OnList' = L2
  <2>1. Linked(next', L2)
    BY <1>8 DEF Heap
  <2>2. {x \in Addr : next'[x] # Null} = L2
    BY <1>9, <2>1, OnListIs
  <2> QED BY <2>2 DEF OnList
<1>11. bytesAvailable' = Cardinality(Covered(size', L2))
  <2>1. Cardinality(Covered(size, L \cup {b})) = Cardinality(Covered(size, L)) + size[b]
    <3>1. b \in L \cup InUse /\ L \in SUBSET (L \cup InUse)
      BY <1>1
    <3> HIDE DEF L
    <3> QED BY <1>1, <1>2, <3>1, CoveredOne
  <2> QED BY <1>6, <1>8, <2>1 DEF HeapInv
<1>12. \A x \in U : size'[x] = size[x]
  BY <1>5, <1>6 DEF Keeps
<1>13. OnList' \cup InUse' \subseteq OnList \cup InUse
  <2>1. L2 \subseteq L \cup {b}
    BY <1>8
  <2> QED BY <1>1, <1>7, <1>10, <2>1
<1> QED BY <1>1, <1>7, <1>8, <1>10, <1>11, <1>12, <1>13 DEF HeapInv

LEMMA MallocInv ==
  ASSUME HeapWords \in Nat \ {0}, HeapInv, NEW n \in Nat \ {0}, Malloc(n)
  PROVE  /\ HeapInv'
         /\ \E b \in Addr : /\ b \notin InUse /\ InUse' = InUse \cup {b}
                            /\ allocated' = [allocated EXCEPT ![b] = TRUE]
                            /\ size'[b] >= n + Header
                            /\ \A x \in InUse : size'[x] = size[x]
PROOF
<1> DEFINE L == OnList
           H == L \cup InUse
<1>1. PICK need : need = n + Header
  OBVIOUS
<1>2. PICK p : p = BeforeFit(need)
  OBVIOUS
<1>3. PICK b : b = next[p]
  OBVIOUS
<1>4. PICK nx : nx = [next EXCEPT ![p] = next[b]]
  OBVIOUS
<1>5. PICK rest : rest = size[b] - need
  OBVIOUS
<1>6. PICK ins : ins = Insert(nx, [size EXCEPT ![b + need] = rest, ![b] = need], b + need)
  OBVIOUS
<1>7. /\ b # End
      /\ IF rest > 2 * Header
         THEN size' = ins.size /\ next' = [ins.next EXCEPT ![b] = Null]
         ELSE size' = size /\ next' = [nx EXCEPT ![b] = Null]
      /\ allocated' = [allocated EXCEPT ![b] = TRUE]
      /\ bytesAvailable' = bytesAvailable - size'[b]
  BY <1>1, <1>2, <1>3, <1>4, <1>5, <1>6 DEF Malloc, Fits, Cut, Charged
<1>8. /\ Linked(next, L) /\ Apart(size, L) /\ L \cap InUse = {} /\ Tiles(size, H)
      /\ allocated \in [Block -> BOOLEAN]
      /\ bytesAvailable = Cardinality(Covered(size, L))
  BY DEF HeapInv, Heap
<1>9. p \in L \cup {Start} /\ b \in L /\ ~TooSmall(b, need)
  <2> HIDE DEF L
  <2> QED BY <1>2, <1>3, <1>7, <1>8, FitIs
<1>10. \A x \in H : /\ x \in Block /\ x \in Addr /\ x \in Nat /\ x < HeapWords
                    /\ size[x] \in Nat /\ size[x] > 0 /\ Least <= size[x] /\ x + size[x] <= HeapWords
  <2> HIDE DEF H
  <2> QED BY <1>8, TileFacts
<1>11. /\ b \in H /\ b \notin InUse /\ b \in Addr /\ b \in Block /\ b \in Nat /\ size[b] \in Nat
       /\ need \in Nat /\ need >= 3 /\ need <= size[b] /\ rest \in Nat /\ rest + need = size[b]
  BY <1>1, <1>5, <1>8, <1>9, <1>10 DEF Header, TooSmall
<1>12. /\ next \in [Block -> Block \cup {Null}] /\ next[End] = Null /\ next[b] \in L \cup {End}
       /\ p \in Block /\ p # b /\ size \in [Block -> Nat]
  <2>1. /\ next \in [Block -> Block \cup {Null}] /\ next[End] = Null /\ next[b] \in L \cup {End}
        /\ \A x \in Block : next[x] = Null \/ x < next[x]
    BY <1>8, <1>9 DEF Linked
  <2>2. p \in Block
    BY <1>9, <1>10, Blocks
  <2>3. p < b
    BY <1>3, <1>11, <2>1, <2>2, Blocks
  <2>4. p \in Int
    BY <2>2, Blocks
  <2> QED BY <1>8, <1>11, <2>1, <2>2, <2>3, <2>4 DEF Tiles
<1>13. next[b] \in Block
  BY <1>10, <1>12, Blocks
<1> DEFINE L1 == L \ {b}
           U1 == InUse \cup {b}
<1>14. /\ nx \in [Block -> Block \cup {Null}] /\ nx[p] = next[b] /\ nx[b] = next[b]
       /\ \A x \in Block : x # p /\ x # b => nx[x] = next[x]
  BY <1>4, <1>11, <1>12, <1>13
<1>15. InUse' = U1 /\ allocated' \in [Block -> BOOLEAN] /\ L1 \cap U1 = {} /\ L1 \cup U1 = H
  <2>1. InUse' = U1 /\ allocated' \in [Block -> BOOLEAN]
    BY <1>7, <1>8, <1>11, Blocks DEF InUse
  <2> QED BY <1>8, <1>9, <1>11, <2>1
<1>16. L1 \cup {b} = L /\ L1 \in SUBSET H /\ L \in SUBSET H
  BY <1>9
<1> HIDE DEF L, H, L1, U1
<1>17. CASE rest > 2 * Header
  <2>1. PICK d : d = b + need
    OBVIOUS
  <2>2. PICK sz : sz = [size EXCEPT ![d] = rest, ![b] = need]
    OBVIOUS
  <2>3. Least <= need /\ Least <= rest
    BY <1>11, <1>17 DEF Least, Header
  <2>4. d \in Addr /\ d \in Block /\ d # b
    <3>1. d \in Nat /\ d < b + size[b] /\ b + size[b] <= HeapWords /\ d # b
      BY <1>10, <1>11, <1>17, <2>1 DEF Header
    <3>2. d \in Addr
      BY <1>11, <3>1 DEF Addr
    <3> QED BY <3>1, <3>2, Blocks
  <2>5. /\ sz \in [Block -> Nat] /\ sz[b] = need /\ sz[d] = rest
        /\ \A x \in Block : x # b /\ x # d => sz[x] = size[x]
    BY <1>11, <1>12, <2>2, <2>4
  <2>6. /\ d \notin H /\ Tiles(sz, H \cup {d})
        /\ \A K \in SUBSET H : b \in K => Covered(sz, K \cup {d}) = Covered(size, K)
    <3>1. d = b + sz[b] /\ sz[b] + sz[d] = size[b] /\ Least <= sz[b] /\ Least <= sz[d]
      BY <1>11, <2>1, <2>3, <2>5
    <3>2. Tiles(size, H) /\ b \in H /\ d \in Addr
      BY <1>8, <1>11, <2>4
    <3>3. sz \in [Block -> Nat] /\ \A x \in Block : x # b /\ x # d => sz[x] = size[x]
      BY <2>5
    <3> QED BY <3>1, <3>2, <3>3, TileSplit
  <2>7. Linked(nx, L1)
    BY <1>3, <1>8, <1>9, <1>14, Unlink DEF L1
  <2>8. \A x \in H : x # b => sz[x] = size[x]
    BY <1>10, <2>5, <2>6
  <2>9. Apart(sz, L1)
    BY <1>8, <1>16, <2>8 DEF Apart, L1
  <2>10. d \notin L1 /\ d \notin U1 /\ Tiles(sz, L1 \cup U1 \cup {d})
    BY <1>15, <2>6
  <2>11. PICK L2 : Keeps(ins, nx, sz, L1 \cup {d}, U1, L2)
    <3>1. \E L2 : Keeps(Insert(nx, sz, d), nx, sz, L1 \cup {d}, U1, L2)
      BY <1>15, <2>4, <2>7, <2>9, <2>10, InsertInv
    <3> QED BY <1>6, <2>1, <2>2, <3>1
  <2>12. size' = ins.size /\ next' = [ins.next EXCEPT ![b] = Null]
    BY <1>7, <1>17
  <2>13. /\ Heap(ins.next, size', L2, U1) /\ L2 \in SUBSET (L1 \cup {d})
         /\ Covered(size', L2) = Covered(sz, L1 \cup {d})
         /\ \A x \in U1 : size'[x] = sz[x]
    BY <2>11, <2>12 DEF Keeps
  <2>14. b \notin L2 /\ b \in U1
    BY <1>15, <2>4, <2>13 DEF L1, U1
  <2>15. /\ next' \in [Block -> Block \cup {Null}] /\ next'[b] = Null
         /\ \A x \in Block : x # b => next'[x] = ins.next[x]
    <3>1. ins.next \in [Block -> Block \cup {Null}]
      BY <2>13 DEF Heap, Linked
    <3> QED BY <1>11, <2>12, <3>1
  <2>16. Linked(next', L2)
    <3>1. Linked(ins.next, L2)
      BY <2>13 DEF Heap
    <3> QED BY <1>11, <2>14, <2>15, <3>1, Forget
  <2>17. \A x \in Addr \ L2 : next'[x] = Null
    <3>1. ASSUME NEW x \in Addr \ L2 PROVE next'[x] = Null
      <4>1. x \in Block
        BY Blocks
      <4>2. CASE x = b
        BY <2>15, <4>2
      <4>3. CASE x \in L1 \cup {d}
        <5>1. ins.next[x] = Null
          BY <2>11, <3>1, <4>3 DEF Keeps
        <5> QED BY <2>15, <4>1, <5>1
      <4>4. CASE x # b /\ x \notin L1 \cup {d}
        <5>1. ins.next[x] = nx[x]
          BY <2>11, <4>4 DEF Keeps
        <5>2. x \notin L
          BY <4>4 DEF L1
        <5>3. x # p
          BY <1>9, <5>2, Blocks
        <5>4. next[x] = Null
          BY <5>2 DEF L, OnList
        <5> QED BY <1>14, <2>15, <4>1, <4>4, <5>1, <5>3, <5>4
      <4> QED BY <4>2, <4>3, <4>4
    <3> QED BY <3>1
  <2>18. OnList' = L2
    <3>1. {x \in Addr : next'[x] # Null} = L2
      BY <2>16, <2>17, OnListIs
    <3> QED BY <3>1 DEF OnList
  <2>19. Heap(next', size', OnList', InUse')
    BY <1>15, <2>13, <2>16, <2>18 DEF Heap
  <2>20. size'[b] = need /\ \A x \in InUse : size'[x] = size[x]
    <3>1. \A x \in InUse : x \in U1 /\ x \in H /\ x # b
      BY <1>11 DEF U1, H
    <3> QED BY <2>5, <2>8, <2>13, <2>14, <3>1
  <2>21. bytesAvailable' = Cardinality(Covered(size', OnList'))
    <3>1. PICK c : c = Cardinality(Covered(sz, L1 \cup {d}))
      OBVIOUS
    <3>2. /\ c \in Nat
          /\ Cardinality(Covered(sz, (L1 \cup {d}) \cup {b})) = c + need
      <4>1. L1 \cup {d} \in SUBSET (H \cup {d}) /\ b \in H \cup {d} /\ b \notin L1 \cup {d}
        BY <1>11, <1>16, <2>4 DEF L1
      <4> QED BY <2>5, <2>6, <3>1, <4>1, CoveredOne
    <3>3. (L1 \cup {d}) \cup {b} = L \cup {d}
      BY <1>16
    <3>4. Covered(sz, L \cup {d}) = Covered(size, L)
      BY <1>9, <1>16, <2>6
    <3>5. bytesAvailable = c + need
      BY <1>8, <3>2, <3>3, <3>4
    <3>6. bytesAvailable' = c
      BY <1>7, <1>11, <2>20, <3>2, <3>5
    <3> QED BY <2>13, <2>18, <3>1, <3>6
  <2>22. HeapInv'
    BY <1>15, <2>19, <2>21 DEF HeapInv
  <2>23. allocated' = [allocated EXCEPT ![b] = TRUE]
    BY <1>7
  <2>24. size'[b] >= n + Header /\ \A x \in InUse : size'[x] = size[x]
    BY <1>1, <2>20
  <2>25. b \in Addr /\ b \notin InUse /\ InUse' = InUse \cup {b}
    BY <1>11, <1>15 DEF U1
  <2> QED BY <2>22, <2>23, <2>24, <2>25
<1>18. CASE ~(rest > 2 * Header)
  <2>1. size' = size /\ next' = [nx EXCEPT ![b] = Null]
    BY <1>7, <1>18
  <2>2. /\ next' \in [Block -> Block \cup {Null}] /\ next'[p] = next[b] /\ next'[b] = Null
        /\ \A x \in Block : x # p /\ x # b => next'[x] = next[x]
    BY <1>11, <1>12, <1>14, <2>1
  <2>3. Linked(next', L1)
    BY <1>3, <1>8, <1>9, <2>2, Unlink DEF L1
  <2>4. \A x \in Addr \ L1 : next'[x] = Null
    <3>1. ASSUME NEW x \in Addr \ L1, x # b PROVE next'[x] = Null
      <4>1. x \notin L /\ x \in Block
        BY <3>1, Blocks DEF L1
      <4>2. x # p /\ next[x] = Null
        BY <1>9, <4>1, Blocks DEF L, OnList
      <4> QED BY <2>2, <3>1, <4>1, <4>2
    <3> QED BY <2>2, <3>1
  <2>5. OnList' = L1
    <3>1. {x \in Addr : next'[x] # Null} = L1
      BY <2>3, <2>4, OnListIs
    <3> QED BY <3>1 DEF OnList
  <2>6. Apart(size, L1)
    BY <1>8 DEF Apart, L1
  <2>7. Heap(next', size', OnList', InUse')
    BY <1>8, <1>15, <2>1, <2>3, <2>5, <2>6 DEF Heap
  <2>8. bytesAvailable' = Cardinality(Covered(size', OnList'))
    <3>1. PICK c : c = Cardinality(Covered(size, L1))
      OBVIOUS
    <3>2. c \in Nat /\ Cardinality(Covered(size, L1 \cup {b})) = c + size[b]
      <4>1. b \notin L1
        BY DEF L1
      <4> QED BY <1>8, <1>11, <1>16, <3>1, <4>1, CoveredOne
    <3>3. bytesAvailable = c + size[b]
      BY <1>8, <1>16, <3>2
    <3>4. bytesAvailable' = c
      BY <1>7, <1>11, <2>1, <3>2, <3>3
    <3> QED BY <2>1, <2>5, <3>1, <3>4
  <2>9. size'[b] >= need
    BY <1>11, <2>1
  <2>10. HeapInv'
    BY <1>15, <2>7, <2>8 DEF HeapInv
  <2>11. allocated' = [allocated EXCEPT ![b] = TRUE]
    BY <1>7
  <2>12. size'[b] >= n + Header /\ \A x \in InUse : size'[x] = size[x]
    BY <1>1, <2>1, <2>9
  <2>13. b \in Addr /\ b \notin InUse /\ InUse' = InUse \cup {b}
    BY <1>11, <1>15 DEF U1
  <2> QED BY <2>10, <2>11, <2>12, <2>13
<1> QED BY <1>17, <1>18

-----------------------------------------------------------------------------
(* The blocks met on the list are those with a link.                        *)

LEMMA MetExists ==
  ASSUME HeapWords \in Nat \ {0}
  PROVE  \E f : f = [n \in 0..HeapWords |->
                      IF n = 0 THEN {next[Start]} ELSE {next[b] : b \in f[n-1] \ {End, Null}}]
PROOF
<1> DEFINE Part(n, f) == f = [m \in 0..n |->
                      IF m = 0 THEN {next[Start]} ELSE {next[b] : b \in f[m-1] \ {End, Null}}]
           Bad == {n \in Nat : ~\E f : Part(n, f)}
<1>1. CASE Bad # {}
  <2>1. PICK n \in Bad : \A m \in Bad : n <= m
    BY <1>1, LeastOfSome
  <2>2. CASE n = 0
    <3> DEFINE f == [m \in 0..n |-> {next[Start]}]
    <3>1. f = [m \in 0..n |-> IF m = 0 THEN {next[Start]} ELSE {next[b] : b \in f[m-1] \ {End, Null}}]
      <4>1. \A m \in 0..n : m = 0
        BY <2>2
      <4> QED BY <4>1
    <3> QED BY <2>1, <3>1
  <2>3. CASE n # 0
    <3>1. n \in Nat /\ n - 1 \in Nat /\ n - 1 \notin Bad
      <4>1. n \in Nat
        BY <2>1
      <4>2. n - 1 \in Nat /\ ~(n <= n - 1)
        BY <2>3, <4>1
      <4> HIDE DEF Bad
      <4> QED BY <2>1, <4>1, <4>2
    <3>2. PICK f : Part(n - 1, f)
      BY <3>1
    <3>3. \A m \in 0..n-1 : f[m] = IF m = 0 THEN {next[Start]} ELSE {next[b] : b \in f[m-1] \ {End, Null}}
      BY <3>2
    <3> DEFINE g == [m \in 0..n |-> IF m = n THEN {next[b] : b \in f[n-1] \ {End, Null}} ELSE f[m]]
    <3>4. \A m \in 0..n-1 : g[m] = f[m]
      BY <3>1
    <3>5. \A m \in 0..n : g[m] = IF m = 0 THEN {next[Start]} ELSE {next[b] : b \in g[m-1] \ {End, Null}}
      <4>1. ASSUME NEW m \in 0..n
            PROVE  g[m] = IF m = 0 THEN {next[Start]} ELSE {next[b] : b \in g[m-1] \ {End, Null}}
        <5>1. CASE m = n
          <6>1. m # 0 /\ m - 1 = n - 1 /\ n - 1 \in 0..n-1
            BY <2>3, <3>1, <5>1
          <6>2. g[m-1] = f[n-1]
            BY <3>4, <6>1
          <6> QED BY <5>1, <6>1, <6>2
        <5>2. CASE m # n
          <6>1. m \in 0..n-1 /\ (m # 0 => m - 1 \in 0..n-1)
            BY <3>1, <5>2
          <6>2. g[m] = f[m] /\ (m # 0 => g[m-1] = f[m-1])
            BY <3>4, <6>1
          <6> HIDE DEF g
          <6> QED BY <3>3, <6>1, <6>2
        <5> QED BY <5>1, <5>2
      <4> QED BY <4>1
    <3>6. Part(n, g)
      <4>1. g = [m \in 0..n |-> g[m]]
        OBVIOUS
      <4> HIDE DEF g
      <4> QED BY <3>5, <4>1
    <3> QED BY <2>1, <3>6
  <2> QED BY <2>2, <2>3
<1>2. CASE Bad = {}
  <2>1. HeapWords \in Nat /\ HeapWords \notin Bad
    <3> HIDE DEF Bad
    <3> QED BY <1>2
  <2> QED BY <2>1
<1> QED BY <1>1, <1>2

LEMMA FreeBlocksAre ==
  ASSUME HeapWords \in Nat \ {0}, HeapInv
  PROVE  FreeBlocks = OnList
PROOF
<1> DEFINE L == OnList
           met == CHOOSE f : f = [n \in 0..HeapWords |->
                      IF n = 0 THEN {next[Start]} ELSE {next[b] : b \in f[n-1] \ {End, Null}}]
<1>1. met = [n \in 0..HeapWords |->
               IF n = 0 THEN {next[Start]} ELSE {next[b] : b \in met[n-1] \ {End, Null}}]
  BY MetExists
<1>2. FreeBlocks = (UNION {met[n] : n \in 0..HeapWords}) \cap Addr
  BY DEF FreeBlocks
<1> HIDE DEF met
<1>3. /\ met[0] = {next[Start]}
      /\ \A n \in 0..HeapWords : n # 0 => met[n] = {next[b] : b \in met[n-1] \ {End, Null}}
  BY <1>1
<1>4. /\ L \subseteq Addr
      /\ \A p \in L \cup {Start} : /\ next[p] \in L \cup {End} /\ p < next[p] /\ next[p] \in Int
                                   /\ \A c \in L : c <= p \/ next[p] <= c
  <2>1. /\ L \subseteq Addr
        /\ \A p \in Block : next[p] = Null \/ p < next[p]
        /\ \A p \in L \cup {Start} : /\ next[p] \in L \cup {End}
                                     /\ \A c \in L : c <= p \/ next[p] <= c
    BY DEF HeapInv, Heap, Linked
  <2>2. L \cup {Start} \subseteq Block /\ \A p \in L \cup {End} : p \in Int /\ p # Null
    BY <2>1, Blocks
  <2> QED BY <2>1, <2>2
<1>5. End \notin L /\ Null \notin L /\ Start \notin L
  BY <1>4, Blocks
<1>10. \A x \in L : x \in Nat
  <2>1. \A x \in Addr : x \in Nat
    BY DEF Addr
  <2> QED BY <1>4, <2>1
<1> HIDE DEF L
<1>6. \A n \in 0..HeapWords : met[n] \subseteq L \cup {End}
  <2> DEFINE Bad == {n \in Nat : n <= HeapWords /\ ~(met[n] \subseteq L \cup {End})}
  <2>1. CASE Bad # {}
    <3>1. PICK n \in Bad : \A m \in Bad : n <= m
      BY <2>1, LeastOfSome
    <3>2. n # 0
      BY <1>3, <1>4, <3>1
    <3>3. n - 1 \in Nat /\ n - 1 \notin Bad /\ n \in 0..HeapWords /\ n - 1 <= HeapWords
      BY <3>1, <3>2
    <3>4. met[n-1] \subseteq L \cup {End}
      BY <3>3
    <3>5. met[n] \subseteq L \cup {End}
      BY <1>3, <1>4, <3>2, <3>3, <3>4
    <3> QED BY <3>1, <3>5
  <2>2. CASE Bad = {}
    BY <2>2
  <2> QED BY <2>1, <2>2
<1>7. ASSUME NEW c \in L PROVE \E n \in 0..HeapWords : c \in met[n]
  <2>1. SUFFICES ASSUME \A n \in 0..HeapWords : c \notin met[n] PROVE FALSE
    OBVIOUS
  <2>2. c \in Nat /\ c < HeapWords
    BY <1>4 DEF Addr
  <2> DEFINE Below(n, x) == x \in met[n] /\ x \in L /\ n <= x /\ x < c
             Bad == {n \in Nat : n <= HeapWords /\ ~\E x : Below(n, x)}
  <2>3. \A x \in L \cup {Start} : x < c =>
          next[x] \in L \cup {End} /\ next[x] \in Int /\ x < next[x] /\ next[x] <= c
    <3>1. \A x \in L \cup {Start} : x \in Int
      BY <1>4 DEF Addr, Start
    <3> QED BY <1>4, <2>2, <3>1
  <2>4. \A x \in L \cup {Start} : x < c /\ next[x] # c => next[x] \in L /\ next[x] < c
    <3>1. ASSUME NEW x \in L \cup {Start}, x < c, next[x] # c PROVE next[x] \in L /\ next[x] < c
      <4>1. next[x] \in L \cup {End} /\ next[x] \in Int /\ next[x] <= c
        BY <2>3, <3>1
      <4>2. next[x] < c
        BY <2>2, <3>1, <4>1
      <4> QED BY <2>2, <4>1, <4>2 DEF End
    <3> QED BY <3>1
  <2>5. CASE Bad # {}
    <3>1. PICK n \in Bad : \A m \in Bad : n <= m
      BY <2>5, LeastOfSome
    <3>2. n \in Nat /\ n \in 0..HeapWords /\ ~\E x : Below(n, x)
      BY <3>1
    <3>3. CASE n = 0
      <4>1. next[Start] \in met[0] /\ next[Start] # c
        BY <1>3, <2>1, <3>2, <3>3
      <4>2. Start < c
        BY <2>2 DEF Start
      <4>3. next[Start] \in L /\ next[Start] < c
        BY <2>4, <4>1, <4>2
      <4>4. 0 <= next[Start]
        BY <1>10, <4>3
      <4> QED BY <3>2, <3>3, <4>1, <4>3, <4>4
    <3>4. CASE n # 0
      <4>1. n - 1 \in Nat /\ n - 1 \notin Bad /\ n - 1 <= HeapWords
        BY <3>1, <3>4
      <4>2. PICK x : Below(n - 1, x)
        <5> HIDE DEF Below
        <5> QED BY <4>1
      <4>3. next[x] \in met[n]
        <5>1. x \in met[n-1] \ {End, Null}
          BY <1>5, <4>2
        <5> QED BY <1>3, <3>2, <3>4, <5>1
      <4>4. next[x] # c
        BY <2>1, <3>2, <4>3
      <4>5. next[x] \in L /\ next[x] < c /\ x < next[x] /\ next[x] \in Int
        BY <2>3, <2>4, <4>2, <4>4
      <4>6. x \in Nat
        BY <1>4, <4>2 DEF Addr
      <4>7. n <= next[x]
        BY <3>2, <4>2, <4>5, <4>6
      <4> QED BY <3>2, <4>3, <4>5, <4>7
    <3> QED BY <3>3, <3>4
  <2>6. CASE Bad = {}
    <3>1. HeapWords \in Nat /\ HeapWords \notin Bad
      <4> HIDE DEF Bad
      <4> QED BY <2>6
    <3>2. PICK x : Below(HeapWords, x)
      <4> HIDE DEF Below
      <4> QED BY <3>1
    <3>3. x \in Nat
      BY <1>4, <3>2 DEF Addr
    <3> QED BY <2>2, <3>2, <3>3
  <2> QED BY <2>5, <2>6
<1>8. ASSUME NEW c \in L PROVE c \in FreeBlocks
  <2>1. PICK n \in 0..HeapWords : c \in met[n]
    BY <1>7
  <2> QED BY <1>2, <1>4, <2>1
<1>9. ASSUME NEW c \in FreeBlocks PROVE c \in L
  <2>1. c \in Addr
    BY <1>2
  <2>2. PICK n \in 0..HeapWords : c \in met[n]
    BY <1>2
  <2>3. c # End
    BY <2>1, Blocks
  <2> QED BY <1>6, <2>2, <2>3
<1> QED BY <1>8, <1>9 DEF L

LEMMA TiledHolds ==
  ASSUME HeapWords \in Nat \ {0}, HeapInv
  PROVE  Tiled
PROOF
<1> DEFINE H == OnList \cup InUse
<1>1. Tiles(size, H) /\ FreeBlocks = OnList
  BY FreeBlocksAre DEF HeapInv, Heap
<1>2. \A x \in H : x \in Nat /\ size[x] \in Nat
  BY <1>1, TileFacts
<1>3. ASSUME NEW w \in Addr PROVE Cardinality({b \in H : w \in Words(b)}) = 1
  <2>1. w \in Nat
    BY DEF Addr
  <2>2. \A x \in H : w \in Words(x) <=> x <= w /\ w < x + size[x]
    BY <1>2, <2>1 DEF Words
  <2>3. PICK b \in H : b <= w /\ w < b + size[b]
    BY <1>1 DEF Tiles
  <2>4. ASSUME NEW x \in H, x <= w, w < x + size[x] PROVE x = b
    <3>1. /\ x < b => x + size[x] <= b
          /\ b < x => b + size[b] <= x
      BY <1>1 DEF Tiles
    <3> QED BY <1>2, <2>1, <2>3, <2>4, <3>1
  <2>5. {x \in H : w \in Words(x)} = {b}
    <3> HIDE DEF H
    <3> QED BY <2>2, <2>3, <2>4
  <2>6. Cardinality({b}) = 1
    BY FS_Singleton
  <2> QED BY <2>5, <2>6
<1> QED BY <1>1, <1>3 DEF Tiled

LEMMA FitsHolds ==
  ASSUME HeapWords \in Nat \ {0}, HeapInv, MaxRequest \in Nat
  PROVE  FitsIfRoom
PROOF
<1> DEFINE L == OnList
           H == L \cup InUse
<1>1. Tiles(size, H) /\ Linked(next, L) /\ Apart(size, L)
      /\ bytesAvailable = Cardinality(Covered(size, L))
  BY DEF HeapInv, Heap
<1>2. \A x \in H : x \in Nat /\ size[x] \in Nat /\ x + size[x] <= HeapWords /\ size[x] > 0
  BY <1>1, TileFacts
<1>3. SUFFICES ASSUME NEW n \in 1..MaxRequest, NEW a \in Addr,
                      a + n + Header <= HeapWords,
                      \A b \in InUse : Words(b) \cap (a..a+n+Header-1) = {}
               PROVE  Fits(n + Header)
  BY DEF FitsIfRoom
<1>4. PICK need \in Nat : need = n + Header /\ need > 0
  BY DEF Header
<1>5. a \in Nat /\ a + need <= HeapWords
  BY <1>3, <1>4 DEF Addr, Header
<1>6. ASSUME NEW w \in Addr, a <= w, w < a + need PROVE \E b \in L : b <= w /\ w < b + size[b]
  <2>1. PICK b \in H : b <= w /\ w < b + size[b]
    BY <1>1 DEF Tiles
  <2>2. w \in Nat
    BY DEF Addr
  <2>3. b \notin InUse
    <3>1. SUFFICES ASSUME b \in InUse PROVE FALSE
      OBVIOUS
    <3>2. w \in Words(b)
      BY <1>2, <2>1, <2>2 DEF Words
    <3>3. w \in a..a+n+Header-1
      BY <1>4, <1>5, <1>6, <2>2 DEF Header
    <3> QED BY <1>3, <3>1, <3>2, <3>3
  <2> QED BY <2>1, <2>3
<1>7. PICK b \in L : b <= a /\ a < b + size[b]
  BY <1>4, <1>5, <1>6
<1>8. b \in Nat /\ size[b] \in Nat /\ b + size[b] <= HeapWords
  BY <1>2
<1>9. a + need <= b + size[b]
  <2>1. SUFFICES ASSUME b + size[b] < a + need PROVE FALSE
    BY <1>4, <1>5, <1>8
  <2>2. PICK w \in Nat : w = b + size[b]
    BY <1>8
  <2>3. w \in Addr /\ a <= w /\ w < a + need
    BY <1>4, <1>5, <1>7, <1>8, <2>1, <2>2 DEF Addr
  <2>4. PICK y \in L : y <= w /\ w < y + size[y]
    BY <1>6, <2>3
  <2>5. y \in Nat /\ size[y] \in Nat
    BY <1>2
  <2>6. /\ y < b => y + size[y] <= b
        /\ b < y => b + size[b] <= y
    BY <1>1 DEF Tiles
  <2>7. y = w
    BY <1>8, <2>2, <2>4, <2>5, <2>6
  <2> QED BY <1>1, <2>2, <2>7 DEF Apart
<1>10. need <= size[b]
  BY <1>4, <1>5, <1>7, <1>8, <1>9
<1>11. next[BeforeFit(need)] # End
  <2>1. next[BeforeFit(need)] = End => \A c \in L : TooSmall(c, need)
    <3> HIDE DEF L
    <3> QED BY <1>1, FitIs
  <2> QED BY <1>4, <1>8, <1>10, <2>1 DEF TooSmall
<1>12. need <= bytesAvailable
  <2>1. PICK c : c = Cardinality(Covered(size, L \ {b}))
    OBVIOUS
  <2>2. /\ c \in Nat
        /\ Cardinality(Covered(size, (L \ {b}) \cup {b})) = c + size[b]
    <3>1. L \ {b} \in SUBSET H /\ b \in H /\ b \notin L \ {b}
      OBVIOUS
    <3> HIDE DEF L, H
    <3> QED BY <1>1, <2>1, <3>1, CoveredOne
  <2>3. (L \ {b}) \cup {b} = L
    OBVIOUS
  <2>4. bytesAvailable = c + size[b]
    BY <1>1, <2>2, <2>3
  <2> QED BY <1>4, <1>8, <1>10, <2>2, <2>4
<1> QED BY <1>4, <1>11, <1>12 DEF Fits

\* The sum that BytesExact takes, block by block
LEMMA SumExists ==
  ASSUME NEW S, IsFiniteSet(S)
  PROVE  \E f : f = [s \in SUBSET S |->
                      IF s = {} THEN 0
                      ELSE LET x == CHOOSE y \in s : TRUE IN size[x] + f[s \ {x}]]
PROOF
<1> DEFINE Upto(n) == {s \in SUBSET S : Cardinality(s) <= n}
           Value(f, s) == IF s = {} THEN 0
                          ELSE LET x == CHOOSE y \in s : TRUE IN size[x] + f[s \ {x}]
           Part(n, f) == f = [s \in Upto(n) |-> Value(f, s)]
           Bad == {n \in Nat : ~\E f : Part(n, f)}
<1>1. ASSUME NEW s \in SUBSET S PROVE IsFiniteSet(s) /\ Cardinality(s) \in Nat
  BY FS_Subset, FS_CardinalityType
<1>2. ASSUME NEW s \in SUBSET S, s # {}
      PROVE  \E x \in s : /\ x = CHOOSE y \in s : TRUE
                          /\ s \ {x} \in SUBSET S /\ Cardinality(s \ {x}) = Cardinality(s) - 1
  <2>1. PICK x : x = CHOOSE y \in s : TRUE
    OBVIOUS
  <2>2. x \in s
    BY <1>2, <2>1
  <2>3. Cardinality(s \ {x}) = Cardinality(s) - 1
    BY <1>1, <2>2, FS_RemoveElement
  <2> QED BY <2>1, <2>2, <2>3
<1>3. CASE Bad # {}
  <2>1. PICK n \in Bad : \A m \in Bad : n <= m
    BY <1>3, LeastOfSome
  <2>2. n \in Nat /\ ~\E f : Part(n, f)
    BY <2>1
  <2>3. CASE n = 0
    <3> DEFINE g == [s \in Upto(n) |-> 0]
    <3>1. ASSUME NEW s \in Upto(n) PROVE s = {}
      <4>1. s \in SUBSET S /\ Cardinality(s) = 0
        BY <1>1, <2>3
      <4> QED BY <1>1, <4>1, FS_EmptySet
    <3>2. \A s \in Upto(n) : Value(g, s) = 0
      BY <3>1
    <3>3. Part(n, g)
      <4> HIDE DEF Value
      <4> QED BY <3>2
    <3> QED BY <2>2, <3>3
  <2>4. CASE n # 0
    <3>1. n - 1 \in Nat /\ ~(n <= n - 1)
      BY <2>2, <2>4
    <3>2. n - 1 \notin Bad
      <4> HIDE DEF Bad
      <4> QED BY <2>1, <3>1
    <3>3. PICK f : Part(n - 1, f)
      BY <3>1, <3>2
    <3> DEFINE g == [s \in Upto(n) |-> IF s \in Upto(n-1) THEN f[s] ELSE Value(f, s)]
    <3>4. Upto(n-1) \subseteq Upto(n)
      BY <1>1, <2>2
    <3>5. ASSUME NEW s \in Upto(n) PROVE Value(g, s) = Value(f, s)
      <4>1. CASE s = {}
        BY <4>1
      <4>2. CASE s # {}
        <5>1. s \in SUBSET S /\ Cardinality(s) <= n
          OBVIOUS
        <5>2. PICK x \in s : /\ x = CHOOSE y \in s : TRUE
                             /\ s \ {x} \in SUBSET S /\ Cardinality(s \ {x}) = Cardinality(s) - 1
          BY <1>2, <4>2, <5>1
        <5>3. s \ {x} \in Upto(n-1)
          BY <1>1, <2>2, <5>1, <5>2
        <5>4. g[s \ {x}] = f[s \ {x}]
          <6> HIDE DEF Upto, Value
          <6> QED BY <3>4, <5>3
        <5> HIDE DEF g, Upto
        <5> QED BY <5>2, <5>4
      <4> QED BY <4>1, <4>2
    <3>6. \A s \in Upto(n-1) : f[s] = Value(f, s)
      <4> HIDE DEF Upto, Value
      <4> QED BY <3>3
    <3>7. \A s \in Upto(n) : g[s] = Value(g, s)
      <4>1. \A s \in Upto(n) : g[s] = IF s \in Upto(n-1) THEN f[s] ELSE Value(f, s)
        OBVIOUS
      <4> HIDE DEF g, Value, Upto
      <4> QED BY <3>5, <3>6, <4>1
    <3>8. Part(n, g)
      <4>1. g = [s \in Upto(n) |-> g[s]]
        OBVIOUS
      <4> HIDE DEF g, Value, Upto
      <4> QED BY <3>7, <4>1
    <3> QED BY <2>2, <3>8
  <2> QED BY <2>3, <2>4
<1>4. CASE Bad = {}
  <2>1. PICK n \in Nat : n = Cardinality(S)
    BY FS_CardinalityType
  <2>2. Upto(n) = SUBSET S
    <3>1. ASSUME NEW s \in SUBSET S PROVE Cardinality(s) <= n
      BY <2>1, FS_Subset
    <3> QED BY <3>1
  <2>3. n \notin Bad
    <3> HIDE DEF Bad
    <3> QED BY <1>4
  <2>4. PICK f : Part(n, f)
    BY <2>3
  <2>5. f = [s \in SUBSET S |-> Value(f, s)]
    BY <2>2, <2>4
  <2> QED BY <2>5
<1> QED BY <1>3, <1>4

LEMMA BytesHold ==
  ASSUME HeapWords \in Nat \ {0}, HeapInv
  PROVE  BytesExact
PROOF
<1> DEFINE L == OnList
           H == L \cup InUse
           Value(f, s) == IF s = {} THEN 0
                          ELSE LET x == CHOOSE y \in s : TRUE IN size[x] + f[s \ {x}]
           sum == CHOOSE f : f = [s \in SUBSET L |-> Value(f, s)]
           Count(s) == Cardinality(Covered(size, s))
<1>1. Tiles(size, H) /\ FreeBlocks = L /\ bytesAvailable = Count(L)
  BY FreeBlocksAre DEF HeapInv, Heap
<1>2. IsFiniteSet(L)
  <2>1. IsFiniteSet(Addr)
    BY FS_Interval DEF Addr
  <2>2. L \subseteq Addr
    BY DEF OnList
  <2> QED BY <2>1, <2>2, FS_Subset
<1>3. MapThenSumSet(LAMBDA b : size[b], L) = sum[L]
  BY DEF MapThenSumSet, MapThenFoldSet
<1>4. sum = [s \in SUBSET L |-> Value(sum, s)]
  <2>1. \E f : f = [s \in SUBSET L |-> Value(f, s)]
    <3> HIDE DEF L
    <3> QED BY <1>2, SumExists
  <2> HIDE DEF Value, L
  <2> QED BY <2>1
<1>5. ASSUME NEW s \in SUBSET L PROVE IsFiniteSet(s) /\ Cardinality(s) \in Nat
  <2> HIDE DEF L
  <2> QED BY <1>2, FS_Subset, FS_CardinalityType
<1> HIDE DEF sum
<1> DEFINE Bad == {n \in Nat : \E s \in SUBSET L : n = Cardinality(s) /\ sum[s] # Count(s)}
<1>6. CASE Bad # {}
  <2>1. PICK n \in Bad : \A m \in Bad : n <= m
    BY <1>6, LeastOfSome
  <2>2. PICK s \in SUBSET L : n = Cardinality(s) /\ sum[s] # Count(s) /\ n \in Nat
    BY <2>1
  <2>3. sum[s] = Value(sum, s)
    <3> HIDE DEF Value, L
    <3> QED BY <1>4
  <2>4. CASE s = {}
    <3>1. Covered(size, s) = {}
      BY <2>4 DEF Covered
    <3> QED BY <2>2, <2>3, <2>4, <3>1, FS_EmptySet
  <2>5. CASE s # {}
    <3>1. PICK x : x = CHOOSE y \in s : TRUE
      OBVIOUS
    <3>2. x \in s
      BY <2>5, <3>1
    <3>3. sum[s] = size[x] + sum[s \ {x}]
      BY <2>3, <2>5, <3>1
    <3>4. Cardinality(s \ {x}) = n - 1 /\ n - 1 \in Nat
      <4>1. Cardinality(s \ {x}) = n - 1
        BY <1>5, <2>2, <3>2, FS_RemoveElement
      <4>2. s \ {x} \in SUBSET L
        BY <2>2
      <4>3. Cardinality(s \ {x}) \in Nat
        BY <1>5, <4>2
      <4> QED BY <4>1, <4>3
    <3>5. sum[s \ {x}] = Count(s \ {x})
      <4>1. n - 1 \notin Bad
        <5>1. ~(n <= n - 1)
          BY <2>2
        <5> HIDE DEF Bad
        <5> QED BY <2>1, <3>4, <5>1
      <4>2. s \ {x} \in SUBSET L
        BY <2>2
      <4> HIDE DEF Count, L
      <4> QED BY <3>4, <4>1, <4>2
    <3>6. /\ Count(s \ {x}) \in Nat
          /\ Count((s \ {x}) \cup {x}) = Count(s \ {x}) + size[x]
      <4>1. s \ {x} \in SUBSET H /\ x \in H /\ x \notin s \ {x}
        BY <2>2, <3>2
      <4> HIDE DEF H
      <4> QED BY <1>1, <4>1, CoveredOne
    <3>7. (s \ {x}) \cup {x} = s
      BY <3>2
    <3>8. size[x] \in Nat
      <4>1. x \in H
        BY <2>2, <3>2
      <4> HIDE DEF H
      <4> QED BY <1>1, <4>1, TileFacts
    <3> HIDE DEF Count
    <3>9. PICK a \in Nat : a = Count(s \ {x})
      BY <3>6
    <3>10. PICK b \in Nat : b = size[x]
      BY <3>8
    <3>11. Count(s) = a + b
      BY <3>6, <3>7, <3>9, <3>10
    <3>12. sum[s] = b + a
      BY <3>3, <3>5, <3>9, <3>10
    <3>13. sum[s] = Count(s)
      BY <3>11, <3>12
    <3> QED BY <2>2, <3>13
  <2> QED BY <2>4, <2>5
<1>7. CASE Bad = {}
  <2>1. Cardinality(L) \in Nat
    <3>1. L \in SUBSET L
      OBVIOUS
    <3> HIDE DEF L
    <3> QED BY <1>5, <3>1
  <2>2. sum[L] = Count(L)
    <3> HIDE DEF Count, L
    <3> QED BY <1>7, <2>1
  <2> QED BY <1>1, <1>3, <2>2 DEF BytesExact
<1> QED BY <1>6, <1>7

-----------------------------------------------------------------------------
LEMMA NextInv ==
  ASSUME HeapWords \in Nat \ {0}, MaxRequest \in Nat, HeapInv, [Next]_vars
  PROVE  HeapInv'
PROOF
<1>1. CASE Next
  <2>1. ASSUME NEW n \in 1..MaxRequest, Malloc(n) PROVE HeapInv'
    <3>1. n \in Nat \ {0}
      OBVIOUS
    <3> QED BY <2>1, <3>1, MallocInv
  <2>2. ASSUME NEW b \in Addr, Free(b) PROVE HeapInv'
    BY <2>2, FreeInv
  <2> QED BY <1>1, <2>1, <2>2 DEF Next
<1>2. CASE UNCHANGED vars
  <2>1. UNCHANGED <<next, size, allocated, bytesAvailable>>
    BY <1>2 DEF vars
  <2>2. OnList' = OnList /\ InUse' = InUse
    BY <2>1 DEF OnList, InUse
  <2> QED BY <2>1, <2>2 DEF HeapInv
<1> QED BY <1>1, <1>2

\* Every word of the heap is in exactly one block, the count of free bytes
\* is that of the list, and malloc() fails only for want of a run of free
\* words: of internalMalloc(), internalFree() and insertBlockIntoFreeList(),
\* for a heap of any size.
THEOREM HeapIsSound ==
  ASSUME HeapWords \in Nat \ {0}, MaxRequest \in Nat
  PROVE  Spec => [](Tiled /\ BytesExact /\ FitsIfRoom)
PROOF
<1>1. Init => HeapInv
  BY InitInv
<1>2. HeapInv /\ [Next]_vars => HeapInv'
  BY NextInv
<1>3. HeapInv => Tiled /\ BytesExact /\ FitsIfRoom
  BY TiledHolds, BytesHold, FitsHolds
<1> QED BY <1>1, <1>2, <1>3, PTL DEF Spec

\* The blocks handed out, as sets of words
Handed == {Words(b) : b \in InUse}

A == INSTANCE Allocator WITH used <- Handed

LEMMA BlocksDiffer ==
  ASSUME HeapWords \in Nat \ {0}, NEW sz, NEW H, Tiles(sz, H)
  PROVE  \A b, c \in H : /\ b \in b..b+sz[b]-1
                         /\ b # c => (b..b+sz[b]-1) \cap (c..c+sz[c]-1) = {}
PROOF
<1>1. \A b \in H : b \in Nat /\ sz[b] \in Nat /\ sz[b] > 0
  BY TileFacts
<1>2. ASSUME NEW b \in H, NEW c \in H, b < c PROVE (b..b+sz[b]-1) \cap (c..c+sz[c]-1) = {}
  <2>1. b + sz[b] <= c
    BY <1>2 DEF Tiles
  <2> QED BY <1>1, <2>1
<1>3. ASSUME NEW b \in H, NEW c \in H, b # c PROVE (b..b+sz[b]-1) \cap (c..c+sz[c]-1) = {}
  <2>1. b < c \/ c < b
    BY <1>1, <1>3
  <2> QED BY <1>2, <2>1
<1>4. \A b \in H : b \in b..b+sz[b]-1
  BY <1>1
<1> QED BY <1>3, <1>4

\* Every call of the manager is one of Allocator's.
LEMMA ListStep ==
  ASSUME HeapWords \in Nat \ {0}, MaxRequest \in Nat, HeapInv, HeapInv', [Next]_vars
  PROVE  [A!Next]_Handed
PROOF
<1>1. ASSUME NEW n \in 1..MaxRequest, Malloc(n) PROVE A!Malloc(n)
  <2>1. n \in Nat \ {0}
    OBVIOUS
  <2>2. PICK b \in Addr : /\ b \notin InUse /\ InUse' = InUse \cup {b}
                          /\ size'[b] >= n + Header
                          /\ \A x \in InUse : size'[x] = size[x]
    BY <1>1, <2>1, MallocInv
  <2> DEFINE Old(x) == x..x+size[x]-1
             New(x) == x..x+size'[x]-1
  <2>3. Handed = {Old(x) : x \in InUse} /\ Handed' = {New(x) : x \in InUse'}
    BY DEF Handed, Words
  <2>4. /\ b \in New(b)
        /\ \A x \in InUse : New(x) \cap New(b) = {}
    <3> DEFINE H == OnList' \cup InUse'
    <3>1. Tiles(size', H)
      BY DEF HeapInv, Heap
    <3>2. b \in H /\ \A x \in InUse : x \in H /\ x # b
      BY <2>2
    <3> HIDE DEF H
    <3> QED BY <3>1, <3>2, BlocksDiffer
  <2>5. \A x \in InUse : Old(x) = New(x)
    BY <2>2
  <2> HIDE DEF Old, New
  <2>6. Handed' = Handed \cup {New(b)} /\ New(b) \notin Handed /\ \A u \in Handed : u \cap New(b) = {}
    BY <2>2, <2>3, <2>4, <2>5
  <2>7. A!Run(New(b), n)
    <3>1. b \in 0..HeapWords /\ size'[b] \in n+Header..HeapWords-b
      <4>1. Tiles(size', OnList' \cup InUse') /\ b \in InUse'
        BY <2>2 DEF HeapInv, Heap
      <4>2. b \in Nat /\ b < HeapWords /\ size'[b] \in Nat /\ b + size'[b] <= HeapWords
        BY <4>1, TileFacts
      <4> QED BY <2>1, <2>2, <4>2 DEF Header
    <3> QED BY <3>1 DEF A!Run, New
  <2> QED BY <2>6, <2>7 DEF A!Malloc
<1>2. ASSUME NEW b \in Addr, Free(b) PROVE Words(b) \in Handed /\ A!Free(Words(b))
  <2>1. b \in InUse /\ InUse' = InUse \ {b} /\ \A x \in InUse' : size'[x] = size[x]
    BY <1>2, FreeInv
  <2> DEFINE Old(x) == x..x+size[x]-1
             New(x) == x..x+size'[x]-1
  <2>2. Handed = {Old(x) : x \in InUse} /\ Handed' = {New(x) : x \in InUse'} /\ Words(b) = Old(b)
    BY DEF Handed, Words
  <2>3. \A x \in InUse' : New(x) = Old(x)
    BY <2>1
  <2>4. \A x \in InUse : x # b => Old(x) # Old(b)
    <3> DEFINE H == OnList \cup InUse
    <3>1. Tiles(size, H)
      BY DEF HeapInv, Heap
    <3>2. \A x \in InUse : x \in H
      OBVIOUS
    <3> HIDE DEF H
    <3>3. \A x, y \in InUse : x \in Old(x) /\ (x # y => Old(x) \cap Old(y) = {})
      BY <3>1, <3>2, BlocksDiffer
    <3> HIDE DEF Old
    <3> QED BY <2>1, <3>3
  <2> HIDE DEF Old, New
  <2> QED BY <2>1, <2>2, <2>3, <2>4 DEF A!Free
<1>3. UNCHANGED vars => UNCHANGED Handed
  BY DEF vars, Handed, Words, InUse
<1> QED BY <1>1, <1>2, <1>3 DEF Next, A!Next

\* malloc() hands out blocks that no other overlaps, each as long as asked
\* for with its header, and free() takes back the one it is given: the list
\* of freeListMM.c is an Allocator, for a heap of any size.
THEOREM ListIsAllocator ==
  ASSUME HeapWords \in Nat \ {0}, MaxRequest \in Nat
  PROVE  Spec => A!Spec
PROOF
<1>1. Init => HeapInv /\ A!Init
  <2>1. Init => InUse = {}
    BY Blocks DEF Init, InUse
  <2> QED BY <2>1, InitInv DEF A!Init, Handed
<1>2. HeapInv /\ [Next]_vars => HeapInv'
  BY NextInv
<1>3. HeapInv /\ HeapInv' /\ [Next]_vars => [A!Next]_Handed
  BY ListStep
<1> QED BY <1>1, <1>2, <1>3, PTL DEF Spec, A!Spec

\* With nothing in use there is one free block.
LEMMA WholeHeap ==
  ASSUME HeapWords \in Nat \ {0}, HeapInv, InUse = {}
  PROVE  OnList = {0} /\ bytesAvailable = HeapWords
PROOF
<1>1. Tiles(size, OnList) /\ Apart(size, OnList) /\ bytesAvailable = Cardinality(Covered(size, OnList))
  BY DEF HeapInv, Heap
<1>2. \A b \in OnList : b \in Nat /\ b < HeapWords /\ size[b] \in Nat /\ size[b] > 0 /\ b + size[b] <= HeapWords
  BY <1>1, TileFacts
<1>3. 0 \in OnList
  <2>1. PICK b \in OnList : b <= 0
    BY <1>1, Blocks DEF Tiles
  <2>2. b = 0
    BY <1>2, <2>1
  <2> QED BY <2>2
<1>4. size[0] = HeapWords
  <2>1. SUFFICES ASSUME size[0] < HeapWords PROVE FALSE
    BY <1>2, <1>3
  <2>2. PICK w \in Nat : w = size[0] /\ w > 0 /\ w < HeapWords
    BY <1>2, <1>3, <2>1
  <2>3. w \in Addr
    BY <2>2 DEF Addr
  <2>4. PICK b \in OnList : b <= w /\ w < b + size[b]
    BY <1>1, <2>3 DEF Tiles
  <2>5. b # 0
    BY <1>2, <2>2, <2>4
  <2>6. 0 < b
    BY <1>2, <2>5
  <2>7. 0 + size[0] <= b
    BY <1>1, <1>3, <2>6 DEF Tiles
  <2>8. b = w /\ 0 + size[0] = w
    BY <1>2, <2>2, <2>4, <2>7
  <2> QED BY <1>1, <1>3, <2>4, <2>8 DEF Apart
<1>5. ASSUME NEW b \in OnList, b # 0 PROVE FALSE
  <2>1. 0 < b
    BY <1>2, <1>5
  <2>2. 0 + size[0] <= b
    BY <1>1, <1>3, <2>1 DEF Tiles
  <2> QED BY <1>2, <1>4, <2>2
<1>6. OnList = {0}
  BY <1>3, <1>5
<1>7. Cardinality(Covered(size, {} \cup {0})) = Cardinality(Covered(size, {})) + size[0]
  BY <1>1, <1>6, CoveredOne
<1>8. Cardinality(Covered(size, {})) = 0
  <2>1. Covered(size, {}) = {}
    BY DEF Covered
  <2> QED BY <2>1, FS_EmptySet
<1>9. {} \cup {0} = {0}
  OBVIOUS
<1> QED BY <1>1, <1>4, <1>6, <1>7, <1>8, <1>9
=============================================================================
