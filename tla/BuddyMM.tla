------------------------------ MODULE BuddyMM ------------------------------
(***************************************************************************)
(* The memory manager of buddyMM.c, the one of a build with BUDDY: blocks  *)
(* of powers of two, one list of the free ones per order, and a block that *)
(* is freed joined to its buddy as often as that is free too.              *)
(*                                                                         *)
(* Addresses and sizes count words of addressByteSize, and so do orders:   *)
(* order o is 2^o words.  A program frees only what it was given.          *)
(***************************************************************************)
EXTENDS Integers, FiniteSets, SequencesExt

CONSTANTS
  Top,          \* orderCount - 1: the order of the whole heap
  MaxRequest    \* bound on the words asked for

VARIABLES
  freeList,            \* the first block of each order, or Null
  next, size, isFree   \* the headers

vars == <<freeList, next, size, isFree>>

Header == 2            \* sizeof(Block)
Null == -1
HeapSize == 2^Top
Addr == 0..HeapSize-1
Order == 0..Top
-----------------------------------------------------------------------------
\* getOrder(): the loop doubles 1 until it is no smaller than n.
GetOrder(n) == CHOOSE o \in 0..n : 2^o >= n /\ (o = 0 \/ 2^(o-1) < n)

\* The free lists on which internalMalloc() may find a block for n words.
Usable(n) ==
  {o \in GetOrder(n+Header)..Top : freeList[o] # Null /\ isFree[freeList[o]]}

Fits(n) == Usable(n) # {}

\* internalMalloc(): the first block of the smallest order there is, split
\* with splitBlock() until it is as small as asked for.
Malloc(n) ==
  /\ Fits(n)
  /\ LET o == GetOrder(n + Header)
         from == CHOOSE k \in Usable(n) : \A j \in Usable(n) : k <= j
         b == freeList[from]
         Buddies == {b + 2^k : k \in o..from-1}
         OrderOf(a) == CHOOSE k \in o..from-1 : a = b + 2^k IN
       /\ freeList' = [k \in Order |-> IF k \in o..from-1 THEN b + 2^k
                                       ELSE IF k = from THEN next[b]
                                       ELSE freeList[k]]
       /\ next' = [a \in Addr |-> IF a \in Buddies THEN freeList[OrderOf(a)]
                                                   ELSE next[a]]
       /\ size' = [a \in Addr |-> IF a \in Buddies THEN 2^OrderOf(a)
                                  ELSE IF a = b THEN 2^o ELSE size[a]]
       /\ isFree' = [a \in Addr |-> a \in Buddies \/ (isFree[a] /\ a # b)]

\* The blocks met on the list of a heap h that begins with a block
OnListFrom(h, first) ==
  LET met[n \in 0..HeapSize] ==
        IF n = 0 THEN {first} ELSE {h.next[b] : b \in met[n-1] \ {Null}}
  IN (UNION {met[n] : n \in 0..HeapSize}) \ {Null}

\* A heap on its way, and the block that is being freed, or Null
Heap(lists, links, sizes, frees, b) ==
  [freeList |-> lists, next |-> links, size |-> sizes, isFree |-> frees, block |-> b]

\* A block inside the list not taken off it.
RemoveFirstOnly(h, x, o) ==
  Heap([h.freeList EXCEPT ![o] = IF @ = x THEN h.next[x] ELSE @],
       h.next, h.size, [h.isFree EXCEPT ![x] = FALSE], h.block)

\* removeFromFreeList(x, o); before is where the loop stops, if not at NULL.
RemoveFromFreeList(h, x, o) ==
  LET before == {p \in OnListFrom(h, h.freeList[o]) : h.next[p] = x}
  IN Heap([h.freeList EXCEPT ![o] = IF @ = x THEN h.next[x] ELSE @],
          IF h.freeList[o] = x THEN h.next
          ELSE [a \in Addr |-> IF a \in before THEN h.next[x]
                               ELSE IF a = x THEN Null ELSE h.next[a]],
          h.size, [h.isFree EXCEPT ![x] = FALSE], h.block)

\* The buddy of a block, by getAlignment().
Buddy(b, s) == IF (b \div s) % 2 = 0 THEN b + s ELSE b - s

MergesWith(h, b, y) == h.isFree[y] /\ h.size[y] = h.size[b]

\* mergeBlock() at order o; the header of a right half is data from now on,
\* as no header 0 here.
MergeBlock(h, o) ==
  LET b == h.block
      s == h.size[b]
      y == Buddy(b, s)
      g == RemoveFromFreeList(RemoveFromFreeList(h, b, o), y, o)
      left == IF y < b THEN y ELSE b
      right == IF y < b THEN b ELSE y
  IN IF b = Null THEN h
     ELSE IF s = HeapSize
     THEN Heap([h.freeList EXCEPT ![o] = b], h.next, h.size, h.isFree, Null)
     ELSE IF ~MergesWith(h, b, y)
     THEN Heap([h.freeList EXCEPT ![o] = b], [h.next EXCEPT ![b] = h.freeList[o]],
               h.size, h.isFree, Null)
     ELSE Heap(g.freeList, [g.next EXCEPT ![right] = Null],
               [g.size EXCEPT ![left] = 2 * s, ![right] = 0],
               [g.isFree EXCEPT ![left] = TRUE], left)

\* free() and globalFree() of block b
Free(b) ==
  LET o == GetOrder(size[b])
      merged[k \in o..Top+1] ==
        IF k = o THEN Heap(freeList, next, size, [isFree EXCEPT ![b] = TRUE], b)
                 ELSE MergeBlock(merged[k-1], k-1)
      h == merged[Top+1] IN
  /\ freeList' = h.freeList
  /\ next' = h.next
  /\ size' = h.size
  /\ isFree' = h.isFree

\* internalFreeListInit()
Init ==
  /\ freeList = [o \in Order |-> IF o = Top THEN 0 ELSE Null]
  /\ next = [a \in Addr |-> Null]
  /\ size = [a \in Addr |-> IF a = 0 THEN HeapSize ELSE 0]
  /\ isFree = [a \in Addr |-> a = 0]

InUse == {b \in Addr : size[b] > 0 /\ ~isFree[b]}

Next == (\E n \in 1..MaxRequest : Malloc(n)) \/ (\E b \in InUse : Free(b))

Spec == Init /\ [][Next]_vars
-----------------------------------------------------------------------------
(* Properties.                                                              *)

\* The blocks met on the list of order o
Listed(o) == OnListFrom([next |-> next], freeList[o])

Words(b) == b..b+size[b]-1
Headers == {a \in Addr : size[a] > 0}

(* internalGetMemoryState() adds up the sizes on the lists: the bytes that  *)
(* are not in use.                                                          *)
Unused == UNION {Words(b) : b \in UNION {Listed(o) : o \in Order}}

(* Every word is in one block; a list has the free blocks of its order and *)
(* no other; the buddy looked at begins with a header; and two buddies are *)
(* never both free, or memory would stay in pieces for good.               *)
Sound ==
  /\ \A w \in Addr : Cardinality({b \in Headers : w \in Words(b)}) = 1
  /\ \A o \in Order : Listed(o) = {b \in Headers : isFree[b] /\ size[b] = 2^o}
  /\ Unused = Addr \ UNION {Words(b) : b \in InUse}
  /\ \A b \in Headers : size[b] < HeapSize =>
       LET y == Buddy(b, size[b]) IN
         y \in Headers /\ ~(isFree[b] /\ isFree[y] /\ size[b] = size[y])

(* malloc() fails only when no aligned run of words of the size it rounds   *)
(* to is free.                                                              *)
FitsIfRoom ==
  \A n \in 1..MaxRequest :
    LET s == 2^GetOrder(n + Header) IN
    (\E a \in Addr : /\ a % s = 0
                     /\ a + s <= HeapSize
                     /\ \A b \in InUse : Words(b) \cap (a..a+s-1) = {})
    => Fits(n)
=============================================================================
