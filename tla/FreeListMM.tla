----------------------------- MODULE FreeListMM -----------------------------
(***************************************************************************)
(* The memory manager of freeListMM.c, the one of the default build: an    *)
(* address-ordered list of free blocks threaded through the heap.  The     *)
(* kernel has one heap, each process another; this is either of them.      *)
(*                                                                         *)
(* Addresses count words of addressByteSize from the start of the heap.    *)
(***************************************************************************)
EXTENDS Integers, FiniteSets, FiniteSetsExt

CONSTANTS
  HeapWords,    \* the heap up to its end marker
  MaxRequest    \* bound on the words asked for

VARIABLES
  next, size,   \* the headers: nextFreeBlock, and blockSize less its high bit
  allocated,    \* that bit
  bytesAvailable

vars == <<next, size, allocated, bytesAvailable>>

Header == 2               \* structSize
Start == -1               \* freeListStart, outside the heap
End == HeapWords          \* freeListEnd
Null == -2
Addr == 0..HeapWords-1
Block == Addr \cup {Start, End}

-----------------------------------------------------------------------------
\* The size of two blocks joined.
Joined(sz, a, b) == sz[a] + sz[b]

\* Block b begins where a ends.
Adjoins(sz, a, b) == a + sz[a] = b

\* The last block on the list nx that is before address b.  (The list ends at
\* End; the Null of a block that is not on it ends the walk all the same.)
Before(nx, b) ==
  LET walk[p \in Block] == IF nx[p] # Null /\ nx[p] < b THEN walk[nx[p]] ELSE p
  IN walk[Start]

\* insertBlockIntoFreeList(b) on the headers nx, sz: what it leaves of them.
\* The header of a block joined to the one before is data from now on.
Insert(nx, sz, b) ==
  LET it == Before(nx, b)
      after == nx[it]
      intoPrevious == it + sz[it] = b
      c == IF intoPrevious THEN it ELSE b
      sz1 == IF intoPrevious THEN [sz EXCEPT ![it] = @ + sz[b], ![b] = 0] ELSE sz
      takesNext == Adjoins(sz1, c, after) /\ after # End
      nx1 == [nx EXCEPT ![b] = Null, ![it] = c]
  IN IF takesNext
     THEN [size |-> [sz1 EXCEPT ![c] = Joined(sz1, c, after), ![after] = 0],
           next |-> [nx1 EXCEPT ![c] = nx[after], ![after] = Null]]
     ELSE [size |-> sz1, next |-> [nx1 EXCEPT ![c] = after]]

TooSmall(b, need) == size[b] < need

\* The block before the first that is large enough, or before the end marker.
BeforeFit(need) ==
  LET walk[p \in Block] ==
        IF next[p] # Null /\ TooSmall(next[p], need) /\ next[next[p]] # Null
        THEN walk[next[p]] ELSE p
  IN walk[Start]

\* The conditions under which internalMalloc() finds a block.
Fits(need) == need <= bytesAvailable /\ next[BeforeFit(need)] # End

\* The second part begun where the data could end without a header.
CutShort(b, need) == b + need - Header

\* Where the second part of a block that is split begins.
Cut(b, need) == b + need

\* Only what was asked for deducted.
ChargedAsAsked(b, need) == need

\* What is deducted: the block as it is after the split.
Charged(b, need) == size'[b]

\* internalMalloc() of n words, with those of the header
Malloc(n) ==
  LET need == n + Header
      p == BeforeFit(need)
      b == next[p]
      nx == [next EXCEPT ![p] = next[b]]
      rest == size[b] - need
      ins == Insert(nx, [size EXCEPT ![Cut(b, need)] = rest, ![b] = need],
                    Cut(b, need)) IN
  /\ Fits(need)
  /\ IF rest > 2 * Header
     THEN size' = ins.size /\ next' = [ins.next EXCEPT ![b] = Null]
     ELSE size' = size /\ next' = [nx EXCEPT ![b] = Null]
  /\ allocated' = [allocated EXCEPT ![b] = TRUE]
  /\ bytesAvailable' = bytesAvailable - Charged(b, need)

Freeable(b) == allocated[b] /\ next[b] = Null

\* internalFree(); of a block that is free already it does nothing.
Free(b) ==
  /\ Freeable(b)
  /\ LET ins == Insert(next, size, b) IN
       next' = ins.next /\ size' = ins.size
  /\ allocated' = [allocated EXCEPT ![b] = FALSE]
  /\ bytesAvailable' = bytesAvailable + size[b]

-----------------------------------------------------------------------------
\* internalFreeListInit(); a word that holds no header is 0 here.
Init ==
  /\ next = [b \in Block |-> IF b = Start THEN 0 ELSE IF b = 0 THEN End ELSE Null]
  /\ size = [b \in Block |-> IF b = 0 THEN HeapWords ELSE 0]
  /\ allocated = [b \in Block |-> FALSE]
  /\ bytesAvailable = HeapWords

Next == (\E n \in 1..MaxRequest : Malloc(n)) \/ (\E b \in Addr : Free(b))

Spec == Init /\ [][Next]_vars
-----------------------------------------------------------------------------
(* Properties.                                                              *)

\* The blocks met on the list.
FreeBlocks ==
  LET met[n \in 0..HeapWords] ==
        IF n = 0 THEN {next[Start]} ELSE {next[b] : b \in met[n-1] \ {End, Null}}
  IN (UNION {met[n] : n \in 0..HeapWords}) \cap Addr

InUse == {b \in Addr : allocated[b]}
Words(b) == b..b+size[b]-1

(* Every word of the heap is in exactly one block, free or in use: nothing *)
(* leaks and nothing is handed out twice, however blocks split and join.   *)
Tiled ==
  \A w \in Addr : Cardinality({b \in FreeBlocks \cup InUse : w \in Words(b)}) = 1

(* bytesAvailable, which malloc() trusts before it looks at the list, is   *)
(* the size of all free blocks.                                            *)
BytesExact == bytesAvailable = MapThenSumSet(LAMBDA b : size[b], FreeBlocks)

(* malloc() fails only when no run of words without a block in use is long *)
(* enough: free memory is never hidden by the way it was split, as long as *)
(* the list stays in order and free blocks that touch are one.             *)
FitsIfRoom ==
  \A n \in 1..MaxRequest, a \in Addr :
    /\ a + n + Header <= HeapWords
    /\ \A b \in InUse : Words(b) \cap (a..a+n+Header-1) = {}
    => Fits(n + Header)
=============================================================================
