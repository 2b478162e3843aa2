------------------------------ MODULE MemTest ------------------------------
(***************************************************************************)
(* testMM, testMm.c, on its own heap, which is that of FreeListMM: as many *)
(* blocks as fit in the memory it was given are requested, filled, checked *)
(* and freed, over and over.  Sizes count words.                           *)
(***************************************************************************)
EXTENDS Integers, Sequences, SequencesExt, FiniteSets

CONSTANTS
  HeapWords, MaxRequest,   \* FreeListMM
  MaxBlocks,               \* MAX_BLOCKS
  MaxMemory                \* bound on its argument

VARIABLES
  next, size, allocated, bytesAvailable,   \* FreeListMM
  max_memory,
  mm_rqs,     \* the blocks, as headers in the heap and the sizes asked for
  total,
  phase,      \* where it is in its loop
  i,          \* how far it is in it
  data        \* what each word of the heap was set to

heap == <<next, size, allocated, bytesAvailable>>
vars == <<heap, max_memory, mm_rqs, total, phase, i, data>>

F == INSTANCE FreeListMM

\* GetUniform()
GetUniform(max) == IF max = 0 THEN {0} ELSE 0..max-1

\* The words from the address that sysMalloc() returned
Block(rq) == (rq.at + F!Header)..(rq.at + F!Header + rq.size - 1)

Goto(p) == phase' = p /\ i' = 1

Sizes == {n + 1 : n \in GetUniform(max_memory - total - 1)}

\* One turn of the first loop; sysMalloc() may find no block.
Request ==
  /\ phase = "request" /\ Len(mm_rqs) < MaxBlocks /\ total < max_memory
  /\ \E n \in Sizes :
       \/ /\ F!Malloc(n)
          /\ \E b \in DOMAIN allocated :
               /\ allocated'[b] /\ ~allocated[b]
               /\ mm_rqs' = Append(mm_rqs, [at |-> b, size |-> n])
          /\ total' = total + n
          /\ UNCHANGED phase
       \/ /\ ~F!Fits(n + F!Header)
          /\ phase' = "no memory available"
          /\ UNCHANGED <<heap, mm_rqs, total>>
  /\ UNCHANGED <<max_memory, i, data>>

Requested ==
  /\ phase = "request" /\ (Len(mm_rqs) = MaxBlocks \/ total >= max_memory)
  /\ Goto("set")
  /\ UNCHANGED <<heap, max_memory, mm_rqs, total, data>>

\* setMem()
Set ==
  /\ phase = "set"
  /\ IF i <= Len(mm_rqs)
     THEN /\ data' = [a \in DOMAIN data |-> IF a \in Block(mm_rqs[i]) THEN i ELSE data[a]]
          /\ i' = i + 1 /\ UNCHANGED phase
     ELSE Goto("check") /\ UNCHANGED data
  /\ UNCHANGED <<heap, max_memory, mm_rqs, total>>

\* memcheck()
Check ==
  /\ phase = "check"
  /\ IF i > Len(mm_rqs) THEN Goto("free")
     ELSE IF \A a \in Block(mm_rqs[i]) : data[a] = i THEN i' = i + 1 /\ UNCHANGED phase
     ELSE phase' = "out of bounds" /\ UNCHANGED i
  /\ UNCHANGED <<heap, max_memory, mm_rqs, total, data>>

\* sysFree() of each, and the next turn of the endless loop
Free ==
  /\ phase = "free"
  /\ IF i <= Len(mm_rqs)
     THEN /\ F!Free(mm_rqs[i].at)
          /\ i' = i + 1 /\ UNCHANGED <<phase, mm_rqs, total>>
     ELSE /\ Goto("request") /\ mm_rqs' = <<>> /\ total' = 0
          /\ UNCHANGED heap
  /\ UNCHANGED <<max_memory, data>>

Init ==
  /\ F!Init
  /\ max_memory \in 1..MaxMemory
  /\ mm_rqs = <<>> /\ total = 0 /\ phase = "request" /\ i = 1
  /\ data = [a \in F!Addr |-> 0]

Next == Request \/ Requested \/ Set \/ Check \/ Free
-----------------------------------------------------------------------------
(* No block is changed through another and no header through a block, the  *)
(* total stays in the limit, and a round leaves nothing behind: the next   *)
(* has the whole heap again.                                               *)
BlocksKept ==
  /\ phase # "out of bounds"
  /\ \A k \in DOMAIN mm_rqs, b \in F!FreeBlocks \cup F!InUse :
       Block(mm_rqs[k]) \cap (b..b + F!Header - 1) = {}
  /\ total <= max_memory
  /\ phase = "request" /\ mm_rqs = <<>> => F!FreeBlocks = {0} /\ bytesAvailable = HeapWords
=============================================================================
