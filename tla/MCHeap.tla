------------------------------- MODULE MCHeap -------------------------------
(***************************************************************************)
(* A heap of either build: with BUDDY defined or without, memoryManager.h. *)
(* The two managers promise the same.                                      *)
(***************************************************************************)
EXTENDS Integers, FiniteSets, FiniteSetsExt

CONSTANTS HeapWords, MaxRequest, Top, MaxBuddyRequest  \* positive numbers

VARIABLES buddy, next, size, allocated, bytesAvailable,  \* the build, FreeListMM
          freeList, link, blockSize, isFree              \* BuddyMM

F == INSTANCE FreeListMM
B == INSTANCE BuddyMM WITH next <- link, size <- blockSize,
                           MaxRequest <- MaxBuddyRequest

listVars == <<next, size, allocated, bytesAvailable>>
buddyVars == <<freeList, link, blockSize, isFree>>

Init == buddy \in BOOLEAN /\ F!Init /\ B!Init

Next ==
  /\ UNCHANGED buddy
  /\ \/ ~buddy /\ F!Next /\ UNCHANGED buddyVars
     \/ buddy /\ B!Next /\ UNCHANGED listVars

-----------------------------------------------------------------------------
(* Either heap: however blocks split and join, every word is in exactly one *)
(* block, free or in use; the count of the free ones is that of the list    *)
(* (freeListMM.c), and the lists agree with the headers (buddyMM.c).        *)
(* malloc() fails only for want of a run of free words, which free() joins, *)
(* aligned to its size for the buddies.                                     *)
HeapSound ==
  /\ F!Tiled /\ F!BytesExact /\ F!FitsIfRoom
  /\ B!Sound /\ B!FitsIfRoom

\* The blocks handed out, as sets of words
Used == IF buddy THEN {B!Words(b) : b \in B!InUse}
                 ELSE {F!Words(b) : b \in F!InUse}
=============================================================================
