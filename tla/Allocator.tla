----------------------------- MODULE Allocator -----------------------------
(***************************************************************************)
(* What a memory manager promises: blocks that do not overlap, each at     *)
(* least as large as asked for, until they are freed.                      *)
(***************************************************************************)
EXTENDS Integers

CONSTANTS HeapWords, MaxRequest, Header

VARIABLE used    \* the blocks handed out, as sets of words

Init == used = {}

Run(b, n) == \E a \in 0..HeapWords : \E s \in n+Header..HeapWords-a : b = a..a+s-1

Malloc(n) ==
  \E b \in used' \ used :
    /\ used' = used \cup {b}
    /\ Run(b, n)
    /\ \A u \in used : u \cap b = {}

Free(b) == used' = used \ {b}

Next == (\E n \in 1..MaxRequest : Malloc(n)) \/ (\E b \in used : Free(b))

Spec == Init /\ [][Next]_used
=============================================================================
