------------------------------- MODULE Arrays -------------------------------
(***************************************************************************)
(* Array, a vector that grows: array.c of the kernel and of the user       *)
(* library, which differ in what they do when memory runs out, in the      *)
(* elements that a write frees, and in removal.                            *)
(*                                                                         *)
(* The elements here have a function that frees them.  Nobody writes past  *)
(* the length of an array, which would leave the length as it is.          *)
(***************************************************************************)
EXTENDS Integers, Sequences, SequencesExt, FiniteSets

CONSTANTS
  Element,
  InitialCapacity,
  MaxGiven,      \* bound: elements given to one call
  MaxLength      \* bound: elements in an array

VARIABLES
  asked,     \* the index given to the last call, as a set
  inKernel,  \* which of the two
  cells,     \* the memory at array: 0..capacity-1
  length,
  freed,     \* the elements the last call gave to freeEleFn
  got,       \* those it gave to the caller
  ended      \* freed, the process exited, or memory past the end overwritten

vars == <<asked, inKernel, cells, length, freed, got, ended>>

Junk == "junk"
Capacity == Cardinality(DOMAIN cells)
Memory(n) == [i \in 0..n-1 |-> Junk]
Given == BoundedSeq(Element, MaxGiven)
Elements(from, n) == [i \in 1..n |-> cells[from + i - 1]]

\* toRealIdx(), -1 out of bounds
RealIdx(i) ==
  IF i < 0 THEN (IF -i > length THEN -1 ELSE i + length)
  ELSE IF i >= length THEN -1 ELSE i

\* memcpy() over itself from the last element to the first
CopyBackwards(c, dst, src, n) ==
  LET copied[k \in 0..n] ==
        IF k = 0 THEN c
        ELSE [copied[k-1] EXCEPT ![dst+n-k] = copied[k-1][src+n-k]]
  IN copied[n]

\* memcpy() within the array, one element after the other
CopyWithin(c, dst, src, n) ==
  LET copied[k \in 0..n] ==
        IF k = 0 THEN c
        ELSE [copied[k-1] EXCEPT ![dst+k-1] = copied[k-1][src+k-1]]
  IN copied[n]

\* copynEleAt() of elements from elsewhere
CopyAt(c, idx, s) ==
  [i \in DOMAIN c |-> IF i \in idx..idx+Len(s)-1 THEN s[i-idx+1] ELSE c[i]]

\* growTo(), when there is memory: the elements move.
Grown(n) == [i \in 0..n-1 |-> IF i \in DOMAIN cells THEN cells[i] ELSE Junk]

\* What a call frees and what it gives to the caller
Out(f, g) == freed' = f /\ got' = g
Silent == Out(<<>>, <<>>)

\* What comes of growth without memory: the user's exits, the kernel's goes
\* on and writes past the end.
OutOfMemory ==
  ended' = TRUE /\ Silent /\ UNCHANGED <<inKernel, cells, length>>

\* exitWithError(), or false from the kernel's
Refused ==
  /\ Silent
  /\ ended' = ~inKernel
  /\ UNCHANGED <<inKernel, cells, length>>

\* Elements added at the end, in a capacity of n
AddAt(n, s) ==
  /\ cells' = CopyAt(Grown(n), length, s)
  /\ length' = length + Len(s)
  /\ Silent
  /\ UNCHANGED <<inKernel, ended>>

-----------------------------------------------------------------------------
\* The capacity asked for by Array_push()
Doubled == Capacity + Capacity

\* Array_push()
Push(e) ==
  /\ length < MaxLength
  /\ IF length >= Capacity THEN AddAt(Doubled, <<e>>) \/ OutOfMemory
                           ELSE AddAt(Capacity, <<e>>)

\* Array_concat()
Concat(s) ==
  /\ length + Len(s) <= MaxLength
  /\ IF Capacity < length + Len(s) THEN AddAt(length + Len(s), s) \/ OutOfMemory
                                   ELSE AddAt(Capacity, s)

\* The element that leaves goes to the caller or is freed.
Popped(e) == Out(<<>>, <<e>>) \/ Out(<<e>>, <<>>)

\* Array_popGetEle(), Array_pop(); an empty array stays as it is.
Pop ==
  LET e == cells[RealIdx(-1)] IN
  /\ IF length = 0 THEN Silent /\ UNCHANGED length
     ELSE length' = length - 1 /\ Popped(e)
  /\ UNCHANGED <<inKernel, cells, ended>>

\* Array_setn(), Array_set(); the kernel frees what it replaces in any case.
Setn(i, s, free) ==
  LET idx == RealIdx(i) IN
  /\ inKernel => free
  /\ idx >= 0 => Len(s) <= length - idx
  /\ IF idx < 0 THEN Refused
     ELSE /\ Out(IF free THEN Elements(idx, Len(s)) ELSE <<>>, <<>>)
          /\ cells' = CopyAt(cells, idx, s)
          /\ UNCHANGED <<inKernel, length, ended>>

All == Elements(0, length)
FreeAll == Out(All, <<>>)

\* Array_clear()
Clear ==
  /\ FreeAll
  /\ length' = 0
  /\ UNCHANGED <<inKernel, cells, ended>>

\* Array_remove(), of the user's only: those behind it move down.
Delete(i) ==
  LET idx == RealIdx(i) IN
  /\ ~inKernel
  /\ IF idx < 0 THEN Refused
     ELSE /\ Out(<<cells[idx]>>, <<>>)
          /\ cells' = CopyWithin(cells, idx, idx + 1, length - (idx + 1))
          /\ length' = length - 1
          /\ UNCHANGED <<inKernel, ended>>

\* Array_free()
Free ==
  FreeAll /\ ended' = TRUE /\ UNCHANGED <<inKernel, cells, length>>

Reads(g) == Out(<<>>, g) /\ UNCHANGED <<inKernel, cells, length, ended>>

\* Array_get(), NULL out of bounds
Get(i) ==
  LET idx == RealIdx(i) IN Reads(IF idx < 0 THEN <<>> ELSE <<cells[idx]>>)

\* Array_getnCopy(), of the user's only
GetnCopy(i, n) ==
  LET idx == RealIdx(i) IN
  /\ ~inKernel
  /\ IF idx < 0 \/ idx + n > length THEN Refused ELSE Reads(Elements(idx, n))

\* Array_getVanillaArrayCopy(), when there is memory; from an empty array the
\* user's exits.
GetVanillaArrayCopy ==
  IF length = 0 /\ ~inKernel THEN Refused ELSE Reads(All)

\* Array_fromVanillaArray(), of the kernel's only
FromVanillaArray(s) ==
  cells = CopyAt(Memory(IF s = <<>> THEN 1 ELSE Len(s)), 0, s) /\ length = Len(s)

\* Array_initialize(); a capacity of 0 becomes 1.
Init ==
  /\ inKernel \in BOOLEAN
  /\ \/ /\ \E n \in InitialCapacity : cells = Memory(IF n = 0 THEN 1 ELSE n)
        /\ length = 0
     \/ inKernel /\ \E s \in Given : FromVanillaArray(s)
  /\ freed = <<>> /\ got = <<>> /\ asked = {}
  /\ ended = FALSE

Next ==
  /\ ~ended
  /\ \/ /\ asked' = {}
        /\ \/ \E e \in Element : Push(e)
           \/ \E s \in Given : Concat(s)
           \/ Pop \/ Clear \/ Free \/ GetVanillaArrayCopy
     \/ \E i \in -MaxLength..MaxLength :
          /\ asked' = {i}
          /\ \/ Delete(i) \/ Get(i)
             \/ \E n \in 0..MaxGiven : GetnCopy(i, n)
             \/ \E s \in Given, free \in BOOLEAN : Setn(i, s, free)
=============================================================================
