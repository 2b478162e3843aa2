--------------------------- MODULE CommandHistory ---------------------------
(***************************************************************************)
(* The shell's history of commands, circularHistoryBuffer.c: a ring over   *)
(* an Array, in which an element used again moves to the newest place.     *)
(*                                                                         *)
(* A history is a record with the fields of CircularHistoryBufferADT; its  *)
(* Array is the sequence that Arrays shows it to be, so that index i of    *)
(* the code is i + 1 here.  `freed' has what the call gave to freeEleFn.   *)
(***************************************************************************)
EXTENDS Integers, Sequences, SequencesExt

CONSTANTS
  Size,          \* MAX_HISTORY_LEN, 20 in the shell
  Same(_, _)     \* the comparison given to CHB_moveToFrontOrPush()

\* CHB_initialize()
NewHistory ==
  [array |-> <<>>, readIdx |-> 0, writeIdx |-> 0, toReadBackwards |-> 0,
   freed |-> <<>>]

\* getIncreasedIdxBy(idx, 1)
IncreasedIdx(h, idx) == (idx + 1) % Size

\* getDecreasedIdxBy(idx, 1)
DecreasedIdx(h, idx) == IF idx < 1 THEN idx + Len(h.array) - 1 ELSE idx - 1

\* The place of the reader left where it was.
ReadOn(h) == [h EXCEPT !.toReadBackwards = Len(h.array), !.freed = <<>>]

\* CHB_readRest()
ReadRest(h) ==
  [h EXCEPT !.readIdx = h.writeIdx, !.toReadBackwards = Len(h.array),
            !.freed = <<>>]

\* CHB_push(); Array_set() frees the element that it replaces.
Push(h, e) ==
  LET w == h.writeIdx
      full == Len(h.array) >= Size
      g == [h EXCEPT !.array = IF full THEN [@ EXCEPT ![w+1] = e] ELSE Append(@, e),
                     !.writeIdx = IncreasedIdx(h, w)]
  IN [ReadRest(g) EXCEPT !.freed = IF full THEN <<h.array[w+1]>> ELSE <<>>]

CanReadNext(h) == h.toReadBackwards + 1 < Len(h.array)
CanReadPrev(h) == h.toReadBackwards > 0

\* CHB_readNext() when there is one
ReadNext(h) ==
  [h EXCEPT !.readIdx = IncreasedIdx(h, @), !.toReadBackwards = @ + 1,
            !.freed = <<>>]

\* CHB_readPrev() when there is one
ReadPrev(h) ==
  [h EXCEPT !.readIdx = DecreasedIdx(h, @), !.toReadBackwards = @ - 1,
            !.freed = <<>>]

\* The element that the last of these calls returned.
ElementRead(h) == h.array[h.readIdx + 1]

\* The last of them forgotten.
ShiftedBackShort(a, idx, w) ==
  [i \in DOMAIN a |-> IF i - 1 \in idx..w-3 THEN a[i+1] ELSE a[i]]

\* Those after idx and before the writing position, one position back.
ShiftedBack(a, idx, w) ==
  [i \in DOMAIN a |-> IF i - 1 \in idx..w-2 THEN a[i+1] ELSE a[i]]

\* Those from the writing position to idx - 1, one position forward.
ShiftedForward(a, idx, w) ==
  [i \in DOMAIN a |-> IF i - 1 \in w+1..idx THEN a[i-1] ELSE a[i]]

\* Array_find(), -1 when there is none
Find(a, e) == SelectInSeq(a, LAMBDA x : Same(x, e)) - 1

\* CHB_moveToFrontOrPush()
MoveToFrontOrPush(h, e) ==
  LET idx == Find(h.array, e)
      w == h.writeIdx
      before == [h EXCEPT !.array = [ShiftedBack(@, idx, w) EXCEPT ![w] = e]]
      after == [h EXCEPT !.array = [ShiftedForward(@, idx, w) EXCEPT ![w+1] = e],
                         !.writeIdx = IncreasedIdx(h, w)]
  IN IF idx >= 0 /\ idx # w
     THEN [ReadRest(IF idx < w THEN before ELSE after)
             EXCEPT !.freed = <<h.array[idx+1]>>]
     ELSE Push(h, e)

\* The elements from the oldest to the newest.
Oldest(h) ==
  IF Len(h.array) < Size THEN h.array
  ELSE SubSeq(h.array, h.writeIdx + 1, Size) \o SubSeq(h.array, 1, h.writeIdx)
=============================================================================
