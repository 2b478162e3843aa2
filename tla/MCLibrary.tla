----------------------------- MODULE MCLibrary -----------------------------
(***************************************************************************)
(* The parts that nothing runs beside: an array, a command history, a heap *)
(* of either build, the numbers of stdlib.c and the image of the kernel,   *)
(* one at a time.                                                          *)
(***************************************************************************)
EXTENDS Integers, Sequences, SequencesExt, FiniteSets

CONSTANTS Element, InitialCapacity, MaxGiven, MaxLength, Width, Name, Size,
          BufferSize, KernelAt, MaxFile,
          HeapWords, MaxRequest, Top, MaxBuddyRequest

ASSUME LibraryAssumption ==
  {MaxLength, Width, Size, BufferSize, HeapWords, MaxRequest, Top, MaxBuddyRequest}
    \subseteq Nat \ {0}

VARIABLES part,
          asked, inKernel, cells, length, freed, got, ended,   \* Arrays
          history, returned,                       \* CommandHistory
          buddy, next, size, allocated, bytesAvailable,
          freeList, link, blockSize, isFree,       \* MCHeap
          input                                    \* Stdlib, Image

arrayVars == <<asked, inKernel, cells, length, freed, got, ended>>
historyVars == <<history, returned>>
heapVars == <<buddy, next, size, allocated, bytesAvailable,
              freeList, link, blockSize, isFree>>

Targets == <<12, 16>>

\* An element is a name and one of two copies of it.
Same(x, y) == x[1] = y[1]

A == INSTANCE Arrays
H == INSTANCE CommandHistory
S == INSTANCE Stdlib
I == INSTANCE Image
M == INSTANCE MCHeap

Nothing == <<"nothing">>

-----------------------------------------------------------------------------
Kept == Range(history.array)

Returns(h) == history' = h /\ returned' = H!ElementRead(h)
Silent(h) == history' = h /\ returned' = Nothing
Quiet(h) == [h EXCEPT !.freed = <<>>]

Remember ==
  \E n \in Name, copy \in {0, 1} :
    /\ <<n, copy>> \notin Kept
    /\ Silent(H!MoveToFrontOrPush(history, <<n, copy>>))

HistoryNext ==
  \/ Remember
  \/ Silent(H!ReadRest(history))
  \/ IF H!CanReadNext(history) THEN Returns(H!ReadNext(history))
                               ELSE Silent(Quiet(history))
  \/ IF H!CanReadPrev(history) THEN Returns(H!ReadPrev(history))
                               ELSE Silent(Quiet(history))

-----------------------------------------------------------------------------
\* The kernel and the modules of an image; every word is another.
File(n, words) == [i \in 1..words |-> 100 * n + i]
Files(sizes) == [n \in DOMAIN sizes |-> File(n, sizes[n])]

Input ==
  CASE part = "numbers" -> -(2^(Width-1))..2^(Width-1)-1
    [] part = "image" -> UNION {[1..n -> 0..MaxFile] : n \in 2..3}
    [] OTHER -> {0}

Init ==
  /\ part \in {"array", "history", "heap", "numbers", "image"}
  /\ A!Init
  /\ part # "array" => ~inKernel /\ DOMAIN cells = {0} /\ length = 0
  /\ history = H!NewHistory
  /\ returned = Nothing
  /\ M!Init
  /\ part # "heap" => ~buddy
  /\ input \in Input

Next ==
  /\ UNCHANGED <<part, input>>
  /\ \/ part = "array" /\ A!Next /\ UNCHANGED <<historyVars, heapVars>>
     \/ part = "history" /\ HistoryNext /\ UNCHANGED <<arrayVars, heapVars>>
     \/ part = "heap" /\ M!Next /\ UNCHANGED <<arrayVars, historyVars>>

Spec == Init /\ [][Next]_<<part, arrayVars, historyVars, heapVars, input>>
-----------------------------------------------------------------------------
(* An Array of the kernel or of the library is a list, whatever its        *)
(* capacity: it gives back what leaves it, once, and to the caller what    *)
(* the list has at the places asked for, counted from either end.          *)
V == INSTANCE Vector WITH
       vec <- IF ended THEN <<>> ELSE A!Elements(0, length),
       dropped <- freed,
       given <- got,
       index <- asked,
       gone <- ended
ImplementsVector == V!Spec

(* The ring of the history, with its two indices and its moves, keeps the  *)
(* last elements in the order of their last use.                           *)
R == INSTANCE Recent WITH
       Element <- Name \X {0, 1},
       list <- H!Oldest(history),
       at <- history.toReadBackwards,
       read <- returned,
       dropped <- history.freed
ImplementsRecent == R!Spec

(* Either memory manager keeps every word in one block, and fails only for *)
(* want of room (stated in MCHeap).                                        *)
HeapSound == part = "heap" => M!HeapSound

(* Both hand out disjoint blocks, as large as asked for, until they are     *)
(* freed: the client of malloc() need not know which of them it has.        *)
Allocators == INSTANCE Allocator WITH
  Header <- 2,
  MaxRequest <- IF MaxRequest < MaxBuddyRequest THEN MaxBuddyRequest
                                                ELSE MaxRequest,
  HeapWords <- IF HeapWords < 2^Top THEN 2^Top ELSE HeapWords,
  used <- IF part = "heap" THEN M!Used ELSE {}
ImplementsAllocator == Allocators!Spec

(* A number that is printed reads back as itself, in both bases and by     *)
(* both readers, the smallest one too; and so it does from a field of      *)
(* printf(), which is as wide as asked for, whatever padding a call that   *)
(* was killed has left behind.                                             *)
Flag == {<<>>, <<"-">>, <<"0">>}
Left == [paddingChar : {" ", "0"}, paddingLen : {0, 3}, paddingSign : {1, -1}]
FieldOf(left, flag, width, conversion, arg) ==
  S!Printf(left, <<"%">> \o flag \o S!UintToBase(width, 10) \o <<conversion>>, <<arg>>)
Unpadded(s) == SelectSeq(s, LAMBDA c : c # " ")
Wide(str, width) == IF Len(str) < width THEN width ELSE Len(str)

NumbersReadBack ==
  part = "numbers" =>
    LET decimal == S!IntToBase(input, 10)
        hex == S!UintToBase(input % 2^(2*Width), 16) IN
    /\ S!StrToInt(decimal) = input
    /\ S!Satoi(decimal) = input
    /\ S!StrToInt(<<"0", "x">> \o S!UintToBase(input % 2^Width, 16)) = input
    /\ \A left \in Left, flag \in Flag, width \in {1, 3, 12} :
         LET d == FieldOf(left, flag, width, "d", input)
             s == FieldOf(left, flag, width, "s", decimal)
             x == FieldOf(left, flag, width, "x", input) IN
         /\ Len(d) = Wide(decimal, width) /\ Len(s) = Len(d)
         /\ Len(x) = 2 + Wide(hex, width)
         /\ S!StrToInt(Unpadded(d)) = input
         /\ flag # <<"0">> => Unpadded(s) = decimal
         /\ flag # <<"-">> => S!StrToInt(Unpadded(x)) = input

(* Every module packed with the kernel is at its address once the kernel   *)
(* has loaded them, if they fit there, and the heap begins behind the last.*)
ModulesLoaded ==
  part = "image" =>
    LET files == Files(input)
        image == I!BuildImage(files)
        end == KernelAt + Len(image)
        mem == [a \in 0..25 |-> IF a \in KernelAt..end-1 THEN image[a - KernelAt + 1] ELSE 0]
        loaded == I!LoadModules(mem, KernelAt + Len(files[1]))
    IN (end <= Targets[1] /\ Len(files[2]) <= Targets[2] - Targets[1]) =>
         /\ loaded.end = Targets[Len(files)-1] + Len(Last(files))
         /\ \A n \in 2..Len(files), i \in 1..MaxFile :
              i <= Len(files[n]) => loaded.mem[Targets[n-1] + i - 1] = files[n][i]
=============================================================================
