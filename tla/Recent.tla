------------------------------- MODULE Recent -------------------------------
(***************************************************************************)
(* What a command history promises: the last Size different elements, the  *)
(* most recent one last, read backwards from there and forwards again, and *)
(* each element given back once, when it leaves.                           *)
(***************************************************************************)
EXTENDS Integers, Sequences, SequencesExt

CONSTANTS
  Size,          \* how many elements are kept
  Element,
  Same(_, _)     \* two elements that are one for the history

VARIABLES
  list,    \* the elements kept
  at,      \* how many of them a reader has still before it
  read,    \* what the last call returned, or Nothing
  dropped  \* the elements the last call gave back

Nothing == <<"nothing">>
vars == <<list, at, read, dropped>>

\* The places of what is one with e
Like(e) == {i \in DOMAIN list : Same(list[i], e)}

Init == list = <<>> /\ at = 0 /\ read = Nothing /\ dropped = <<>>

Add(e) ==
  /\ \/ \E i \in Like(e) :
          list' = Append(RemoveAt(list, i), e) /\ dropped' = <<list[i]>>
     \/ /\ Like(e) = {} /\ Len(list) < Size
        /\ list' = Append(list, e) /\ dropped' = <<>>
     \/ /\ Like(e) = {} /\ Len(list) = Size
        /\ list' = Append(Tail(list), e) /\ dropped' = <<Head(list)>>
  /\ at' = Len(list')
  /\ read' = Nothing

Move(n) ==
  /\ at' = n
  /\ read' = list[n+1]
  /\ dropped' = <<>>
  /\ UNCHANGED list

Stay(n) ==
  /\ at' = n
  /\ read' = Nothing
  /\ dropped' = <<>>
  /\ UNCHANGED list

Prev == IF at > 0 THEN Move(at - 1) ELSE Stay(at)
Succ == IF at + 1 < Len(list) THEN Move(at + 1) ELSE Stay(at)
Rest == Stay(Len(list))

Next == Prev \/ Succ \/ Rest \/ \E e \in Element : Add(e)

Spec == Init /\ [][Next]_vars
=============================================================================
