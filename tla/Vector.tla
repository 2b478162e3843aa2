------------------------------- MODULE Vector -------------------------------
(***************************************************************************)
(* What an Array promises: a list of elements, indexed from the start or,  *)
(* below zero, from the end; it gives back the elements that leave it      *)
(* unless the caller takes them.                                           *)
(***************************************************************************)
EXTENDS Integers, Sequences, SequencesExt

CONSTANTS Element, MaxGiven, MaxLength

VARIABLES
  vec,
  dropped,  \* the elements given back by the last call
  given,    \* those it gave to the caller
  index,    \* the index it had, as a set
  gone      \* freed, its process ended, or nothing promised any more

vars == <<vec, dropped, given, index, gone>>

Given == BoundedSeq(Element, MaxGiven)

\* The place of index i, or 0
Place(i) == IF i >= 0 /\ i < Len(vec) THEN i + 1
            ELSE IF i < 0 /\ -i <= Len(vec) THEN Len(vec) + i + 1 ELSE 0

Init == vec \in Given /\ dropped = <<>> /\ given = <<>> /\ index = {} /\ gone = FALSE

Become(new, out) == vec' = new /\ dropped' = out /\ given' = <<>> /\ UNCHANGED gone
Give(new, s) == vec' = new /\ dropped' = <<>> /\ given' = s /\ UNCHANGED gone

Append1(e) == Become(Append(vec, e), <<>>)
Concat(s) == Become(vec \o s, <<>>)
Clear == Become(<<>>, vec)

\* The last element leaves, to the caller or given back.
Pop ==
  /\ vec # <<>>
  /\ Become(Front(vec), <<Last(vec)>>) \/ Give(Front(vec), <<Last(vec)>>)

\* Some elements from one place on
Look(p, n) == p + n - 1 <= Len(vec) /\ Give(vec, SubSeq(vec, p, p + n - 1))

\* Elements replaced from place p on
Replace(p, s, out) ==
  Become([j \in DOMAIN vec |-> IF j \in p..p+Len(s)-1 THEN s[j-p+1] ELSE vec[j]], out)

Put(p, s) ==
  /\ p + Len(s) - 1 <= Len(vec)
  /\ \E out \in {<<>>, SubSeq(vec, p, p + Len(s) - 1)} : Replace(p, s, out)

Delete(p) == Become(RemoveAt(vec, p), <<vec[p]>>)

LookAtAll == Give(vec, vec)

\* A call for what there is not
Refuse == Become(vec, <<>>)

Leave == gone' = TRUE /\ vec' = <<>> /\ given' = <<>> /\ dropped' \in {<<>>, vec}

Next ==
  /\ ~gone
  /\ \/ /\ index' = {}
        /\ \/ \E e \in Element : Append1(e)
           \/ \E s \in Given : Concat(s)
           \/ Clear \/ Pop \/ LookAtAll \/ Leave
           \/ vec = <<>> /\ Refuse
     \/ \E i \in -MaxLength..MaxLength :
          /\ index' = {i}
          /\ \/ Leave
             \/ Place(i) = 0 /\ Refuse
             \/ /\ Place(i) # 0
                /\ \/ Delete(Place(i))
                   \/ \E s \in Given : Put(Place(i), s)
                   \/ \E n \in 0..Len(vec) : Look(Place(i), n)

Spec == Init /\ [][Next]_vars
=============================================================================
