------------------------------ MODULE Channel ------------------------------
(***************************************************************************)
(* What a pipe promises: a bounded channel of bytes, first in first out,   *)
(* until it breaks.                                                        *)
(***************************************************************************)
EXTENDS Integers, Sequences

CONSTANTS Byte, Capacity

VARIABLES
  chan,      \* the bytes written and not yet read
  got,       \* the last byte read
  broken     \* no longer a channel: destroyed, or overrun by the keyboard

vars == <<chan, got, broken>>

Init == chan = <<>> /\ got \in Byte /\ broken = FALSE

Send(b) ==
  /\ Len(chan) < Capacity
  /\ chan' = Append(chan, b)
  /\ UNCHANGED <<got, broken>>

Receive ==
  /\ chan # <<>>
  /\ got' = Head(chan)
  /\ chan' = Tail(chan)
  /\ UNCHANGED broken

Break == broken'

Next == Break \/ (~broken /\ (Receive \/ \E b \in Byte : Send(b)))

Spec == Init /\ [][Next]_vars
=============================================================================
