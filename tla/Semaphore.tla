----------------------------- MODULE Semaphore -----------------------------
(***************************************************************************)
(* A semaphore for the programs that use one: its value and the queue of   *)
(* those who wait (Kernel has semaphores.c whole).  A killed waiter is     *)
(* taken off the queue, which is what a post makes of it.                  *)
(***************************************************************************)
EXTENDS Integers, Sequences

NewSem(n) == [value |-> n, queue |-> <<>>]
Destroyed == NewSem(-1)

\* sysWaitSem(): p goes on when it is no longer in the queue.
Waited(s, p) ==
  CASE s.value > 0 -> [s EXCEPT !.value = @ - 1]
    [] s.value = 0 -> [s EXCEPT !.queue = Append(@, p)]
    [] OTHER -> s

\* sysPostSem()
Posted(s) ==
  CASE s = Destroyed -> s
    [] s.queue # <<>> -> [s EXCEPT !.queue = Tail(@)]
    [] OTHER -> [s EXCEPT !.value = @ + 1]
=============================================================================
