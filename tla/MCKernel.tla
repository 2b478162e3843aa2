------------------------------ MODULE MCKernel ------------------------------
(* Kernel for TLC. *)
EXTENDS Kernel

(* The fields of a PCB that has exited are never read again, so states that *)
(* differ only in them are explored once.                                   *)
LiveView ==
  <<state, priority, nextPid, slot, idle, quantumsLeft, fg, devVars, hung,
    [p \in P!Pid |-> IF state[p] \in P!Dead THEN 0 ELSE parent[p]],
    [p \in P!Pid |-> IF state[p] \in P!Dead THEN <<>> ELSE waiters[p]]>>
=============================================================================
