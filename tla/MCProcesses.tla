--------------------------- MODULE MCProcesses ---------------------------
(* Processes for TLC. *)
EXTENDS Processes

(* The fields of a PCB that has exited are never read again, so states that *)
(* differ only in them are explored once.                                   *)
LiveView ==
  <<state, priority, nextPid, slot, idle, quantumsLeft, fg, held,
    [p \in Pid |-> IF state[p] \in Dead THEN 0 ELSE parent[p]],
    [p \in Pid |-> IF state[p] \in Dead THEN <<>> ELSE waiters[p]]>>
=============================================================================
