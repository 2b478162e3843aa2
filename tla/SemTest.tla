------------------------------ MODULE SemTest ------------------------------
(***************************************************************************)
(* testSem, semTest.c: processes that add 1 to one variable and as many    *)
(* that take 1 off it, each time giving up the CPU between reading it and  *)
(* writing it.  The command runs once, and nobody kills its processes.     *)
(***************************************************************************)
EXTENDS Integers, Sequences, SequencesExt, Semaphore

CONSTANTS
  Pairs,      \* TOTAL_PAIR_PROCESSES
  Rounds,     \* bound on its first argument, n
  Expected    \* its third

VARIABLES
  useSem,     \* its second argument
  globalForSemTest,
  sem,        \* the semaphore "sem"
  worker,     \* each process: where it is, its aux and its rounds left
  created     \* how many of them the command has created

vars == <<useSem, globalForSemTest, sem, worker, created>>

Worker == 1..2*Pairs
inc(w) == IF w <= Pairs THEN -1 ELSE 1

At(w, here) == w <= created /\ worker[w].at = here /\ w \notin Range(sem.queue)
Goto(w, there) == worker' = [worker EXCEPT ![w].at = there]

\* sysWaitSem()
Enter(w) ==
  /\ At(w, "round") /\ worker[w].left > 0
  /\ Goto(w, "read")
  /\ sem' = IF useSem THEN Waited(sem, w) ELSE sem
  /\ UNCHANGED <<useSem, globalForSemTest, created>>

\* slowInc(), up to sysYield()
Read(w) ==
  /\ At(w, "read")
  /\ worker' = [worker EXCEPT ![w].at = "write", ![w].aux = globalForSemTest]
  /\ UNCHANGED <<useSem, globalForSemTest, sem, created>>

\* The rest of slowInc()
Write(w) ==
  /\ At(w, "write")
  /\ globalForSemTest' = worker[w].aux + inc(w)
  /\ Goto(w, "leave")
  /\ UNCHANGED <<useSem, sem, created>>

\* sysPostSem()
Leave(w) ==
  /\ At(w, "leave")
  /\ worker' = [worker EXCEPT ![w].at = "round", ![w].left = @ - 1]
  /\ sem' = IF useSem THEN Posted(sem) ELSE sem
  /\ UNCHANGED <<useSem, globalForSemTest, created>>

\* The first to be created may run before the last are.
Create ==
  /\ created < 2*Pairs
  /\ created' = created + 1
  /\ UNCHANGED <<useSem, globalForSemTest, sem, worker>>

Ended == created = 2*Pairs /\ \A w \in Worker : worker[w].left = 0

\* Two in the region at once
InitialOfTwo == 2

InitialValue == 1

\* commandTestSem(): no other semaphore has that name.
Init ==
  /\ useSem \in BOOLEAN
  /\ globalForSemTest = Expected
  /\ sem = NewSem(InitialValue)
  /\ \E n \in 1..Rounds : worker = [w \in Worker |-> [at |-> "round", aux |-> 0, left |-> n]]
  /\ created = 0

Next == Create \/ \E w \in Worker : Enter(w) \/ Read(w) \/ Write(w) \/ Leave(w)
-----------------------------------------------------------------------------
(* "it should remain the same at the end of the process" (semTest.c:53):   *)
(* with the semaphore no sum is lost, whoever yields to whom.              *)
SumKept == useSem /\ Ended => globalForSemTest = Expected
=============================================================================
