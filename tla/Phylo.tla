------------------------------- MODULE Phylo -------------------------------
(***************************************************************************)
(* The dining philosophers, phyloTest.c: philosophers who sit down and     *)
(* leave while the others eat.  Each takes a token of the table before it  *)
(* thinks; whoever changes the table takes all of them first.              *)
(*                                                                         *)
(* A step is a system call and the code up to the next one.                *)
(***************************************************************************)
EXTENDS Integers, Sequences, SequencesExt, FiniteSets, Semaphore, Subsequence

CONSTANTS
  Amount, MinAmount, MaxAmount,   \* PHYLO_AMOUNT, ...
  CanFail                         \* whether creating semaphores may fail
ASSUME AmountAssumption ==
  /\ {Amount, MinAmount, MaxAmount} \subseteq Nat \ {0, 1}
  /\ MinAmount <= Amount /\ Amount <= MaxAmount

Place == 0..MaxAmount-1
Manager == -1
Table == -1
PrintMutex == -2
Absent == "absent"

VARIABLES
  onTable,  \* phylos_on_table
  sem,      \* the semaphores; those of Place are the forks
  pc,       \* where each philosopher is
  mpc,      \* where commandPhylo() is
  count,    \* i of its loops
  change    \* what it does to the table: "a", "r", "e" or "start"

vars == <<onTable, sem, pc, mpc, count, change>>

Blocked(p) == \E s \in DOMAIN sem : p \in Range(sem[s].queue)

Wait(p, s) == sem' = [sem EXCEPT ![s] = Waited(@, p)]
Post(s) == sem' = [sem EXCEPT ![s] = Posted(@)]

\* The fork beyond the last place
RightForkOfAll(i) == (i + 1) % MaxAmount

\* right_fork()
RightFork(i) == (i + 1) % onTable

\* Everyone begins with its own.
OwnFirst(i) == TRUE

\* takeForks(): the even ones begin with their own fork.
TakesOwnFirst(i) == i % 2 = 0

FirstFork(i) == IF TakesOwnFirst(i) THEN i ELSE RightFork(i)
SecondFork(i) == IF TakesOwnFirst(i) THEN RightFork(i) ELSE i

-----------------------------------------------------------------------------
\* myPhyloProcess() of a philosopher, at one of its system calls
At(i, here, there) == pc[i] = here /\ ~Blocked(i) /\ pc' = [pc EXCEPT ![i] = there]

SitDown(i) == At(i, "away", "thinking") /\ Wait(i, Table)
TakeFirst(i) == At(i, "thinking", "one fork") /\ Wait(i, FirstFork(i))
TakeSecond(i) == At(i, "one fork", "eating") /\ Wait(i, SecondFork(i))
Monitor(i) == At(i, "eating", "printing") /\ Wait(i, PrintMutex)
Printed(i) == At(i, "printing", "eaten") /\ Post(PrintMutex)
LeaveOwn(i) == At(i, "eaten", "own left") /\ Post(i)
LeaveRight(i) == At(i, "own left", "both left") /\ Post(RightFork(i))
GetUp(i) == At(i, "both left", "away") /\ Post(Table)

Philosopher(i) ==
  /\ \/ SitDown(i) \/ TakeFirst(i) \/ TakeSecond(i) \/ Monitor(i) \/ Printed(i)
     \/ LeaveOwn(i) \/ LeaveRight(i) \/ GetUp(i)
  /\ UNCHANGED <<onTable, mpc, count, change>>

-----------------------------------------------------------------------------
Goto(m) == mpc' = m /\ count' = 0

\* addPhylo() and remPhylo() that find no place, or too few
Refuses(k) ==
  \/ k = "a" /\ ~(onTable >= MinAmount /\ onTable < MaxAmount)
  \/ k = "r" /\ onTable - 1 < MinAmount
  \/ k = "other"

\* getKey() in commandPhylo()
ReadKey(k) ==
  /\ mpc = "key"
  /\ IF Refuses(k) THEN UNCHANGED <<mpc, count, change>>
                   ELSE Goto("collect") /\ change' = k
  /\ UNCHANGED <<onTable, sem, pc>>

\* blockAllToInitiate() or blockAll()
Collected == IF change = "start" THEN Amount ELSE onTable
BlockAll ==
  /\ mpc = "collect" /\ ~Blocked(Manager)
  /\ IF count < Collected
     THEN Wait(Manager, Table) /\ count' = count + 1 /\ UNCHANGED mpc
     ELSE Goto("change") /\ UNCHANGED sem
  /\ UNCHANGED <<onTable, pc, change>>

\* Someone sits down at the next place, with a fork of its own; its process
\* may fail to be created, which nobody looks at.
Join ==
  /\ sem' = [sem EXCEPT ![onTable] = NewSem(1)]
  /\ pc' \in {[pc EXCEPT ![onTable] = "away"]}
              \cup IF CanFail THEN {[pc EXCEPT ![onTable] = Absent]} ELSE {}
  /\ onTable' = onTable + 1

Start ==
  /\ mpc = "change" /\ change = "start"
  /\ IF onTable < Amount THEN Join /\ UNCHANGED <<mpc, count>>
     ELSE Goto("release") /\ UNCHANGED <<onTable, sem, pc>>
  /\ UNCHANGED change

\* The rest of addPhylo()
Add ==
  /\ mpc = "change" /\ change = "a"
  /\ Join
  /\ Goto("release")
  /\ UNCHANGED change

\* sysSemInit() fails: addPhylo() gives the tokens back, the start does not.
SemInitFails ==
  /\ CanFail
  /\ mpc = "change" /\ (change = "a" \/ (change = "start" /\ onTable < Amount))
  /\ Goto(IF change = "a" THEN "give up" ELSE "exited")
  /\ UNCHANGED <<onTable, sem, pc, change>>

\* A queue without i
Without(q, i) == AtPlaces(q, {k \in DOMAIN q : q[k] # i})

\* sysKill() of the last one, and its fork destroyed
Leave(i) ==
  /\ pc' = [pc EXCEPT ![i] = Absent]
  /\ sem' = [s \in DOMAIN sem |->
               IF s = i THEN Destroyed
               ELSE [sem[s] EXCEPT !.queue = Without(@, i)]]
  /\ onTable' = i

\* The rest of remPhylo()
Rem ==
  /\ mpc = "change" /\ change = "r"
  /\ IF pc[onTable-1] # Absent
     THEN Leave(onTable - 1) /\ Goto("release")
     ELSE Goto("give up") /\ UNCHANGED <<onTable, sem, pc>>
  /\ UNCHANGED change

\* A turn of the loop of endPhylos(), and its end
End ==
  /\ mpc = "change" /\ change = "e"
  /\ IF onTable = 0 THEN Goto("exited") /\ UNCHANGED <<onTable, sem, pc>>
     ELSE IF pc[onTable-1] # Absent THEN Leave(onTable - 1) /\ UNCHANGED <<mpc, count>>
     ELSE /\ sem' = [sem EXCEPT ![onTable-1] = Destroyed]
          /\ Goto("give up")
          /\ UNCHANGED <<onTable, pc>>
  /\ UNCHANGED change

\* How many posts freeAll() makes
Released == onTable

\* freeAll(), and sysExit() where the caller gives up
FreeAll ==
  /\ mpc \in {"release", "give up"}
  /\ IF count < Released
     THEN Post(Table) /\ count' = count + 1 /\ UNCHANGED mpc
     ELSE Goto(IF mpc = "release" THEN "key" ELSE "exited") /\ UNCHANGED sem
  /\ UNCHANGED <<onTable, pc, change>>

\* The start of commandPhylo()
Init ==
  /\ onTable = 0
  /\ sem = [s \in Place \cup {Table, PrintMutex} |->
              IF s = Table THEN NewSem(Amount)
              ELSE IF s = PrintMutex THEN NewSem(1) ELSE Destroyed]
  /\ pc = [i \in Place |-> Absent]
  /\ mpc = "collect"
  /\ count = 0
  /\ change = "start"

ManagerStep == BlockAll \/ Start \/ Add \/ SemInitFails \/ Rem \/ End \/ FreeAll

Next ==
  \/ ManagerStep
  \/ \E k \in {"a", "r", "e", "other"} : ReadKey(k)
  \/ \E i \in Place : Philosopher(i)

\* Every process that is ready runs; nobody has to press a key.
Fairness == WF_vars(ManagerStep) /\ \A i \in Place : WF_vars(Philosopher(i))

Spec == Init /\ [][Next]_vars /\ Fairness
-----------------------------------------------------------------------------
\* Those beside fork f who have it in their hand
Holders(f) ==
  {i \in {f, (f + onTable - 1) % onTable} :
     /\ i \notin Range(sem[f].queue)
     /\ \/ pc[i] \in {"eating", "printing", "eaten"}
        \/ pc[i] = "one fork" /\ (TakesOwnFirst(i) <=> f = i)
        \/ pc[i] = "own left" /\ f # i}

(* However the table changes, each fork on it lies there or is in the hand *)
(* of one of the two who sit beside it, until the command has given up:    *)
(* right_fork() of someone who eats never changes under it.                *)
ForksShared ==
  mpc \notin {"give up", "exited"} =>
    \A f \in 0..onTable-1 : sem[f].value + Cardinality(Holders(f)) = 1

(* Whoever thinks will eat, and whoever is at the door will be let in,     *)
(* unless it is made to leave or the one who lets in is gone.              *)
HungryEats ==
  \A i \in Place :
    pc[i] \in {"away", "thinking", "one fork"}
      ~> \/ pc[i] = "eating" /\ ~Blocked(i)
         \/ pc[i] = Absent \/ mpc = "exited"

(* A change of the table comes to its end: blockAll() gets every token.    *)
ChangeEnds == mpc = "collect" ~> mpc \in {"key", "exited"}

(* Neither the philosophers nor the one who seats them wait for ever, with  *)
(* the even ones left-handed (phyloTest.c:54).                              *)
NobodyStarves == HungryEats /\ ChangeEnds
=============================================================================
