---------------------------- MODULE UserlandProof ----------------------------
(***************************************************************************)
(* What userland relies on, proved for every value of the constants:       *)
(*  - phyloTest.c shares the forks soundly, for any number of philosophers *)
(*    (the theorem about the specification of Phylo);                      *)
(*  - the Array of array.c implements Vector, for any capacity;            *)
(*  - circularHistoryBuffer.c implements Recent, for a ring of any size.   *)
(* The last two are about parts of MCLibrary, instantiated here as Lib;    *)
(* the proofs have instances of their own, shown to be the same.           *)
(***************************************************************************)
EXTENDS Phylo, SubsequenceProof

Seats == 0..onTable-1
Live == Seats \cup {Table, PrintMutex}
Process == Place \cup {Manager}
Doing == {"away", "thinking", "one fork", "eating", "printing", "eaten", "own left",
          "both left", Absent}

TableTypes ==
  /\ onTable \in 0..MaxAmount
  /\ sem \in [Place \cup {Table, PrintMutex} -> [value : Int, queue : Seq(Process)]]
  /\ pc \in [Place -> Doing]
  /\ mpc \in {"key", "collect", "change", "release"}
  /\ count \in Nat /\ change \in {"a", "r", "e", "start"}
  /\ \A i \in Place : i >= onTable => pc[i] = Absent

\* Who waits, and for what.
WaitsAt(i, s) ==
  \/ pc[i] = "thinking" /\ s = Table
  \/ pc[i] = "one fork" /\ s = FirstFork(i)
  \/ pc[i] = "eating" /\ s = SecondFork(i)
  \/ pc[i] = "printing" /\ s = PrintMutex

QueuesSound ==
  /\ \A s \in Live :
       /\ sem[s].value \in Nat /\ IsInjective(sem[s].queue)
       /\ sem[s].queue # <<>> => sem[s].value = 0
       /\ \A p \in Range(sem[s].queue) : \/ p = Manager /\ s = Table /\ mpc = "collect"
                                         \/ p \in Seats /\ WaitsAt(p, s)
  /\ \A f \in Place \ Seats : sem[f] = Destroyed

\* How many are on the table, at each stage of a change.
StagesSound ==
  /\ mpc \in {"key", "release"} => onTable >= MinAmount
  /\ mpc = "release" => count <= onTable
  /\ mpc = "collect" => /\ count <= Collected
                        /\ IF change = "start" THEN onTable = 0 ELSE onTable >= MinAmount
  /\ mpc = "change" /\ change = "start" => onTable <= Amount
  /\ mpc \in {"collect", "change"} /\ change = "a" => onTable \in MinAmount..MaxAmount-1
  /\ mpc \in {"collect", "change"} /\ change = "r" => onTable - 1 >= MinAmount

\* Those who have a token of the table, and how many there are to have.
Seated == {i \in Place : pc[i] \notin {"away", Absent} /\ i \notin Range(sem[Table].queue)}
Queueing == IF Manager \in Range(sem[Table].queue) THEN 1 ELSE 0
Given ==
  CASE mpc = "collect" -> Collected - count + Queueing
    [] mpc = "change" -> 0
    [] mpc = "release" -> count
    [] OTHER -> onTable

TokensAgree == sem[Table].value + Cardinality(Seated) = Given

\* Holders, by philosopher
Has(i, f) ==
  /\ f \in {i, RightFork(i)} /\ i \notin Range(sem[f].queue)
  /\ \/ pc[i] \in {"eating", "printing", "eaten"}
     \/ pc[i] = "one fork" /\ f = FirstFork(i)
     \/ pc[i] = "own left" /\ f # i

ForkSound(f) ==
  \/ sem[f].value = 1 /\ \A i \in Seats : ~Has(i, f)
  \/ sem[f].value = 0 /\ \E h \in Seats : \A i \in Seats : Has(i, f) <=> i = h

ForksSound == \A f \in Seats : ForkSound(f)

\* When the command has given up nothing is promised any more.
InPlay == mpc \notin {"give up", "exited"}
AllSound == TableTypes /\ QueuesSound /\ StagesSound /\ TokensAgree /\ ForksSound
PhyloInv == InPlay => AllSound

-----------------------------------------------------------------------------
(* Places and forks.                                                        *)

LEMMA Amounts ==
  /\ Amount \in Nat /\ MinAmount \in Nat /\ MaxAmount \in Nat
  /\ 2 <= MinAmount /\ MinAmount <= Amount /\ Amount <= MaxAmount
PROOF
BY AmountAssumption

LEMMA PlaceFacts ==
  /\ Place \subseteq Nat /\ IsFiniteSet(Place)
  /\ Table \notin Place /\ PrintMutex \notin Place /\ Table # PrintMutex
  /\ Manager \notin Place
PROOF
<1>1. 0 \in Int /\ MaxAmount - 1 \in Int
  BY Amounts
<1>2. IsFiniteSet(Place)
  BY <1>1, FS_Interval DEF Place
<1> QED BY <1>2, Amounts DEF Place, Table, PrintMutex, Manager

LEMMA SomePlaces ==
  /\ \A n \in 0..MaxAmount : 0..n-1 \subseteq Place
  /\ \A n, p \in Nat : ~(p >= n) => p \in 0..n-1
PROOF
BY Amounts DEF Place

LEMMA SeatsArePlaces ==
  ASSUME TableTypes
  PROVE  /\ Seats \subseteq Place /\ Seats \subseteq Nat /\ Live \subseteq DOMAIN sem
         /\ \A i \in Place : pc[i] # Absent => i \in Seats
PROOF
<1>1. onTable \in 0..MaxAmount /\ DOMAIN sem = Place \cup {Table, PrintMutex}
  BY DEF TableTypes
<1>2. Seats \subseteq Place /\ Seats \subseteq Nat
  BY <1>1, Amounts DEF Seats, Place
<1>3. ASSUME NEW i \in Place, pc[i] # Absent PROVE i \in Seats
  <2>1. i \in Nat /\ ~(i >= onTable)
    BY <1>3, PlaceFacts DEF TableTypes
  <2> QED BY <1>1, <2>1 DEF Seats
<1> QED BY <1>1, <1>2, <1>3 DEF Live

LEMMA RightForkIs ==
  ASSUME TableTypes, NEW i \in Seats
  PROVE  RightFork(i) = IF i = onTable - 1 THEN 0 ELSE i + 1
PROOF
<1>1. onTable \in Nat \ {0} /\ i \in 0..onTable-1
  BY Amounts DEF TableTypes, Seats
<1>2. CASE i = onTable - 1
  <2>1. onTable % onTable = 0
    BY <1>1, SMT
  <2>2. i + 1 = onTable
    BY <1>1, <1>2
  <2> QED BY <1>2, <2>1, <2>2 DEF RightFork
<1>3. CASE i # onTable - 1
  <2>1. i + 1 \in 0..onTable-1
    BY <1>1, <1>3
  <2>2. \A y \in 0..onTable-1 : y % onTable = y
    BY <1>1, SMT
  <2> QED BY <1>3, <2>1, <2>2 DEF RightFork
<1> QED BY <1>2, <1>3

\* A fork is at the right of the one whose left it is at.
LEMMA LeftIs ==
  ASSUME TableTypes, NEW f \in Seats, NEW i \in Seats
  PROVE  i = (f + onTable - 1) % onTable <=> RightFork(i) = f
PROOF
<1>1. onTable \in Nat \ {0} /\ i \in 0..onTable-1 /\ f \in 0..onTable-1
  BY Amounts DEF TableTypes, Seats
<1>2. \A y \in 0..onTable-1 : y % onTable = y
  BY <1>1, SMT
<1>3. CASE f = 0
  <2>1. f + onTable - 1 \in 0..onTable-1 /\ f + onTable - 1 = onTable - 1
    BY <1>1, <1>3
  <2>2. (f + onTable - 1) % onTable = onTable - 1
    BY <1>2, <2>1
  <2> QED BY <1>1, <1>3, <2>2, RightForkIs
<1>4. CASE f # 0
  <2>1. f - 1 \in 0..onTable-1 /\ f + onTable - 1 = (f - 1) + onTable
    BY <1>1, <1>4
  <2>2. \A y \in 0..onTable-1 : (y + onTable) % onTable = y
    BY <1>1, SMT
  <2>3. (f + onTable - 1) % onTable = f - 1
    BY <2>1, <2>2
  <2> QED BY <1>1, <1>4, <2>3, RightForkIs
<1> QED BY <1>3, <1>4

LEMMA ForksDiffer ==
  ASSUME TableTypes, onTable >= 2, NEW i \in Seats
  PROVE  /\ RightFork(i) \in Seats /\ RightFork(i) # i
         /\ FirstFork(i) \in Seats /\ SecondFork(i) \in Seats
         /\ FirstFork(i) # SecondFork(i)
         /\ {FirstFork(i), SecondFork(i)} = {i, RightFork(i)}
PROOF
<1>1. onTable \in Nat /\ i \in 0..onTable-1
  BY Amounts DEF TableTypes, Seats
<1>2. RightFork(i) \in Seats /\ RightFork(i) # i
  BY <1>1, RightForkIs DEF Seats
<1> QED BY <1>2 DEF FirstFork, SecondFork

LEMMA SeatedFacts ==
  ASSUME TableTypes
  PROVE  IsFiniteSet(Seated) /\ Cardinality(Seated) \in Nat /\ Seated \subseteq Seats
PROOF
<1>1. IsFiniteSet(Seated)
  BY PlaceFacts, FS_Subset DEF Seated
<1>2. Seated \subseteq Seats
  BY SeatsArePlaces DEF Seated
<1> QED BY <1>1, <1>2, FS_CardinalityType

\* While the table is changed nobody sits at it; else there are two at least.
LEMMA TwoAtLeast ==
  ASSUME TableTypes, QueuesSound, StagesSound, TokensAgree
  PROVE  /\ mpc = "change" => Seated = {} /\ sem[Table].value = 0
         /\ Seated # {} => onTable >= 2
PROOF
<1>1. sem[Table].value \in Nat
  BY DEF QueuesSound, Live
<1>2. ASSUME mpc = "change" PROVE Seated = {} /\ sem[Table].value = 0
  <2>1. sem[Table].value + Cardinality(Seated) = 0
    BY <1>2 DEF TokensAgree, Given
  <2>2. Cardinality(Seated) = 0 /\ sem[Table].value = 0
    BY <1>1, <2>1, SeatedFacts
  <2> QED BY <2>2, SeatedFacts, FS_EmptySet
<1>3. ASSUME Seated # {} PROVE onTable >= 2
  <2>1. mpc # "change"
    BY <1>2, <1>3
  <2>2. PICK i \in Seats : TRUE
    BY <1>3, SeatedFacts
  <2>3. onTable # 0 /\ onTable \in Nat
    BY <2>2, Amounts DEF Seats, TableTypes
  <2>4. onTable >= MinAmount
    BY <2>1, <2>3 DEF TableTypes, StagesSound
  <2> QED BY <2>3, <2>4, Amounts
<1> QED BY <1>2, <1>3

-----------------------------------------------------------------------------
(* The semaphores.                                                          *)

\* The semaphores but one stay as they are; its value and its queue may change.
Semaphores == [Place \cup {Table, PrintMutex} -> [value : Int, queue : Seq(Process)]]
OnlyAt(s) ==
  /\ sem' \in Semaphores
  /\ \A r \in DOMAIN sem : r # s => sem'[r] = sem[r]
  /\ sem'[s].value \in Nat /\ IsInjective(sem'[s].queue)
  /\ sem'[s].queue # <<>> => sem'[s].value = 0

LEMMA OneChanges ==
  ASSUME TableTypes, NEW s \in DOMAIN sem, NEW v \in Nat, NEW q \in Seq(Process),
         IsInjective(q), q # <<>> => v = 0,
         sem' = [sem EXCEPT ![s] = [value |-> v, queue |-> q]]
  PROVE  OnlyAt(s) /\ sem'[s].value = v /\ sem'[s].queue = q
PROOF
<1>1. sem \in Semaphores /\ [value |-> v, queue |-> q] \in [value : Int, queue : Seq(Process)]
  BY DEF TableTypes, Semaphores
<1>2. sem' \in Semaphores /\ sem'[s] = [value |-> v, queue |-> q]
      /\ \A r \in DOMAIN sem : r # s => sem'[r] = sem[r]
  BY <1>1 DEF Semaphores
<1> QED BY <1>2 DEF OnlyAt

\* A wait takes a token, or queues whoever waits.
LEMMA SemWait ==
  ASSUME TableTypes, QueuesSound, NEW p \in Process, NEW s \in Live,
         p \notin Range(sem[s].queue), Wait(p, s)
  PROVE  /\ OnlyAt(s)
         /\ \/ /\ sem[s].value > 0 /\ sem'[s].value = sem[s].value - 1
               /\ sem'[s].queue = sem[s].queue
            \/ /\ sem[s].value = 0 /\ sem'[s].value = 0
               /\ Range(sem'[s].queue) = Range(sem[s].queue) \cup {p}
PROOF
<1>1. /\ s \in DOMAIN sem /\ sem[s] \in [value : Int, queue : Seq(Process)]
      /\ sem[s].value \in Nat /\ IsInjective(sem[s].queue)
      /\ sem[s].queue # <<>> => sem[s].value = 0
  <2>1. s \in DOMAIN sem
    BY SeatsArePlaces
  <2> QED BY <2>1 DEF TableTypes, QueuesSound
<1> DEFINE v == sem[s].value
           q == sem[s].queue
<1>2. v \in Nat /\ q \in Seq(Process) /\ IsInjective(q) /\ sem[s] = [value |-> v, queue |-> q]
  BY <1>1
<1>3. sem' = [sem EXCEPT ![s] = Waited(sem[s], p)]
  BY DEF Wait
<1>4. CASE v > 0
  <2>1. Waited(sem[s], p) = [value |-> v - 1, queue |-> q]
    BY <1>2, <1>4 DEF Waited
  <2>2. q = <<>> /\ v - 1 \in Nat
    BY <1>1, <1>2, <1>4
  <2>3. sem' = [sem EXCEPT ![s] = [value |-> v - 1, queue |-> q]]
    BY <1>3, <2>1
  <2> HIDE DEF v, q
  <2>4. OnlyAt(s) /\ sem'[s].value = v - 1 /\ sem'[s].queue = q
    BY <1>1, <1>2, <2>2, <2>3, OneChanges
  <2> QED BY <1>4, <2>4 DEF v, q
<1>5. CASE v = 0
  <2> DEFINE r == Append(q, p)
  <2>1. Waited(sem[s], p) = [value |-> 0, queue |-> r]
    <3>1. sem[s] = [value |-> 0, queue |-> q]
      BY <1>2, <1>5
    <3>2. ~(sem[s].value > 0) /\ sem[s].value = 0
      BY <1>5
    <3>3. Waited(sem[s], p) = [sem[s] EXCEPT !.queue = Append(q, p)]
      BY <3>2 DEF Waited
    <3> HIDE DEF q
    <3> QED BY <3>1, <3>3
  <2>2. r \in Seq(Process) /\ Range(r) = Range(q) \cup {p} /\ IsInjective(r)
    BY <1>2, RangeAppend
  <2>3. sem' = [sem EXCEPT ![s] = [value |-> 0, queue |-> r]]
    BY <1>3, <2>1
  <2> HIDE DEF v, q, r
  <2>4. OnlyAt(s) /\ sem'[s].value = 0 /\ sem'[s].queue = r
    BY <1>1, <2>2, <2>3, OneChanges
  <2> QED BY <1>5, <2>2, <2>4 DEF v, q
<1> QED BY <1>2, <1>4, <1>5

\* A post lets the first in the queue go on, or adds a token.
LEMMA SemPost ==
  ASSUME TableTypes, QueuesSound, NEW s \in Live, Post(s)
  PROVE  /\ OnlyAt(s)
         /\ \/ \E h \in Process :
                 /\ sem[s].value = 0 /\ sem'[s].value = 0
                 /\ h \notin Range(sem'[s].queue)
                 /\ Range(sem[s].queue) = Range(sem'[s].queue) \cup {h}
            \/ /\ sem'[s].value = sem[s].value + 1
               /\ sem[s].queue = <<>> /\ sem'[s].queue = <<>>
PROOF
<1>1. /\ s \in DOMAIN sem /\ sem[s] \in [value : Int, queue : Seq(Process)]
      /\ sem[s].value \in Nat /\ IsInjective(sem[s].queue)
      /\ sem[s].queue # <<>> => sem[s].value = 0
  <2>1. s \in DOMAIN sem
    BY SeatsArePlaces
  <2> QED BY <2>1 DEF TableTypes, QueuesSound
<1> DEFINE v == sem[s].value
           q == sem[s].queue
<1>2. v \in Nat /\ q \in Seq(Process) /\ IsInjective(q) /\ sem[s] = [value |-> v, queue |-> q]
  BY <1>1
<1>3. sem' = [sem EXCEPT ![s] = Posted(sem[s])]
  BY DEF Post
<1>4. sem[s] # Destroyed
  BY <1>1 DEF Destroyed, NewSem
<1>5. CASE q # <<>>
  <2> DEFINE r == Tail(q)
  <2>1. Posted(sem[s]) = [value |-> v, queue |-> r]
    BY <1>2, <1>4, <1>5 DEF Posted
  <2>2. /\ Head(q) \in Process /\ r \in Seq(Process) /\ IsInjective(r)
        /\ Range(q) = Range(r) \cup {Head(q)} /\ Head(q) \notin Range(r)
    BY <1>2, <1>5, RangeTail
  <2>3. v = 0
    BY <1>1, <1>5
  <2>4. sem' = [sem EXCEPT ![s] = [value |-> 0, queue |-> r]]
    BY <1>3, <2>1, <2>3
  <2> HIDE DEF v, q, r
  <2>5. OnlyAt(s) /\ sem'[s].value = 0 /\ sem'[s].queue = r
    BY <1>1, <2>2, <2>4, OneChanges
  <2> QED BY <2>2, <2>3, <2>5 DEF v, q
<1>6. CASE q = <<>>
  <2>1. Posted(sem[s]) = [value |-> v + 1, queue |-> q]
    BY <1>2, <1>4, <1>6 DEF Posted
  <2>2. sem' = [sem EXCEPT ![s] = [value |-> v + 1, queue |-> q]]
    BY <1>3, <2>1
  <2>3. v + 1 \in Nat
    BY <1>2
  <2> HIDE DEF v, q
  <2>4. OnlyAt(s) /\ sem'[s].value = v + 1 /\ sem'[s].queue = q
    BY <1>1, <1>2, <1>6, <2>2, <2>3, OneChanges
  <2> QED BY <1>6, <2>4 DEF v, q
<1> QED BY <1>5, <1>6

-----------------------------------------------------------------------------
(* A step of a philosopher: pc, and one semaphore.                          *)

Goes(i, there) == pc' = [pc EXCEPT ![i] = there]
Rest == UNCHANGED <<onTable, mpc, count, change>>

LEMMA Gone ==
  ASSUME TableTypes, NEW i \in Seats, NEW there \in Doing, Goes(i, there)
  PROVE  /\ pc' \in [Place -> Doing] /\ pc'[i] = there
         /\ \A j \in Place : j # i => pc'[j] = pc[j]
PROOF
<1>1. pc \in [Place -> Doing] /\ i \in Place
  BY SeatsArePlaces DEF TableTypes
<1> QED BY <1>1 DEF Goes

LEMMA WaitStep ==
  ASSUME TableTypes, QueuesSound, NEW i \in Seats, ~Blocked(i), NEW s \in Live,
         NEW there \in Doing, pc[i] # Absent, Wait(i, s), Goes(i, there), Rest, WaitsAt(i, s)'
  PROVE  /\ TableTypes' /\ QueuesSound' /\ OnlyAt(s)
         /\ \/ /\ sem[s].value > 0 /\ sem'[s].value = sem[s].value - 1
               /\ sem'[s].queue = sem[s].queue
            \/ /\ sem[s].value = 0 /\ sem'[s].value = 0
               /\ Range(sem'[s].queue) = Range(sem[s].queue) \cup {i}
PROOF
<1>1. i \in Process /\ s \in DOMAIN sem /\ i \in Place
  BY SeatsArePlaces DEF Process
<1>2. \A r \in DOMAIN sem : i \notin Range(sem[r].queue)
  BY DEF Blocked
<1>3. /\ OnlyAt(s)
      /\ \/ /\ sem[s].value > 0 /\ sem'[s].value = sem[s].value - 1
            /\ sem'[s].queue = sem[s].queue
         \/ /\ sem[s].value = 0 /\ sem'[s].value = 0
            /\ Range(sem'[s].queue) = Range(sem[s].queue) \cup {i}
  BY <1>1, <1>2, SemWait
<1>4. pc' \in [Place -> Doing] /\ pc'[i] = there /\ \A j \in Place : j # i => pc'[j] = pc[j]
  BY Gone
<1>5. TableTypes'
  BY <1>1, <1>3, <1>4 DEF TableTypes, OnlyAt, Semaphores, Rest
<1>6. Live' = Live /\ Seats' = Seats
  BY DEF Live, Seats, Rest
<1>7. ASSUME NEW j \in Seats, j # i, NEW r, WaitsAt(j, r) PROVE WaitsAt(j, r)'
  BY <1>4, <1>7, SeatsArePlaces DEF WaitsAt, FirstFork, SecondFork, RightFork, Rest
<1>8. ASSUME NEW r \in Live', NEW p \in Range(sem'[r].queue)
      PROVE  \/ p = Manager /\ r = Table /\ mpc' = "collect"
             \/ p \in Seats' /\ WaitsAt(p, r)'
  <2>1. r \in Live /\ r \in DOMAIN sem
    BY <1>6, SeatsArePlaces
  <2>2. p \in Range(sem[r].queue) \/ (r = s /\ p = i)
    BY <1>3, <2>1 DEF OnlyAt
  <2>3. CASE p \in Range(sem[r].queue)
    <3>1. p # i
      BY <1>2, <2>1, <2>3
    <3>2. (p = Manager /\ r = Table /\ mpc = "collect") \/ (p \in Seats /\ WaitsAt(p, r))
      BY <2>1, <2>3 DEF QueuesSound
    <3> QED BY <1>6, <1>7, <3>1, <3>2 DEF Rest
  <2>4. CASE r = s /\ p = i
    BY <1>6, <2>4
  <2> QED BY <2>2, <2>3, <2>4
<1>9. QueuesSound'
  <2>1. ASSUME NEW r \in Live'
        PROVE  /\ sem'[r].value \in Nat /\ IsInjective(sem'[r].queue)
               /\ sem'[r].queue # <<>> => sem'[r].value = 0
    <3>1. r \in Live /\ r \in DOMAIN sem
      BY <1>6, SeatsArePlaces
    <3> QED BY <1>3, <3>1 DEF QueuesSound, OnlyAt
  <2>2. ASSUME NEW f \in Place \ Seats' PROVE sem'[f] = Destroyed
    <3>1. f \in DOMAIN sem /\ f # s /\ f \in Place \ Seats
      BY <1>6, PlaceFacts DEF TableTypes, Live
    <3> QED BY <1>3, <3>1 DEF OnlyAt, QueuesSound
  <2> QED BY <1>8, <2>1, <2>2 DEF QueuesSound, Destroyed
<1> QED BY <1>3, <1>5, <1>9

LEMMA PostStep ==
  ASSUME TableTypes, QueuesSound, NEW i \in Seats, ~Blocked(i), NEW s \in Live,
         NEW there \in Doing, pc[i] # Absent, Post(s), Goes(i, there), Rest
  PROVE  /\ TableTypes' /\ QueuesSound' /\ OnlyAt(s)
         /\ \/ \E h \in Process :
                 /\ sem[s].value = 0 /\ sem'[s].value = 0
                 /\ h \notin Range(sem'[s].queue)
                 /\ Range(sem[s].queue) = Range(sem'[s].queue) \cup {h}
            \/ /\ sem'[s].value = sem[s].value + 1
               /\ sem[s].queue = <<>> /\ sem'[s].queue = <<>>
PROOF
<1>1. s \in DOMAIN sem /\ i \in Place
  BY SeatsArePlaces
<1>2. \A r \in DOMAIN sem : i \notin Range(sem[r].queue)
  BY DEF Blocked
<1>3. /\ OnlyAt(s)
      /\ \/ \E h \in Process :
              /\ sem[s].value = 0 /\ sem'[s].value = 0
              /\ h \notin Range(sem'[s].queue)
              /\ Range(sem[s].queue) = Range(sem'[s].queue) \cup {h}
         \/ /\ sem'[s].value = sem[s].value + 1
            /\ sem[s].queue = <<>> /\ sem'[s].queue = <<>>
  BY SemPost
<1>4. pc' \in [Place -> Doing] /\ pc'[i] = there /\ \A j \in Place : j # i => pc'[j] = pc[j]
  BY Gone
<1>5. TableTypes'
  BY <1>1, <1>3, <1>4, SeatsArePlaces DEF TableTypes, OnlyAt, Semaphores, Rest, Seats
<1>6. Live' = Live /\ Seats' = Seats
  BY DEF Live, Seats, Rest
<1>7. ASSUME NEW j \in Seats, j # i, NEW r, WaitsAt(j, r) PROVE WaitsAt(j, r)'
  BY <1>4, <1>7, SeatsArePlaces DEF WaitsAt, FirstFork, SecondFork, RightFork, Rest
<1>8. ASSUME NEW r \in Live', NEW p \in Range(sem'[r].queue)
      PROVE  \/ p = Manager /\ r = Table /\ mpc' = "collect"
             \/ p \in Seats' /\ WaitsAt(p, r)'
  <2>1. r \in Live /\ r \in DOMAIN sem
    BY <1>6, SeatsArePlaces
  <2>2. p \in Range(sem[r].queue)
    BY <1>3, <2>1 DEF OnlyAt
  <2>3. p # i
    BY <1>2, <2>1, <2>2
  <2>4. (p = Manager /\ r = Table /\ mpc = "collect") \/ (p \in Seats /\ WaitsAt(p, r))
    BY <2>1, <2>2 DEF QueuesSound
  <2> QED BY <1>6, <1>7, <2>3, <2>4 DEF Rest
<1>9. QueuesSound'
  <2>1. ASSUME NEW r \in Live'
        PROVE  /\ sem'[r].value \in Nat /\ IsInjective(sem'[r].queue)
               /\ sem'[r].queue # <<>> => sem'[r].value = 0
    <3>1. r \in Live /\ r \in DOMAIN sem
      BY <1>6, SeatsArePlaces
    <3> QED BY <1>3, <3>1 DEF QueuesSound, OnlyAt
  <2>2. ASSUME NEW f \in Place \ Seats' PROVE sem'[f] = Destroyed
    <3>1. f \in DOMAIN sem /\ f # s /\ f \in Place \ Seats
      BY <1>6, PlaceFacts DEF TableTypes, Live
    <3> QED BY <1>3, <3>1 DEF OnlyAt, QueuesSound
  <2> QED BY <1>8, <2>1, <2>2 DEF QueuesSound, Destroyed
<1> QED BY <1>3, <1>5, <1>9

-----------------------------------------------------------------------------
(* What a step of a philosopher does to the forks, and to the tokens.       *)

Others(i) == \A j \in Place : j # i => pc'[j] = pc[j]

LEMMA HasSame ==
  ASSUME TableTypes, NEW j \in Seats, NEW f \in Seats, Rest, pc'[j] = pc[j],
         j \in Range(sem'[f].queue) <=> j \in Range(sem[f].queue)
  PROVE  Has(j, f)' <=> Has(j, f)
PROOF
BY DEF Has, RightFork, FirstFork, Rest

LEMMA ForkSame ==
  ASSUME NEW f \in Seats, ForkSound(f), Rest, sem'[f].value = sem[f].value,
         \A j \in Seats : Has(j, f)' <=> Has(j, f)
  PROVE  ForkSound(f)'
PROOF
<1>1. Seats' = Seats
  BY DEF Seats, Rest
<1>2. CASE sem[f].value = 1 /\ \A j \in Seats : ~Has(j, f)
  BY <1>1, <1>2 DEF ForkSound
<1>3. CASE sem[f].value = 0 /\ \E h \in Seats : \A j \in Seats : Has(j, f) <=> j = h
  BY <1>1, <1>3 DEF ForkSound
<1> QED BY <1>2, <1>3 DEF ForkSound

\* The forks that a step of i does not touch
LEMMA ForksBeside ==
  ASSUME TableTypes, ForksSound, NEW i \in Seats, NEW F, Rest, Others(i),
         \A f \in Seats \ F : sem'[f] = sem[f] /\ (Has(i, f)' <=> Has(i, f)),
         \A f \in Seats \cap F : ForkSound(f)'
  PROVE  ForksSound'
PROOF
<1>1. Seats' = Seats
  BY DEF Seats, Rest
<1>2. ASSUME NEW f \in Seats, f \notin F PROVE ForkSound(f)'
  <2>1. \A j \in Seats : Has(j, f)' <=> Has(j, f)
    BY <1>2, HasSame, SeatsArePlaces DEF Others
  <2> QED BY <1>2, <2>1, ForkSame DEF ForksSound
<1> QED BY <1>1, <1>2 DEF ForksSound

LEMMA ForkTaken ==
  ASSUME TableTypes, NEW i \in Seats, NEW f \in Seats, ForkSound(f), Rest, Others(i),
         ~Has(i, f), i \notin Range(sem[f].queue),
         Has(i, f)' <=> i \notin Range(sem'[f].queue),
         \/ /\ sem[f].value > 0 /\ sem'[f].value = sem[f].value - 1
            /\ sem'[f].queue = sem[f].queue
         \/ /\ sem[f].value = 0 /\ sem'[f].value = 0
            /\ Range(sem'[f].queue) = Range(sem[f].queue) \cup {i}
  PROVE  ForkSound(f)'
PROOF
<1>1. Seats' = Seats
  BY DEF Seats, Rest
<1>2. ASSUME NEW j \in Seats, j # i PROVE Has(j, f)' <=> Has(j, f)
  BY <1>2, HasSame, SeatsArePlaces DEF Others
<1>3. CASE sem[f].value > 0 /\ sem'[f].value = sem[f].value - 1 /\ sem'[f].queue = sem[f].queue
  <2>1. sem[f].value = 1 /\ \A j \in Seats : ~Has(j, f)
    BY <1>3 DEF ForkSound
  <2>2. sem'[f].value = 0 /\ Has(i, f)'
    BY <1>3, <2>1
  <2>3. \A j \in Seats : Has(j, f)' <=> j = i
    BY <1>2, <2>1, <2>2
  <2> QED BY <1>1, <2>2, <2>3 DEF ForkSound
<1>4. CASE /\ sem[f].value = 0 /\ sem'[f].value = 0
           /\ Range(sem'[f].queue) = Range(sem[f].queue) \cup {i}
  <2>1. PICK h \in Seats : \A j \in Seats : Has(j, f) <=> j = h
    BY <1>4 DEF ForkSound
  <2>2. ~Has(i, f)' /\ h # i
    BY <1>4, <2>1
  <2>3. \A j \in Seats : Has(j, f)' <=> j = h
    BY <1>2, <2>1, <2>2
  <2> QED BY <1>1, <1>4, <2>3 DEF ForkSound
<1> QED BY <1>3, <1>4

\* A fork that is left is the next one's at once, or lies there.
LEMMA ForkLeft ==
  ASSUME TableTypes, QueuesSound, onTable >= 2, NEW i \in Seats, NEW f \in Seats, ForkSound(f),
         Rest, Others(i), Has(i, f), ~Has(i, f)',
         \/ \E h \in Process :
              /\ sem[f].value = 0 /\ sem'[f].value = 0
              /\ h \notin Range(sem'[f].queue)
              /\ Range(sem[f].queue) = Range(sem'[f].queue) \cup {h}
         \/ /\ sem'[f].value = sem[f].value + 1
            /\ sem[f].queue = <<>> /\ sem'[f].queue = <<>>
  PROVE  ForkSound(f)'
PROOF
<1>1. Seats' = Seats
  BY DEF Seats, Rest
<1>2. sem[f].value = 0 /\ \A j \in Seats : Has(j, f) <=> j = i
  BY DEF ForkSound
<1>3. i \notin Range(sem[f].queue)
  BY DEF Has
<1>4. CASE sem'[f].value = sem[f].value + 1 /\ sem[f].queue = <<>> /\ sem'[f].queue = <<>>
  <2>1. ASSUME NEW j \in Seats, j # i PROVE Has(j, f)' <=> Has(j, f)
    BY <1>4, <2>1, HasSame, SeatsArePlaces DEF Others
  <2>2. sem'[f].value = 1 /\ \A j \in Seats : ~Has(j, f)'
    BY <1>2, <1>4, <2>1
  <2> QED BY <1>1, <2>2 DEF ForkSound
<1>5. ASSUME NEW h \in Process, sem'[f].value = 0,
             h \notin Range(sem'[f].queue), Range(sem[f].queue) = Range(sem'[f].queue) \cup {h}
      PROVE  ForkSound(f)'
  <2>1. h \in Seats /\ WaitsAt(h, f) /\ h # i
    <3>1. f \in Live /\ f # Table
      BY SeatsArePlaces, PlaceFacts DEF Live
    <3> QED BY <1>3, <1>5, <3>1 DEF QueuesSound
  <2>2. \/ pc[h] = "one fork" /\ f = FirstFork(h)
        \/ pc[h] = "eating" /\ f = SecondFork(h)
    BY <2>1, SeatsArePlaces, PlaceFacts DEF WaitsAt
  <2>3. f \in {h, RightFork(h)} /\ pc'[h] = pc[h]
    BY <2>1, <2>2, ForksDiffer, SeatsArePlaces DEF Others
  <2>4. Has(h, f)'
    BY <1>5, <2>2, <2>3 DEF Has, Rest, RightFork, FirstFork
  <2>5. ASSUME NEW j \in Seats, j # h PROVE ~Has(j, f)'
    <3>1. CASE j = i
      BY <3>1
    <3>2. CASE j \in Range(sem'[f].queue)
      BY <3>2 DEF Has
    <3>3. CASE j # i /\ j \notin Range(sem'[f].queue)
      <4>1. j \notin Range(sem[f].queue)
        BY <1>5, <2>5, <3>3
      <4>2. Has(j, f)' <=> Has(j, f)
        BY <3>3, <4>1, HasSame, SeatsArePlaces DEF Others
      <4> QED BY <1>2, <3>3, <4>2
    <3> QED BY <3>1, <3>2, <3>3
  <2>6. \A j \in Seats : Has(j, f)' <=> j = h
    BY <2>4, <2>5
  <2> QED BY <1>1, <1>5, <2>1, <2>6 DEF ForkSound
<1> QED BY <1>4, <1>5

LEMMA StagesKept ==
  ASSUME StagesSound, Rest PROVE StagesSound'
PROOF
BY DEF StagesSound, Rest, Collected

LEMMA GivenKept ==
  ASSUME Rest, Manager \in Range(sem'[Table].queue) <=> Manager \in Range(sem[Table].queue)
  PROVE  Given' = Given
PROOF
BY DEF Given, Queueing, Collected, Rest

LEMMA TokensKept ==
  ASSUME TokensAgree, NEW i \in Seats, Rest, Others(i), sem'[Table] = sem[Table],
         pc[i] \notin {"away", Absent}, pc'[i] \notin {"away", Absent}
  PROVE  TokensAgree'
PROOF
<1>1. Seated' = Seated
  BY DEF Seated, Others
<1>2. Given' = Given
  BY GivenKept
<1> QED BY <1>1, <1>2 DEF TokensAgree

-----------------------------------------------------------------------------
(* The philosophers.                                                        *)

LEMMA AtFacts ==
  ASSUME AllSound, NEW i \in Place, NEW here, NEW there \in Doing, here # Absent, At(i, here, there)
  PROVE  /\ i \in Seats /\ pc[i] = here /\ ~Blocked(i) /\ Goes(i, there)
         /\ pc'[i] = there /\ Others(i)
         /\ \A s \in DOMAIN sem : i \notin Range(sem[s].queue)
PROOF
<1>1. pc[i] = here /\ ~Blocked(i) /\ Goes(i, there)
  BY DEF At, Goes
<1>2. TableTypes /\ i \in Seats
  BY <1>1, SeatsArePlaces DEF AllSound
<1>3. pc'[i] = there /\ Others(i)
  BY <1>1, <1>2, Gone DEF Others
<1> QED BY <1>1, <1>2, <1>3 DEF Blocked

\* A philosopher who does not block and has a token sits.
LEMMA Sits ==
  ASSUME AllSound, NEW i \in Seats, pc[i] \notin {"away", Absent},
         \A s \in DOMAIN sem : i \notin Range(sem[s].queue)
  PROVE  i \in Seated /\ onTable >= 2
PROOF
<1>1. i \in Place /\ Table \in DOMAIN sem
  BY SeatsArePlaces DEF AllSound, TableTypes
<1>2. i \in Seated
  BY <1>1 DEF Seated
<1> QED BY <1>2, TwoAtLeast DEF AllSound

LEMMA SitDownSound ==
  ASSUME AllSound, NEW i \in Place, SitDown(i), Rest
  PROVE  AllSound'
PROOF
<1>1. TableTypes /\ QueuesSound /\ StagesSound /\ TokensAgree /\ ForksSound
  BY DEF AllSound
<1>2. At(i, "away", "thinking") /\ Wait(i, Table)
  BY DEF SitDown
<1>3. /\ i \in Seats /\ pc[i] = "away" /\ ~Blocked(i) /\ Goes(i, "thinking")
      /\ pc'[i] = "thinking" /\ Others(i)
      /\ \A s \in DOMAIN sem : i \notin Range(sem[s].queue)
  BY <1>2, AtFacts DEF Doing, Absent
<1>4. /\ TableTypes' /\ QueuesSound' /\ OnlyAt(Table)
      /\ \/ /\ sem[Table].value > 0 /\ sem'[Table].value = sem[Table].value - 1
            /\ sem'[Table].queue = sem[Table].queue
         \/ /\ sem[Table].value = 0 /\ sem'[Table].value = 0
            /\ Range(sem'[Table].queue) = Range(sem[Table].queue) \cup {i}
  <2>1. Table \in Live /\ WaitsAt(i, Table)'
    BY <1>3 DEF Live, WaitsAt
  <2> QED BY <1>1, <1>2, <1>3, <2>1, WaitStep DEF Doing, Absent
<1>5. ForksSound'
  <2>1. ASSUME NEW f \in Seats PROVE sem'[f] = sem[f] /\ (Has(i, f)' <=> Has(i, f))
    <3>1. f \in DOMAIN sem /\ f # Table
      BY <1>1, SeatsArePlaces, PlaceFacts DEF TableTypes
    <3>2. sem'[f] = sem[f]
      BY <1>4, <3>1 DEF OnlyAt
    <3> QED BY <1>3, <3>2 DEF Has
  <2> DEFINE F == {}
  <2>2. \A f \in Seats \ F : sem'[f] = sem[f] /\ (Has(i, f)' <=> Has(i, f))
    BY <2>1
  <2>3. \A f \in Seats \cap F : ForkSound(f)'
    OBVIOUS
  <2> HIDE DEF F
  <2> QED BY <1>1, <1>3, <2>2, <2>3, ForksBeside
<1>6. TokensAgree'
  <2>1. i \notin Seated /\ i \in Place
    BY <1>3 DEF Seated
  <2>2. Manager # i
    BY PlaceFacts
  <2>3. Given' = Given
    BY <1>4, <2>2, GivenKept
  <2>4. CASE /\ sem[Table].value > 0 /\ sem'[Table].value = sem[Table].value - 1
             /\ sem'[Table].queue = sem[Table].queue
    <3>1. Table \in DOMAIN sem
      BY <1>1 DEF TableTypes
    <3>2. Seated' = Seated \cup {i}
      BY <1>3, <2>1, <2>4, <3>1 DEF Seated, Others, Absent
    <3>3. Cardinality(Seated') = Cardinality(Seated) + 1
      BY <1>1, <2>1, <3>2, SeatedFacts, FS_AddElement
    <3>4. sem[Table].value \in Nat /\ Cardinality(Seated) \in Nat
      BY <1>1, SeatedFacts DEF QueuesSound, Live
    <3>5. sem'[Table].value + (Cardinality(Seated) + 1) = sem[Table].value + Cardinality(Seated)
      BY <2>4, <3>4
    <3> QED BY <1>1, <2>3, <3>3, <3>5 DEF TokensAgree
  <2>5. CASE /\ sem[Table].value = 0 /\ sem'[Table].value = 0
             /\ Range(sem'[Table].queue) = Range(sem[Table].queue) \cup {i}
    <3>1. Seated' = Seated
      BY <1>3, <2>1, <2>5 DEF Seated, Others
    <3> QED BY <1>1, <2>3, <2>5, <3>1 DEF TokensAgree
  <2> QED BY <1>4, <2>4, <2>5
<1> QED BY <1>1, <1>4, <1>5, <1>6, StagesKept DEF AllSound

\* One of the two forks is taken, or waited for.
LEMMA TakeSound ==
  ASSUME AllSound, NEW i \in Seats, NEW f \in Seats, NEW there \in {"one fork", "eating"},
         Wait(i, f), ~Blocked(i), Goes(i, there), pc'[i] = there, Others(i), Rest,
         \/ pc[i] = "thinking" /\ there = "one fork" /\ f = FirstFork(i)
         \/ pc[i] = "one fork" /\ there = "eating" /\ f = SecondFork(i)
  PROVE  AllSound'
PROOF
<1>1. TableTypes /\ QueuesSound /\ StagesSound /\ TokensAgree /\ ForksSound
  BY DEF AllSound
<1>2. \A s \in DOMAIN sem : i \notin Range(sem[s].queue)
  BY DEF Blocked
<1>3. pc[i] \notin {"away", Absent} /\ pc'[i] \notin {"away", Absent} /\ there \in Doing
  BY DEF Absent, Doing
<1>4. onTable >= 2
  BY <1>2, <1>3, Sits
<1>5. /\ RightFork(i) # i /\ FirstFork(i) # SecondFork(i) /\ f \in {i, RightFork(i)}
      /\ {FirstFork(i), SecondFork(i)} = {i, RightFork(i)}
  BY <1>1, <1>4, ForksDiffer
<1>6. RightFork(i)' = RightFork(i) /\ FirstFork(i)' = FirstFork(i) /\ SecondFork(i)' = SecondFork(i)
  BY DEF RightFork, FirstFork, SecondFork, Rest
<1>7. f \in Live /\ f # Table /\ f \in DOMAIN sem
  BY <1>1, SeatsArePlaces, PlaceFacts DEF Live
<1>8. /\ TableTypes' /\ QueuesSound' /\ OnlyAt(f)
      /\ \/ /\ sem[f].value > 0 /\ sem'[f].value = sem[f].value - 1
            /\ sem'[f].queue = sem[f].queue
         \/ /\ sem[f].value = 0 /\ sem'[f].value = 0
            /\ Range(sem'[f].queue) = Range(sem[f].queue) \cup {i}
  <2>1. WaitsAt(i, f)'
    BY <1>6 DEF WaitsAt
  <2> QED BY <1>1, <1>3, <1>7, <2>1, WaitStep
<1>9. ForkSound(f)'
  <2>1. ~Has(i, f)
    BY <1>5 DEF Has
  <2>2. Has(i, f)' <=> i \notin Range(sem'[f].queue)
    BY <1>5, <1>6 DEF Has
  <2>3. ForkSound(f) /\ i \notin Range(sem[f].queue)
    BY <1>1, <1>2, <1>7 DEF ForksSound
  <2> QED BY <1>1, <1>8, <2>1, <2>2, <2>3, ForkTaken
<1>10. ForksSound'
  <2>1. ASSUME NEW g \in Seats, g # f PROVE sem'[g] = sem[g] /\ (Has(i, g)' <=> Has(i, g))
    <3>1. g \in DOMAIN sem
      BY <1>1, SeatsArePlaces DEF Live
    <3>2. sem'[g] = sem[g]
      BY <1>8, <2>1, <3>1 DEF OnlyAt
    <3>3. i \notin Range(sem[g].queue)
      BY <1>2, <3>1
    <3> QED BY <1>5, <1>6, <2>1, <3>2, <3>3 DEF Has
  <2> DEFINE F == {f}
  <2>2. \A g \in Seats \ F : sem'[g] = sem[g] /\ (Has(i, g)' <=> Has(i, g))
    BY <2>1
  <2>3. \A g \in Seats \cap F : ForkSound(g)'
    BY <1>9
  <2> HIDE DEF F
  <2> QED BY <1>1, <2>2, <2>3, ForksBeside
<1>11. TokensAgree'
  <2>1. sem'[Table] = sem[Table]
    BY <1>1, <1>7, <1>8 DEF OnlyAt, TableTypes
  <2> QED BY <1>1, <1>3, <2>1, TokensKept
<1> QED BY <1>1, <1>8, <1>10, <1>11, StagesKept DEF AllSound

\* One of the two forks is left.
LEMMA LeaveSound ==
  ASSUME AllSound, NEW i \in Seats, NEW f \in Seats, NEW there \in {"own left", "both left"},
         Post(f), ~Blocked(i), Goes(i, there), pc'[i] = there, Others(i), Rest,
         \/ pc[i] = "eaten" /\ there = "own left" /\ f = i
         \/ pc[i] = "own left" /\ there = "both left" /\ f = RightFork(i)
  PROVE  AllSound'
PROOF
<1>1. TableTypes /\ QueuesSound /\ StagesSound /\ TokensAgree /\ ForksSound
  BY DEF AllSound
<1>2. \A s \in DOMAIN sem : i \notin Range(sem[s].queue)
  BY DEF Blocked
<1>3. pc[i] \notin {"away", Absent} /\ pc'[i] \notin {"away", Absent} /\ there \in Doing
  BY DEF Absent, Doing
<1>4. onTable >= 2
  BY <1>2, <1>3, Sits
<1>5. RightFork(i) # i /\ f \in {i, RightFork(i)}
  BY <1>1, <1>4, ForksDiffer
<1>6. RightFork(i)' = RightFork(i) /\ FirstFork(i)' = FirstFork(i)
  BY DEF RightFork, FirstFork, Rest
<1>7. f \in Live /\ f # Table /\ f \in DOMAIN sem
  BY <1>1, SeatsArePlaces, PlaceFacts DEF Live
<1>8. /\ TableTypes' /\ QueuesSound' /\ OnlyAt(f)
      /\ \/ \E h \in Process :
              /\ sem[f].value = 0 /\ sem'[f].value = 0
              /\ h \notin Range(sem'[f].queue)
              /\ Range(sem[f].queue) = Range(sem'[f].queue) \cup {h}
         \/ /\ sem'[f].value = sem[f].value + 1
            /\ sem[f].queue = <<>> /\ sem'[f].queue = <<>>
  BY <1>1, <1>3, <1>7, PostStep
<1>9. ForkSound(f)'
  <2>1. Has(i, f) /\ ~Has(i, f)'
    BY <1>2, <1>5, <1>6, <1>7 DEF Has
  <2>2. ForkSound(f)
    BY <1>1 DEF ForksSound
  <2> QED BY <1>1, <1>4, <1>8, <2>1, <2>2, ForkLeft
<1>10. ForksSound'
  <2>1. ASSUME NEW g \in Seats, g # f PROVE sem'[g] = sem[g] /\ (Has(i, g)' <=> Has(i, g))
    <3>1. g \in DOMAIN sem
      BY <1>1, SeatsArePlaces DEF Live
    <3>2. sem'[g] = sem[g]
      BY <1>8, <2>1, <3>1 DEF OnlyAt
    <3>3. i \notin Range(sem[g].queue)
      BY <1>2, <3>1
    <3>4. CASE pc[i] = "eaten" /\ there = "own left" /\ f = i
      BY <1>6, <2>1, <3>2, <3>3, <3>4 DEF Has
    <3>5. CASE pc[i] = "own left" /\ there = "both left" /\ f = RightFork(i)
      <4>1. ~Has(i, g)
        BY <2>1, <3>5 DEF Has
      <4>2. ~Has(i, g)'
        BY <3>5 DEF Has
      <4> QED BY <3>2, <4>1, <4>2
    <3> QED BY <3>4, <3>5
  <2> DEFINE F == {f}
  <2>2. \A g \in Seats \ F : sem'[g] = sem[g] /\ (Has(i, g)' <=> Has(i, g))
    BY <2>1
  <2>3. \A g \in Seats \cap F : ForkSound(g)'
    BY <1>9
  <2> HIDE DEF F
  <2> QED BY <1>1, <2>2, <2>3, ForksBeside
<1>11. TokensAgree'
  <2>1. sem'[Table] = sem[Table]
    BY <1>1, <1>7, <1>8 DEF OnlyAt, TableTypes
  <2> QED BY <1>1, <1>3, <2>1, TokensKept
<1> QED BY <1>1, <1>8, <1>10, <1>11, StagesKept DEF AllSound

\* Both forks stay in the hand while the table is printed.
LEMMA PrintSound ==
  ASSUME AllSound, NEW i \in Seats, NEW there \in {"printing", "eaten"},
         ~Blocked(i), Goes(i, there), pc'[i] = there, Others(i), Rest,
         \/ pc[i] = "eating" /\ there = "printing" /\ Wait(i, PrintMutex)
         \/ pc[i] = "printing" /\ there = "eaten" /\ Post(PrintMutex)
  PROVE  AllSound'
PROOF
<1>1. TableTypes /\ QueuesSound /\ StagesSound /\ TokensAgree /\ ForksSound
  BY DEF AllSound
<1>2. \A s \in DOMAIN sem : i \notin Range(sem[s].queue)
  BY DEF Blocked
<1>3. pc[i] \notin {"away", Absent} /\ pc'[i] \notin {"away", Absent} /\ there \in Doing
  BY DEF Absent, Doing
<1>4. PrintMutex \in Live
  BY DEF Live
<1>5. TableTypes' /\ QueuesSound' /\ OnlyAt(PrintMutex)
  <2>1. CASE pc[i] = "eating" /\ there = "printing" /\ Wait(i, PrintMutex)
    <3>1. WaitsAt(i, PrintMutex)'
      BY <2>1 DEF WaitsAt
    <3> QED BY <1>1, <1>3, <1>4, <2>1, <3>1, WaitStep
  <2>2. CASE pc[i] = "printing" /\ there = "eaten" /\ Post(PrintMutex)
    BY <1>1, <1>3, <1>4, <2>2, PostStep
  <2> QED BY <2>1, <2>2
<1>6. ForksSound'
  <2>1. ASSUME NEW f \in Seats PROVE sem'[f] = sem[f] /\ (Has(i, f)' <=> Has(i, f))
    <3>1. f \in DOMAIN sem /\ f # PrintMutex
      BY <1>1, SeatsArePlaces, PlaceFacts DEF TableTypes
    <3>2. sem'[f] = sem[f]
      BY <1>5, <3>1 DEF OnlyAt
    <3>3. RightFork(i)' = RightFork(i)
      BY DEF RightFork, Rest
    <3>4. /\ pc[i] \in {"eating", "printing", "eaten"}
          /\ pc'[i] \in {"eating", "printing", "eaten"}
      OBVIOUS
    <3> QED BY <3>2, <3>3, <3>4 DEF Has
  <2> DEFINE F == {}
  <2>2. \A f \in Seats \ F : sem'[f] = sem[f] /\ (Has(i, f)' <=> Has(i, f))
    BY <2>1
  <2>3. \A f \in Seats \cap F : ForkSound(f)'
    OBVIOUS
  <2> HIDE DEF F
  <2> QED BY <1>1, <2>2, <2>3, ForksBeside
<1>7. TokensAgree'
  <2>1. sem'[Table] = sem[Table]
    BY <1>1, <1>5, PlaceFacts DEF OnlyAt, TableTypes
  <2> QED BY <1>1, <1>3, <2>1, TokensKept
<1> QED BY <1>1, <1>5, <1>6, <1>7, StagesKept DEF AllSound

\* The token of who gets up goes to the next at the door, or to the command.
LEMMA GetUpSound ==
  ASSUME AllSound, NEW i \in Place, GetUp(i), Rest
  PROVE  AllSound'
PROOF
<1>1. TableTypes /\ QueuesSound /\ StagesSound /\ TokensAgree /\ ForksSound
  BY DEF AllSound
<1>2. At(i, "both left", "away") /\ Post(Table)
  BY DEF GetUp
<1>3. /\ i \in Seats /\ pc[i] = "both left" /\ ~Blocked(i) /\ Goes(i, "away")
      /\ pc'[i] = "away" /\ Others(i)
      /\ \A s \in DOMAIN sem : i \notin Range(sem[s].queue)
  BY <1>2, AtFacts DEF Doing, Absent
<1>4. Table \in Live /\ Table \in DOMAIN sem
  BY <1>1 DEF Live, TableTypes
<1>5. /\ TableTypes' /\ QueuesSound' /\ OnlyAt(Table)
      /\ \/ \E h \in Process :
              /\ sem[Table].value = 0 /\ sem'[Table].value = 0
              /\ h \notin Range(sem'[Table].queue)
              /\ Range(sem[Table].queue) = Range(sem'[Table].queue) \cup {h}
         \/ /\ sem'[Table].value = sem[Table].value + 1
            /\ sem[Table].queue = <<>> /\ sem'[Table].queue = <<>>
  BY <1>1, <1>2, <1>3, <1>4, PostStep DEF Doing, Absent
<1>6. ForksSound'
  <2>1. ASSUME NEW f \in Seats PROVE sem'[f] = sem[f] /\ (Has(i, f)' <=> Has(i, f))
    <3>1. f \in DOMAIN sem /\ f # Table
      BY <1>1, SeatsArePlaces, PlaceFacts DEF TableTypes
    <3>2. sem'[f] = sem[f]
      BY <1>5, <3>1 DEF OnlyAt
    <3> QED BY <1>3, <3>2 DEF Has
  <2> DEFINE F == {}
  <2>2. \A f \in Seats \ F : sem'[f] = sem[f] /\ (Has(i, f)' <=> Has(i, f))
    BY <2>1
  <2>3. \A f \in Seats \cap F : ForkSound(f)'
    OBVIOUS
  <2> HIDE DEF F
  <2> QED BY <1>1, <1>3, <2>2, <2>3, ForksBeside
<1>7. TokensAgree'
  <2>1. i \in Seated /\ i \in Place /\ IsFiniteSet(Seated) /\ Cardinality(Seated) \in Nat
    BY <1>1, <1>3, <1>4, Sits, SeatedFacts DEF Absent
  <2>2. Cardinality(Seated \ {i}) = Cardinality(Seated) - 1 /\ IsFiniteSet(Seated \ {i})
    BY <2>1, FS_RemoveElement
  <2>3. sem[Table].value \in Nat
    BY <1>1, <1>4 DEF QueuesSound
  <2>4. sem[Table].value + Cardinality(Seated) = Given
    BY <1>1 DEF TokensAgree
  <2>5. CASE /\ sem'[Table].value = sem[Table].value + 1
             /\ sem[Table].queue = <<>> /\ sem'[Table].queue = <<>>
    <3>1. Seated' = Seated \ {i}
      BY <1>3, <2>1, <2>5 DEF Seated, Others
    <3>2. Given' = Given
      BY <2>5, GivenKept
    <3>3. sem'[Table].value + Cardinality(Seated') = sem[Table].value + Cardinality(Seated)
      BY <2>1, <2>2, <2>3, <2>5, <3>1
    <3> QED BY <2>4, <3>2, <3>3 DEF TokensAgree
  <2>6. ASSUME NEW h \in Process, sem[Table].value = 0, sem'[Table].value = 0,
               h \notin Range(sem'[Table].queue),
               Range(sem[Table].queue) = Range(sem'[Table].queue) \cup {h}
        PROVE  TokensAgree'
    <3>1. \/ h = Manager /\ mpc = "collect"
          \/ h \in Seats /\ WaitsAt(h, Table)
      BY <1>1, <1>4, <2>6 DEF QueuesSound
    <3>2. CASE h = Manager /\ mpc = "collect"
      <4>1. Seated' = Seated \ {i}
        BY <1>3, <2>1, <2>6, <3>2, PlaceFacts DEF Seated, Others
      <4>2. Queueing = 1 /\ Queueing' = 0
        BY <2>6, <3>2 DEF Queueing
      <4>3. Given = Collected - count + 1 /\ Given' = Collected - count + 0
        BY <3>2, <4>2 DEF Given, Rest, Collected
      <4>4. Collected \in Nat /\ count \in Nat
        BY <1>1, Amounts DEF Collected, TableTypes
      <4>5. Given' = Given - 1
        BY <4>3, <4>4
      <4>6. Given \in Int
        BY <4>3, <4>4
      <4> QED BY <2>1, <2>2, <2>4, <2>6, <4>1, <4>5, <4>6 DEF TokensAgree
    <3>3. CASE h \in Seats /\ WaitsAt(h, Table)
      <4>1. h # Manager /\ h # i /\ h \in Place
        BY <1>1, <1>3, <1>4, <2>6, <3>3, SeatsArePlaces, PlaceFacts
      <4>2. h \notin Seated /\ pc[h] \notin {"away", Absent} /\ pc'[h] = pc[h]
        BY <1>3, <2>6, <3>3, <4>1 DEF Seated, WaitsAt, Absent, Others
      <4>3. Seated' = (Seated \ {i}) \cup {h}
        BY <1>3, <2>1, <2>6, <4>1, <4>2 DEF Seated, Others
      <4>4. Cardinality(Seated') = Cardinality(Seated \ {i}) + 1
        BY <2>2, <4>2, <4>3, FS_AddElement
      <4>5. Given' = Given
        BY <2>6, <4>1, GivenKept
      <4>6. Cardinality(Seated') = Cardinality(Seated)
        BY <2>1, <2>2, <4>4
      <4> QED BY <2>4, <2>6, <4>5, <4>6 DEF TokensAgree
    <3> QED BY <3>1, <3>2, <3>3
  <2> QED BY <1>5, <2>5, <2>6
<1> QED BY <1>1, <1>5, <1>6, <1>7, StagesKept DEF AllSound

LEMMA PhilosopherSound ==
  ASSUME AllSound, NEW i \in Place, Philosopher(i)
  PROVE  AllSound'
PROOF
<1>1. Rest /\ TableTypes
  BY DEF Philosopher, Rest, AllSound
<1>2. ASSUME NEW here, NEW there \in Doing, here \notin {"away", Absent}, At(i, here, there)
      PROVE  /\ i \in Seats /\ pc[i] = here /\ ~Blocked(i) /\ Goes(i, there)
             /\ pc'[i] = there /\ Others(i)
             /\ RightFork(i) \in Seats /\ FirstFork(i) \in Seats /\ SecondFork(i) \in Seats
  <2>1. /\ i \in Seats /\ pc[i] = here /\ ~Blocked(i) /\ Goes(i, there)
        /\ pc'[i] = there /\ Others(i)
        /\ \A s \in DOMAIN sem : i \notin Range(sem[s].queue)
    BY <1>2, AtFacts
  <2>2. onTable >= 2
    BY <1>2, <2>1, Sits
  <2> QED BY <1>1, <2>1, <2>2, ForksDiffer
<1>3. CASE SitDown(i)
  BY <1>1, <1>3, SitDownSound
<1>4. CASE TakeFirst(i)
  <2>1. At(i, "thinking", "one fork") /\ Wait(i, FirstFork(i))
    BY <1>4 DEF TakeFirst
  <2>2. "one fork" \in Doing /\ "thinking" \notin {"away", Absent}
    BY DEF Doing, Absent
  <2>3. /\ i \in Seats /\ pc[i] = "thinking" /\ ~Blocked(i) /\ Goes(i, "one fork")
        /\ pc'[i] = "one fork" /\ Others(i)
        /\ RightFork(i) \in Seats /\ FirstFork(i) \in Seats /\ SecondFork(i) \in Seats
    BY <1>2, <2>1, <2>2
  <2> QED BY <1>1, <2>1, <2>3, TakeSound
<1>5. CASE TakeSecond(i)
  <2>1. At(i, "one fork", "eating") /\ Wait(i, SecondFork(i))
    BY <1>5 DEF TakeSecond
  <2>2. "eating" \in Doing /\ "one fork" \notin {"away", Absent}
    BY DEF Doing, Absent
  <2>3. /\ i \in Seats /\ pc[i] = "one fork" /\ ~Blocked(i) /\ Goes(i, "eating")
        /\ pc'[i] = "eating" /\ Others(i)
        /\ RightFork(i) \in Seats /\ FirstFork(i) \in Seats /\ SecondFork(i) \in Seats
    BY <1>2, <2>1, <2>2
  <2> QED BY <1>1, <2>1, <2>3, TakeSound
<1>6. CASE Monitor(i)
  <2>1. At(i, "eating", "printing") /\ Wait(i, PrintMutex)
    BY <1>6 DEF Monitor
  <2>2. "printing" \in Doing /\ "eating" \notin {"away", Absent}
    BY DEF Doing, Absent
  <2>3. /\ i \in Seats /\ pc[i] = "eating" /\ ~Blocked(i) /\ Goes(i, "printing")
        /\ pc'[i] = "printing" /\ Others(i)
        /\ RightFork(i) \in Seats /\ FirstFork(i) \in Seats /\ SecondFork(i) \in Seats
    BY <1>2, <2>1, <2>2
  <2> QED BY <1>1, <2>1, <2>3, PrintSound
<1>7. CASE Printed(i)
  <2>1. At(i, "printing", "eaten") /\ Post(PrintMutex)
    BY <1>7 DEF Printed
  <2>2. "eaten" \in Doing /\ "printing" \notin {"away", Absent}
    BY DEF Doing, Absent
  <2>3. /\ i \in Seats /\ pc[i] = "printing" /\ ~Blocked(i) /\ Goes(i, "eaten")
        /\ pc'[i] = "eaten" /\ Others(i)
        /\ RightFork(i) \in Seats /\ FirstFork(i) \in Seats /\ SecondFork(i) \in Seats
    BY <1>2, <2>1, <2>2
  <2> QED BY <1>1, <2>1, <2>3, PrintSound
<1>8. CASE LeaveOwn(i)
  <2>1. At(i, "eaten", "own left") /\ Post(i)
    BY <1>8 DEF LeaveOwn
  <2>2. "own left" \in Doing /\ "eaten" \notin {"away", Absent}
    BY DEF Doing, Absent
  <2>3. /\ i \in Seats /\ pc[i] = "eaten" /\ ~Blocked(i) /\ Goes(i, "own left")
        /\ pc'[i] = "own left" /\ Others(i)
        /\ RightFork(i) \in Seats /\ FirstFork(i) \in Seats /\ SecondFork(i) \in Seats
    BY <1>2, <2>1, <2>2
  <2> QED BY <1>1, <2>1, <2>3, LeaveSound
<1>9. CASE LeaveRight(i)
  <2>1. At(i, "own left", "both left") /\ Post(RightFork(i))
    BY <1>9 DEF LeaveRight
  <2>2. "both left" \in Doing /\ "own left" \notin {"away", Absent}
    BY DEF Doing, Absent
  <2>3. /\ i \in Seats /\ pc[i] = "own left" /\ ~Blocked(i) /\ Goes(i, "both left")
        /\ pc'[i] = "both left" /\ Others(i)
        /\ RightFork(i) \in Seats /\ FirstFork(i) \in Seats /\ SecondFork(i) \in Seats
    BY <1>2, <2>1, <2>2
  <2> QED BY <1>1, <2>1, <2>3, LeaveSound
<1>10. CASE GetUp(i)
  BY <1>1, <1>10, GetUpSound
<1> QED BY <1>3, <1>4, <1>5, <1>6, <1>7, <1>8, <1>9, <1>10 DEF Philosopher

-----------------------------------------------------------------------------
(* The command: the table stays as it is, but for its tokens.               *)

LEMMA TableStays ==
  ASSUME AllSound, UNCHANGED <<onTable, pc>>, OnlyAt(Table),
         mpc' \in {"key", "collect", "change", "release"}, count' \in Nat,
         change' \in {"a", "r", "e", "start"},
         \A p \in Range(sem'[Table].queue) : \/ p = Manager /\ mpc' = "collect"
                                             \/ p # Manager /\ p \in Range(sem[Table].queue)
  PROVE  TableTypes' /\ QueuesSound' /\ ForksSound'
PROOF
<1>1. TableTypes /\ QueuesSound /\ ForksSound
  BY DEF AllSound
<1>2. Seats' = Seats /\ Live' = Live /\ Table \in Live
  BY DEF Seats, Live
<1>3. TableTypes'
  BY <1>1 DEF TableTypes, OnlyAt, Semaphores
<1>4. ASSUME NEW r \in Live
      PROVE  /\ sem'[r].value \in Nat /\ IsInjective(sem'[r].queue)
             /\ sem'[r].queue # <<>> => sem'[r].value = 0
  <2>1. r \in DOMAIN sem
    BY <1>1, SeatsArePlaces
  <2> QED BY <1>1, <2>1 DEF QueuesSound, OnlyAt
<1>5. ASSUME NEW r \in Live, NEW p \in Range(sem'[r].queue)
      PROVE  \/ p = Manager /\ r = Table /\ mpc' = "collect"
             \/ p \in Seats' /\ WaitsAt(p, r)'
  <2>1. r \in DOMAIN sem
    BY <1>1, SeatsArePlaces
  <2>2. ASSUME p # Manager, p \in Range(sem[r].queue) PROVE p \in Seats' /\ WaitsAt(p, r)'
    <3>1. p \in Seats /\ WaitsAt(p, r)
      BY <1>1, <2>2 DEF QueuesSound
    <3>2. WaitsAt(p, r)' <=> WaitsAt(p, r)
      BY DEF WaitsAt, FirstFork, SecondFork, RightFork
    <3> QED BY <1>2, <3>1, <3>2
  <2>3. CASE r = Table
    BY <2>2, <2>3
  <2>4. CASE r # Table
    <3>1. sem'[r] = sem[r]
      BY <2>1, <2>4 DEF OnlyAt
    <3>2. p # Manager
      BY <1>1, <2>4, <3>1, SeatsArePlaces, PlaceFacts DEF QueuesSound
    <3> QED BY <2>2, <3>1, <3>2
  <2> QED BY <2>3, <2>4
<1>6. ASSUME NEW f \in Place \ Seats PROVE sem'[f] = Destroyed
  <2>1. f \in DOMAIN sem /\ f # Table
    BY <1>1, PlaceFacts DEF TableTypes
  <2> QED BY <1>1, <2>1 DEF OnlyAt, QueuesSound
<1>7. QueuesSound'
  BY <1>2, <1>4, <1>5, <1>6 DEF QueuesSound, Destroyed
<1>8. ASSUME NEW f \in Seats PROVE ForkSound(f)'
  <2>1. f \in DOMAIN sem /\ f # Table
    BY <1>1, SeatsArePlaces, PlaceFacts DEF TableTypes
  <2>2. sem'[f] = sem[f]
    BY <2>1 DEF OnlyAt
  <2>3. \A j \in Seats : Has(j, f)' <=> Has(j, f)
    BY <2>2 DEF Has, RightFork, FirstFork
  <2>4. ForkSound(f)
    BY <1>1 DEF ForksSound
  <2>5. CASE sem[f].value = 1 /\ \A j \in Seats : ~Has(j, f)
    BY <1>2, <2>2, <2>3, <2>5 DEF ForkSound
  <2>6. CASE sem[f].value = 0 /\ \E h \in Seats : \A j \in Seats : Has(j, f) <=> j = h
    BY <1>2, <2>2, <2>3, <2>6 DEF ForkSound
  <2> QED BY <2>4, <2>5, <2>6 DEF ForkSound
<1>9. ForksSound'
  BY <1>2, <1>8 DEF ForksSound
<1> QED BY <1>3, <1>7, <1>9

\* The semaphores stay as they are.
LEMMA NoSemaphore ==
  ASSUME AllSound, UNCHANGED sem
  PROVE  OnlyAt(Table)
PROOF
<1>1. TableTypes /\ QueuesSound /\ Table \in Live
  BY DEF AllSound, Live
<1> QED BY <1>1 DEF OnlyAt, TableTypes, QueuesSound, Semaphores

LEMMA ReadKeySound ==
  ASSUME AllSound, NEW k \in {"a", "r", "e", "other"}, ReadKey(k)
  PROVE  AllSound'
PROOF
<1>1. TableTypes /\ QueuesSound /\ StagesSound /\ TokensAgree /\ ForksSound
  BY DEF AllSound
<1>2. mpc = "key" /\ UNCHANGED <<onTable, sem, pc>>
  BY DEF ReadKey
<1>3. CASE Refuses(k)
  <2>1. Rest
    BY <1>2, <1>3 DEF ReadKey, Rest
  <2>2. TableTypes' /\ StagesSound'
    BY <1>1, <1>2, <2>1, StagesKept DEF TableTypes, Rest
  <2>3. \A p \in Range(sem'[Table].queue) :
          \/ p = Manager /\ mpc' = "collect"
          \/ p # Manager /\ p \in Range(sem[Table].queue)
    BY <1>1, <1>2 , SeatsArePlaces, PlaceFacts DEF QueuesSound, Live
  <2>4. QueuesSound' /\ ForksSound'
    BY <1>1, <1>2, <2>1, <2>2, <2>3, NoSemaphore, TableStays DEF TableTypes
  <2>5. Given' = Given /\ Seated' = Seated
    BY <1>2, <2>1, GivenKept DEF Seated
  <2>6. TokensAgree'
    BY <1>1, <1>2, <2>5 DEF TokensAgree
  <2> QED BY <2>2, <2>4, <2>6 DEF AllSound
<1>4. CASE ~Refuses(k)
  <2>1. k \in {"a", "r", "e"} /\ mpc' = "collect" /\ count' = 0 /\ change' = k
    BY <1>4 DEF Refuses, ReadKey, Goto
  <2>2. \A p \in Range(sem[Table].queue) : p # Manager
    BY <1>1, <1>2, SeatsArePlaces, PlaceFacts DEF QueuesSound, Live
  <2>3. TableTypes' /\ QueuesSound' /\ ForksSound'
    BY <1>2, <2>1, <2>2, NoSemaphore, TableStays
  <2>4. onTable \in Nat /\ onTable >= MinAmount
    BY <1>1, <1>2, Amounts DEF TableTypes, StagesSound
  <2>5. Collected' = onTable
    BY <1>2, <2>1 DEF Collected
  <2>6. StagesSound'
    <3>1. k = "a" => onTable \in MinAmount..MaxAmount-1
      BY <1>4, <2>4, Amounts DEF Refuses
    <3>2. k = "r" => onTable - 1 >= MinAmount
      BY <1>4, <2>4, Amounts DEF Refuses
    <3>3. count' <= Collected'
      BY <2>1, <2>4, <2>5
    <3> QED BY <1>2, <2>1, <2>4, <3>1, <3>2, <3>3 DEF StagesSound
  <2>7. Given = onTable
    BY <1>2 DEF Given
  <2>8. Given' = onTable - 0 + 0
    BY <1>2, <2>1, <2>2, <2>5 DEF Given, Queueing
  <2>9. Seated' = Seated /\ Given' = Given
    BY <1>2, <2>4, <2>7, <2>8 DEF Seated
  <2>10. TokensAgree'
    BY <1>1, <1>2, <2>9 DEF TokensAgree
  <2> QED BY <2>3, <2>6, <2>10 DEF AllSound
<1> QED BY <1>3, <1>4

\* The command takes a token of the table, or waits for one.
LEMMA BlockAllSound ==
  ASSUME AllSound, BlockAll
  PROVE  AllSound'
PROOF
<1>1. TableTypes /\ QueuesSound /\ StagesSound /\ TokensAgree /\ ForksSound
  BY DEF AllSound
<1>2. mpc = "collect" /\ ~Blocked(Manager) /\ UNCHANGED <<onTable, pc, change>>
  BY DEF BlockAll
<1>3. Table \in Live /\ Table \in DOMAIN sem /\ Manager \in Process
  BY <1>1 DEF Live, TableTypes, Process
<1>4. Manager \notin Range(sem[Table].queue)
  BY <1>2, <1>3 DEF Blocked
<1>5. /\ change \in {"a", "r", "e", "start"} /\ count \in Nat
      /\ Collected' = Collected /\ Collected \in Nat /\ onTable \in Nat
      /\ count <= Collected
  BY <1>1, <1>2, Amounts DEF TableTypes, StagesSound, Collected
<1>6. Given = Collected - count
  BY <1>2, <1>4, <1>5 DEF Given, Queueing
<1>7. sem[Table].value \in Nat /\ Cardinality(Seated) \in Nat
      /\ sem[Table].value + Cardinality(Seated) = Collected - count
  BY <1>1, <1>3, <1>6, SeatedFacts DEF QueuesSound, TokensAgree
<1>8. CASE count < Collected
  <2>1. Wait(Manager, Table) /\ count' = count + 1 /\ mpc' = "collect"
    BY <1>2, <1>8 DEF BlockAll
  <2>2. /\ OnlyAt(Table)
        /\ \/ /\ sem[Table].value > 0 /\ sem'[Table].value = sem[Table].value - 1
              /\ sem'[Table].queue = sem[Table].queue
           \/ /\ sem[Table].value = 0 /\ sem'[Table].value = 0
              /\ Range(sem'[Table].queue) = Range(sem[Table].queue) \cup {Manager}
    BY <1>1, <1>3, <1>4, <2>1, SemWait
  <2>3. TableTypes' /\ QueuesSound' /\ ForksSound'
    <3>1. \A p \in Range(sem'[Table].queue) : \/ p = Manager
                                              \/ p # Manager /\ p \in Range(sem[Table].queue)
      BY <2>2
    <3>2. count' \in Nat
      BY <1>5, <2>1
    <3> QED BY <1>2, <1>5, <2>1, <2>2, <3>1, <3>2, TableStays
  <2>4. StagesSound'
    <3>1. count' <= Collected'
      BY <1>5, <1>8, <2>1
    <3> QED BY <1>1, <1>2, <2>1, <3>1 DEF StagesSound
  <2>5. Seated' = Seated
    BY <1>2, <2>2, PlaceFacts DEF Seated
  <2>6. Given' = Collected - (count + 1) + Queueing'
    BY <1>5, <2>1 DEF Given
  <2>7. TokensAgree'
    <3>1. CASE /\ sem[Table].value > 0 /\ sem'[Table].value = sem[Table].value - 1
               /\ sem'[Table].queue = sem[Table].queue
      <4>1. Queueing' = 0
        BY <1>4, <3>1 DEF Queueing
      <4>2. sem'[Table].value + Cardinality(Seated) = Collected - (count + 1) + 0
        BY <1>5, <1>7, <3>1
      <4> QED BY <2>5, <2>6, <4>1, <4>2 DEF TokensAgree
    <3>2. CASE /\ sem[Table].value = 0 /\ sem'[Table].value = 0
               /\ Range(sem'[Table].queue) = Range(sem[Table].queue) \cup {Manager}
      <4>1. Queueing' = 1
        BY <3>2 DEF Queueing
      <4>2. sem'[Table].value + Cardinality(Seated) = Collected - (count + 1) + 1
        BY <1>5, <1>7, <3>2
      <4> QED BY <2>5, <2>6, <4>1, <4>2 DEF TokensAgree
    <3> QED BY <2>2, <3>1, <3>2
  <2> QED BY <2>3, <2>4, <2>7 DEF AllSound
<1>9. CASE ~(count < Collected)
  <2>1. mpc' = "change" /\ count' = 0 /\ sem' = sem
    BY <1>2, <1>9 DEF BlockAll, Goto
  <2>2. TableTypes' /\ QueuesSound' /\ ForksSound'
    <3>1. \A p \in Range(sem'[Table].queue) : p # Manager /\ p \in Range(sem[Table].queue)
      BY <1>4, <2>1
    <3> QED BY <1>2, <1>5, <2>1, <3>1, NoSemaphore, TableStays
  <2>3. StagesSound'
    <3>1. change = "start" => onTable <= Amount
      BY <1>1, <1>2, <1>5, Amounts DEF StagesSound
    <3> QED BY <1>1, <1>2, <2>1, <3>1 DEF StagesSound
  <2>4. Seated' = Seated /\ Given' = 0
    BY <1>2, <2>1 DEF Seated, Given
  <2>5. sem'[Table].value + Cardinality(Seated) = 0
    BY <1>5, <1>7, <1>9, <2>1
  <2> QED BY <2>2, <2>3, <2>4, <2>5 DEF AllSound, TokensAgree
<1> QED BY <1>8, <1>9

\* A token is given back, to the first at the door if somebody is there.
LEMMA FreeAllSound ==
  ASSUME AllSound, FreeAll
  PROVE  AllSound'
PROOF
<1>1. TableTypes /\ QueuesSound /\ StagesSound /\ TokensAgree /\ ForksSound
  BY DEF AllSound
<1>2. mpc = "release" /\ UNCHANGED <<onTable, pc, change>>
  BY <1>1 DEF FreeAll, TableTypes
<1>3. Table \in Live /\ Table \in DOMAIN sem
  BY <1>1 DEF Live, TableTypes
<1>4. \A p \in Range(sem[Table].queue) : p # Manager /\ p \in Seats /\ WaitsAt(p, Table)
  BY <1>1, <1>2, <1>3, SeatsArePlaces, PlaceFacts DEF QueuesSound
<1>5. /\ change \in {"a", "r", "e", "start"} /\ count \in Nat /\ onTable \in Nat
      /\ count <= onTable /\ onTable >= MinAmount
  BY <1>1, <1>2, Amounts DEF TableTypes, StagesSound
<1>6. sem[Table].value \in Nat /\ Cardinality(Seated) \in Nat /\ IsFiniteSet(Seated)
      /\ sem[Table].value + Cardinality(Seated) = count
  BY <1>1, <1>2, <1>3, SeatedFacts DEF QueuesSound, TokensAgree, Given
<1>7. CASE count < onTable
  <2>1. Post(Table) /\ count' = count + 1 /\ mpc' = "release"
    BY <1>2, <1>7 DEF FreeAll, Released
  <2>2. /\ OnlyAt(Table)
        /\ \/ \E h \in Process :
                /\ sem[Table].value = 0 /\ sem'[Table].value = 0
                /\ h \notin Range(sem'[Table].queue)
                /\ Range(sem[Table].queue) = Range(sem'[Table].queue) \cup {h}
           \/ /\ sem'[Table].value = sem[Table].value + 1
              /\ sem[Table].queue = <<>> /\ sem'[Table].queue = <<>>
    BY <1>1, <1>3, <2>1, SemPost
  <2>3. TableTypes' /\ QueuesSound' /\ ForksSound'
    <3>1. \A p \in Range(sem'[Table].queue) : p # Manager /\ p \in Range(sem[Table].queue)
      BY <1>4, <2>2
    <3>2. count' \in Nat
      BY <1>5, <2>1
    <3> QED BY <1>2, <1>5, <2>1, <2>2, <3>1, <3>2, TableStays
  <2>4. StagesSound'
    <3>1. count' <= onTable'
      BY <1>2, <1>5, <1>7, <2>1
    <3> QED BY <1>2, <1>5, <2>1, <3>1 DEF StagesSound
  <2>5. Given' = count + 1
    BY <2>1 DEF Given
  <2>6. CASE /\ sem'[Table].value = sem[Table].value + 1
             /\ sem[Table].queue = <<>> /\ sem'[Table].queue = <<>>
    <3>1. Seated' = Seated
      BY <1>2, <2>6 DEF Seated
    <3>2. sem'[Table].value + Cardinality(Seated) = count + 1
      BY <1>5, <1>6, <2>6
    <3> QED BY <2>3, <2>4, <2>5, <3>1, <3>2 DEF AllSound, TokensAgree
  <2>7. ASSUME NEW h \in Process, sem[Table].value = 0, sem'[Table].value = 0,
               h \notin Range(sem'[Table].queue),
               Range(sem[Table].queue) = Range(sem'[Table].queue) \cup {h}
        PROVE  TokensAgree'
    <3>1. h \in Place /\ pc[h] \notin {"away", Absent} /\ h \notin Seated
      <4>1. h \in Seats /\ WaitsAt(h, Table) /\ h \in Range(sem[Table].queue)
        BY <1>4, <2>7
      <4> QED BY <1>1, <4>1, SeatsArePlaces DEF WaitsAt, Absent, Seated
    <3>2. Seated' = Seated \cup {h}
      BY <1>2, <2>7, <3>1 DEF Seated
    <3>3. Cardinality(Seated') = Cardinality(Seated) + 1
      BY <1>6, <3>1, <3>2, FS_AddElement
    <3>4. sem'[Table].value + (Cardinality(Seated) + 1) = count + 1
      BY <1>5, <1>6, <2>7
    <3> QED BY <2>5, <3>3, <3>4 DEF TokensAgree
  <2> QED BY <2>2, <2>3, <2>4, <2>6, <2>7 DEF AllSound
<1>8. CASE ~(count < onTable)
  <2>1. mpc' = "key" /\ count' = 0 /\ sem' = sem
    BY <1>2, <1>8 DEF FreeAll, Released, Goto
  <2>2. TableTypes' /\ QueuesSound' /\ ForksSound'
    <3>1. \A p \in Range(sem'[Table].queue) : p # Manager /\ p \in Range(sem[Table].queue)
      BY <1>4, <2>1
    <3> QED BY <1>2, <1>5, <2>1, <3>1, NoSemaphore, TableStays
  <2>3. StagesSound'
    BY <1>2, <1>5, <2>1 DEF StagesSound
  <2>4. Seated' = Seated /\ Given' = onTable
    BY <1>2, <2>1 DEF Seated, Given
  <2>5. sem'[Table].value + Cardinality(Seated) = onTable
    BY <1>5, <1>6, <1>8, <2>1
  <2> QED BY <2>2, <2>3, <2>4, <2>5 DEF AllSound, TokensAgree
<1> QED BY <1>7, <1>8

-----------------------------------------------------------------------------
(* The command: the table changes while everyone is at the door.            *)

AtDoor ==
  /\ \A i \in Place : pc[i] \in {"away", "thinking", Absent}
  /\ sem[Table].value = 0 /\ IsInjective(sem[Table].queue)
  /\ Range(sem[Table].queue) = {i \in Place : pc[i] = "thinking"}
  /\ sem[PrintMutex].value \in Nat /\ sem[PrintMutex].queue = <<>>
  /\ \A f \in Place : sem[f] = IF f \in Seats THEN NewSem(1) ELSE Destroyed

LEMMA AllAtDoor ==
  ASSUME AllSound, mpc = "change"
  PROVE  AtDoor
PROOF
<1>1. TableTypes /\ QueuesSound /\ StagesSound /\ TokensAgree /\ ForksSound
  BY DEF AllSound
<1>2. Seated = {} /\ sem[Table].value = 0
  BY <1>1, TwoAtLeast
<1>3. ASSUME NEW i \in Seats PROVE FirstFork(i) \in Seats /\ SecondFork(i) \in Seats
  <2>1. RightFork(i) \in Seats
    BY <1>1, RightForkIs, Amounts DEF Seats, TableTypes
  <2> QED BY <2>1 DEF FirstFork, SecondFork
<1>4. Table \in Live /\ PrintMutex \in Live /\ Seats \subseteq Live
  BY DEF Live
<1>5. \A s \in Live : \A p \in Range(sem[s].queue) : p \in Seats /\ WaitsAt(p, s)
  BY <1>1 DEF QueuesSound
<1>6. \A p \in Range(sem[Table].queue) : p \in Seats /\ pc[p] = "thinking"
  <2>1. Table \notin Seats /\ Table # PrintMutex
    BY <1>1, SeatsArePlaces, PlaceFacts
  <2>2. ASSUME NEW p \in Range(sem[Table].queue) PROVE p \in Seats /\ pc[p] = "thinking"
    <3>1. p \in Seats /\ WaitsAt(p, Table)
      BY <1>4, <1>5
    <3>2. FirstFork(p) # Table /\ SecondFork(p) # Table
      BY <1>3, <2>1, <3>1
    <3> QED BY <2>1, <3>1, <3>2 DEF WaitsAt
  <2> QED BY <2>2
<1>7. ASSUME NEW i \in Place, pc[i] \notin {"away", Absent} PROVE pc[i] = "thinking"
  BY <1>2, <1>6, <1>7 DEF Seated
<1>8. Range(sem[Table].queue) = {i \in Place : pc[i] = "thinking"}
  <2>1. ASSUME NEW i \in Place, pc[i] = "thinking" PROVE i \in Range(sem[Table].queue)
    BY <1>2, <2>1 DEF Seated, Absent
  <2> QED BY <1>1, <1>6, <2>1, SeatsArePlaces
<1>9. ASSUME NEW s \in Live, s # Table PROVE sem[s].queue = <<>>
  <2>1. sem[s].queue \in Seq(Process)
    BY <1>1, SeatsArePlaces DEF TableTypes
  <2>2. ASSUME NEW p \in Range(sem[s].queue) PROVE FALSE
    <3>1. p \in Seats /\ WaitsAt(p, s) /\ p \in Place
      BY <1>1, <1>5, <1>9, SeatsArePlaces
    <3>2. pc[p] \in {"one fork", "eating", "printing"}
      BY <1>9, <3>1 DEF WaitsAt
    <3> QED BY <1>7, <3>1, <3>2 DEF Absent
  <2>3. 1 \notin DOMAIN sem[s].queue
    BY <2>2 DEF Range
  <2> QED BY <2>1, <2>3
<1>10. ASSUME NEW f \in Place PROVE sem[f] = IF f \in Seats THEN NewSem(1) ELSE Destroyed
  <2>1. sem[f] \in [value : Int, queue : Seq(Process)]
    BY <1>1 DEF TableTypes
  <2>2. CASE f \in Seats
    <3>1. \A i \in Seats : ~Has(i, f)
      BY <1>1, <1>7, SeatsArePlaces DEF Has, Absent
    <3>2. sem[f].value = 1
      BY <1>1, <2>2, <3>1 DEF ForksSound, ForkSound
    <3>3. sem[f].queue = <<>>
      BY <1>4, <1>9, <2>2, PlaceFacts
    <3> QED BY <2>1, <2>2, <3>2, <3>3 DEF NewSem
  <2>3. CASE f \notin Seats
    BY <1>1, <2>3 DEF QueuesSound
  <2> QED BY <2>2, <2>3
<1>11. \A i \in Place : pc[i] \in {"away", "thinking", Absent}
  BY <1>7
<1>12. IsInjective(sem[Table].queue) /\ sem[PrintMutex].value \in Nat
  BY <1>1, <1>4 DEF QueuesSound
<1> QED BY <1>2, <1>4, <1>8, <1>9, <1>10, <1>11, <1>12, PlaceFacts DEF AtDoor

\* What a change of the table has to keep
LEMMA DoorSound ==
  ASSUME TableTypes', AtDoor', StagesSound',
         mpc' = "change" \/ (mpc' = "release" /\ count' = 0)
  PROVE  AllSound'
PROOF
<1>0. Seats' = 0..onTable'-1 /\ onTable' \in 0..MaxAmount
  BY DEF Seats, TableTypes
<1>1. Seats' \subseteq Place
  <2>1. 0..onTable'-1 \subseteq Place
    BY <1>0, SomePlaces
  <2> QED BY <1>0, <2>1, Zenon
<1>2. QueuesSound'
  <2>1. ASSUME NEW s \in Live'
        PROVE  /\ sem'[s].value \in Nat /\ IsInjective(sem'[s].queue)
               /\ sem'[s].queue # <<>> => sem'[s].value = 0
               /\ \A p \in Range(sem'[s].queue) : p \in Seats' /\ WaitsAt(p, s)'
    <3>1. s \in Seats' \/ s = Table \/ s = PrintMutex
      BY DEF Live
    <3>2. CASE s = Table
      <4>1. ASSUME NEW p \in Range(sem'[Table].queue) PROVE p \in Seats' /\ WaitsAt(p, Table)'
        <5>1. p \in Place /\ pc'[p] = "thinking"
          BY <4>1 DEF AtDoor
        <5>2. p \in Nat /\ ~(p >= onTable') /\ onTable' \in Nat
          BY <5>1, PlaceFacts, Amounts DEF TableTypes, Absent
        <5>3. p \in 0..onTable'-1
          BY <5>2, SomePlaces
        <5>4. p \in Seats'
          BY <1>0, <5>3, Zenon
        <5> QED BY <5>1, <5>4 DEF WaitsAt
      <4> QED BY <3>2, <4>1 DEF AtDoor
    <3>3. ASSUME s # Table PROVE sem'[s].queue = <<>> /\ sem'[s].value \in Nat
      BY <1>1, <3>1, <3>3 DEF AtDoor, NewSem
    <3>4. IsInjective(<<>>) /\ Range(<<>>) = {}
      BY DEF IsInjective, Range
    <3> QED BY <3>2, <3>3, <3>4
  <2>2. \A f \in Place \ Seats' : sem'[f] = Destroyed
    BY DEF AtDoor
  <2> QED BY <2>1, <2>2 DEF QueuesSound, Destroyed
<1>3. TokensAgree'
  <2>1. Seated' = {}
    BY DEF Seated, AtDoor
  <2>2. Cardinality(Seated') = 0
    BY <2>1, FS_EmptySet
  <2>3. Given' = 0
    BY DEF Given
  <2> QED BY <2>2, <2>3 DEF TokensAgree, AtDoor
<1>4. ForksSound'
  <2>1. ASSUME NEW f \in Seats' PROVE ForkSound(f)'
    <3>1. sem'[f].value = 1
      BY <1>1 DEF AtDoor, NewSem
    <3>2. \A i \in Seats' : pc'[i] \in {"away", "thinking", Absent}
      BY <1>1 DEF AtDoor
    <3>3. \A i \in Seats' : ~Has(i, f)'
      BY <3>2 DEF Has, Absent
    <3> QED BY <3>1, <3>3 DEF ForkSound
  <2> QED BY <2>1 DEF ForksSound
<1> QED BY <1>2, <1>3, <1>4 DEF AllSound

\* One more sits down at the door.
LEMMA JoinSound ==
  ASSUME AllSound, mpc = "change", onTable < MaxAmount, Join, StagesSound',
         mpc' = "change" \/ (mpc' = "release" /\ count' = 0),
         count' \in Nat, change' \in {"a", "r", "e", "start"}
  PROVE  AllSound'
PROOF
<1>1. TableTypes /\ AtDoor
  BY AllAtDoor DEF AllSound
<1>2. onTable \in Nat /\ onTable \in Place /\ onTable \notin Seats /\ onTable' = onTable + 1
  BY <1>1, Amounts DEF TableTypes, Place, Seats, Join
<1>3. /\ sem \in Semaphores /\ onTable \in DOMAIN sem
      /\ NewSem(1) \in [value : Int, queue : Seq(Process)]
  BY <1>1, <1>2 DEF TableTypes, Semaphores, NewSem
<1>4. /\ sem' \in Semaphores /\ sem'[onTable] = NewSem(1)
      /\ \A s \in DOMAIN sem : s # onTable => sem'[s] = sem[s]
  BY <1>3 DEF Join, Semaphores
<1>5. sem'[Table] = sem[Table] /\ sem'[PrintMutex] = sem[PrintMutex]
  BY <1>1, <1>2, <1>4, PlaceFacts DEF TableTypes
<1>6. PICK there \in {"away", Absent} : pc' = [pc EXCEPT ![onTable] = there]
  BY DEF Join
<1>7. /\ pc' \in [Place -> Doing] /\ pc'[onTable] = there
      /\ \A i \in Place : i # onTable => pc'[i] = pc[i]
  BY <1>1, <1>2, <1>6 DEF TableTypes, Doing
<1>8. pc[onTable] = Absent
  BY <1>1, <1>2 DEF TableTypes
<1>9. TableTypes'
  <2>1. onTable' \in 0..MaxAmount
    BY <1>1, <1>2, Amounts
  <2>2. ASSUME NEW i \in Place, i >= onTable' PROVE pc'[i] = Absent
    <3>1. i # onTable /\ i >= onTable
      BY <1>2, <2>2, PlaceFacts
    <3> QED BY <1>1, <1>7, <3>1 DEF TableTypes
  <2> QED BY <1>4, <1>7, <2>1, <2>2 DEF TableTypes, Semaphores
<1>10. Seats' = Seats \cup {onTable}
  <2>1. 0..onTable = (0..onTable-1) \cup {onTable}
    BY <1>2
  <2>2. onTable' - 1 = onTable
    BY <1>2
  <2>3. Seats' = 0..onTable'-1
    BY DEF Seats
  <2>4. Seats' = 0..onTable
    BY <2>2, <2>3, Zenon
  <2> QED BY <2>1, <2>4, Zenon DEF Seats
<1>11. AtDoor'
  <2>1. \A i \in Place : pc'[i] \in {"away", "thinking", Absent}
    BY <1>1, <1>7 DEF AtDoor
  <2>2. \A i \in Place : pc'[i] = "thinking" <=> pc[i] = "thinking"
    BY <1>7, <1>8 DEF Absent
  <2>3. Range(sem'[Table].queue) = {i \in Place : pc'[i] = "thinking"}
    BY <1>1, <1>5, <2>2 DEF AtDoor
  <2>4. ASSUME NEW f \in Place
        PROVE  sem'[f] = IF f \in Seats' THEN NewSem(1) ELSE Destroyed
    <3>1. CASE f = onTable
      BY <1>4, <1>10, <3>1
    <3>2. CASE f # onTable
      <4>1. sem'[f] = sem[f]
        BY <1>1, <1>4, <3>2 DEF TableTypes
      <4>2. f \in Seats' <=> f \in Seats
        BY <1>10, <3>2
      <4> QED BY <1>1, <4>1, <4>2 DEF AtDoor
    <3> QED BY <3>1, <3>2
  <2> QED BY <1>1, <1>5, <2>1, <2>3, <2>4 DEF AtDoor
<1> QED BY <1>9, <1>11, DoorSound

\* The last one is made to leave, wherever it is.
LEMMA WithoutFacts ==
  ASSUME NEW q \in Seq(Process), IsInjective(q), NEW i
  PROVE  /\ Without(q, i) \in Seq(Process) /\ IsInjective(Without(q, i))
         /\ Range(Without(q, i)) = Range(q) \ {i}
         /\ q = <<>> => Without(q, i) = <<>>
PROOF
<1> DEFINE K == {k \in DOMAIN q : q[k] # i}
           w == AtPlaces(q, K)
<1>1. K \in SUBSET (DOMAIN q)
  OBVIOUS
<1>2. w \in Seq(Process) /\ Len(w) = Cardinality(K) /\ IsInjective(w)
      /\ Range(w) = {q[k] : k \in K}
  <2> HIDE DEF K
  <2> QED BY <1>1, AtPlacesFacts
<1>3. {q[k] : k \in K} = Range(q) \ {i}
  BY DEF Range
<1>4. ASSUME q = <<>> PROVE w = <<>>
  <2>1. K = {}
    BY <1>4
  <2>2. Len(w) = 0
    BY <1>2, <2>1, FS_EmptySet
  <2> HIDE DEF w
  <2> QED BY <1>2, <2>2
<1> QED BY <1>2, <1>3, <1>4 DEF Without

LEMMA LeaveTableSound ==
  ASSUME AllSound, mpc = "change", onTable # 0, Leave(onTable - 1), StagesSound',
         mpc' = "change" \/ (mpc' = "release" /\ count' = 0),
         count' \in Nat, change' \in {"a", "r", "e", "start"}
  PROVE  AllSound'
PROOF
<1>1. TableTypes /\ AtDoor
  BY AllAtDoor DEF AllSound
<1> DEFINE i == onTable - 1
<1>2. /\ onTable \in Nat /\ i \in Nat /\ i \in Place /\ i \in Seats
      /\ onTable' = i /\ i \in 0..MaxAmount
  BY <1>1, Amounts DEF TableTypes, Place, Seats, Leave
<1>3. Seats' = Seats \ {i}
  <2>1. 0..i-1 = (0..onTable-1) \ {i}
    BY <1>2
  <2>2. Seats' = 0..onTable'-1
    BY DEF Seats
  <2>3. Seats' = 0..i-1
    BY <1>2, <2>2, Zenon
  <2> QED BY <2>1, <2>3, Zenon DEF Seats
<1>4. /\ pc' = [pc EXCEPT ![i] = Absent]
      /\ sem' = [s \in DOMAIN sem |-> IF s = i THEN Destroyed
                                      ELSE [sem[s] EXCEPT !.queue = Without(sem[s].queue, i)]]
  BY DEF Leave
<1> HIDE DEF i
<1>5. /\ pc' \in [Place -> Doing] /\ pc'[i] = Absent
      /\ \A j \in Place : j # i => pc'[j] = pc[j]
  BY <1>1, <1>2, <1>4 DEF TableTypes, Doing
<1>6. /\ DOMAIN sem = Place \cup {Table, PrintMutex}
      /\ \A s \in DOMAIN sem : sem[s] \in [value : Int, queue : Seq(Process)]
  BY <1>1 DEF TableTypes
<1>7. \A s \in DOMAIN sem : IsInjective(sem[s].queue)
  <2>1. IsInjective(<<>>)
    BY DEF IsInjective
  <2> QED BY <1>1, <1>6, <2>1 DEF AtDoor, NewSem, Destroyed
<1>8. sem'[i] = Destroyed
  BY <1>2, <1>4, <1>6
<1>9. ASSUME NEW s \in DOMAIN sem, s # i
      PROVE  /\ sem'[s] = [value |-> sem[s].value, queue |-> Without(sem[s].queue, i)]
             /\ sem'[s] \in [value : Int, queue : Seq(Process)]
             /\ IsInjective(sem'[s].queue)
             /\ Range(sem'[s].queue) = Range(sem[s].queue) \ {i}
             /\ sem[s].queue = <<>> => sem'[s] = sem[s]
  <2>1. sem[s] = [value |-> sem[s].value, queue |-> sem[s].queue]
        /\ sem[s].queue \in Seq(Process) /\ sem[s].value \in Int /\ IsInjective(sem[s].queue)
    BY <1>6, <1>7
  <2> DEFINE w == Without(sem[s].queue, i)
  <2>2. /\ w \in Seq(Process) /\ IsInjective(w) /\ Range(w) = Range(sem[s].queue) \ {i}
        /\ sem[s].queue = <<>> => w = <<>>
    BY <2>1, WithoutFacts
  <2> HIDE DEF w
  <2>3. sem'[s] = [value |-> sem[s].value, queue |-> w]
    <3>1. sem'[s] = [sem[s] EXCEPT !.queue = w]
      BY <1>4, <1>9 DEF w
    <3> QED BY <2>1, <3>1
  <2> QED BY <2>1, <2>2, <2>3 DEF w
<1>10. Destroyed \in [value : Int, queue : Seq(Process)]
  BY DEF Destroyed, NewSem
<1>11. TableTypes'
  <2>1. sem' \in [Place \cup {Table, PrintMutex} -> [value : Int, queue : Seq(Process)]]
    <3>1. \A s \in DOMAIN sem : sem'[s] \in [value : Int, queue : Seq(Process)]
      BY <1>8, <1>9, <1>10
    <3>2. DOMAIN sem' = DOMAIN sem /\ sem' = [s \in DOMAIN sem' |-> sem'[s]]
      BY <1>4
    <3> QED BY <1>6, <3>1, <3>2
  <2>2. ASSUME NEW j \in Place, j >= i PROVE pc'[j] = Absent
    <3>1. j = i \/ j >= onTable
      BY <1>2, <2>2, PlaceFacts DEF i
    <3> QED BY <1>1, <1>5, <2>2, <3>1 DEF TableTypes
  <2> QED BY <1>2, <1>5, <2>1, <2>2 DEF TableTypes
<1>12. AtDoor'
  <2>1. \A j \in Place : pc'[j] \in {"away", "thinking", Absent}
    BY <1>1, <1>5 DEF AtDoor
  <2>2. Table \in DOMAIN sem /\ PrintMutex \in DOMAIN sem /\ Table # i /\ PrintMutex # i
    BY <1>2, <1>6, PlaceFacts
  <2>3. Range(sem'[Table].queue) = {j \in Place : pc'[j] = "thinking"}
    <3>1. Range(sem'[Table].queue) = {j \in Place : pc[j] = "thinking"} \ {i}
      BY <1>1, <1>9, <2>2 DEF AtDoor
    <3>2. \A j \in Place : pc'[j] = "thinking" <=> pc[j] = "thinking" /\ j # i
      BY <1>5 DEF Absent
    <3> QED BY <3>1, <3>2
  <2>4. sem'[Table].value = 0 /\ IsInjective(sem'[Table].queue)
    <3>1. /\ sem'[Table] = [value |-> sem[Table].value, queue |-> Without(sem[Table].queue, i)]
          /\ IsInjective(sem'[Table].queue)
      BY <1>9, <2>2
    <3>2. sem'[Table].value = sem[Table].value
      BY <3>1
    <3> QED BY <1>1, <3>1, <3>2 DEF AtDoor
  <2>5. sem'[PrintMutex].value \in Nat /\ sem'[PrintMutex].queue = <<>>
    BY <1>1, <1>9, <2>2 DEF AtDoor
  <2>6. ASSUME NEW f \in Place
        PROVE  sem'[f] = IF f \in Seats' THEN NewSem(1) ELSE Destroyed
    <3>1. CASE f = i
      BY <1>3, <1>8, <3>1
    <3>2. CASE f # i
      <4>1. f \in DOMAIN sem /\ sem[f].queue = <<>>
        BY <1>1, <1>6 DEF AtDoor, NewSem, Destroyed
      <4>2. sem'[f] = sem[f]
        BY <1>9, <3>2, <4>1
      <4>3. f \in Seats' <=> f \in Seats
        BY <1>3, <3>2
      <4> QED BY <1>1, <4>2, <4>3 DEF AtDoor
    <3> QED BY <3>1, <3>2
  <2> QED BY <2>1, <2>3, <2>4, <2>5, <2>6 DEF AtDoor
<1> QED BY <1>11, <1>12, DoorSound

LEMMA ReleaseSound ==
  ASSUME AllSound, mpc = "change", Goto("release"), UNCHANGED <<onTable, sem, pc, change>>,
         onTable >= MinAmount
  PROVE  AllSound'
PROOF
<1>1. TableTypes /\ AtDoor /\ mpc' = "release" /\ count' = 0
  BY AllAtDoor DEF AllSound, Goto
<1>2. TableTypes'
  BY <1>1 DEF TableTypes
<1>3. AtDoor'
  BY <1>1 DEF AtDoor, Seats
<1>4. StagesSound'
  <2>1. 0 <= onTable
    BY <1>1, Amounts DEF TableTypes
  <2> QED BY <1>1, <2>1 DEF StagesSound
<1> QED BY <1>1, <1>2, <1>3, <1>4, DoorSound

LEMMA ChangeSound ==
  ASSUME AllSound, Start \/ Add \/ Rem \/ End, InPlay'
  PROVE  AllSound'
PROOF
<1>1. TableTypes /\ StagesSound /\ onTable \in Nat /\ count \in Nat /\ mpc = "change"
  <2>1. TableTypes /\ StagesSound
    BY DEF AllSound
  <2>2. onTable \in Nat /\ count \in Nat
    BY <2>1, Amounts DEF TableTypes
  <2>3. mpc = "change"
    BY DEF Start, Add, Rem, End
  <2> QED BY <2>1, <2>2, <2>3
<1>2. CASE Start
  <2>1. change = "start" /\ change' = "start" /\ onTable <= Amount
    BY <1>1, <1>2 DEF Start, StagesSound
  <2>2. CASE onTable < Amount
    <3>1. Join /\ mpc' = "change" /\ count' = count /\ onTable' = onTable + 1
      BY <1>1, <1>2, <2>2 DEF Start, Join
    <3>2. onTable < MaxAmount /\ onTable' <= Amount
      BY <1>1, <2>2, <3>1, Amounts
    <3>3. StagesSound'
      BY <2>1, <3>1, <3>2 DEF StagesSound
    <3> QED BY <1>1, <2>1, <3>1, <3>2, <3>3, JoinSound
  <2>3. CASE ~(onTable < Amount)
    <3>1. Goto("release") /\ UNCHANGED <<onTable, sem, pc, change>>
      BY <1>2, <2>3 DEF Start
    <3>2. onTable >= MinAmount
      BY <1>1, <2>3, Amounts
    <3> QED BY <1>1, <3>1, <3>2, ReleaseSound
  <2> QED BY <2>2, <2>3
<1>3. CASE Add
  <2>1. /\ change = "a" /\ change' = "a" /\ Join /\ onTable' = onTable + 1
        /\ mpc' = "release" /\ count' = 0
    BY <1>3 DEF Add, Join, Goto
  <2>2. onTable \in MinAmount..MaxAmount-1
    BY <1>1, <2>1 DEF StagesSound
  <2>3. onTable < MaxAmount /\ onTable' >= MinAmount /\ 0 <= onTable'
    BY <1>1, <2>1, <2>2, Amounts
  <2>4. StagesSound'
    BY <2>1, <2>3 DEF StagesSound
  <2> QED BY <1>1, <2>1, <2>3, <2>4, JoinSound
<1>4. CASE Rem
  <2>1. change = "r" /\ change' = "r" /\ onTable - 1 >= MinAmount
    BY <1>1, <1>4 DEF Rem, StagesSound
  <2>2. pc[onTable-1] # Absent
    BY <1>4 DEF Rem, Goto, InPlay
  <2>3. Leave(onTable - 1) /\ mpc' = "release" /\ count' = 0 /\ onTable' = onTable - 1
    BY <1>4, <2>2 DEF Rem, Leave, Goto
  <2>4. onTable # 0 /\ onTable' >= MinAmount /\ 0 <= onTable'
    BY <1>1, <2>1, <2>3, Amounts
  <2>5. StagesSound'
    BY <2>1, <2>3, <2>4 DEF StagesSound
  <2> QED BY <1>1, <2>1, <2>3, <2>4, <2>5, LeaveTableSound
<1>5. CASE End
  <2>1. change = "e" /\ change' = "e"
    BY <1>5 DEF End
  <2>2. onTable # 0 /\ pc[onTable-1] # Absent
    BY <1>5 DEF End, Goto, InPlay
  <2>3. Leave(onTable - 1) /\ mpc' = "change" /\ count' = count
    BY <1>1, <1>5, <2>2 DEF End
  <2>4. StagesSound'
    BY <2>1, <2>3 DEF StagesSound
  <2> QED BY <1>1, <2>1, <2>2, <2>3, <2>4, LeaveTableSound
<1> QED BY <1>2, <1>3, <1>4, <1>5

-----------------------------------------------------------------------------
(* The invariant, and what it says of the forks.                            *)

LEMMA PhyloInvInit ==
  ASSUME Init PROVE AllSound
PROOF
<1>1. /\ onTable = 0 /\ mpc = "collect" /\ count = 0 /\ change = "start"
      /\ sem = [s \in Place \cup {Table, PrintMutex} |->
                  IF s = Table THEN NewSem(Amount)
                  ELSE IF s = PrintMutex THEN NewSem(1) ELSE Destroyed]
      /\ pc = [i \in Place |-> Absent]
  BY DEF Init
<1>2. \A n \in Int : NewSem(n) \in [value : Int, queue : Seq(Process)]
  BY DEF NewSem
<1>3. TableTypes
  <2>1. Amount \in Int /\ 1 \in Int /\ -1 \in Int
    BY Amounts
  <2>2. sem \in [Place \cup {Table, PrintMutex} -> [value : Int, queue : Seq(Process)]]
    BY <1>1, <1>2, <2>1 DEF Destroyed
  <2>3. onTable \in 0..MaxAmount /\ count \in Nat
    BY <1>1, Amounts
  <2> QED BY <1>1, <2>2, <2>3 DEF TableTypes, Doing
<1>4. Seats = {}
  BY <1>1 DEF Seats
<1>5. sem[Table] = NewSem(Amount) /\ sem[PrintMutex] = NewSem(1)
      /\ \A f \in Place : sem[f] = Destroyed
  BY <1>1, PlaceFacts
<1>6. QueuesSound
  <2>1. IsInjective(<<>>) /\ Range(<<>>) = {}
    BY DEF IsInjective, Range
  <2> QED BY <1>4, <1>5, <2>1, Amounts DEF QueuesSound, Live, NewSem
<1>7. StagesSound
  BY <1>1, Amounts DEF StagesSound, Collected
<1>8. TokensAgree
  <2>1. Seated = {}
    BY <1>1 DEF Seated
  <2>2. Cardinality(Seated) = 0
    BY <2>1, FS_EmptySet
  <2>3. Queueing = 0
    BY <1>5 DEF Queueing, NewSem, Range
  <2>4. Given = Amount - 0 + 0
    BY <1>1, <2>3 DEF Given, Collected
  <2>5. sem[Table].value = Amount
    BY <1>5 DEF NewSem
  <2> QED BY <2>2, <2>4, <2>5, Amounts DEF TokensAgree
<1>9. ForksSound
  BY <1>4 DEF ForksSound
<1> QED BY <1>3, <1>6, <1>7, <1>8, <1>9 DEF AllSound

LEMMA PhyloInvNext ==
  ASSUME PhyloInv, [Next]_vars PROVE PhyloInv'
PROOF
<1> SUFFICES ASSUME InPlay' PROVE AllSound'
  BY DEF PhyloInv
\* Who has given up does not come back.
<1>1. InPlay
  <2>1. CASE UNCHANGED vars
    BY <2>1 DEF InPlay, vars
  <2>2. CASE Next
    <3>1. CASE ManagerStep
      BY <3>1 DEF ManagerStep, BlockAll, Start, Add, SemInitFails, Rem, End, FreeAll, Goto, InPlay
    <3>2. ASSUME NEW k \in {"a", "r", "e", "other"}, ReadKey(k) PROVE InPlay
      BY <3>2 DEF ReadKey, InPlay
    <3>3. ASSUME NEW i \in Place, Philosopher(i) PROVE InPlay
      BY <3>3 DEF Philosopher, InPlay
    <3> QED BY <2>2, <3>1, <3>2, <3>3 DEF Next
  <2> QED BY <2>1, <2>2
<1>2. AllSound
  BY <1>1 DEF PhyloInv
<1>3. CASE UNCHANGED vars
  <2>1. UNCHANGED <<onTable, sem, pc, mpc, count, change>>
    BY <1>3 DEF vars
  <2>2. TableTypes' <=> TableTypes
    BY <2>1 DEF TableTypes
  <2>3. QueuesSound' <=> QueuesSound
    BY <2>1 DEF QueuesSound, Live, Seats, WaitsAt, FirstFork, SecondFork, RightFork
  <2>4. StagesSound' <=> StagesSound
    BY <2>1 DEF StagesSound, Collected
  <2>5. TokensAgree' <=> TokensAgree
    <3>1. Seated' = Seated /\ Given' = Given
      BY <2>1 DEF Seated, Given, Queueing, Collected
    <3> QED BY <2>1, <3>1 DEF TokensAgree
  <2>6. ForksSound' <=> ForksSound
    BY <2>1 DEF ForksSound, ForkSound, Has, Seats, FirstFork, RightFork
  <2> QED BY <1>2, <2>2, <2>3, <2>4, <2>5, <2>6 DEF AllSound
<1>4. CASE Next
  <2>1. CASE BlockAll
    BY <1>2, <2>1, BlockAllSound
  <2>2. CASE Start \/ Add \/ Rem \/ End
    BY <1>2, <2>2, ChangeSound
  <2>3. CASE SemInitFails
    BY <2>3 DEF SemInitFails, Goto, InPlay
  <2>4. CASE FreeAll
    BY <1>2, <2>4, FreeAllSound
  <2>5. ASSUME NEW k \in {"a", "r", "e", "other"}, ReadKey(k) PROVE AllSound'
    BY <1>2, <2>5, ReadKeySound
  <2>6. ASSUME NEW i \in Place, Philosopher(i) PROVE AllSound'
    BY <1>2, <2>6, PhilosopherSound
  <2> QED BY <1>4, <2>1, <2>2, <2>3, <2>4, <2>5, <2>6 DEF Next, ManagerStep
<1> QED BY <1>3, <1>4

LEMMA ForkShared ==
  ASSUME AllSound, NEW f \in Seats
  PROVE  sem[f].value + Cardinality(Holders(f)) = 1
PROOF
<1>1. TableTypes /\ ForkSound(f) /\ \A i \in Seats : RightFork(i) \in Seats
  <2>1. TableTypes /\ ForkSound(f)
    BY DEF AllSound, ForksSound
  <2> QED BY <2>1, RightForkIs, Amounts DEF Seats, TableTypes
<1> DEFINE left == (f + onTable - 1) % onTable
<1>2. left \in Seats
  <2>1. onTable \in Nat \ {0} /\ f + onTable - 1 \in Int
    BY <1>1, Amounts DEF TableTypes, Seats
  <2> QED BY <2>1 DEF Seats
<1>3. \A i \in Seats : i = left <=> RightFork(i) = f
  BY <1>1, LeftIs
<1>4. Holders(f) = {i \in Seats : Has(i, f)}
  <2>1. ASSUME NEW i \in Seats PROVE i \in Holders(f) <=> Has(i, f)
    <3>1. ASSUME f \in {i, RightFork(i)}
          PROVE  (TakesOwnFirst(i) <=> f = i) <=> f = FirstFork(i)
      <4>1. CASE onTable >= 2
        <5>1. RightFork(i) # i
          BY <1>1, <4>1, ForksDiffer
        <5> QED BY <3>1, <5>1 DEF FirstFork
      <4>2. CASE ~(onTable >= 2)
        <5>1. onTable \in Nat /\ i \in 0..onTable-1 /\ f \in 0..onTable-1
          BY <1>1, Amounts DEF TableTypes, Seats
        <5>2. i = 0 /\ f = 0
          BY <4>2, <5>1
        <5>3. 0 % 2 = 0
          BY SMT
        <5> QED BY <5>2, <5>3 DEF TakesOwnFirst, FirstFork
      <4> QED BY <4>1, <4>2
    <3> QED BY <1>3, <2>1, <3>1 DEF Holders, Has
  <2>2. Holders(f) \subseteq Seats
    BY <1>2 DEF Holders
  <2> QED BY <2>1, <2>2
<1>5. CASE sem[f].value = 1 /\ \A i \in Seats : ~Has(i, f)
  <2>1. Holders(f) = {}
    BY <1>4, <1>5
  <2> QED BY <1>5, <2>1, FS_EmptySet
<1>6. CASE sem[f].value = 0 /\ \E h \in Seats : \A i \in Seats : Has(i, f) <=> i = h
  <2>1. PICK h \in Seats : \A i \in Seats : Has(i, f) <=> i = h
    BY <1>6
  <2>2. Holders(f) = {h}
    BY <1>4, <2>1
  <2> QED BY <1>6, <2>2, FS_Singleton
<1> QED BY <1>1, <1>5, <1>6 DEF ForkSound

(* For any number of seats, a fork of the table is never in two hands and  *)
(* never lost (takeForks() and addPhylo() of phyloTest.c), however many    *)
(* join, leave or end while the others eat.                                *)
THEOREM ForksAreShared == Spec => []ForksShared
PROOF
<1>1. Init => PhyloInv
  BY PhyloInvInit DEF PhyloInv
<1>2. PhyloInv /\ [Next]_vars => PhyloInv'
  BY PhyloInvNext
<1>3. PhyloInv => ForksShared
  <2> SUFFICES ASSUME PhyloInv, InPlay, NEW f \in 0..onTable-1
               PROVE  sem[f].value + Cardinality(Holders(f)) = 1
    BY DEF ForksShared, InPlay
  <2> QED BY ForkShared DEF PhyloInv, Seats
<1> QED BY <1>1, <1>2, <1>3, PTL DEF Spec

-----------------------------------------------------------------------------
(* The Array of array.c.                                                    *)

CONSTANTS Element, InitialCapacity, MaxGiven, MaxLength
VARIABLES asked, inKernel, cells, length, freed, got, ended

Arr == INSTANCE Arrays

\* As in MCLibrary
Vct == INSTANCE Vector WITH
         vec <- IF ended THEN <<>> ELSE Arr!Elements(0, length),
         dropped <- freed,
         given <- got,
         index <- asked,
         gone <- ended

-----------------------------------------------------------------------------
(* An Array implements Vector.                                              *)

\* The first n elements in the memory c
Listed(c, n) == [i \in 1..n |-> c[i-1]]

\* A memory of cap cells that has n elements
Holds(c, cap, n) ==
  /\ cap \in Nat \ {0} /\ DOMAIN c = 0..cap-1 /\ c = [i \in 0..cap-1 |-> c[i]]
  /\ n \in 0..cap
  /\ \A i \in 0..n-1 : c[i] \in Element

ArrayOk(c, n) == \E cap : Holds(c, cap, n)

ArrayInv ==
  /\ inKernel \in BOOLEAN /\ ended \in BOOLEAN
  /\ ArrayOk(cells, length)

\* What Vector is given for its list
Vec == IF ended THEN <<>> ELSE Arr!Elements(0, length)

ListIs(c, n, p) ==
  /\ p \in Seq(Element) /\ Len(p) = n
  /\ \A i \in 1..n : p[i] = c[i-1]

LEMMA ListedIs ==
  ASSUME NEW c, NEW cap, NEW n, Holds(c, cap, n)
  PROVE  ListIs(c, n, Listed(c, n))
PROOF
<1>1. n \in Nat /\ \A i \in 1..n : i - 1 \in 0..n-1
  BY DEF Holds
<1>2. \A i \in 1..n : c[i-1] \in Element
  BY <1>1 DEF Holds
<1>3. PICK p : p = [i \in 1..n |-> c[i-1]]
  OBVIOUS
<1>4. p \in Seq(Element) /\ Len(p) = n /\ \A i \in 1..n : p[i] = c[i-1]
  BY <1>1, <1>2, <1>3
<1> QED BY <1>3, <1>4 DEF Listed, ListIs

LEMMA CapacityIs ==
  ASSUME NEW cap, Holds(cells, cap, length)
  PROVE  Arr!Capacity = cap
PROOF
<1>1. cap \in Nat /\ cap - 1 - 0 + 1 = cap /\ DOMAIN cells = 0..cap-1 /\ 0 <= cap - 1
  BY DEF Holds
<1>2. Cardinality(0..cap-1) = cap
  BY <1>1, FS_Interval
<1>3. Arr!Cardinality(0..cap-1) = Cardinality(0..cap-1)
  BY Zenon DEF Arr!Cardinality, Cardinality
<1> QED BY <1>1, <1>2, <1>3, Zenon DEF Arr!Capacity

LEMMA ElementsAre ==
  ASSUME NEW n, NEW from \in Int
  PROVE  /\ Arr!Elements(0, n) = Listed(cells, n)
         /\ Arr!Elements(0, n)' = Listed(cells', n')
PROOF
  BY DEF Arr!Elements, Listed

\* toRealIdx() gives the place that Vector has for the index.
LEMMA PlaceIs ==
  ASSUME ArrayInv, ~ended, NEW i \in Int
  PROVE  /\ Arr!RealIdx(i) \in -1..length-1
         /\ Vct!Place(i) = Arr!RealIdx(i) + 1
PROOF
<1>1. PICK cap : Holds(cells, cap, length)
  BY DEF ArrayInv, ArrayOk
<1>2. Len(Arr!Elements(0, length)) = length
  BY <1>1, ElementsAre, ListedIs DEF ListIs
<1>3. Vct!Place(i) = IF i >= 0 /\ i < length THEN i + 1
                     ELSE IF i < 0 /\ -i <= length THEN length + i + 1 ELSE 0
  BY <1>2, Zenon DEF Vct!Place
<1>4. length \in Nat
  BY <1>1 DEF Holds
<1> QED BY <1>3, <1>4 DEF Arr!RealIdx

LEMMA GivenAre ==
  ASSUME MaxGiven \in Nat, NEW s \in Arr!Given
  PROVE  s \in Seq(Element) /\ s \in Vct!Given
PROOF
<1>1. Vct!Given = Arr!Given
  BY Zenon DEF Vct!Given, Arr!Given, Vct!BoundedSeq, Arr!BoundedSeq, Vct!SeqOf, Arr!SeqOf
<1>2. \E m \in 0..MaxGiven : s \in [1..m -> Element]
  BY DEF Arr!Given, Arr!BoundedSeq, Arr!SeqOf
<1> QED BY <1>1, <1>2

\* CopyAt() of s into a memory that grows to cap cells
Extended(c0, cap, n, s) ==
  [i \in 0..cap-1 |-> IF i \in n..n+Len(s)-1 THEN s[i-n+1]
                      ELSE IF i \in DOMAIN c0 THEN c0[i] ELSE Arr!Junk]

\* Elements at the end of n others, in a memory of cap cells
LEMMA AddedAt ==
  ASSUME NEW s \in Seq(Element), NEW c0, NEW cap0, NEW n, Holds(c0, cap0, n),
         NEW cap \in Nat \ {0}, cap >= n + Len(s), NEW c, c = Extended(c0, cap, n, s)
  PROVE  /\ Holds(c, cap, n + Len(s))
         /\ Listed(c, n + Len(s)) = Listed(c0, n) \o s
PROOF
<1>1. PICK k \in Nat : k = Len(s)
  BY LenProperties
<1>2. n \in 0..cap0 /\ cap0 \in Nat /\ DOMAIN c0 = 0..cap0-1 /\ \A i \in 0..n-1 : c0[i] \in Element
  BY DEF Holds
<1>3. \A i \in n..n+k-1 : i \in 0..cap-1 /\ c[i] = s[i-n+1]
  BY <1>1, <1>2 DEF Extended
<1>4. \A i \in 0..n-1 : i \in 0..cap-1 /\ c[i] = c0[i]
  BY <1>1, <1>2 DEF Extended
<1>5. Holds(c, cap, n + k)
  <2>1. \A i \in 0..(n+k)-1 : c[i] \in Element
    <3>1. ASSUME NEW i \in 0..(n+k)-1  PROVE c[i] \in Element
      <4>1. CASE i < n
        <5>1. i \in 0..n-1
          BY <1>2, <4>1
        <5> QED BY <1>2, <1>4, <5>1
      <4>2. CASE ~(i < n)
        <5>1. i - n + 1 \in 1..k /\ i \in n..n+k-1
          BY <1>2, <4>2
        <5> QED BY <1>1, <1>3, <5>1
      <4> QED BY <4>1, <4>2
    <3> QED BY <3>1
  <2>2. n + k \in 0..cap
    BY <1>1, <1>2
  <2>3. DOMAIN c = 0..cap-1 /\ c = [i \in 0..cap-1 |-> c[i]]
    BY DEF Extended
  <2> QED BY <2>1, <2>2, <2>3 DEF Holds
<1>6. PICK p, q : p = Listed(c0, n) /\ q = Listed(c, n + k)
  OBVIOUS
<1>7. p \in Seq(Element) /\ Len(p) = n /\ \A i \in 1..n : p[i] = c0[i-1]
  BY <1>6, ListedIs DEF ListIs
<1>8. q \in Seq(Element) /\ Len(q) = n + k /\ \A i \in 1..n+k : q[i] = c[i-1]
  BY <1>5, <1>6, ListedIs DEF ListIs
<1>9. JoinOf(Element, p, s, p \o s)
  BY <1>7, Concatenated
<1>10. PICK r : r = p \o s
  OBVIOUS
<1>11. /\ r \in Seq(Element) /\ Len(r) = n + k
       /\ \A i \in 1..n : r[i] = p[i]
       /\ \A i \in n+1..n+k : r[i] = s[i-n]
  BY <1>1, <1>7, <1>9, <1>10 DEF JoinOf
<1>12. ASSUME NEW i \in 1..n+k  PROVE q[i] = r[i]
  <2>1. CASE i <= n
    <3>1. i \in 1..n /\ i - 1 \in 0..n-1
      BY <1>2, <2>1
    <3> QED BY <1>4, <1>7, <1>8, <1>11, <3>1
  <2>2. CASE ~(i <= n)
    <3>1. i \in n+1..n+k /\ i - 1 \in n..n+k-1 /\ (i - 1) - n + 1 = i - n
      BY <1>2, <2>2
    <3>2. q[i] = c[i-1]
      BY <1>8
    <3> QED BY <1>3, <1>11, <3>1, <3>2
  <2> QED BY <2>1, <2>2
<1>13. q = r
  BY <1>8, <1>11, <1>12, SeqEqual
<1> QED BY <1>1, <1>5, <1>6, <1>10, <1>13

\* Elements in the place of others
LEMMA SetAt ==
  ASSUME NEW s \in Seq(Element), NEW c0, NEW cap, NEW n, Holds(c0, cap, n),
         NEW x \in 0..n-1, Len(s) <= n - x, NEW c, c = Arr!CopyAt(c0, x, s)
  PROVE  /\ Holds(c, cap, n)
         /\ Listed(c, n) = [j \in DOMAIN Listed(c0, n) |->
                              IF j \in x+1..x+1+Len(s)-1 THEN s[j-(x+1)+1]
                                                         ELSE Listed(c0, n)[j]]
PROOF
<1>1. PICK k \in Nat : k = Len(s)
  BY LenProperties
<1>2. n \in 0..cap /\ cap \in Nat /\ DOMAIN c0 = 0..cap-1 /\ \A i \in 0..n-1 : c0[i] \in Element
  BY DEF Holds
<1>3. \A i \in 0..cap-1 : c[i] = IF i \in x..x+k-1 THEN s[i-x+1] ELSE c0[i]
  BY <1>1, <1>2 DEF Arr!CopyAt
<1>4. Holds(c, cap, n)
  <2>1. ASSUME NEW i \in 0..n-1  PROVE c[i] \in Element
    <3>1. CASE i \in x..x+k-1
      <4>1. i - x + 1 \in 1..k /\ i \in 0..cap-1
        BY <1>2, <3>1
      <4> QED BY <1>1, <1>3, <3>1, <4>1
    <3>2. CASE i \notin x..x+k-1
      BY <1>2, <1>3, <3>2
    <3> QED BY <3>1, <3>2
  <2>2. DOMAIN c = 0..cap-1 /\ c = [i \in 0..cap-1 |-> c[i]]
    BY <1>2 DEF Arr!CopyAt
  <2> QED BY <1>2, <2>1, <2>2 DEF Holds
<1>5. DOMAIN Listed(c0, n) = 1..n /\ \A j \in 1..n : Listed(c0, n)[j] = c0[j-1]
  BY DEF Listed
<1>6. ASSUME NEW j \in 1..n
      PROVE  c[j-1] = IF j \in x+1..x+1+k-1 THEN s[j-(x+1)+1] ELSE c0[j-1]
  <2>1. j - 1 \in 0..cap-1 /\ (j - 1) - x + 1 = j - (x+1) + 1
    BY <1>2
  <2>2. j - 1 \in x..x+k-1 <=> j \in x+1..x+1+k-1
    BY <1>2
  <2> QED BY <1>3, <2>1, <2>2
<1>7. Listed(c, n) = [j \in 1..n |-> IF j \in x+1..x+1+k-1 THEN s[j-(x+1)+1] ELSE c0[j-1]]
  BY <1>6 DEF Listed
<1> QED BY <1>1, <1>4, <1>5, <1>7

\* The first of them, and n of them from a place on
LEMMA PartIs ==
  ASSUME NEW c, NEW cap, NEW n, Holds(c, cap, n), NEW x \in 0..n, NEW k \in 0..n-x
  PROVE  SubSeq(Listed(c, n), x + 1, x + 1 + k - 1) = [i \in 1..k |-> c[x+i-1]]
PROOF
<1>1. PICK p, m : p = Listed(c, n) /\ m = x + 1 + k - 1
  OBVIOUS
<1>2. p \in Seq(Element) /\ Len(p) = n /\ \A i \in 1..n : p[i] = c[i-1]
  BY <1>1, ListedIs DEF ListIs
<1>3. n \in Nat /\ m \in 0..n /\ m = x + k
  BY <1>1 DEF Holds
<1>4. /\ SubSeq(p, x + 1, m) \in Seq(Element) /\ Len(SubSeq(p, x + 1, m)) = k
      /\ \A i \in 1..k : SubSeq(p, x + 1, m)[i] = p[x+i]
  BY <1>2, <1>3, SubSeqProperties
<1>5. PICK q : q = SubSeq(p, x + 1, m)
  OBVIOUS
<1>6. ASSUME NEW i \in 1..k  PROVE q[i] = c[x+i-1]
  <2>1. PICK j \in 1..n : j = x + i /\ x + i - 1 = j - 1
    BY <1>3
  <2>2. q[i] = p[j]
    BY <1>4, <1>5, <2>1
  <2>3. p[j] = c[j-1]
    BY <1>2
  <2> QED BY <2>1, <2>2, <2>3
<1>7. q = [i \in 1..k |-> q[i]]
  BY <1>4, <1>5
<1> QED BY <1>1, <1>5, <1>6, <1>7

\* c with n cells from x + 1 on moved down by one place
MovedDown(c, cap, x, n) == [i \in 0..cap-1 |-> IF i \in x..x+n-1 THEN c[i+1] ELSE c[i]]

\* One step of the copy
CopyOne(c, x, k) == [c EXCEPT ![x+k-1] = c[(x+1)+k-1]]

IsCopy(f, c, x, n) ==
  f = [k \in 0..n |-> IF k = 0 THEN c ELSE CopyOne(f[k-1], x, k)]

\* The places of one step of the copy, within the array
LEMMA CopyPlaces ==
  ASSUME NEW cap \in Nat, NEW x \in Nat, NEW n \in Nat, x + n < cap, NEW k \in 1..n
  PROVE  /\ x + k - 1 \in 0..cap-1 /\ x + 1 + k - 1 \in 0..cap-1
         /\ (x+1)+k-1 = (x+k-1)+1
         /\ x + 1 + k - 1 \notin x..x+(k-1)-1
PROOF
<1>1. k \in Int /\ 1 <= k /\ k <= n
  OBVIOUS
<1>2. x + k - 1 \in 0..cap-1
  BY <1>1
<1>3. x + 1 + k - 1 \in 0..cap-1
  BY <1>1
<1>4. (x+1)+k-1 = (x+k-1)+1
  BY <1>1
<1>5. x + 1 + k - 1 \notin x..x+(k-1)-1
  BY <1>1
<1> QED BY <1>2, <1>3, <1>4, <1>5

LEMMA MovesOne ==
  ASSUME NEW c, NEW cap \in Nat, DOMAIN c = 0..cap-1, c = [i \in 0..cap-1 |-> c[i]],
         NEW x \in Nat, NEW n \in Nat, x + n < cap
  PROVE  /\ MovedDown(c, cap, x, 0) = c
         /\ \A k \in 1..n : MovedDown(c, cap, x, k) = CopyOne(MovedDown(c, cap, x, k-1), x, k)
PROOF
<1>1. MovedDown(c, cap, x, 0) = c
  <2>1. \A i \in 0..cap-1 : i \notin x..x+0-1
    OBVIOUS
  <2> QED BY <2>1 DEF MovedDown
<1>2. ASSUME NEW k \in 1..n
      PROVE  MovedDown(c, cap, x, k) = CopyOne(MovedDown(c, cap, x, k-1), x, k)
  <2>1. x + k - 1 \in 0..cap-1 /\ x + 1 + k - 1 \in 0..cap-1 /\ (x+1)+k-1 = (x+k-1)+1
        /\ x + 1 + k - 1 \notin x..x+(k-1)-1
    BY CopyPlaces
  <2>2. PICK p, q : p = MovedDown(c, cap, x, k-1) /\ q = MovedDown(c, cap, x, k)
    OBVIOUS
  <2>3. p = [i \in 0..cap-1 |-> p[i]] /\ q = [i \in 0..cap-1 |-> q[i]] /\ DOMAIN p = 0..cap-1
    BY <2>2 DEF MovedDown
  <2>4. p[(x+1)+k-1] = c[(x+k-1)+1]
    BY <2>1, <2>2 DEF MovedDown
  <2>5. \A i \in 0..cap-1 : i \in x..x+k-1 <=> (i \in x..x+(k-1)-1 \/ i = x+k-1)
    OBVIOUS
  <2>6. ASSUME NEW i \in 0..cap-1
        PROVE  q[i] = IF i = x+k-1 THEN p[(x+1)+k-1] ELSE p[i]
    BY <2>1, <2>2, <2>4, <2>5 DEF MovedDown
  <2>7. q = [p EXCEPT ![x+k-1] = p[(x+1)+k-1]]
    BY <2>1, <2>3, <2>6
  <2> QED BY <2>2, <2>7 DEF CopyOne
<1> QED BY <1>1, <1>2

\* memcpy() down by one place, one element after the other, moves all of them.
LEMMA CopiedDown ==
  ASSUME NEW c, NEW cap \in Nat, DOMAIN c = 0..cap-1, c = [i \in 0..cap-1 |-> c[i]],
         NEW x \in Nat, NEW n \in Nat, x + n < cap
  PROVE  Arr!CopyWithin(c, x, x + 1, n) = MovedDown(c, cap, x, n)
PROOF
<1> DEFINE After(k) == MovedDown(c, cap, x, k)
<1>1. After(0) = c
  BY MovesOne
<1>2. \A k \in 1..n : After(k) = CopyOne(After(k-1), x, k)
  BY MovesOne
<1> HIDE DEF After
<1>3. IsCopy([k \in 0..n |-> After(k)], c, x, n)
  <2>1. PICK f : f = [k \in 0..n |-> After(k)]
    OBVIOUS
  <2>2. ASSUME NEW k \in 0..n
        PROVE  f[k] = IF k = 0 THEN c ELSE CopyOne(f[k-1], x, k)
    <3>1. CASE k = 0
      BY <1>1, <2>1, <3>1
    <3>2. CASE k # 0
      <4>1. k \in 1..n /\ k - 1 \in 0..n
        BY <3>2
      <4>2. f[k-1] = After(k-1) /\ f[k] = After(k)
        BY <2>1, <4>1
      <4> QED BY <1>2, <3>2, <4>1, <4>2
    <3> QED BY <3>1, <3>2
  <2> QED BY <2>1, <2>2 DEF IsCopy
<1>4. ASSUME NEW f, IsCopy(f, c, x, n)  PROVE f[n] = After(n)
  <2> DEFINE Bad == {k \in Nat : k <= n /\ f[k] # After(k)}
  <2>1. \A k \in 0..n : f[k] = IF k = 0 THEN c ELSE CopyOne(f[k-1], x, k)
    BY <1>4 DEF IsCopy
  <2>2. CASE Bad # {}
    <3>1. PICK k \in Bad : \A j \in Bad : k <= j
      BY <2>2, LeastOfSome
    <3>2. k \in Nat /\ k <= n /\ f[k] # After(k)
      BY <3>1
    <3>3. f[0] = c
      BY <2>1
    <3>4. k # 0
      BY <1>1, <3>2, <3>3
    <3>5. k - 1 \in Nat /\ k - 1 <= n /\ ~(k <= k - 1) /\ k \in 1..n /\ k \in 0..n
      BY <3>2, <3>4
    <3>6. f[k-1] = After(k-1)
      BY <3>1, <3>5
    <3>7. f[k] = CopyOne(f[k-1], x, k)
      BY <2>1, <3>4, <3>5
    <3> QED BY <1>2, <3>2, <3>5, <3>6, <3>7
  <2>3. CASE Bad = {}
    BY <2>3
  <2> QED BY <2>2, <2>3
<1>5. IsCopy(CHOOSE f : IsCopy(f, c, x, n), c, x, n)
  BY <1>3
<1>6. Arr!CopyWithin(c, x, x + 1, n) = (CHOOSE f : IsCopy(f, c, x, n))[n]
  BY Zenon DEF Arr!CopyWithin, IsCopy, CopyOne
<1> QED BY <1>4, <1>5, <1>6 DEF After

\* What is left when an element leaves is the list without it.
LEMMA Deleted ==
  ASSUME NEW c0, NEW cap, NEW n, Holds(c0, cap, n), NEW x \in 0..n-1, NEW c,
         c = Arr!CopyWithin(c0, x, x + 1, n - (x + 1))
  PROVE  /\ Holds(c, cap, n - 1)
         /\ Listed(c, n - 1) = Skipping(Listed(c0, n), x + 1)
PROOF
<1>1. /\ n \in 0..cap /\ cap \in Nat \ {0}
      /\ DOMAIN c0 = 0..cap-1 /\ c0 = [i \in 0..cap-1 |-> c0[i]]
      /\ \A i \in 0..n-1 : c0[i] \in Element
  BY Zenon DEF Holds
<1>2. PICK m \in Nat : m = n - (x + 1)
  BY <1>1
<1>3. c = MovedDown(c0, cap, x, m)
  <2>1. cap \in Nat /\ x \in Nat /\ x + m < cap /\ c = Arr!CopyWithin(c0, x, x + 1, m)
    BY <1>1, <1>2
  <2> QED BY <1>1, <2>1, CopiedDown
<1>4. \A i \in 0..n-2 : i \in 0..cap-1 /\ c[i] = IF i < x THEN c0[i] ELSE c0[i+1]
  <2>1. n \in Nat
    BY <1>1
  <2>2. ASSUME NEW i \in 0..n-2
        PROVE  i \in 0..cap-1 /\ (i \in x..x+m-1 <=> ~(i < x))
    BY <1>1, <1>2, <2>1
  <2> QED BY <1>3, <2>2 DEF MovedDown
<1>5. Holds(c, cap, n - 1)
  <2>1. ASSUME NEW i \in 0..(n-1)-1  PROVE c[i] \in Element
    <3>1. i \in 0..n-2 /\ i \in 0..n-1 /\ i + 1 \in 0..n-1
      BY <1>1
    <3> QED BY <1>1, <1>4, <3>1
  <2>2. n - 1 \in 0..cap
    BY <1>1
  <2>3. DOMAIN c = 0..cap-1 /\ c = [i \in 0..cap-1 |-> c[i]]
    BY <1>3 DEF MovedDown
  <2> QED BY <1>1, <2>1, <2>2, <2>3 DEF Holds
<1>6. PICK p, q, r : p = Listed(c0, n) /\ q = Listed(c, n - 1) /\ r = Skipping(p, x + 1)
  OBVIOUS
<1>7. p \in Seq(Element) /\ Len(p) = n /\ \A i \in 1..n : p[i] = c0[i-1]
  BY <1>6, ListedIs DEF ListIs
<1>8. q \in Seq(Element) /\ Len(q) = n - 1 /\ \A i \in 1..n-1 : q[i] = c[i-1]
  BY <1>5, <1>6, ListedIs DEF ListIs
<1>9. OneLess(Element, p, n, x + 1, r)
  <2>1. x + 1 \in 1..n
    BY <1>1
  <2> QED BY <1>1, <1>6, <1>7, <2>1, Removed
<1>10. /\ r \in Seq(Element) /\ Len(r) = n - 1
       /\ \A i \in 1..(x+1)-1 : r[i] = p[i]
       /\ \A i \in x+1..n-1 : r[i] = p[i+1]
  BY <1>9, Zenon DEF OneLess
<1>11. ASSUME NEW i \in 1..n-1  PROVE q[i] = r[i]
  <2>1. i - 1 \in 0..n-2 /\ q[i] = c[i-1]
    BY <1>1, <1>8
  <2>2. CASE i - 1 < x
    <3>1. i \in 1..(x+1)-1 /\ i \in 1..n
      BY <1>1, <2>2
    <3> QED BY <1>4, <1>7, <1>10, <2>1, <2>2, <3>1
  <2>3. CASE ~(i - 1 < x)
    <3>1. i \in x+1..n-1 /\ i + 1 \in 1..n /\ (i + 1) - 1 = (i - 1) + 1
      BY <1>1, <2>3
    <3>2. r[i] = c0[(i-1)+1]
      BY <1>7, <1>10, <3>1
    <3> QED BY <1>4, <2>1, <2>3, <3>2
  <2> QED BY <2>2, <2>3
<1>12. q = r
  BY <1>8, <1>10, <1>11, SeqEqual
<1> QED BY <1>5, <1>6, <1>12

-----------------------------------------------------------------------------
LEMMA VecIs ==
  /\ ~ended => Vec = Listed(cells, length)
  /\ ~ended' => Vec' = Listed(cells', length')
  /\ ended' => Vec' = <<>>
PROOF
<1>1. Arr!Elements(0, length) = Listed(cells, length)
  BY ElementsAre
<1>2. Arr!Elements(0, length)' = Listed(cells', length')
  BY ElementsAre
<1> QED BY <1>1, <1>2, Zenon DEF Vec

\* The list of a memory that holds it
LEMMA VecList ==
  ASSUME ArrayInv, ~ended
  PROVE  /\ Vec = Listed(cells, length) /\ Vec \in Seq(Element) /\ Len(Vec) = length
         /\ length \in Nat /\ DOMAIN Vec = 1..length
         /\ \E cap : Holds(cells, cap, length)
PROOF
<1>1. PICK cap : Holds(cells, cap, length)
  BY DEF ArrayInv, ArrayOk
<1>2. PICK p : p = Vec
  OBVIOUS
<1>3. p = Listed(cells, length)
  BY <1>2, VecIs
<1>4. p \in Seq(Element) /\ Len(p) = length
  BY <1>1, <1>3, ListedIs DEF ListIs
<1>5. length \in Nat
  BY <1>1 DEF Holds
<1>6. DOMAIN p = 1..length
  BY <1>4
<1> QED BY <1>1, <1>2, <1>3, <1>4, <1>5, <1>6, Zenon

\* A step of an array after which it holds n elements, the list r
LEMMA BecomeIs ==
  ASSUME ArrayInv, ~ended, inKernel' = inKernel, ended' = ended,
         NEW cap, Holds(cells', cap, length'), NEW out, freed' = out, got' = <<>>
  PROVE  ArrayInv' /\ Vct!Become(Listed(cells', length'), out)
PROOF
<1>1. ArrayInv'
  BY Zenon DEF ArrayInv, ArrayOk
<1>2. Vec' = Listed(cells', length')
  BY VecIs, Zenon
<1> QED BY <1>1, <1>2, Zenon DEF Vct!Become, Vec

LEMMA GiveIs ==
  ASSUME ArrayInv, ~ended, inKernel' = inKernel, ended' = ended,
         NEW cap, Holds(cells', cap, length'), NEW g, freed' = <<>>, got' = g
  PROVE  ArrayInv' /\ Vct!Give(Listed(cells', length'), g)
PROOF
<1>1. ArrayInv'
  BY Zenon DEF ArrayInv, ArrayOk
<1>2. Vec' = Listed(cells', length')
  BY VecIs, Zenon
<1> QED BY <1>1, <1>2, Zenon DEF Vct!Give, Vec

\* The array is freed, its process exits, or its memory has run out.
LEMMA LeaveIs ==
  ASSUME ArrayInv, ~ended, inKernel' = inKernel, ended' = TRUE,
         cells' = cells, length' = length, freed' \in {<<>>, Vec}, got' = <<>>
  PROVE  ArrayInv' /\ Vct!Leave
PROOF
<1>1. ArrayInv'
  BY Zenon DEF ArrayInv, ArrayOk
<1>2. Vec' = <<>>
  BY VecIs, Zenon
<1> QED BY <1>1, <1>2, Zenon DEF Vct!Leave, Vec

\* exitWithError(), or the kernel's array as it was
LEMMA RefusedIs ==
  ASSUME ArrayInv, ~ended, Arr!Refused
  PROVE  ArrayInv' /\ (Vct!Leave \/ (inKernel /\ Vct!Refuse))
PROOF
<1>1. /\ freed' = <<>> /\ got' = <<>> /\ ended' = ~inKernel
      /\ inKernel' = inKernel /\ cells' = cells /\ length' = length
  BY Zenon DEF Arr!Refused, Arr!Silent, Arr!Out
<1>2. CASE ~inKernel
  BY <1>1, <1>2, LeaveIs, Zenon
<1>3. CASE inKernel
  <2>1. ended' = ended
    BY <1>1, <1>3, Zenon DEF ArrayInv
  <2>2. PICK cap : Holds(cells, cap, length)
    BY Zenon DEF ArrayInv, ArrayOk
  <2>3. Holds(cells', cap, length')
    BY <1>1, <2>2, Zenon
  <2>4. ArrayInv' /\ Vct!Become(Listed(cells', length'), <<>>)
    BY <1>1, <2>1, <2>3, BecomeIs, Zenon
  <2>5. Listed(cells', length') = Vec
    BY <1>1, VecIs, Zenon
  <2> QED BY <1>3, <2>4, <2>5, Zenon DEF Vct!Refuse, Vec
<1> QED BY <1>2, <1>3

LEMMA AddAtIs ==
  ASSUME ArrayInv, ~ended, NEW s \in Seq(Element), NEW cap \in Nat \ {0},
         cap >= length + Len(s), Arr!AddAt(cap, s)
  PROVE  ArrayInv' /\ Vct!Become(Vec \o s, <<>>)
PROOF
<1>1. PICK cap0 : Holds(cells, cap0, length)
  BY DEF ArrayInv, ArrayOk
<1>2. /\ cells' = Arr!CopyAt(Arr!Grown(cap), length, s) /\ length' = length + Len(s)
      /\ freed' = <<>> /\ got' = <<>> /\ inKernel' = inKernel /\ ended' = ended
  BY Zenon DEF Arr!AddAt, Arr!Silent, Arr!Out
<1>3. Arr!CopyAt(Arr!Grown(cap), length, s) = Extended(cells, cap, length, s)
  BY DEF Arr!CopyAt, Arr!Grown, Extended
<1>4. PICK c, n : c = cells' /\ n = length'
  OBVIOUS
<1>5. Holds(c, cap, length + Len(s)) /\ Listed(c, length + Len(s)) = Listed(cells, length) \o s
  BY <1>1, <1>2, <1>3, <1>4, AddedAt
<1>6. Holds(cells', cap, length') /\ Listed(cells', length') = Vec \o s
  BY <1>2, <1>4, <1>5, VecIs
<1> QED BY <1>2, <1>6, BecomeIs

LEMMA PushStep ==
  ASSUME ArrayInv, ~ended, NEW e \in Element, Arr!Push(e)
  PROVE  ArrayInv' /\ (Vct!Append1(e) \/ Vct!Leave)
PROOF
<1>1. PICK cap : Holds(cells, cap, length)
  BY DEF ArrayInv, ArrayOk
<1>2. Arr!Capacity = cap /\ cap \in Nat \ {0} /\ length \in 0..cap
  BY <1>1, CapacityIs DEF Holds
<1>3. PICK s : s = <<e>>
  OBVIOUS
<1>4. s \in Seq(Element) /\ Len(s) = 1
  BY <1>3
<1>5. Vec \in Seq(Element) /\ Vec \o <<e>> = Append(Vec, e)
  BY VecList, AppendIsConcat
<1>6. CASE Arr!OutOfMemory
  <2>1. /\ ended' = TRUE /\ freed' = <<>> /\ got' = <<>>
        /\ inKernel' = inKernel /\ cells' = cells /\ length' = length
    BY <1>6, Zenon DEF Arr!OutOfMemory, Arr!Silent, Arr!Out
  <2> QED BY <2>1, LeaveIs, Zenon
<1>7. ASSUME NEW c \in Nat \ {0}, c >= length + 1, Arr!AddAt(c, <<e>>)
      PROVE  ArrayInv' /\ Vct!Append1(e)
  <2>1. Arr!AddAt(c, s) /\ c >= length + Len(s)
    BY <1>3, <1>4, <1>7
  <2>2. ArrayInv' /\ Vct!Become(Vec \o s, <<>>)
    BY <1>4, <1>7, <2>1, AddAtIs
  <2> QED BY <1>3, <1>5, <2>2, Zenon DEF Vct!Append1, Vec
<1>8. CASE length >= Arr!Capacity
  <2>1. Arr!AddAt(Arr!Doubled, <<e>>) \/ Arr!OutOfMemory
    BY <1>8, Zenon DEF Arr!Push
  <2>2. Arr!Doubled \in Nat \ {0} /\ Arr!Doubled >= length + 1
    BY <1>2, <1>8 DEF Arr!Doubled
  <2> QED BY <1>6, <1>7, <2>1, <2>2
<1>9. CASE ~(length >= Arr!Capacity)
  <2>1. Arr!AddAt(Arr!Capacity, <<e>>)
    BY <1>9, Zenon DEF Arr!Push
  <2>2. Arr!Capacity \in Nat \ {0} /\ Arr!Capacity >= length + 1
    BY <1>2, <1>9
  <2> QED BY <1>7, <2>1, <2>2
<1> QED BY <1>8, <1>9

LEMMA ConcatStep ==
  ASSUME MaxGiven \in Nat, ArrayInv, ~ended, NEW s \in Arr!Given, Arr!Concat(s)
  PROVE  ArrayInv' /\ (Vct!Concat(s) \/ Vct!Leave)
PROOF
<1>1. PICK cap : Holds(cells, cap, length)
  BY DEF ArrayInv, ArrayOk
<1>2. Arr!Capacity = cap /\ cap \in Nat \ {0} /\ length \in 0..cap
  BY <1>1, CapacityIs DEF Holds
<1>3. s \in Seq(Element) /\ Len(s) \in Nat
  BY GivenAre
<1>4. CASE Arr!OutOfMemory
  <2>1. /\ ended' = TRUE /\ freed' = <<>> /\ got' = <<>>
        /\ inKernel' = inKernel /\ cells' = cells /\ length' = length
    BY <1>4, Zenon DEF Arr!OutOfMemory, Arr!Silent, Arr!Out
  <2> QED BY <2>1, LeaveIs, Zenon
<1>5. ASSUME NEW c \in Nat \ {0}, c >= length + Len(s), Arr!AddAt(c, s)
      PROVE  ArrayInv' /\ Vct!Concat(s)
  <2>1. ArrayInv' /\ Vct!Become(Vec \o s, <<>>)
    BY <1>3, <1>5, AddAtIs
  <2> QED BY <2>1, Zenon DEF Vct!Concat, Vec
<1>6. CASE Arr!Capacity < length + Len(s)
  <2>1. Arr!AddAt(length + Len(s), s) \/ Arr!OutOfMemory
    BY <1>6, Zenon DEF Arr!Concat
  <2>2. length + Len(s) \in Nat \ {0} /\ length + Len(s) >= length + Len(s)
    BY <1>2, <1>3, <1>6
  <2> QED BY <1>4, <1>5, <2>1, <2>2
<1>7. CASE ~(Arr!Capacity < length + Len(s))
  <2>1. Arr!AddAt(Arr!Capacity, s)
    BY <1>7, Zenon DEF Arr!Concat
  <2>2. Arr!Capacity \in Nat \ {0} /\ Arr!Capacity >= length + Len(s)
    BY <1>2, <1>3, <1>7
  <2> QED BY <1>5, <2>1, <2>2
<1> QED BY <1>6, <1>7

-----------------------------------------------------------------------------
LEMMA PopStep ==
  ASSUME ArrayInv, ~ended, Arr!Pop
  PROVE  ArrayInv' /\ (Vct!Pop \/ (Vec = <<>> /\ Vct!Refuse))
PROOF
<1>1. PICK cap : Holds(cells, cap, length)
  BY DEF ArrayInv, ArrayOk
<1>2. /\ Vec = Listed(cells, length) /\ Vec \in Seq(Element) /\ Len(Vec) = length
      /\ length \in Nat
  BY VecList
<1>3. inKernel' = inKernel /\ cells' = cells /\ ended' = ended
  BY Zenon DEF Arr!Pop
<1>4. CASE length = 0
  <2>1. length' = length /\ freed' = <<>> /\ got' = <<>>
    BY <1>4, Zenon DEF Arr!Pop, Arr!Silent, Arr!Out
  <2>2. ArrayInv' /\ Vct!Become(Listed(cells', length'), <<>>)
    BY <1>1, <1>3, <2>1, BecomeIs, Zenon
  <2>3. Listed(cells', length') = Vec
    BY <1>2, <1>3, <2>1, Zenon
  <2>4. Vec = <<>>
    BY <1>2, <1>4
  <2> QED BY <2>2, <2>3, <2>4, Zenon DEF Vct!Refuse, Vec
<1>5. CASE length # 0
  <2>1. Arr!RealIdx(-1) = length - 1
    BY <1>2, <1>5 DEF Arr!RealIdx
  <2>2. PICK e : e = cells[length-1]
    OBVIOUS
  <2>3. length' = length - 1 /\ Arr!Popped(e)
    BY <1>5, <2>1, <2>2, Zenon DEF Arr!Pop
  <2>4. Holds(cells, cap, length - 1)
    <3>1. /\ cap \in Nat /\ length \in 0..cap /\ cells = [i \in 0..cap-1 |-> cells[i]]
          /\ \A i \in 0..length-1 : cells[i] \in Element
      BY <1>1 DEF Holds
    <3>2. length - 1 \in 0..cap
      BY <1>2, <1>5, <3>1
    <3>3. \A i \in 0..(length-1)-1 : cells[i] \in Element
      BY <1>2, <3>1
    <3> QED BY <1>1, <3>2, <3>3 DEF Holds
  <2>5. PICK p, q : p = Vec /\ q = Listed(cells, length - 1)
    OBVIOUS
  <2>6. p \in Seq(Element) /\ Len(p) = length /\ \A i \in 1..length : p[i] = cells[i-1]
    BY <1>1, <1>2, <2>5, ListedIs DEF ListIs
  <2>7. q \in Seq(Element) /\ Len(q) = length - 1 /\ \A i \in 1..length-1 : q[i] = cells[i-1]
    BY <2>4, <2>5, ListedIs DEF ListIs
  <2>8. q = SubSeq(p, 1, length - 1)
    <3>1. /\ SubSeq(p, 1, length - 1) \in Seq(Element)
          /\ Len(SubSeq(p, 1, length - 1)) = length - 1
          /\ \A i \in 1..length-1 : SubSeq(p, 1, length - 1)[i] = p[i]
      BY <1>2, <1>5, <2>6, SubSeqProperties
    <3>2. PICK r : r = SubSeq(p, 1, length - 1)
      OBVIOUS
    <3>3. ASSUME NEW i \in 1..length-1 PROVE q[i] = r[i]
      <4>1. i \in 1..length
        BY <1>2
      <4>2. q[i] = cells[i-1]
        BY <2>7
      <4>3. p[i] = cells[i-1]
        BY <2>6, <4>1
      <4>4. SubSeq(p, 1, length - 1)[i] = p[i]
        BY <3>1
      <4>5. r[i] = p[i]
        BY <3>2, <4>4, Zenon
      <4> QED BY <4>2, <4>3, <4>5, Zenon
    <3>4. q = r
      BY <2>7, <3>1, <3>2, <3>3, SeqEqual
    <3> QED BY <3>2, <3>4
  <2>9. p # <<>> /\ p[length] = e
    BY <1>2, <1>5, <2>2, <2>6
  <2>10. Vct!Front(Vec) = q /\ Vct!Last(Vec) = e
    BY <1>2, <2>5, <2>8, <2>9 DEF Vct!Front, Vct!Last
  <2>11. CASE freed' = <<>> /\ got' = <<e>>
    <3>1. ArrayInv' /\ Vct!Give(Listed(cells', length'), <<e>>)
      BY <1>3, <2>3, <2>4, <2>11, GiveIs
    <3>2. ArrayInv' /\ Vct!Give(q, <<e>>)
      BY <1>3, <2>3, <2>5, <3>1
    <3>3. Vct!Pop
      BY <2>5, <2>9, <2>10, <3>2, Zenon DEF Vct!Pop, Vec
    <3> QED BY <3>1, <3>3
  <2>12. CASE freed' = <<e>> /\ got' = <<>>
    <3>1. ArrayInv' /\ Vct!Become(Listed(cells', length'), <<e>>)
      BY <1>3, <2>3, <2>4, <2>12, BecomeIs
    <3>2. ArrayInv' /\ Vct!Become(q, <<e>>)
      BY <1>3, <2>3, <2>5, <3>1
    <3>3. Vct!Pop
      BY <2>5, <2>9, <2>10, <3>2, Zenon DEF Vct!Pop, Vec
    <3> QED BY <3>1, <3>3
  <2> QED BY <2>3, <2>11, <2>12, Zenon DEF Arr!Popped, Arr!Out
<1> QED BY <1>4, <1>5

\* Some elements from one place on
LEMMA SomeAre ==
  ASSUME ArrayInv, ~ended, NEW x \in 0..length-1, NEW k \in 0..length-x
  PROVE  Arr!Elements(x, k) = SubSeq(Vec, x + 1, x + 1 + k - 1)
PROOF
<1>1. Vec = Listed(cells, length) /\ \E cap : Holds(cells, cap, length)
  BY VecList
<1>2. SubSeq(Vec, x + 1, x + 1 + k - 1) = [i \in 1..k |-> cells[x+i-1]]
  <2>1. x \in 0..length
    BY VecList
  <2> QED BY <1>1, <2>1, PartIs
<1> QED BY <1>2 DEF Arr!Elements

LEMMA SetnStep ==
  ASSUME MaxGiven \in Nat, ArrayInv, ~ended, NEW i \in Int,
         NEW s \in Arr!Given, NEW free \in BOOLEAN, Arr!Setn(i, s, free)
  PROVE  /\ ArrayInv'
         /\ \/ Vct!Leave
            \/ Vct!Place(i) = 0 /\ Vct!Refuse
            \/ Vct!Place(i) # 0 /\ Vct!Put(Vct!Place(i), s)
PROOF
<1>1. PICK x : x = Arr!RealIdx(i)
  OBVIOUS
<1>2. x \in -1..length-1 /\ Vct!Place(i) = x + 1 /\ length \in Nat
  BY <1>1, PlaceIs, VecList
<1>3. CASE x < 0
  <2>1. Arr!Refused
    BY <1>1, <1>3, Zenon DEF Arr!Setn
  <2>2. Vct!Place(i) = 0
    BY <1>2, <1>3
  <2> QED BY <2>1, <2>2, RefusedIs, Zenon
<1>4. CASE ~(x < 0)
  <2>1. PICK cap : Holds(cells, cap, length)
    BY VecList
  <2>2. s \in Seq(Element) /\ Len(s) \in Nat
    BY GivenAre
  <2>3. x \in 0..length-1 /\ x >= 0 /\ x + 1 # 0
    BY <1>2, <1>4
  <2>4. Len(s) <= length - x
    BY <1>1, <2>3, Zenon DEF Arr!Setn
  <2>5. PICK out : out = IF free THEN Arr!Elements(x, Len(s)) ELSE <<>>
    OBVIOUS
  <2>6. /\ freed' = out /\ got' = <<>> /\ cells' = Arr!CopyAt(cells, x, s)
        /\ inKernel' = inKernel /\ length' = length /\ ended' = ended
    BY <1>1, <1>4, <2>5, Zenon DEF Arr!Setn, Arr!Out
  <2>7. PICK c : c = cells'
    OBVIOUS
  <2>8. PICK r : r = Listed(c, length)
    OBVIOUS
  <2>9. /\ Holds(c, cap, length)
        /\ r = [j \in DOMAIN Listed(cells, length) |->
                  IF j \in x+1..x+1+Len(s)-1 THEN s[j-(x+1)+1]
                                             ELSE Listed(cells, length)[j]]
    BY <2>1, <2>2, <2>3, <2>4, <2>6, <2>7, <2>8, SetAt
  <2>10. ArrayInv' /\ Vct!Become(r, out)
    BY <2>6, <2>7, <2>8, <2>9, BecomeIs
  <2>11. Vec = Listed(cells, length) /\ Len(Vec) = length
    BY VecList
  <2>12. Vct!Replace(x + 1, s, out)
    BY <2>9, <2>10, <2>11, Zenon DEF Vct!Replace, Vec
  <2>13. out \in {<<>>, SubSeq(Vec, x + 1, x + 1 + Len(s) - 1)}
    <3>1. Len(s) \in 0..length-x
      BY <1>2, <2>2, <2>3, <2>4
    <3>2. Arr!Elements(x, Len(s)) = SubSeq(Vec, x + 1, x + 1 + Len(s) - 1)
      BY <2>3, <3>1, SomeAre
    <3> QED BY <2>5, <3>2, Zenon
  <2>14. x + 1 + Len(s) - 1 <= Len(Vec)
    BY <1>2, <2>2, <2>3, <2>4, <2>11
  <2>15. Vct!Put(x + 1, s)
    BY <2>12, <2>13, <2>14, Zenon DEF Vct!Put, Vec
  <2> QED BY <1>2, <2>3, <2>10, <2>15
<1> QED BY <1>3, <1>4

LEMMA ClearStep ==
  ASSUME ArrayInv, ~ended, Arr!Clear
  PROVE  ArrayInv' /\ Vct!Clear
PROOF
<1>1. PICK cap : Holds(cells, cap, length)
  BY VecList
<1>2. /\ freed' = Arr!Elements(0, length) /\ got' = <<>> /\ length' = 0
      /\ inKernel' = inKernel /\ cells' = cells /\ ended' = ended
  BY Zenon DEF Arr!Clear, Arr!FreeAll, Arr!All, Arr!Out
<1>3. Vec = Arr!Elements(0, length)
  BY Zenon DEF Vec
<1>4. Holds(cells, cap, 0)
  BY <1>1 DEF Holds
<1>5. Listed(cells, 0) = <<>>
  BY <1>4, ListedIs DEF ListIs
<1>6. ArrayInv' /\ Vct!Become(Listed(cells', length'), Vec)
  BY <1>2, <1>3, <1>4, BecomeIs
<1>7. Listed(cells', length') = <<>>
  BY <1>2, <1>5, Zenon
<1> QED BY <1>6, <1>7, Zenon DEF Vct!Clear, Vec

LEMMA FreeStep ==
  ASSUME ArrayInv, ~ended, Arr!Free
  PROVE  ArrayInv' /\ Vct!Leave
PROOF
<1>1. /\ freed' = Arr!Elements(0, length) /\ got' = <<>> /\ ended' = TRUE
      /\ inKernel' = inKernel /\ cells' = cells /\ length' = length
  BY Zenon DEF Arr!Free, Arr!FreeAll, Arr!All, Arr!Out
<1>2. Vec = Arr!Elements(0, length)
  BY Zenon DEF Vec
<1> QED BY <1>1, <1>2, LeaveIs, Zenon

LEMMA DeleteStep ==
  ASSUME ArrayInv, ~ended, NEW i \in Int, Arr!Delete(i)
  PROVE  /\ ArrayInv'
         /\ \/ Vct!Leave
            \/ Vct!Place(i) = 0 /\ Vct!Refuse
            \/ Vct!Place(i) # 0 /\ Vct!Delete(Vct!Place(i))
PROOF
<1>1. PICK x : x = Arr!RealIdx(i)
  OBVIOUS
<1>2. x \in -1..length-1 /\ Vct!Place(i) = x + 1 /\ length \in Nat
  BY <1>1, PlaceIs, VecList
<1>3. CASE x < 0
  <2>1. Arr!Refused
    BY <1>1, <1>3, Zenon DEF Arr!Delete
  <2>2. Vct!Place(i) = 0
    BY <1>2, <1>3
  <2> QED BY <2>1, <2>2, RefusedIs, Zenon
<1>4. CASE ~(x < 0)
  <2>1. PICK cap : Holds(cells, cap, length)
    BY VecList
  <2>2. x \in 0..length-1 /\ x + 1 # 0
    BY <1>2, <1>4
  <2>3. /\ freed' = <<cells[x]>> /\ got' = <<>>
        /\ cells' = Arr!CopyWithin(cells, x, x + 1, length - (x + 1))
        /\ length' = length - 1 /\ inKernel' = inKernel /\ ended' = ended
    BY <1>1, <1>4, Zenon DEF Arr!Delete, Arr!Out
  <2>4. PICK c, n : c = cells' /\ n = length
    OBVIOUS
  <2>5. Holds(c, cap, n - 1) /\ Listed(c, n - 1) = Skipping(Listed(cells, n), x + 1)
    <3>1. n = length /\ c = Arr!CopyWithin(cells, x, x + 1, n - (x + 1))
      BY <2>3, <2>4
    <3> QED BY <2>1, <2>2, <3>1, Deleted
  <2>6. Vec = Listed(cells, length) /\ Len(Vec) = length
    BY VecList
  <2>7. ArrayInv' /\ Vct!Become(Skipping(Vec, x + 1), <<cells[x]>>)
    <3>1. ArrayInv' /\ Vct!Become(Listed(cells', length'), <<cells[x]>>)
      BY <2>3, <2>4, <2>5, BecomeIs
    <3>2. Listed(cells', length') = Skipping(Vec, x + 1)
      BY <2>3, <2>4, <2>5, <2>6
    <3> QED BY <3>1, <3>2
  <2>8. Vec[x+1] = cells[x]
    <3>1. \A j \in 1..length : Vec[j] = cells[j-1]
      BY <2>1, <2>6, ListedIs DEF ListIs
    <3>2. x + 1 \in 1..length /\ (x + 1) - 1 = x
      BY <1>2, <2>2
    <3> QED BY <3>1, <3>2
  <2>9. Vct!RemoveAt(Vec, x + 1) = Skipping(Vec, x + 1)
    BY Zenon DEF Vct!RemoveAt, Skipping
  <2>10. Vct!Delete(x + 1)
    BY <2>7, <2>8, <2>9, Zenon DEF Vct!Delete, Vec
  <2> QED BY <1>2, <2>2, <2>7, <2>10
<1> QED BY <1>3, <1>4

\* A call that only reads
LEMMA ReadsIs ==
  ASSUME ArrayInv, ~ended, NEW g, Arr!Reads(g)
  PROVE  ArrayInv' /\ Vct!Give(Vec, g)
PROOF
<1>1. PICK cap : Holds(cells, cap, length)
  BY VecList
<1>2. /\ freed' = <<>> /\ got' = g /\ cells' = cells
      /\ length' = length /\ inKernel' = inKernel /\ ended' = ended
  BY Zenon DEF Arr!Reads, Arr!Out
<1>3. ArrayInv' /\ Vct!Give(Listed(cells', length'), g)
  BY <1>1, <1>2, GiveIs, Zenon
<1>4. Listed(cells', length') = Vec
  BY <1>2, VecIs, Zenon
<1> QED BY <1>3, <1>4, Zenon

LEMMA GetStep ==
  ASSUME ArrayInv, ~ended, NEW i \in Int, Arr!Get(i)
  PROVE  /\ ArrayInv'
         /\ \/ Vct!Place(i) = 0 /\ Vct!Refuse
            \/ Vct!Place(i) # 0 /\ 1 \in 0..Len(Vec) /\ Vct!Look(Vct!Place(i), 1)
PROOF
<1>1. PICK x : x = Arr!RealIdx(i)
  OBVIOUS
<1>2. x \in -1..length-1 /\ Vct!Place(i) = x + 1 /\ length \in Nat /\ Len(Vec) = length
  BY <1>1, PlaceIs, VecList
<1>3. CASE x < 0
  <2>1. Arr!Reads(<<>>)
    BY <1>1, <1>3, Zenon DEF Arr!Get
  <2>2. ArrayInv' /\ Vct!Give(Vec, <<>>)
    BY <2>1, ReadsIs
  <2>3. Vct!Place(i) = 0
    BY <1>2, <1>3
  <2> QED BY <2>2, <2>3, Zenon DEF Vct!Give, Vct!Refuse, Vct!Become, Vec
<1>4. CASE ~(x < 0)
  <2>1. x \in 0..length-1 /\ x + 1 # 0 /\ 1 \in 0..length /\ 1 \in 0..length-x
        /\ x + 1 + 1 - 1 <= length
    BY <1>2, <1>4
  <2>2. Arr!Reads(<<cells[x]>>)
    BY <1>1, <1>4, Zenon DEF Arr!Get
  <2>3. <<cells[x]>> = Arr!Elements(x, 1)
    BY <2>1 DEF Arr!Elements
  <2>4. <<cells[x]>> = SubSeq(Vec, x + 1, x + 1 + 1 - 1)
    BY <2>1, <2>3, SomeAre, Zenon
  <2>5. ArrayInv' /\ Vct!Give(Vec, SubSeq(Vec, x + 1, x + 1 + 1 - 1))
    BY <2>2, <2>4, ReadsIs
  <2>6. Vct!Look(x + 1, 1)
    BY <1>2, <2>1, <2>5, Zenon DEF Vct!Look, Vec
  <2> QED BY <1>2, <2>1, <2>5, <2>6
<1> QED BY <1>3, <1>4

LEMMA GetnStep ==
  ASSUME ArrayInv, ~ended, NEW i \in Int, NEW n \in Nat, Arr!GetnCopy(i, n)
  PROVE  /\ ArrayInv'
         /\ \/ Vct!Leave
            \/ Vct!Place(i) # 0 /\ n \in 0..Len(Vec) /\ Vct!Look(Vct!Place(i), n)
PROOF
<1>1. PICK x : x = Arr!RealIdx(i)
  OBVIOUS
<1>2. x \in -1..length-1 /\ Vct!Place(i) = x + 1 /\ length \in Nat /\ Len(Vec) = length
  BY <1>1, PlaceIs, VecList
<1>3. ~inKernel
  BY Zenon DEF Arr!GetnCopy
<1>4. CASE x < 0 \/ x + n > length
  <2>1. Arr!Refused
    BY <1>1, <1>4, Zenon DEF Arr!GetnCopy
  <2> QED BY <1>3, <2>1, RefusedIs, Zenon
<1>5. CASE ~(x < 0 \/ x + n > length)
  <2>1. x \in 0..length-1 /\ x + 1 # 0 /\ n \in 0..length /\ n \in 0..length-x
        /\ x + 1 + n - 1 <= length
    BY <1>2, <1>5
  <2>2. Arr!Reads(Arr!Elements(x, n))
    BY <1>1, <1>5, Zenon DEF Arr!GetnCopy
  <2>3. Arr!Elements(x, n) = SubSeq(Vec, x + 1, x + 1 + n - 1)
    BY <2>1, SomeAre
  <2>4. ArrayInv' /\ Vct!Give(Vec, SubSeq(Vec, x + 1, x + 1 + n - 1))
    BY <2>2, <2>3, ReadsIs
  <2>5. Vct!Look(x + 1, n)
    BY <1>2, <2>1, <2>4, Zenon DEF Vct!Look, Vec
  <2> QED BY <1>2, <2>1, <2>4, <2>5
<1> QED BY <1>4, <1>5

LEMMA GetAllStep ==
  ASSUME ArrayInv, ~ended, Arr!GetVanillaArrayCopy
  PROVE  ArrayInv' /\ (Vct!Leave \/ Vct!LookAtAll)
PROOF
<1>1. CASE length = 0 /\ ~inKernel
  <2>1. Arr!Refused
    BY <1>1, Zenon DEF Arr!GetVanillaArrayCopy
  <2> QED BY <1>1, <2>1, RefusedIs, Zenon
<1>2. CASE ~(length = 0 /\ ~inKernel)
  <2>1. Arr!Reads(Arr!Elements(0, length))
    BY <1>2, Zenon DEF Arr!GetVanillaArrayCopy, Arr!All
  <2>2. Arr!Elements(0, length) = Vec
    BY Zenon DEF Vec
  <2>3. ArrayInv' /\ Vct!Give(Vec, Vec)
    BY <2>1, <2>2, ReadsIs
  <2> QED BY <2>3, Zenon DEF Vct!LookAtAll, Vec
<1> QED BY <1>1, <1>2

-----------------------------------------------------------------------------
\* Every call of an array is one of Vector's.
LEMMA ArrayStep ==
  ASSUME MaxGiven \in Nat, MaxLength \in Nat, ArrayInv, Arr!Next
  PROVE  ArrayInv' /\ Vct!Next
PROOF
<1>1. ~ended
  BY Zenon DEF Arr!Next
<1> DEFINE Plain ==
             \/ \E e \in Element : Vct!Append1(e)
             \/ \E s \in Vct!Given : Vct!Concat(s)
             \/ Vct!Clear \/ Vct!Pop \/ Vct!LookAtAll \/ Vct!Leave
             \/ Vec = <<>> /\ Vct!Refuse
           AtPlace(i) ==
             \/ Vct!Leave
             \/ Vct!Place(i) = 0 /\ Vct!Refuse
             \/ /\ Vct!Place(i) # 0
                /\ \/ Vct!Delete(Vct!Place(i))
                   \/ \E s \in Vct!Given : Vct!Put(Vct!Place(i), s)
                   \/ \E n \in 0..Len(Vec) : Vct!Look(Vct!Place(i), n)
<1>2. CASE /\ asked' = {}
           /\ \/ \E e \in Element : Arr!Push(e)
              \/ \E s \in Arr!Given : Arr!Concat(s)
              \/ Arr!Pop \/ Arr!Clear \/ Arr!Free \/ Arr!GetVanillaArrayCopy
  <2>1. ArrayInv' /\ Plain
    <3>1. ASSUME NEW e \in Element, Arr!Push(e)  PROVE ArrayInv' /\ Plain
      BY <1>1, <3>1, PushStep, Zenon
    <3>2. ASSUME NEW s \in Arr!Given, Arr!Concat(s)  PROVE ArrayInv' /\ Plain
      <4>1. ArrayInv' /\ (Vct!Concat(s) \/ Vct!Leave)
        BY <1>1, <3>2, ConcatStep
      <4>2. s \in Vct!Given
        BY <3>2, GivenAre
      <4> QED BY <4>1, <4>2, Zenon
    <3>3. CASE Arr!Pop
      BY <1>1, <3>3, PopStep, Zenon
    <3>4. CASE Arr!Clear
      BY <1>1, <3>4, ClearStep, Zenon
    <3>5. CASE Arr!Free
      BY <1>1, <3>5, FreeStep, Zenon
    <3>6. CASE Arr!GetVanillaArrayCopy
      BY <1>1, <3>6, GetAllStep, Zenon
    <3> QED BY <1>2, <3>1, <3>2, <3>3, <3>4, <3>5, <3>6, Zenon
  <2> QED BY <1>1, <1>2, <2>1, Zenon DEF Vct!Next, Vec
<1>3. ASSUME NEW i \in -MaxLength..MaxLength, asked' = {i},
             \/ Arr!Delete(i) \/ Arr!Get(i)
             \/ \E n \in 0..MaxGiven : Arr!GetnCopy(i, n)
             \/ \E s \in Arr!Given, free \in BOOLEAN : Arr!Setn(i, s, free)
      PROVE  ArrayInv' /\ Vct!Next
  <2>1. i \in Int
    OBVIOUS
  <2>2. ArrayInv' /\ AtPlace(i)
    <3>1. CASE Arr!Delete(i)
      BY <1>1, <2>1, <3>1, DeleteStep, Zenon
    <3>2. CASE Arr!Get(i)
      BY <1>1, <2>1, <3>2, GetStep, Zenon
    <3>3. ASSUME NEW n \in 0..MaxGiven, Arr!GetnCopy(i, n)  PROVE ArrayInv' /\ AtPlace(i)
      <4>1. n \in Nat
        OBVIOUS
      <4> QED BY <1>1, <2>1, <3>3, <4>1, GetnStep, Zenon
    <3>4. ASSUME NEW s \in Arr!Given, NEW free \in BOOLEAN, Arr!Setn(i, s, free)
          PROVE  ArrayInv' /\ AtPlace(i)
      <4>1. s \in Vct!Given
        BY GivenAre
      <4> QED BY <1>1, <2>1, <3>4, <4>1, SetnStep, Zenon
    <3> QED BY <1>3, <3>1, <3>2, <3>3, <3>4, Zenon
  <2> QED BY <1>1, <1>3, <2>2, Zenon DEF Vct!Next, Vec
<1> QED BY <1>2, <1>3, Zenon DEF Arr!Next

\* An array at first, empty or with what the kernel was given
LEMMA ArrayStarts ==
  ASSUME InitialCapacity \subseteq Nat, MaxGiven \in Nat, Arr!Init
  PROVE  ArrayInv /\ Vct!Init
PROOF
<1>1. Arr!Init
  OBVIOUS
<1>2. /\ inKernel \in BOOLEAN /\ freed = <<>> /\ got = <<>> /\ asked = {} /\ ended = FALSE
  BY <1>1, Zenon DEF Arr!Init
<1>3. Holds([i \in 0..0 |-> Arr!Junk], 1, 0)
  BY DEF Holds
<1>4. (\E cap : Holds(cells, cap, length)) /\ Listed(cells, length) \in Vct!Given
  <2>1. CASE /\ \E n \in InitialCapacity : cells = Arr!Memory(IF n = 0 THEN 1 ELSE n)
             /\ length = 0
    <3>1. PICK m \in Nat \ {0} : cells = [i \in 0..m-1 |-> Arr!Junk]
      <4>1. PICK n \in InitialCapacity : cells = Arr!Memory(IF n = 0 THEN 1 ELSE n)
        BY <2>1
      <4>2. (IF n = 0 THEN 1 ELSE n) \in Nat \ {0}
        BY <4>1
      <4> QED BY <4>1, <4>2 DEF Arr!Memory
    <3>2. Holds(cells, m, 0)
      BY <3>1 DEF Holds
    <3>3. Listed(cells, 0) = <<>>
      BY DEF Listed
    <3>4. <<>> \in Arr!Given
      <4>1. 0 \in 0..MaxGiven /\ <<>> \in [1..0 -> Element]
        OBVIOUS
      <4> QED BY <4>1 DEF Arr!Given, Arr!BoundedSeq, Arr!SeqOf
    <3>5. <<>> \in Vct!Given
      BY <3>4, GivenAre
    <3> QED BY <2>1, <3>2, <3>3, <3>5, Zenon
  <2>2. CASE \E s \in Arr!Given : Arr!FromVanillaArray(s)
    <3>1. PICK s \in Arr!Given : Arr!FromVanillaArray(s)
      BY <2>2
    <3>2. s \in Seq(Element) /\ s \in Vct!Given
      BY <3>1, GivenAre
    <3>3. PICK m \in Nat : m = Len(s)
      BY <3>2
    <3>4. PICK cap \in Nat \ {0} : cap >= m /\ cells = Arr!CopyAt(Arr!Memory(cap), 0, s)
      <4>1. s = <<>> => m = 0
        BY <3>3
      <4>2. s # <<>> => m > 0
        BY <3>2, <3>3
      <4>3. cells = Arr!CopyAt(Arr!Memory(IF s = <<>> THEN 1 ELSE Len(s)), 0, s)
        BY <3>1, Zenon DEF Arr!FromVanillaArray
      <4>4. CASE s = <<>>
        <5>1. cells = Arr!CopyAt(Arr!Memory(1), 0, s)
          BY <4>3, <4>4, Zenon
        <5>2. 1 \in Nat \ {0} /\ 1 >= m
          BY <4>1, <4>4
        <5> QED BY <5>1, <5>2, Zenon
      <4>5. CASE s # <<>>
        <5>1. cells = Arr!CopyAt(Arr!Memory(m), 0, s)
          BY <3>3, <4>3, <4>5, Zenon
        <5>2. m \in Nat \ {0} /\ m >= m
          BY <4>2, <4>5
        <5> QED BY <5>1, <5>2, Zenon
      <4> QED BY <4>4, <4>5
    <3>5. length = m
      BY <3>1, <3>3, Zenon DEF Arr!FromVanillaArray
    <3>6. PICK c0 : c0 = [i \in 0..0 |-> Arr!Junk]
      OBVIOUS
    <3>7. cells = Extended(c0, cap, 0, s)
      BY <3>3, <3>4, <3>6 DEF Arr!CopyAt, Arr!Memory, Extended
    <3>8. Holds(c0, 1, 0)
      BY <1>3, <3>6
    <3>9. cap >= 0 + Len(s)
      BY <3>3, <3>4
    <3>10. Holds(cells, cap, 0 + Len(s)) /\ Listed(cells, 0 + Len(s)) = Listed(c0, 0) \o s
      BY <3>2, <3>7, <3>8, <3>9, AddedAt
    <3>11. 0 + Len(s) = m
      BY <3>3
    <3>12. Listed(c0, 0) = <<>>
      BY DEF Listed
    <3>13. <<>> \o s = s
      BY <3>2
    <3> QED BY <3>2, <3>5, <3>10, <3>11, <3>12, <3>13
  <2> QED BY <1>1, <2>1, <2>2, Zenon DEF Arr!Init
<1>5. ArrayInv
  BY <1>2, <1>4, Zenon DEF ArrayInv, ArrayOk
<1>6. Vec = Listed(cells, length)
  BY <1>2, VecIs, Zenon
<1>7. Vct!Init
  BY <1>2, <1>4, <1>6, Zenon DEF Vct!Init, Vec
<1> QED BY <1>5, <1>7

-----------------------------------------------------------------------------
(* The command history of circularHistoryBuffer.c, as in MCLibrary.         *)

CONSTANTS Name, Size
VARIABLES history, returned

SameName(x, y) == x[1] = y[1]
NoEntry == <<"nothing">>

Hist == INSTANCE CommandHistory WITH Same <- SameName
Rec == INSTANCE Recent WITH
         Same <- SameName,
         Element <- Name \X {0, 1},
         list <- Hist!Oldest(history),
         at <- history.toReadBackwards,
         read <- returned,
         dropped <- history.freed

SilentCall(h) == history' = h /\ returned' = NoEntry
ReturningCall(h) == history' = h /\ returned' = Hist!ElementRead(h)
QuietRing(h) == [h EXCEPT !.freed = <<>>]
RememberCall ==
  \E n \in Name, copy \in {0, 1} : SilentCall(Hist!MoveToFrontOrPush(history, <<n, copy>>))

\* What the shell may do to its history
HistoryCall ==
  \/ RememberCall
  \/ SilentCall(Hist!ReadRest(history))
  \/ IF Hist!CanReadNext(history) THEN ReturningCall(Hist!ReadNext(history))
                                  ELSE SilentCall(QuietRing(history))
  \/ IF Hist!CanReadPrev(history) THEN ReturningCall(Hist!ReadPrev(history))
                                  ELSE SilentCall(QuietRing(history))

-----------------------------------------------------------------------------
(* The command history implements Recent.  A ring with its elements is h,   *)
(* and Spot(h, i) the place in it of the i-th oldest.                       *)

Entry == Name \X {0, 1}

HistoryType == [array : Seq(Entry), readIdx : 0..Size-1, writeIdx : 0..Size-1,
                toReadBackwards : 0..Size, freed : Seq(Entry)]

Spot(h, i) == IF h.writeIdx + i <= Len(h.array) THEN h.writeIdx + i
                                                ELSE h.writeIdx + i - Len(h.array)

\* The writing position is behind the last element until the ring is full.
RingOk(h) ==
  /\ h.array \in Seq(Entry) /\ Len(h.array) <= Size
  /\ h.writeIdx \in 0..Size-1 /\ h.writeIdx <= Len(h.array)
  /\ Len(h.array) < Size => h.writeIdx = Len(h.array)

\* Every element is another one for the history.
AllDiffer(s) == \A i, j \in 1..Len(s) : i # j => ~SameName(s[i], s[j])

\* The reader is at the place of the element behind those it has read.
ReaderOk(h) ==
  /\ h.toReadBackwards \in 0..Len(h.array)
  /\ h.readIdx = Spot(h, h.toReadBackwards + 1) - 1

HistoryInv(h) ==
  /\ h \in HistoryType /\ RingOk(h) /\ ReaderOk(h)
  /\ AllDiffer(Hist!Oldest(h))

\* getIncreasedIdxBy(), without the division
LEMMA Increased ==
  ASSUME Size \in Nat \ {0}, NEW h, NEW x \in 0..Size-1
  PROVE  Hist!IncreasedIdx(h, x) = IF x + 1 = Size THEN 0 ELSE x + 1
PROOF
<1>1. CASE x + 1 = Size
  <2>1. Size % Size = 0
    BY SMT
  <2> QED BY <1>1, <2>1 DEF Hist!IncreasedIdx
<1>2. CASE x + 1 # Size
  <2>1. x + 1 \in 0..Size-1
    BY <1>2
  <2>2. (x + 1) % Size = x + 1
    BY <2>1, SMT
  <2> QED BY <1>2, <2>2 DEF Hist!IncreasedIdx
<1> QED BY <1>1, <1>2

LEMMA OldestIs ==
  ASSUME Size \in Nat \ {0}, NEW h, RingOk(h)
  PROVE  /\ Hist!Oldest(h) \in Seq(Entry) /\ Len(Hist!Oldest(h)) = Len(h.array)
         /\ \A i \in 1..Len(h.array) : /\ Spot(h, i) \in 1..Len(h.array)
                                       /\ Hist!Oldest(h)[i] = h.array[Spot(h, i)]
PROOF
<1>1. PICK a, w, o : a = h.array /\ w = h.writeIdx /\ o = Hist!Oldest(h)
  OBVIOUS
<1>2. /\ a \in Seq(Entry) /\ Len(a) \in Nat /\ Len(a) <= Size /\ w \in 0..Size-1 /\ w <= Len(a)
      /\ Len(a) < Size => w = Len(a)
  BY <1>1 DEF RingOk
<1>3. CASE Len(a) < Size
  BY <1>1, <1>2, <1>3 DEF Hist!Oldest, Spot
<1>4. CASE Len(a) = Size
  <2>1. o = SubSeq(a, w + 1, Size) \o SubSeq(a, 1, w)
    <3>1. ~(Len(a) < Size)
      BY <1>4
    <3>2. o = IF Len(a) < Size THEN a ELSE SubSeq(a, w + 1, Size) \o SubSeq(a, 1, w)
      BY <1>1, Zenon DEF Hist!Oldest
    <3> QED BY <3>1, <3>2
  <2>2. /\ SubSeq(a, w+1, Size) \in Seq(Entry) /\ Len(SubSeq(a, w+1, Size)) = Size - w
        /\ \A i \in 1..Size-w : SubSeq(a, w+1, Size)[i] = a[w+i]
    BY <1>2, <1>4, SubSeqProperties
  <2>3. /\ SubSeq(a, 1, w) \in Seq(Entry) /\ Len(SubSeq(a, 1, w)) = w
        /\ \A i \in 1..w : SubSeq(a, 1, w)[i] = a[i]
    BY <1>2, <1>4, SubSeqProperties
  <2>4. PICK p, q : p = SubSeq(a, w+1, Size) /\ q = SubSeq(a, 1, w)
    OBVIOUS
  <2>5. /\ p \in Seq(Entry) /\ Len(p) = Size - w /\ \A i \in 1..Size-w : p[i] = a[w+i]
        /\ q \in Seq(Entry) /\ Len(q) = w /\ \A i \in 1..w : q[i] = a[i]
        /\ o = p \o q
    BY <2>1, <2>2, <2>3, <2>4
  <2>6. JoinOf(Entry, p, q, o)
    <3>1. p \in Seq(Entry) /\ q \in Seq(Entry) /\ o = p \o q
      BY <2>5
    <3> QED BY <3>1, Concatenated, Zenon
  <2>7. Len(o) = Size
    BY <1>2, <2>5, <2>6 DEF JoinOf
  <2>8. ASSUME NEW i \in 1..Size  PROVE Spot(h, i) \in 1..Size /\ o[i] = a[Spot(h, i)]
    <3>1. CASE i <= Size - w
      <4>1. Spot(h, i) = w + i
        BY <1>1, <1>2, <1>4, <3>1 DEF Spot
      <4>2. o[i] = a[w+i]
        <5>1. i \in 1..Len(p) /\ i \in 1..Size-w
          BY <1>2, <2>5, <3>1
        <5> QED BY <2>5, <2>6, <5>1 DEF JoinOf
      <4> QED BY <1>2, <3>1, <4>1, <4>2
    <3>2. CASE ~(i <= Size - w)
      <4>1. Spot(h, i) = i - (Size - w)
        BY <1>1, <1>2, <1>4, <3>2 DEF Spot
      <4>2. i - (Size - w) \in 1..w
        BY <1>2, <3>2
      <4>3. o[i] = q[i - (Size - w)]
        <5>1. i \in Len(p)+1..Len(p)+Len(q)
          BY <1>2, <2>5, <3>2
        <5>2. o[i] = q[i - Len(p)]
          BY <2>6, <5>1 DEF JoinOf
        <5> QED BY <2>5, <5>2
      <4> QED BY <1>2, <2>5, <4>1, <4>2, <4>3
    <3> QED BY <3>1, <3>2
  <2> QED BY <1>1, <1>4, <2>6, <2>7, <2>8 DEF JoinOf
<1> QED BY <1>2, <1>3, <1>4

-----------------------------------------------------------------------------
\* What the calls that put an element in leave: the reader at the end
Held(a, w, f) == [array |-> a, readIdx |-> w, writeIdx |-> w,
                  toReadBackwards |-> Len(a), freed |-> f]

\* Array_find() gives a place of what is one with e, or -1
LEMMA Found ==
  ASSUME NEW a \in Seq(Entry), NEW e \in Entry
  PROVE  /\ Hist!Find(a, e) \in -1..Len(a)-1
         /\ Hist!Find(a, e) >= 0 => SameName(a[Hist!Find(a, e) + 1], e)
         /\ Hist!Find(a, e) < 0 => \A i \in 1..Len(a) : ~SameName(a[i], e)
PROOF
<1> DEFINE I == {i \in 1..Len(a) : SameName(a[i], e)}
<1>1. Hist!Find(a, e) = (IF I # {} THEN Hist!Min(I) ELSE 0) - 1
  BY DEF Hist!Find, Hist!SelectInSeq
<1>2. CASE I = {}
  <2>1. Hist!Find(a, e) = -1
    BY <1>1, <1>2
  <2>2. \A i \in 1..Len(a) : ~SameName(a[i], e)
    BY <1>2
  <2> QED BY <2>1, <2>2
<1>3. CASE I # {}
  <2>1. I \subseteq Nat
    BY LenProperties
  <2>2. PICK m \in I : \A i \in I : m <= i
    <3> HIDE DEF I
    <3> QED BY <1>3, <2>1, LeastOfSome
  <2>3. Hist!Min(I) \in I
    <3> HIDE DEF I
    <3> QED BY <2>2 DEF Hist!Min
  <2>4. PICK k \in I : Hist!Find(a, e) = k - 1
    <3> HIDE DEF I
    <3> QED BY <1>1, <1>3, <2>3
  <2> QED BY <2>4, LenProperties
<1> QED BY <1>2, <1>3

\* A history, by its fields
Ring(x, r, y, t, z) == [array |-> x, readIdx |-> r, writeIdx |-> y,
                        toReadBackwards |-> t, freed |-> z]

\* Array_set()
PutAt(a, i, e) == [a EXCEPT ![i] = e]

\* With another array and writing position, read to the end, and f given back
Rested(h, a, w, f) ==
  [Hist!ReadRest([h EXCEPT !.array = a, !.writeIdx = w]) EXCEPT !.freed = f]

\* The same where the writing position stays
RestedHere(h, a, f) == [Hist!ReadRest([h EXCEPT !.array = a]) EXCEPT !.freed = f]

LEMMA RestIs ==
  ASSUME NEW x, NEW r, NEW y, NEW t, NEW z
  PROVE  Hist!ReadRest(Ring(x, r, y, t, z)) = Ring(x, y, y, Len(x), <<>>)
PROOF
<1>1. PICK g : g = Ring(x, r, y, t, z)
  OBVIOUS
<1>2. PICK g1 : g1 = [g EXCEPT !.readIdx = y]
  OBVIOUS
<1>3. PICK g2 : g2 = [g1 EXCEPT !.toReadBackwards = Len(x)]
  OBVIOUS
<1>4. PICK g3 : g3 = [g2 EXCEPT !.freed = <<>>]
  OBVIOUS
<1>5. g.writeIdx = y /\ g.array = x
  BY <1>1 DEF Ring
<1>6. Hist!ReadRest(g) = g3
  BY <1>2, <1>3, <1>4, <1>5, Zenon DEF Hist!ReadRest
<1>7. g1 = Ring(x, y, y, t, z)
  BY <1>1, <1>2 DEF Ring
<1>8. g2 = Ring(x, y, y, Len(x), z)
  BY <1>3, <1>7 DEF Ring
<1>9. g3 = Ring(x, y, y, Len(x), <<>>)
  BY <1>4, <1>8 DEF Ring
<1> QED BY <1>1, <1>6, <1>9, Zenon

LEMMA Put ==
  ASSUME NEW h \in HistoryType, NEW a, NEW w, NEW f
  PROVE  /\ Rested(h, a, w, f) = Held(a, w, f)
         /\ RestedHere(h, a, f) = Held(a, h.writeIdx, f)
PROOF
<1>1. PICK x, r, y, t, z : h = Ring(x, r, y, t, z)
  BY DEF HistoryType, Ring
<1>2. PICK k : k = [h EXCEPT !.array = a]
  OBVIOUS
<1>3. k = Ring(a, r, y, t, z)
  BY <1>1, <1>2 DEF Ring
<1>4. [h EXCEPT !.array = a, !.writeIdx = w] = [k EXCEPT !.writeIdx = w]
  BY <1>2, Zenon
<1>5. [h EXCEPT !.array = a, !.writeIdx = w] = Ring(a, r, w, t, z)
  BY <1>3, <1>4 DEF Ring
<1>6. h.writeIdx = y
  BY <1>1 DEF Ring
<1>7. PICK k2, g1 : /\ k2 = [h EXCEPT !.array = a, !.writeIdx = w]
                   /\ g1 = Hist!ReadRest(k2)
  OBVIOUS
<1>8. g1 = Ring(a, w, w, Len(a), <<>>)
  <2>1. k2 = Ring(a, r, w, t, z)
    BY <1>5, <1>7
  <2> QED BY <1>7, <2>1, RestIs, SMT
<1>9. [g1 EXCEPT !.freed = f] = Held(a, w, f)
  BY <1>8 DEF Ring, Held
<1>10. Rested(h, a, w, f) = Held(a, w, f)
  BY <1>7, <1>9, Zenon DEF Rested
<1>11. PICK g2 : g2 = Hist!ReadRest(k)
  OBVIOUS
<1>12. g2 = Ring(a, y, y, Len(a), <<>>)
  BY <1>3, <1>11, RestIs, Zenon
<1>13. [g2 EXCEPT !.freed = f] = Held(a, y, f)
  BY <1>12 DEF Ring, Held
<1>14. RestedHere(h, a, f) = Held(a, y, f)
  BY <1>2, <1>11, <1>13, Zenon DEF RestedHere
<1> QED BY <1>6, <1>10, <1>14, Zenon

LEMMA PushIs ==
  ASSUME NEW h \in HistoryType, NEW e \in Entry
  PROVE  Hist!Push(h, e) =
           IF Len(h.array) >= Size
           THEN Held(PutAt(h.array, h.writeIdx + 1, e),
                     Hist!IncreasedIdx(h, h.writeIdx), <<h.array[h.writeIdx + 1]>>)
           ELSE Held(Append(h.array, e), Hist!IncreasedIdx(h, h.writeIdx), <<>>)
PROOF
<1>1. CASE Len(h.array) >= Size
  <2>1. PICK a : a = PutAt(h.array, h.writeIdx + 1, e)
    OBVIOUS
  <2>2. Hist!Push(h, e) =
          Rested(h, a, Hist!IncreasedIdx(h, h.writeIdx), <<h.array[h.writeIdx + 1]>>)
    BY <1>1, <2>1, Zenon DEF Hist!Push, Rested, PutAt
  <2>3. Hist!Push(h, e) =
          Held(a, Hist!IncreasedIdx(h, h.writeIdx), <<h.array[h.writeIdx + 1]>>)
    <3>1. PICK v, f : v = Hist!IncreasedIdx(h, h.writeIdx) /\ f = <<h.array[h.writeIdx + 1]>>
      OBVIOUS
    <3>2. Rested(h, a, v, f) = Held(a, v, f)
      BY Put, SMT
    <3> QED BY <2>2, <3>1, <3>2, Zenon
  <2> QED BY <1>1, <2>1, <2>3
<1>2. CASE ~(Len(h.array) >= Size)
  <2>1. PICK a : a = Append(h.array, e)
    OBVIOUS
  <2>2. Hist!Push(h, e) =
          Rested(h, a, Hist!IncreasedIdx(h, h.writeIdx), <<>>)
    BY <1>2, <2>1, Zenon DEF Hist!Push, Rested, PutAt
  <2>3. Hist!Push(h, e) = Held(a, Hist!IncreasedIdx(h, h.writeIdx), <<>>)
    <3>1. PICK v, f : v = Hist!IncreasedIdx(h, h.writeIdx) /\ f = <<>>
      OBVIOUS
    <3>2. Rested(h, a, v, f) = Held(a, v, f)
      BY Put, SMT
    <3> QED BY <2>2, <3>1, <3>2, Zenon
  <2> QED BY <1>2, <2>1, <2>3
<1> QED BY <1>1, <1>2, Zenon

LEMMA MovedIs ==
  ASSUME NEW h \in HistoryType, NEW e \in Entry,
         NEW x, x = Hist!Find(h.array, e), NEW w, w = h.writeIdx
  PROVE  Hist!MoveToFrontOrPush(h, e) =
           IF x >= 0 /\ x # w
           THEN IF x < w
                THEN Held(PutAt(Hist!ShiftedBack(h.array, x, w), w, e),
                          w, <<h.array[x + 1]>>)
                ELSE Held(PutAt(Hist!ShiftedForward(h.array, x, w), w + 1, e),
                          Hist!IncreasedIdx(h, w), <<h.array[x + 1]>>)
           ELSE Hist!Push(h, e)
PROOF
<1>1. CASE x >= 0 /\ x # w
  <2>1. CASE x < w
    <3>1. PICK a : a = PutAt(Hist!ShiftedBack(h.array, x, w), w, e)
      OBVIOUS
    <3>2. Hist!MoveToFrontOrPush(h, e) =
            RestedHere(h, a, <<h.array[x + 1]>>)
      BY <1>1, <2>1, <3>1, Zenon DEF Hist!MoveToFrontOrPush, RestedHere, PutAt
    <3>3. Hist!MoveToFrontOrPush(h, e) = Held(a, w, <<h.array[x + 1]>>)
      <4>1. PICK f : f = <<h.array[x + 1]>>
        OBVIOUS
      <4>2. RestedHere(h, a, f) = Held(a, h.writeIdx, f)
        BY Put, SMT
      <4> QED BY <3>2, <4>1, <4>2, Zenon
    <3> QED BY <1>1, <2>1, <3>1, <3>3
  <2>2. CASE ~(x < w)
    <3>1. PICK a : a = PutAt(Hist!ShiftedForward(h.array, x, w), w + 1, e)
      OBVIOUS
    <3>2. Hist!MoveToFrontOrPush(h, e) =
            Rested(h, a, Hist!IncreasedIdx(h, w), <<h.array[x + 1]>>)
      BY <1>1, <2>2, <3>1, Zenon DEF Hist!MoveToFrontOrPush, Rested, PutAt
    <3>3. Hist!MoveToFrontOrPush(h, e) =
            Held(a, Hist!IncreasedIdx(h, w), <<h.array[x + 1]>>)
      <4>1. PICK v, f : v = Hist!IncreasedIdx(h, w) /\ f = <<h.array[x + 1]>>
        OBVIOUS
      <4>2. Rested(h, a, v, f) = Held(a, v, f)
        BY Put, SMT
      <4> QED BY <3>2, <4>1, <4>2, Zenon
    <3> QED BY <1>1, <2>2, <3>1, <3>3
  <2> QED BY <2>1, <2>2, Zenon
<1>2. CASE ~(x >= 0 /\ x # w)
  BY <1>2, Zenon DEF Hist!MoveToFrontOrPush
<1> QED BY <1>1, <1>2, Zenon

\* A ring after such a call has the invariant, if its elements are well placed.
LEMMA HeldOk ==
  ASSUME Size \in Nat \ {0}, NEW a, NEW w, NEW f \in Seq(Entry),
         RingOk(Held(a, w, f)), AllDiffer(Hist!Oldest(Held(a, w, f)))
  PROVE  HistoryInv(Held(a, w, f))
PROOF
<1>1. /\ a \in Seq(Entry) /\ Len(a) \in Nat /\ Len(a) <= Size
      /\ w \in 0..Size-1 /\ w <= Len(a) /\ (Len(a) < Size => w = Len(a))
  BY DEF RingOk, Held
<1>2. Held(a, w, f) \in HistoryType
  BY <1>1 DEF Held, HistoryType
<1>3. ReaderOk(Held(a, w, f))
  BY <1>1 DEF ReaderOk, Held, Spot
<1> QED BY <1>2, <1>3 DEF HistoryInv

LEMMA AppendedList ==
  ASSUME Size \in Nat \ {0}, NEW h, NEW g, RingOk(h), RingOk(g), NEW e \in Entry,
         Len(g.array) = Len(h.array) + 1,
         \A i \in 1..Len(h.array) : g.array[Spot(g, i)] = h.array[Spot(h, i)],
         g.array[Spot(g, Len(h.array) + 1)] = e
  PROVE  Hist!Oldest(g) = Append(Hist!Oldest(h), e)
PROOF
<1>1. PICK o, p, n : o = Hist!Oldest(h) /\ p = Hist!Oldest(g) /\ n = Len(h.array)
  OBVIOUS
<1>2. n \in Nat
  BY <1>1 DEF RingOk
<1>3. o \in Seq(Entry) /\ Len(o) = n /\ \A i \in 1..n : o[i] = h.array[Spot(h, i)]
  BY <1>1, OldestIs
<1>4. p \in Seq(Entry) /\ Len(p) = n + 1 /\ \A i \in 1..n+1 : p[i] = g.array[Spot(g, i)]
  BY <1>1, OldestIs
<1>5. Append(o, e) \in Seq(Entry) /\ Len(Append(o, e)) = n + 1
  BY <1>3, AppendProperties
<1>6. ASSUME NEW i \in 1..n+1  PROVE p[i] = Append(o, e)[i]
  <2>1. CASE i = n + 1
    BY <1>1, <1>2, <1>3, <1>4, <2>1, AppendProperties
  <2>2. CASE i # n + 1
    <3>1. i \in 1..n
      BY <1>2, <2>2
    <3>2. Append(o, e)[i] = o[i]
      BY <1>3, <3>1, AppendProperties
    <3> QED BY <1>1, <1>3, <1>4, <3>1, <3>2
  <2> QED BY <2>1, <2>2
<1>7. p = Append(o, e)
  BY <1>4, <1>5, <1>6, SeqEqual
<1> QED BY <1>1, <1>7

\* The n elements of g are those of h without the k-th oldest, and e.
InPlace(h, g, n, k, e) ==
  /\ \A i \in 1..n-1 : g.array[Spot(g, i)]
                         = h.array[Spot(h, IF i < k THEN i ELSE i + 1)]
  /\ g.array[Spot(g, n)] = e

LEMMA RenewedList ==
  ASSUME Size \in Nat \ {0}, NEW h, NEW g, RingOk(h), RingOk(g), NEW e \in Entry,
         NEW n \in Nat, Len(h.array) = n, Len(g.array) = n, NEW k \in 1..n,
         InPlace(h, g, n, k, e)
  PROVE  Hist!Oldest(g) = Append(Skipping(Hist!Oldest(h), k), e)
PROOF
<1>1. PICK o, p, q : /\ o = Hist!Oldest(h) /\ p = Hist!Oldest(g) /\ q = Skipping(o, k)
  OBVIOUS
<1>2. o \in Seq(Entry) /\ Len(o) = n /\ \A i \in 1..n : o[i] = h.array[Spot(h, i)]
  BY <1>1, OldestIs
<1>3. p \in Seq(Entry) /\ Len(p) = n /\ \A i \in 1..n : p[i] = g.array[Spot(g, i)]
  BY <1>1, OldestIs
<1>4. OneLess(Entry, o, n, k, q)
  BY <1>1, <1>2, Removed, Zenon
<1>4a. /\ q \in Seq(Entry) /\ Len(q) = n - 1
       /\ \A i \in 1..k-1 : q[i] = o[i]
       /\ \A i \in k..n-1 : q[i] = o[i+1]
  BY <1>4, Zenon DEF OneLess
<1>5. Append(q, e) \in Seq(Entry) /\ Len(Append(q, e)) = n
  BY <1>4a, AppendProperties
<1>6. ASSUME NEW i \in 1..n  PROVE p[i] = Append(q, e)[i]
  <2>1. CASE i = n
    BY <1>3, <1>4a, <2>1, AppendProperties DEF InPlace
  <2>2. CASE i # n
    <3>1. i \in 1..n-1
      BY <2>2
    <3>2. Append(q, e)[i] = q[i]
      BY <1>4a, <3>1, AppendProperties
    <3>3. p[i] = h.array[Spot(h, IF i < k THEN i ELSE i + 1)]
      BY <1>3, <3>1 DEF InPlace
    <3>4. CASE i < k
      BY <1>2, <1>4a, <3>1, <3>2, <3>3, <3>4
    <3>5. CASE ~(i < k)
      BY <1>2, <1>4a, <3>1, <3>2, <3>3, <3>5
    <3> QED BY <3>4, <3>5
  <2> QED BY <2>1, <2>2
<1>7. p = Append(q, e)
  BY <1>3, <1>5, <1>6, SeqEqual
<1> QED BY <1>1, <1>7

\* What is put in is another one for all that stay.
LEMMA AppendedDiffer ==
  ASSUME NEW o \in Seq(Entry), AllDiffer(o), NEW e \in Entry,
         \A i \in 1..Len(o) : ~SameName(o[i], e)
  PROVE  AllDiffer(Append(o, e))
PROOF
<1>1. PICK n : n = Len(o)
  OBVIOUS
<1>2. n \in Nat /\ Len(Append(o, e)) = n + 1 /\ Append(o, e)[n+1] = e
  BY <1>1, AppendProperties, LenProperties
<1>3. \A i \in 1..n : Append(o, e)[i] = o[i]
  BY <1>1, AppendProperties
<1>4. PICK r : r = Append(o, e)
  OBVIOUS
<1>5. ASSUME NEW i \in 1..n+1, NEW j \in 1..n+1, i # j  PROVE r[i][1] # r[j][1]
  <2>1. i \in 1..n \/ i = n + 1
    BY <1>2
  <2>2. j \in 1..n \/ j = n + 1
    BY <1>2
  <2> QED BY <1>1, <1>2, <1>3, <1>4, <1>5, <2>1, <2>2 DEF AllDiffer, SameName
<1> QED BY <1>2, <1>4, <1>5 DEF AllDiffer, SameName

OthersDiffer(o, k, e) == \A i \in 1..Len(o) : i # k => ~SameName(o[i], e)

LEMMA RenewedDiffer ==
  ASSUME NEW o \in Seq(Entry), AllDiffer(o), NEW e \in Entry, NEW k \in 1..Len(o),
         OthersDiffer(o, k, e)
  PROVE  AllDiffer(Append(Skipping(o, k), e))
PROOF
<1>1. PICK n, q : n = Len(o) /\ q = Skipping(o, k)
  OBVIOUS
<1>2. n \in Nat /\ k \in 1..n
  BY <1>1, LenProperties
<1>3. /\ q \in Seq(Entry) /\ Len(q) = n - 1
      /\ \A i \in 1..k-1 : q[i] = o[i]
      /\ \A i \in k..n-1 : q[i] = o[i+1]
  <2>1. OneLess(Entry, o, n, k, q)
    BY <1>1, <1>2, Removed, Zenon
  <2> QED BY <2>1, Zenon DEF OneLess
<1>4. ASSUME NEW i \in 1..n-1
      PROVE  \E j \in 1..n : j = (IF i < k THEN i ELSE i + 1) /\ j # k /\ q[i] = o[j]
  <2>1. CASE i < k
    BY <1>2, <1>3, <2>1
  <2>2. CASE ~(i < k)
    BY <1>2, <1>3, <2>2
  <2> QED BY <2>1, <2>2
<1>5. AllDiffer(q)
  <2>1. ASSUME NEW i \in 1..n-1, NEW j \in 1..n-1, i # j  PROVE ~SameName(q[i], q[j])
    <3>1. PICK x \in 1..n : x = (IF i < k THEN i ELSE i + 1) /\ q[i] = o[x]
      BY <1>4
    <3>2. PICK y \in 1..n : y = (IF j < k THEN j ELSE j + 1) /\ q[j] = o[y]
      BY <1>4
    <3>3. x # y
      BY <1>2, <2>1, <3>1, <3>2
    <3> QED BY <1>1, <3>1, <3>2, <3>3 DEF AllDiffer
  <2> QED BY <1>3, <2>1 DEF AllDiffer
<1>6. \A i \in 1..Len(q) : ~SameName(q[i], e)
  BY <1>1, <1>3, <1>4 DEF OthersDiffer
<1> QED BY <1>1, <1>3, <1>5, <1>6, AppendedDiffer

-----------------------------------------------------------------------------
\* What Add() of Recent says of the list, o before and p after
Added(o, p, d, e) ==
  \/ \E k \in 1..Len(o) : /\ SameName(o[k], e)
                          /\ p = Append(Skipping(o, k), e) /\ d = <<o[k]>>
  \/ /\ \A i \in 1..Len(o) : ~SameName(o[i], e)
     /\ Len(o) < Size /\ p = Append(o, e) /\ d = <<>>
  \/ /\ \A i \in 1..Len(o) : ~SameName(o[i], e)
     /\ Len(o) = Size /\ p = Append(Tail(o), e) /\ d = <<Head(o)>>

\* What a call with e may make of a history
Kept(h, g, e) ==
  /\ HistoryInv(g)
  /\ Added(Hist!Oldest(h), Hist!Oldest(g), g.freed, e)
  /\ g.toReadBackwards = Len(Hist!Oldest(g))

\* The history is not full, and the element a new one.
LEMMA PutBehind ==
  ASSUME Size \in Nat \ {0}, NEW h, HistoryInv(h), NEW e \in Entry,
         Len(h.array) < Size, \A i \in 1..Len(h.array) : ~SameName(h.array[i], e),
         NEW w, w = IF h.writeIdx + 1 = Size THEN 0 ELSE h.writeIdx + 1
  PROVE  Kept(h, Held(Append(h.array, e), w, <<>>), e)
PROOF
<1>1. PICK a, n, g, o : /\ a = h.array /\ n = Len(a) /\ o = Hist!Oldest(h)
                        /\ g = Held(Append(a, e), w, <<>>)
  OBVIOUS
<1>2. /\ a \in Seq(Entry) /\ n \in Nat /\ n < Size /\ h.writeIdx = n
      /\ h \in HistoryType /\ RingOk(h) /\ AllDiffer(o)
  BY <1>1 DEF HistoryInv, RingOk
<1>3. Append(a, e) \in Seq(Entry) /\ Len(Append(a, e)) = n + 1
  BY <1>1, <1>2, AppendProperties
<1>4. g.array = Append(a, e) /\ g.writeIdx = w /\ g.freed = <<>> /\ g.toReadBackwards = n + 1
  BY <1>1, <1>3 DEF Held
<1>5. RingOk(g)
  BY <1>2, <1>3, <1>4 DEF RingOk
<1>6. \A i \in 1..n+1 : Spot(g, i) = i
  BY <1>2, <1>3, <1>4 DEF Spot
<1>7. \A i \in 1..n : Spot(h, i) = i
  BY <1>1, <1>2 DEF Spot
<1>8. ASSUME NEW i \in 1..n  PROVE g.array[Spot(g, i)] = h.array[Spot(h, i)]
  <2>1. i \in 1..n+1 /\ Append(a, e)[i] = a[i]
    BY <1>1, <1>2, AppendProperties
  <2> QED BY <1>1, <1>4, <1>6, <1>7, <2>1
<1>9. g.array[Spot(g, n + 1)] = e
  <2>1. n + 1 \in 1..n+1 /\ Append(a, e)[n+1] = e
    BY <1>1, <1>2, AppendProperties
  <2> QED BY <1>4, <1>6, <2>1
<1>10. Hist!Oldest(g) = Append(o, e)
  <2>1. \A i \in 1..Len(h.array) : g.array[Spot(g, i)] = h.array[Spot(h, i)]
    BY <1>1, <1>8
  <2> QED BY <1>1, <1>2, <1>3, <1>4, <1>5, <1>9, <2>1, AppendedList
<1>11. /\ o \in Seq(Entry) /\ Len(o) = n
       /\ \A i \in 1..n : Spot(h, i) \in 1..n /\ o[i] = a[Spot(h, i)]
  BY <1>1, <1>2, OldestIs
<1>12. \A i \in 1..n : ~SameName(o[i], e)
  BY <1>1, <1>11
<1>13. AllDiffer(Hist!Oldest(g))
  BY <1>2, <1>10, <1>11, <1>12, AppendedDiffer
<1>14. HistoryInv(g)
  <2>1. PICK b, z : b = Append(a, e) /\ z = <<>>
    OBVIOUS
  <2>2. z \in Seq(Entry) /\ g = Held(b, w, z)
    BY <1>1, <2>1
  <2> QED BY <1>5, <1>13, <2>2, HeldOk
<1>15. Added(o, Hist!Oldest(g), g.freed, e)
  BY <1>2, <1>4, <1>10, <1>11, <1>12 DEF Added
<1>16. g.toReadBackwards = Len(Hist!Oldest(g))
  BY <1>4, <1>10, <1>11, AppendProperties
<1> QED BY <1>1, <1>14, <1>15, <1>16 DEF Kept

\* An element takes the place of the k-th oldest one, and is the newest:
\* either that one is like it, or it is the oldest and none is.
LEMMA PutInstead ==
  ASSUME Size \in Nat \ {0}, NEW h, HistoryInv(h), NEW e \in Entry,
         NEW n \in Nat, Len(h.array) = n, NEW k \in 1..n, NEW b, NEW w,
         RingOk(Held(b, w, <<h.array[Spot(h, k)]>>)), Len(b) = n,
         InPlace(h, Held(b, w, <<h.array[Spot(h, k)]>>), n, k, e),
         \/ SameName(h.array[Spot(h, k)], e)
         \/ k = 1 /\ n = Size /\ \A i \in 1..n : ~SameName(h.array[i], e)
  PROVE  Kept(h, Held(b, w, <<h.array[Spot(h, k)]>>), e)
PROOF
<1>1. PICK a, g, o, d : /\ a = h.array /\ o = Hist!Oldest(h) /\ d = a[Spot(h, k)]
                        /\ g = Held(b, w, <<h.array[Spot(h, k)]>>)
  OBVIOUS
<1>2. /\ g.array = b /\ g.writeIdx = w /\ g.freed = <<d>> /\ g.toReadBackwards = n
  BY <1>1 DEF Held
<1>3. a \in Seq(Entry) /\ RingOk(h) /\ AllDiffer(o) /\ RingOk(g)
  BY <1>1 DEF HistoryInv, RingOk
<1>4. /\ o \in Seq(Entry) /\ Len(o) = n
      /\ \A i \in 1..n : Spot(h, i) \in 1..n /\ o[i] = a[Spot(h, i)]
  BY <1>1, <1>3, OldestIs
<1>5. o[k] = d /\ d \in Entry
  BY <1>1, <1>4
<1>6. Hist!Oldest(g) = Append(Skipping(o, k), e)
  <2>1. InPlace(h, g, n, k, e) /\ Len(g.array) = n /\ RingOk(h) /\ RingOk(g)
    BY <1>1, <1>2, <1>3
  <2>2. Hist!Oldest(g) = Append(Skipping(Hist!Oldest(h), k), e)
    BY <2>1, RenewedList
  <2> QED BY <1>1, <2>2
<1>7. \A i \in 1..n : i # k => ~SameName(o[i], e)
  <2>1. CASE SameName(d, e)
    <3>1. ASSUME NEW i \in 1..n, i # k  PROVE ~SameName(o[i], e)
      <4>1. ~SameName(o[i], o[k])
        BY <1>3, <1>4, <3>1 DEF AllDiffer
      <4> QED BY <1>5, <2>1, <4>1 DEF SameName
    <3> QED BY <3>1
  <2>2. CASE \A i \in 1..n : ~SameName(a[i], e)
    BY <1>4, <2>2
  <2> QED BY <1>1, <2>1, <2>2
<1>8. AllDiffer(Hist!Oldest(g))
  <2>1. OthersDiffer(o, k, e) /\ k \in 1..Len(o)
    BY <1>4, <1>7 DEF OthersDiffer
  <2>2. AllDiffer(Append(Skipping(o, k), e))
    BY <1>3, <1>4, <2>1, RenewedDiffer
  <2> QED BY <1>6, <2>2
<1>9. HistoryInv(g)
  <2>1. <<d>> \in Seq(Entry)
    BY <1>5
  <2> QED BY <1>1, <1>3, <1>8, <2>1, HeldOk
<1>10. Added(o, Hist!Oldest(g), g.freed, e)
  <2>1. CASE SameName(d, e)
    BY <1>2, <1>4, <1>5, <1>6, <2>1 DEF Added
  <2>2. CASE k = 1 /\ n = Size /\ \A i \in 1..n : ~SameName(a[i], e)
    <3>1. \A i \in 1..n : ~SameName(o[i], e)
      BY <1>4, <2>2
    <3>2. Skipping(o, k) = Tail(o)
      <4>1. OneLess(Entry, o, n, 1, Skipping(o, 1))
        BY <1>4, <2>2, Removed
      <4>2. PICK q : q = Skipping(o, 1)
        OBVIOUS
      <4>3. q \in Seq(Entry) /\ Len(q) = n - 1 /\ \A i \in 1..n-1 : q[i] = o[i+1]
        BY <4>1, <4>2 DEF OneLess
      <4>4. o # <<>>
        BY <1>4
      <4>5. /\ Tail(o) \in Seq(Entry) /\ Len(Tail(o)) = n - 1
            /\ \A i \in 1..n-1 : Tail(o)[i] = o[i+1]
        BY <1>4, <4>4, HeadTailProperties
      <4>6. q = Tail(o)
        BY <4>3, <4>5, SeqEqual
      <4> QED BY <2>2, <4>2, <4>6
    <3>3. d = Head(o)
      BY <1>4, <1>5, <2>2, HeadTailProperties
    <3> QED BY <1>2, <1>4, <1>6, <2>2, <3>1, <3>2, <3>3 DEF Added
  <2> QED BY <1>1, <2>1, <2>2
<1>11. g.toReadBackwards = Len(Hist!Oldest(g))
  <2>1. Hist!Oldest(g) \in Seq(Entry) /\ Len(Hist!Oldest(g)) = Len(g.array)
    BY <1>3, OldestIs
  <2> QED BY <1>2, <2>1
<1> QED BY <1>1, <1>9, <1>10, <1>11 DEF Kept

\* b is s with e at its k-th place.
PutIs(s, k, e, b) ==
  /\ b \in Seq(Entry) /\ Len(b) = Len(s)
  /\ \A i \in 1..Len(s) : b[i] = IF i = k THEN e ELSE s[i]

LEMMA PutAtIs ==
  ASSUME NEW s \in Seq(Entry), NEW k \in 1..Len(s), NEW e \in Entry
  PROVE  PutIs(s, k, e, PutAt(s, k, e))
PROOF
  BY ExceptSeq DEF PutAt, PutIs

\* What both moves leave of the n elements of a
BackIs(a, n, x, w, b) ==
  /\ b \in Seq(Entry) /\ Len(b) = n
  /\ \A i \in 1..n : b[i] = IF i - 1 \in x..w-2 THEN a[i+1] ELSE a[i]

ForwardIs(a, n, x, w, f) ==
  /\ f \in Seq(Entry) /\ Len(f) = n
  /\ \A i \in 1..n : f[i] = IF i - 1 \in w+1..x THEN a[i-1] ELSE a[i]

LEMMA ShiftIs ==
  ASSUME NEW a \in Seq(Entry), NEW n, n = Len(a), NEW x \in 0..n-1, NEW w \in 0..n
  PROVE  /\ BackIs(a, n, x, w, Hist!ShiftedBack(a, x, w))
         /\ ForwardIs(a, n, x, w, Hist!ShiftedForward(a, x, w))
PROOF
<1>1. n \in Nat /\ DOMAIN a = 1..n /\ \A i \in 1..n : a[i] \in Entry
  OBVIOUS
<1>2. PICK b, f : /\ b = [i \in 1..n |-> IF i - 1 \in x..w-2 THEN a[i+1] ELSE a[i]]
                  /\ f = [i \in 1..n |-> IF i - 1 \in w+1..x THEN a[i-1] ELSE a[i]]
  OBVIOUS
<1>3. b = Hist!ShiftedBack(a, x, w) /\ f = Hist!ShiftedForward(a, x, w)
  BY <1>1, <1>2, Zenon DEF Hist!ShiftedBack, Hist!ShiftedForward
<1>4. \A i \in 1..n : b[i] = (IF i - 1 \in x..w-2 THEN a[i+1] ELSE a[i]) /\ b[i] \in Entry
  <2>1. \A i \in 1..n : i - 1 \in x..w-2 => i + 1 \in 1..n
    BY <1>1
  <2> QED BY <1>1, <1>2, <2>1
<1>5. \A i \in 1..n : f[i] = (IF i - 1 \in w+1..x THEN a[i-1] ELSE a[i]) /\ f[i] \in Entry
  <2>1. \A i \in 1..n : i - 1 \in w+1..x => i - 1 \in 1..n
    BY <1>1
  <2> QED BY <1>1, <1>2, <2>1
<1>6. b \in Seq(Entry) /\ Len(b) = n /\ f \in Seq(Entry) /\ Len(f) = n
  BY <1>1, <1>2, <1>4, <1>5
<1>7. BackIs(a, n, x, w, b) /\ ForwardIs(a, n, x, w, f)
  BY <1>4, <1>5, <1>6 DEF BackIs, ForwardIs
<1> QED BY <1>3, <1>7

\* CHB_moveToFrontOrPush()
LEMMA Remembered ==
  ASSUME Size \in Nat \ {0}, NEW h, HistoryInv(h), NEW e \in Entry
  PROVE  Kept(h, Hist!MoveToFrontOrPush(h, e), e)
PROOF
<1>1. PICK a, n, w, x, w2 : /\ a = h.array /\ n = Len(a) /\ w = h.writeIdx
                            /\ x = Hist!Find(h.array, e) /\ w2 = Hist!IncreasedIdx(h, w)
  OBVIOUS
<1>2. /\ h \in HistoryType /\ RingOk(h) /\ h.array = a /\ h.writeIdx = w
      /\ a \in Seq(Entry) /\ n \in Nat /\ n <= Size /\ w \in 0..Size-1 /\ w <= n
      /\ (n < Size => w = n) /\ n = Len(a)
  BY <1>1 DEF HistoryInv, RingOk
<1>3. /\ x \in -1..n-1
      /\ x >= 0 => SameName(a[x+1], e)
      /\ x < 0 => \A i \in 1..n : ~SameName(a[i], e)
  BY <1>1, <1>2, Found
<1>4. w2 = IF w + 1 = Size THEN 0 ELSE w + 1
  BY <1>1, <1>2, Increased
<1>5. CASE x >= 0 /\ x < w
  <2>1. Hist!MoveToFrontOrPush(h, e)
          = Held(PutAt(Hist!ShiftedBack(a, x, w), w, e), w, <<a[x+1]>>)
    <3>1. x >= 0 /\ x # w /\ x < w
      BY <1>2, <1>3, <1>5
    <3> QED BY <1>1, <1>2, <3>1, MovedIs
  <2>2. PICK b, k, g : /\ b = PutAt(Hist!ShiftedBack(a, x, w), w, e)
                       /\ k = IF n < Size THEN x + 1 ELSE n - w + x + 1
                       /\ g = Held(b, w, <<a[x+1]>>)
    OBVIOUS
  <2>3. k \in 1..n /\ Spot(h, k) = x + 1
    BY <1>2, <1>3, <1>5, <2>2 DEF Spot
  <2>4. /\ b \in Seq(Entry) /\ Len(b) = n
        /\ \A j \in 1..n : b[j] = IF j = w THEN e
                                  ELSE IF j - 1 \in x..w-2 THEN a[j+1] ELSE a[j]
    <3>1. x \in 0..n-1 /\ w \in 1..n
      BY <1>2, <1>3, <1>5
    <3>2. PICK s : s = Hist!ShiftedBack(a, x, w)
      OBVIOUS
    <3>3. /\ s \in Seq(Entry) /\ Len(s) = n
          /\ \A j \in 1..n : s[j] = IF j - 1 \in x..w-2 THEN a[j+1] ELSE a[j]
      <4>1. BackIs(a, n, x, w, s)
        BY <1>2, <3>1, <3>2, ShiftIs
      <4> QED BY <4>1 DEF BackIs
    <3>4. /\ b \in Seq(Entry) /\ Len(b) = n
          /\ \A j \in 1..n : b[j] = IF j = w THEN e ELSE s[j]
      <4>1. PutIs(s, w, e, b)
        BY <2>2, <3>1, <3>2, <3>3, PutAtIs
      <4> QED BY <3>3, <4>1 DEF PutIs
    <3> QED BY <3>3, <3>4
  <2>5. g.array = b /\ g.writeIdx = w
    BY <2>2 DEF Held
  <2>6. RingOk(g)
    BY <1>2, <2>4, <2>5 DEF RingOk
  <2>7. \A i \in 1..n : Spot(g, i) = Spot(h, i)
    BY <1>2, <2>4, <2>5 DEF Spot
  <2>8. InPlace(h, g, n, k, e)
    <3>1. ASSUME NEW i \in 1..n-1
          PROVE  b[Spot(h, i)] = a[Spot(h, IF i < k THEN i ELSE i + 1)]
      <4>1. CASE i < k
        <5>1. PICK j : j = Spot(h, i)
          OBVIOUS
        <5>2. j \in 1..n /\ j # w /\ ~(j - 1 \in x..w-2)
          BY <1>2, <1>3, <1>5, <2>2, <4>1, <5>1 DEF Spot
        <5> QED BY <2>4, <4>1, <5>1, <5>2
      <4>2. CASE ~(i < k)
        <5>1. PICK j : j = Spot(h, i)
          OBVIOUS
        <5>2. j \in 1..n /\ j # w /\ j - 1 \in x..w-2 /\ Spot(h, i + 1) = j + 1
          <6> DEFINE InSpot(q) == IF w + q <= n THEN w + q ELSE w + q - n
          <6>0. InSpot(i) = j /\ Spot(h, i + 1) = InSpot(i + 1)
            BY <1>2, <5>1 DEF Spot
          <6>1. CASE n < Size
            <7>1. w = n /\ k = x + 1 /\ i >= x + 1 /\ n \in Nat /\ x \in Nat /\ i \in 1..n-1
              BY <1>2, <1>3, <1>5, <2>2, <4>2, <6>1
            <7>2. j = i /\ InSpot(i + 1) = i + 1
              BY <6>0, <7>1
            <7>3. j \in 1..n /\ j # w /\ j - 1 \in x..w-2
              BY <7>1, <7>2
            <7> QED BY <6>0, <7>2, <7>3
          <6>2. CASE n = Size
            <7>1. k = n - w + x + 1 /\ i >= n - w + x + 1
              BY <1>2, <1>3, <2>2, <4>2, <6>2
            <7>2. j = w + i - n /\ Spot(h, i + 1) = w + i + 1 - n
              <8>1. n \in Nat /\ w \in Nat /\ x \in Nat /\ i \in 1..n-1 /\ w <= n
                BY <1>2, <1>3, <1>5
              <8>2. w + i > n /\ w + (i + 1) > n
                BY <7>1, <8>1
              <8>3. InSpot(i) = w + i - n /\ InSpot(i + 1) = w + (i + 1) - n
                BY <8>1, <8>2
              <8> QED BY <6>0, <8>1, <8>3
            <7>3. j - 1 >= x /\ j - 1 <= w - 2 /\ j \in Int /\ x \in Int /\ w \in Int
              <8>1. n \in Int /\ w \in Int /\ x \in Int
                BY <1>2, <1>3
              <8>2. j = w + i - n /\ i >= n - w + x + 1 /\ i <= n - 1 /\ i \in Int
                BY <7>1, <7>2, <8>1
              <8> QED BY <8>1, <8>2
            <7>4. j \in 1..n /\ j # w
              BY <1>2, <1>5, <7>3
            <7>5. Spot(h, i + 1) = j + 1
              BY <1>2, <7>2
            <7> QED BY <7>3, <7>4, <7>5
          <6> QED BY <1>2, <6>1, <6>2
        <5> QED BY <2>4, <4>2, <5>1, <5>2
      <4> QED BY <4>1, <4>2
    <3>2. Spot(h, n) = w /\ w \in 1..n
      BY <1>2, <1>3, <1>5 DEF Spot
    <3>3. b[Spot(h, n)] = e
      BY <2>4, <3>2
    <3> QED BY <1>2, <2>5, <2>7, <3>1, <3>2, <3>3 DEF InPlace
  <2>9. SameName(h.array[Spot(h, k)], e) /\ g = Held(b, w, <<h.array[Spot(h, k)]>>)
    BY <1>2, <1>3, <1>5, <2>2, <2>3
  <2>10. Kept(h, g, e)
    BY <1>2, <2>3, <2>4, <2>6, <2>8, <2>9, PutInstead
  <2> QED BY <1>2, <2>1, <2>2, <2>10
<1>6. CASE x > w
  <2>1. Hist!MoveToFrontOrPush(h, e)
          = Held(PutAt(Hist!ShiftedForward(a, x, w), w + 1, e), w2, <<a[x+1]>>)
    <3>1. x >= 0 /\ x # w /\ ~(x < w)
      BY <1>2, <1>3, <1>6
    <3> QED BY <1>1, <1>2, <3>1, MovedIs
  <2>2. PICK b, k, g : /\ b = PutAt(Hist!ShiftedForward(a, x, w), w + 1, e)
                       /\ k = x - w + 1 /\ g = Held(b, w2, <<a[x+1]>>)
    OBVIOUS
  <2>3. n = Size /\ k \in 1..n /\ Spot(h, k) = x + 1
    BY <1>2, <1>3, <1>6, <2>2 DEF Spot
  <2>4. /\ b \in Seq(Entry) /\ Len(b) = n
        /\ \A j \in 1..n : b[j] = IF j = w + 1 THEN e
                                  ELSE IF j - 1 \in w+1..x THEN a[j-1] ELSE a[j]
    <3>1. x \in 0..n-1 /\ w \in 0..n /\ w + 1 \in 1..n
      BY <1>2, <1>3, <1>6
    <3>2. PICK s : s = Hist!ShiftedForward(a, x, w)
      OBVIOUS
    <3>3. /\ s \in Seq(Entry) /\ Len(s) = n
          /\ \A j \in 1..n : s[j] = IF j - 1 \in w+1..x THEN a[j-1] ELSE a[j]
      <4>1. ForwardIs(a, n, x, w, s)
        BY <1>2, <3>1, <3>2, ShiftIs
      <4> QED BY <4>1 DEF ForwardIs
    <3>4. /\ b \in Seq(Entry) /\ Len(b) = n
          /\ \A j \in 1..n : b[j] = IF j = w + 1 THEN e ELSE s[j]
      <4>1. PutIs(s, w + 1, e, b)
        BY <2>2, <3>1, <3>2, <3>3, PutAtIs
      <4> QED BY <3>3, <4>1 DEF PutIs
    <3> QED BY <3>3, <3>4
  <2>5. g.array = b /\ g.writeIdx = w2
    BY <2>2 DEF Held
  <2>6. RingOk(g)
    BY <1>2, <1>4, <2>3, <2>4, <2>5 DEF RingOk
  <2>7. \A i \in 1..n-1 : Spot(g, i) = Spot(h, i + 1)
    BY <1>2, <1>4, <2>3, <2>4, <2>5 DEF Spot
  <2>8. InPlace(h, g, n, k, e)
    <3>1. ASSUME NEW i \in 1..n-1
          PROVE  b[Spot(h, i + 1)] = a[Spot(h, IF i < k THEN i ELSE i + 1)]
      <4>1. CASE i < k
        <5>1. PICK j : j = Spot(h, i + 1)
          OBVIOUS
        <5>2. j \in 1..n /\ j # w + 1 /\ j - 1 \in w+1..x /\ Spot(h, i) = j - 1
          <6>1. i <= x - w
            BY <1>2, <1>3, <2>2, <4>1
          <6>2. j = w + i + 1 /\ Spot(h, i) = w + i
            BY <1>2, <1>3, <1>6, <5>1, <6>1 DEF Spot
          <6> QED BY <1>2, <1>3, <1>6, <6>1, <6>2
        <5> QED BY <2>4, <4>1, <5>1, <5>2
      <4>2. CASE ~(i < k)
        <5>1. PICK j : j = Spot(h, i + 1)
          OBVIOUS
        <5>2. j \in 1..n /\ j # w + 1 /\ ~(j - 1 \in w+1..x)
          <6>1. i >= x - w + 1
            BY <1>2, <1>3, <2>2, <4>2
          <6>2. j = IF w + i + 1 <= n THEN w + i + 1 ELSE w + i + 1 - n
            BY <1>2, <5>1 DEF Spot
          <6>3. CASE w + i + 1 <= n
            <7>1. j = w + i + 1
              BY <6>2, <6>3
            <7> QED BY <1>2, <1>3, <1>6, <6>1, <6>3, <7>1
          <6>4. CASE ~(w + i + 1 <= n)
            <7>1. j = w + i + 1 - n
              BY <6>2, <6>4
            <7> QED BY <1>2, <1>3, <1>6, <6>1, <6>4, <7>1
          <6> QED BY <6>3, <6>4
        <5> QED BY <2>4, <4>2, <5>1, <5>2
      <4> QED BY <4>1, <4>2
    <3>2. Spot(g, n) = w + 1 /\ w + 1 \in 1..n
      BY <1>2, <1>4, <2>3, <2>4, <2>5 DEF Spot
    <3>3. b[Spot(g, n)] = e
      BY <2>4, <3>2
    <3> QED BY <1>2, <2>5, <2>7, <3>1, <3>3 DEF InPlace
  <2>9. SameName(h.array[Spot(h, k)], e) /\ g = Held(b, w2, <<h.array[Spot(h, k)]>>)
    BY <1>2, <1>3, <1>6, <2>2, <2>3
  <2>10. Kept(h, g, e)
    BY <1>2, <2>3, <2>4, <2>6, <2>8, <2>9, PutInstead
  <2> QED BY <1>2, <2>1, <2>2, <2>10
<1>7. CASE x = w \/ x < 0
  <2>1. Hist!MoveToFrontOrPush(h, e) = Hist!Push(h, e)
    <3>1. ~(x >= 0 /\ x # w)
      BY <1>2, <1>3, <1>7
    <3> QED BY <1>1, <1>2, <3>1, MovedIs
  <2>2. CASE n < Size
    <3>1. Hist!Push(h, e) = Held(Append(a, e), w2, <<>>)
      <4>1. ~(n >= Size)
        BY <1>2, <2>2
      <4> QED BY <1>1, <1>2, <4>1, PushIs
    <3>2. \A i \in 1..n : ~SameName(a[i], e)
      BY <1>2, <1>3, <1>7, <2>2
    <3> QED BY <1>1, <1>2, <1>4, <2>1, <2>2, <3>1, <3>2, PutBehind
  <2>3. CASE n = Size
    <3>1. Hist!Push(h, e) = Held(PutAt(a, w + 1, e), w2, <<a[w+1]>>)
      <4>1. n >= Size
        BY <1>2, <2>3
      <4> QED BY <1>1, <1>2, <4>1, PushIs
    <3>2. PICK b, g : b = PutAt(a, w + 1, e) /\ g = Held(b, w2, <<a[w+1]>>)
      OBVIOUS
    <3>3. 1 \in 1..n /\ Spot(h, 1) = w + 1
      BY <1>2, <2>3 DEF Spot
    <3>4. b \in Seq(Entry) /\ Len(b) = n /\ \A j \in 1..n : b[j] = IF j = w + 1 THEN e ELSE a[j]
      <4>1. w + 1 \in 1..n
        BY <1>2, <2>3
      <4>2. PutIs(a, w + 1, e, b)
        BY <1>2, <3>2, <4>1, PutAtIs
      <4> QED BY <1>2, <4>2 DEF PutIs
    <3>5. g.array = b /\ g.writeIdx = w2
      BY <3>2 DEF Held
    <3>6. RingOk(g)
      BY <1>2, <1>4, <2>3, <3>4, <3>5 DEF RingOk
    <3>7. \A i \in 1..n-1 : /\ Spot(g, i) = Spot(h, i + 1)
                            /\ Spot(h, i + 1) \in 1..n /\ Spot(h, i + 1) # w + 1
      BY <1>2, <1>4, <2>3, <3>4, <3>5 DEF Spot
    <3>8. Spot(g, n) = w + 1 /\ w + 1 \in 1..n
      BY <1>2, <1>4, <2>3, <3>4, <3>5 DEF Spot
    <3>9. InPlace(h, g, n, 1, e)
      <4>1. ASSUME NEW i \in 1..n-1
            PROVE  g.array[Spot(g, i)] = h.array[Spot(h, IF i < 1 THEN i ELSE i + 1)]
        BY <1>2, <3>4, <3>5, <3>7
      <4>2. g.array[Spot(g, n)] = e
        BY <3>4, <3>5, <3>8
      <4> QED BY <4>1, <4>2 DEF InPlace
    <3>10. \/ SameName(h.array[Spot(h, 1)], e)
           \/ 1 = 1 /\ n = Size /\ \A i \in 1..n : ~SameName(h.array[i], e)
      BY <1>2, <1>3, <1>7, <2>3, <3>3
    <3>11. g = Held(b, w2, <<h.array[Spot(h, 1)]>>)
      BY <1>2, <3>2, <3>3
    <3>12. Kept(h, g, e)
      BY <1>2, <3>3, <3>4, <3>6, <3>9, <3>10, <3>11, PutInstead
    <3> QED BY <2>1, <3>1, <3>2, <3>12
  <2> QED BY <1>2, <2>2, <2>3
<1> QED BY <1>2, <1>3, <1>5, <1>6, <1>7

-----------------------------------------------------------------------------
\* The reader one element further, in either direction
LEMMA ReadOneMore ==
  ASSUME Size \in Nat \ {0}, NEW h, HistoryInv(h), Hist!CanReadNext(h)
  PROVE  LET g == Hist!ReadNext(h) IN
         /\ HistoryInv(g) /\ g.array = h.array /\ g.writeIdx = h.writeIdx
         /\ g.freed = <<>> /\ g.toReadBackwards = h.toReadBackwards + 1
PROOF
<1>1. PICK x, r, w, t, z : h = Ring(x, r, w, t, z)
  BY DEF HistoryInv, HistoryType, Ring
<1>2. /\ x \in Seq(Entry) /\ Len(x) \in Nat /\ Len(x) <= Size
      /\ w \in 0..Size-1 /\ w <= Len(x) /\ (Len(x) < Size => w = Len(x))
      /\ t \in 0..Len(x) /\ r = Spot(h, t + 1) - 1 /\ r \in 0..Size-1
      /\ AllDiffer(Hist!Oldest(h)) /\ h.array = x /\ h.writeIdx = w
      /\ h.readIdx = r /\ h.toReadBackwards = t
  BY <1>1 DEF HistoryInv, HistoryType, Ring, RingOk, ReaderOk
<1>3. t + 1 < Len(x)
  BY <1>2 DEF Hist!CanReadNext
<1>4. PICK v : v = Hist!IncreasedIdx(h, r)
  OBVIOUS
<1>5. v = IF r + 1 = Size THEN 0 ELSE r + 1
  BY <1>2, <1>4, Increased
<1>6. PICK g : g = Hist!ReadNext(h)
  OBVIOUS
<1>7. g = Ring(x, v, w, t + 1, <<>>)
  <2>1. PICK g1 : g1 = [h EXCEPT !.readIdx = v]
    OBVIOUS
  <2>2. PICK g2 : g2 = [g1 EXCEPT !.toReadBackwards = t + 1]
    OBVIOUS
  <2>3. PICK g3 : g3 = [g2 EXCEPT !.freed = <<>>]
    OBVIOUS
  <2>4. g = g3
    BY <1>2, <1>4, <1>6, <2>1, <2>2, <2>3, Zenon DEF Hist!ReadNext
  <2>5. g1 = Ring(x, v, w, t, z)
    BY <1>1, <2>1 DEF Ring
  <2>6. g2 = Ring(x, v, w, t + 1, z)
    BY <2>2, <2>5 DEF Ring
  <2>7. g3 = Ring(x, v, w, t + 1, <<>>)
    BY <2>3, <2>6 DEF Ring
  <2> QED BY <2>4, <2>7
<1>8. /\ g.array = x /\ g.writeIdx = w /\ g.freed = <<>> /\ g.toReadBackwards = t + 1
      /\ g.readIdx = v
  BY <1>7 DEF Ring
<1>9. v = Spot(g, t + 2) - 1
  <2>1. PICK n \in Nat : n = Len(x)
    BY <1>2
  <2>2. r = IF w + (t + 1) <= n THEN w + t ELSE w + t - n
    BY <1>2, <2>1 DEF Spot
  <2>3. Spot(g, t + 2) - 1 = IF w + (t + 2) <= n THEN w + t + 1 ELSE w + t + 1 - n
    BY <1>2, <1>8, <2>1 DEF Spot
  <2>4. w \in Int /\ t \in 0..n /\ n <= Size /\ (n < Size => w = n) /\ w < Size /\ w >= 0
        /\ t + 1 < n /\ w <= n
    BY <1>2, <1>3, <2>1
  <2>5. CASE n < Size
    BY <1>5, <2>2, <2>3, <2>4, <2>5
  <2>6. CASE n = Size
    BY <1>5, <2>2, <2>3, <2>4, <2>6
  <2> QED BY <2>4, <2>5, <2>6
<1>10. g \in HistoryType
  <2>1. v \in 0..Size-1 /\ t + 1 \in 0..Size
    BY <1>2, <1>3, <1>5
  <2> QED BY <1>2, <1>7, <2>1 DEF HistoryType, Ring
<1>11. RingOk(g) /\ ReaderOk(g)
  BY <1>2, <1>3, <1>8, <1>9 DEF RingOk, ReaderOk
<1>12. Hist!Oldest(g) = Hist!Oldest(h)
  BY <1>2, <1>8, Zenon DEF Hist!Oldest
<1> QED BY <1>2, <1>6, <1>8, <1>10, <1>11, <1>12 DEF HistoryInv

LEMMA ReadOneBack ==
  ASSUME Size \in Nat \ {0}, NEW h, HistoryInv(h), Hist!CanReadPrev(h)
  PROVE  LET g == Hist!ReadPrev(h) IN
         /\ HistoryInv(g) /\ g.array = h.array /\ g.writeIdx = h.writeIdx
         /\ g.freed = <<>> /\ g.toReadBackwards = h.toReadBackwards - 1
PROOF
<1>1. PICK x, r, w, t, z : h = Ring(x, r, w, t, z)
  BY DEF HistoryInv, HistoryType, Ring
<1>2. /\ x \in Seq(Entry) /\ Len(x) \in Nat /\ Len(x) <= Size
      /\ w \in 0..Size-1 /\ w <= Len(x) /\ (Len(x) < Size => w = Len(x))
      /\ t \in 0..Len(x) /\ r = Spot(h, t + 1) - 1 /\ r \in 0..Size-1
      /\ AllDiffer(Hist!Oldest(h)) /\ h.array = x /\ h.writeIdx = w
      /\ h.readIdx = r /\ h.toReadBackwards = t
  BY <1>1 DEF HistoryInv, HistoryType, Ring, RingOk, ReaderOk
<1>3. t > 0
  BY <1>2 DEF Hist!CanReadPrev
<1>4. PICK v : v = Hist!DecreasedIdx(h, r)
  OBVIOUS
<1>5. v = IF r < 1 THEN r + Len(x) - 1 ELSE r - 1
  BY <1>2, <1>4 DEF Hist!DecreasedIdx
<1>6. PICK g : g = Hist!ReadPrev(h)
  OBVIOUS
<1>7. g = Ring(x, v, w, t - 1, <<>>)
  <2>1. PICK g1 : g1 = [h EXCEPT !.readIdx = v]
    OBVIOUS
  <2>2. PICK g2 : g2 = [g1 EXCEPT !.toReadBackwards = t - 1]
    OBVIOUS
  <2>3. PICK g3 : g3 = [g2 EXCEPT !.freed = <<>>]
    OBVIOUS
  <2>4. g = g3
    BY <1>2, <1>4, <1>6, <2>1, <2>2, <2>3, Zenon DEF Hist!ReadPrev
  <2>5. g1 = Ring(x, v, w, t, z)
    BY <1>1, <2>1 DEF Ring
  <2>6. g2 = Ring(x, v, w, t - 1, z)
    BY <2>2, <2>5 DEF Ring
  <2>7. g3 = Ring(x, v, w, t - 1, <<>>)
    BY <2>3, <2>6 DEF Ring
  <2> QED BY <2>4, <2>7
<1>8. /\ g.array = x /\ g.writeIdx = w /\ g.freed = <<>> /\ g.toReadBackwards = t - 1
      /\ g.readIdx = v
  BY <1>7 DEF Ring
<1>9. v = Spot(g, (t - 1) + 1) - 1
  <2>1. PICK n \in Nat : n = Len(x)
    BY <1>2
  <2>2. r = IF w + (t + 1) <= n THEN w + t ELSE w + t - n
    BY <1>2, <2>1 DEF Spot
  <2>3. Spot(g, (t - 1) + 1) - 1 = IF w + t <= n THEN w + t - 1 ELSE w + t - 1 - n
    BY <1>2, <1>8, <2>1 DEF Spot
  <2>4. /\ w \in Int /\ t \in 0..n /\ n <= Size /\ (n < Size => w = n) /\ w < Size /\ w >= 0
        /\ t > 0 /\ w <= n
    BY <1>2, <1>3, <2>1
  <2>5. CASE n < Size
    BY <1>5, <2>1, <2>2, <2>3, <2>4, <2>5
  <2>6. CASE n = Size
    BY <1>5, <2>1, <2>2, <2>3, <2>4, <2>6
  <2> QED BY <2>4, <2>5, <2>6
<1>10. g \in HistoryType
  <2>1. v \in 0..Size-1 /\ t - 1 \in 0..Size
    BY <1>2, <1>3, <1>5
  <2> QED BY <1>2, <1>7, <2>1 DEF HistoryType, Ring
<1>11. RingOk(g) /\ ReaderOk(g)
  BY <1>2, <1>3, <1>8, <1>9 DEF RingOk, ReaderOk
<1>12. Hist!Oldest(g) = Hist!Oldest(h)
  BY <1>2, <1>8, Zenon DEF Hist!Oldest
<1> QED BY <1>2, <1>6, <1>8, <1>10, <1>11, <1>12 DEF HistoryInv

\* The element read is the one at the place of the reader.
LEMMA ElementIs ==
  ASSUME Size \in Nat \ {0}, NEW g, HistoryInv(g), g.toReadBackwards < Len(g.array)
  PROVE  Hist!ElementRead(g) = Hist!Oldest(g)[g.toReadBackwards + 1]
PROOF
<1>1. PICK n, t : n = Len(g.array) /\ t = g.toReadBackwards
  OBVIOUS
<1>2. n \in Nat /\ t \in 0..n /\ g.readIdx = Spot(g, t + 1) - 1 /\ RingOk(g) /\ t + 1 \in 1..n
  BY <1>1 DEF HistoryInv, RingOk, ReaderOk
<1>3. Spot(g, t + 1) \in 1..n /\ Hist!Oldest(g)[t+1] = g.array[Spot(g, t + 1)]
  BY <1>1, <1>2, OldestIs
<1>4. g.readIdx + 1 = Spot(g, t + 1)
  BY <1>2, <1>3
<1> QED BY <1>1, <1>3, <1>4 DEF Hist!ElementRead

\* Nothing but the reader is moved, or nothing at all.
LEMMA RestedOk ==
  ASSUME Size \in Nat \ {0}, NEW h, HistoryInv(h)
  PROVE  LET g == Hist!ReadRest(h) IN
         /\ HistoryInv(g) /\ g.array = h.array /\ g.writeIdx = h.writeIdx
         /\ g.freed = <<>> /\ g.toReadBackwards = Len(h.array)
PROOF
<1>1. PICK x, r, w, t, z : h = Ring(x, r, w, t, z)
  BY DEF HistoryInv, HistoryType, Ring
<1>2. PICK g : g = Hist!ReadRest(h)
  OBVIOUS
<1>3. g = Ring(x, w, w, Len(x), <<>>)
  BY <1>1, <1>2, RestIs
<1>4. g = Held(x, w, <<>>)
  BY <1>3 DEF Ring, Held
<1>5. h.array = x /\ h.writeIdx = w /\ RingOk(h) /\ AllDiffer(Hist!Oldest(h))
  BY <1>1 DEF HistoryInv, Ring
<1>6. g.array = x /\ g.writeIdx = w /\ g.freed = <<>> /\ g.toReadBackwards = Len(x)
  BY <1>3 DEF Ring
<1>7. Hist!Oldest(g) = Hist!Oldest(h)
  BY <1>5, <1>6, Zenon DEF Hist!Oldest
<1>8. RingOk(g)
  BY <1>5, <1>6 DEF RingOk
<1>9. HistoryInv(g)
  <2>1. PICK f : f = <<>>
    OBVIOUS
  <2>2a. f \in Seq(Entry)
    BY <2>1
  <2>2. g = Held(x, w, f) /\ AllDiffer(Hist!Oldest(g))
    BY <1>4, <1>5, <1>7, <2>1
  <2> QED BY <1>8, <2>2a, <2>2, HeldOk
<1> QED BY <1>2, <1>5, <1>6, <1>9

LEMMA QuietOk ==
  ASSUME NEW h, HistoryInv(h)
  PROVE  LET g == QuietRing(h) IN
         /\ HistoryInv(g) /\ g.array = h.array /\ g.writeIdx = h.writeIdx
         /\ g.freed = <<>> /\ g.toReadBackwards = h.toReadBackwards
PROOF
<1>1. PICK x, r, w, t, z : h = Ring(x, r, w, t, z)
  BY DEF HistoryInv, HistoryType, Ring
<1>2. PICK g : g = QuietRing(h)
  OBVIOUS
<1>3. g = Ring(x, r, w, t, <<>>)
  BY <1>1, <1>2 DEF QuietRing, Ring
<1>4. /\ g.array = x /\ g.writeIdx = w /\ g.freed = <<>> /\ g.toReadBackwards = t
      /\ g.readIdx = r
  BY <1>3 DEF Ring
<1>5. h.array = x /\ h.writeIdx = w /\ h.toReadBackwards = t /\ h.readIdx = r
  BY <1>1 DEF Ring
<1>6. g \in HistoryType
  BY <1>3, <1>5 DEF HistoryInv, HistoryType, Ring
<1>7. Hist!Oldest(g) = Hist!Oldest(h)
  BY <1>4, <1>5, Zenon DEF Hist!Oldest
<1>8. RingOk(g) /\ ReaderOk(g)
  BY <1>4, <1>5 DEF HistoryInv, RingOk, ReaderOk, Spot
<1> QED BY <1>2, <1>4, <1>5, <1>6, <1>7, <1>8 DEF HistoryInv

-----------------------------------------------------------------------------
LEMMA AddedIsAdd ==
  ASSUME Size \in Nat \ {0}, NEW e, HistoryInv(history), HistoryInv(history'),
         Kept(history, history', e), returned' = NoEntry
  PROVE  Rec!Add(e)
PROOF
<1>1. PICK o, p, d : /\ o = Hist!Oldest(history) /\ p = Hist!Oldest(history)'
                     /\ d = (history.freed)'
  OBVIOUS
<1>2. p = Hist!Oldest(history')
  BY <1>1, Zenon DEF Hist!Oldest
<1>3. Added(o, p, d, e) /\ (history.toReadBackwards)' = Len(p)
  BY <1>1, <1>2, Zenon DEF Kept
<1>4. Rec!Like(e) = {k \in DOMAIN o : SameName(o[k], e)}
  BY <1>1, Zenon DEF Rec!Like
<1>5. DOMAIN o = 1..Len(o)
  <2>1. RingOk(history) /\ Size \in Nat
    BY DEF HistoryInv, RingOk
  <2>2. o \in Seq(Entry)
    BY <1>1, <2>1, OldestIs
  <2> QED BY <2>2
<1>6. \/ \E k \in Rec!Like(e) : /\ p = Append(Rec!RemoveAt(o, k), e) /\ d = <<o[k]>>
      \/ /\ Rec!Like(e) = {} /\ Len(o) < Size
         /\ p = Append(o, e) /\ d = <<>>
      \/ /\ Rec!Like(e) = {} /\ Len(o) = Size
         /\ p = Append(Tail(o), e) /\ d = <<Head(o)>>
  <2>1. \A k : Rec!RemoveAt(o, k) = Skipping(o, k)
    BY Zenon DEF Rec!RemoveAt, Skipping
  <2>2. (\A k \in 1..Len(o) : ~SameName(o[k], e)) => Rec!Like(e) = {}
    BY <1>4, <1>5, Zenon
  <2>3. \A k \in 1..Len(o) : SameName(o[k], e) => k \in Rec!Like(e)
    BY <1>4, <1>5, Zenon
  <2> QED BY <1>3, <2>1, <2>2, <2>3, Zenon DEF Added
<1>7. (returned)' = Rec!Nothing
  BY Zenon DEF NoEntry, Rec!Nothing
<1> QED BY <1>1, <1>3, <1>6, <1>7, Zenon DEF Rec!Add

LEMMA SameOldest ==
  ASSUME NEW h, NEW g, g.array = h.array, g.writeIdx = h.writeIdx
  PROVE  Hist!Oldest(g) = Hist!Oldest(h)
PROOF
  BY Zenon DEF Hist!Oldest

LEMMA HistoryStep ==
  ASSUME Size \in Nat \ {0}, HistoryInv(history), HistoryCall
  PROVE  HistoryInv(history') /\ Rec!Next
PROOF
<1>1. CASE RememberCall
  <2>1. PICK n \in Name, copy \in {0, 1} :
          SilentCall(Hist!MoveToFrontOrPush(history, <<n, copy>>))
    BY <1>1, Zenon DEF RememberCall
  <2>2. PICK e : e = <<n, copy>>
    OBVIOUS
  <2>3. e \in Entry /\ e \in Name \X {0, 1}
    BY <2>2 DEF Entry
  <2>4. history' = Hist!MoveToFrontOrPush(history, e) /\ returned' = NoEntry
    BY <2>1, <2>2, Zenon DEF SilentCall
  <2>5. Kept(history, history', e)
    BY <2>3, <2>4, Remembered
  <2>6. HistoryInv(history')
    BY <2>5, Zenon DEF Kept
  <2>7. Rec!Add(e)
    BY <2>4, <2>5, <2>6, AddedIsAdd
  <2> QED BY <2>3, <2>6, <2>7, Zenon DEF Rec!Next
<1>2. CASE SilentCall(Hist!ReadRest(history))
  <2>1. history' = Hist!ReadRest(history) /\ returned' = NoEntry
    BY <1>2, Zenon DEF SilentCall
  <2>2. /\ HistoryInv(history') /\ history'.array = history.array
        /\ history'.writeIdx = history.writeIdx
        /\ history'.freed = <<>> /\ history'.toReadBackwards = Len(history.array)
    BY <2>1, RestedOk
  <2>3. Hist!Oldest(history') = Hist!Oldest(history)
    BY <2>2, SameOldest
  <2>4. Rec!Rest
    <3>1. Len(Hist!Oldest(history)) = Len(history.array)
      BY OldestIs DEF HistoryInv
    <3>2. Rec!Stay(Len(Hist!Oldest(history)))
      BY <2>1, <2>2, <2>3, <3>1, Zenon DEF Rec!Stay, NoEntry, Rec!Nothing, Hist!Oldest
    <3> QED BY <3>2, Zenon DEF Rec!Rest
  <2> QED BY <2>2, <2>4, Zenon DEF Rec!Next
<1>3. CASE Hist!CanReadNext(history) /\ ReturningCall(Hist!ReadNext(history))
  <2>1. history' = Hist!ReadNext(history) /\ returned' = Hist!ElementRead(history')
    BY <1>3, Zenon DEF ReturningCall
  <2>2. /\ HistoryInv(history') /\ history'.array = history.array
        /\ history'.writeIdx = history.writeIdx
        /\ history'.freed = <<>>
        /\ history'.toReadBackwards = history.toReadBackwards + 1
    BY <1>3, <2>1, ReadOneMore
  <2>3. Hist!Oldest(history') = Hist!Oldest(history)
    BY <2>2, SameOldest
  <2>4. PICK o, t : o = Hist!Oldest(history) /\ t = history.toReadBackwards
    OBVIOUS
  <2>5. Len(o) = Len(history.array) /\ t \in Nat /\ Len(history.array) \in Nat
    BY <2>4, OldestIs DEF HistoryInv, ReaderOk, RingOk
  <2>6. t + 1 < Len(o)
    BY <1>3, <2>4, <2>5 DEF Hist!CanReadNext
  <2>7. returned' = o[(t + 1) + 1]
    BY <2>1, <2>2, <2>3, <2>4, <2>5, <2>6, ElementIs
  <2>8. Rec!Move(t + 1)
    BY <2>2, <2>3, <2>4, <2>7, Zenon DEF Rec!Move, Hist!Oldest
  <2> QED BY <2>2, <2>4, <2>6, <2>8, Zenon DEF Rec!Next, Rec!Succ
<1>4. CASE ~Hist!CanReadNext(history) /\ SilentCall(QuietRing(history))
  <2>1. history' = QuietRing(history) /\ returned' = NoEntry
    BY <1>4, Zenon DEF SilentCall
  <2>2. /\ HistoryInv(history') /\ history'.array = history.array
        /\ history'.writeIdx = history.writeIdx
        /\ history'.freed = <<>> /\ history'.toReadBackwards = history.toReadBackwards
    BY <2>1, QuietOk
  <2>3. Hist!Oldest(history') = Hist!Oldest(history)
    BY <2>2, SameOldest
  <2>4. PICK o, t : o = Hist!Oldest(history) /\ t = history.toReadBackwards
    OBVIOUS
  <2>5. Len(o) = Len(history.array)
    BY <2>4, OldestIs DEF HistoryInv
  <2>6. ~(t + 1 < Len(o))
    BY <1>4, <2>4, <2>5 DEF Hist!CanReadNext
  <2>7. Rec!Stay(t)
    BY <2>1, <2>2, <2>3, <2>4, Zenon DEF Rec!Stay, NoEntry, Rec!Nothing, Hist!Oldest
  <2> QED BY <2>2, <2>4, <2>6, <2>7, Zenon DEF Rec!Next, Rec!Succ
<1>5. CASE Hist!CanReadPrev(history) /\ ReturningCall(Hist!ReadPrev(history))
  <2>1. history' = Hist!ReadPrev(history) /\ returned' = Hist!ElementRead(history')
    BY <1>5, Zenon DEF ReturningCall
  <2>2. /\ HistoryInv(history') /\ history'.array = history.array
        /\ history'.writeIdx = history.writeIdx
        /\ history'.freed = <<>>
        /\ history'.toReadBackwards = history.toReadBackwards - 1
    BY <1>5, <2>1, ReadOneBack
  <2>3. Hist!Oldest(history') = Hist!Oldest(history)
    BY <2>2, SameOldest
  <2>4. PICK o, t : o = Hist!Oldest(history) /\ t = history.toReadBackwards
    OBVIOUS
  <2>5. /\ Len(o) = Len(history.array) /\ t \in 0..Len(history.array)
        /\ Len(history.array) \in Nat
    BY <2>4, OldestIs DEF HistoryInv, ReaderOk, RingOk
  <2>6. t > 0 /\ t - 1 < Len(o)
    BY <1>5, <2>4, <2>5 DEF Hist!CanReadPrev
  <2>7. returned' = o[(t - 1) + 1]
    BY <2>1, <2>2, <2>3, <2>4, <2>5, <2>6, ElementIs
  <2>8. Rec!Move(t - 1)
    BY <2>2, <2>3, <2>4, <2>7, Zenon DEF Rec!Move, Hist!Oldest
  <2> QED BY <2>2, <2>4, <2>6, <2>8, Zenon DEF Rec!Next, Rec!Prev
<1>6. CASE ~Hist!CanReadPrev(history) /\ SilentCall(QuietRing(history))
  <2>1. history' = QuietRing(history) /\ returned' = NoEntry
    BY <1>6, Zenon DEF SilentCall
  <2>2. /\ HistoryInv(history') /\ history'.array = history.array
        /\ history'.writeIdx = history.writeIdx
        /\ history'.freed = <<>> /\ history'.toReadBackwards = history.toReadBackwards
    BY <2>1, QuietOk
  <2>3. Hist!Oldest(history') = Hist!Oldest(history)
    BY <2>2, SameOldest
  <2>4. PICK t : t = history.toReadBackwards
    OBVIOUS
  <2>5. ~(t > 0)
    BY <1>6, <2>4 DEF Hist!CanReadPrev
  <2>6. Rec!Stay(t)
    BY <2>1, <2>2, <2>3, <2>4, Zenon DEF Rec!Stay, NoEntry, Rec!Nothing, Hist!Oldest
  <2> QED BY <2>2, <2>4, <2>5, <2>6, Zenon DEF Rec!Next, Rec!Prev
<1> QED BY <1>1, <1>2, <1>3, <1>4, <1>5, <1>6, Zenon DEF HistoryCall

LEMMA HistoryStarts ==
  ASSUME Size \in Nat \ {0}, history = Hist!NewHistory, returned = NoEntry
  PROVE  HistoryInv(history) /\ Rec!Init
PROOF
<1>1. history = Hist!NewHistory /\ returned = NoEntry
  OBVIOUS
<1>2. /\ history.array = <<>> /\ history.readIdx = 0 /\ history.writeIdx = 0
      /\ history.toReadBackwards = 0 /\ history.freed = <<>> /\ history \in HistoryType
  BY <1>1 DEF Hist!NewHistory, HistoryType
<1>3. Hist!Oldest(history) = <<>>
  BY <1>2 DEF Hist!Oldest
<1>4. RingOk(history)
  BY <1>2 DEF RingOk
<1>5. ReaderOk(history)
  BY <1>2 DEF ReaderOk, Spot
<1>6. AllDiffer(Hist!Oldest(history))
  BY <1>3 DEF AllDiffer
<1>7. Rec!Init
  BY <1>1, <1>2, <1>3, Zenon DEF Rec!Init, NoEntry, Rec!Nothing
<1> QED BY <1>2, <1>4, <1>5, <1>6, <1>7 DEF HistoryInv

-----------------------------------------------------------------------------
(* The library code: the other constants and variables of MCLibrary.        *)

CONSTANTS Width, BufferSize, KernelAt, MaxFile, HeapWords, MaxRequest, Top, MaxBuddyRequest
VARIABLES part, buddy, next, size, allocated, bytesAvailable,
          freeList, link, blockSize, isFree, input

Lib == INSTANCE MCLibrary

\* All that the specification of MCLibrary has
libraryVars == <<part, Lib!arrayVars, Lib!historyVars, Lib!heapVars, input>>

(* The Array of MCLibrary is the one above.                                 *)

LEMMA SameGiven == Lib!A!Given = Arr!Given /\ Lib!V!Given = Vct!Given
PROOF
<1>1. Lib!A!Given = Arr!Given
  BY Zenon DEF Lib!A!Given, Lib!A!BoundedSeq, Lib!A!SeqOf, Arr!Given, Arr!BoundedSeq, Arr!SeqOf
<1>2. Lib!V!Given = Vct!Given
  BY Zenon DEF Lib!V!Given, Lib!V!BoundedSeq, Lib!V!SeqOf, Vct!Given, Vct!BoundedSeq, Vct!SeqOf
<1> QED BY <1>1, <1>2

LEMMA SameCells ==
  /\ Lib!A!Junk = Arr!Junk /\ Lib!A!Capacity = Arr!Capacity /\ Lib!A!All = Arr!All
  /\ \A i : Lib!A!RealIdx(i) = Arr!RealIdx(i)
  /\ \A n, f : Lib!A!Elements(f, n) = Arr!Elements(f, n)
  /\ \A c, x, s : Lib!A!CopyAt(c, x, s) = Arr!CopyAt(c, x, s)
  /\ \A c, x, y, n : Lib!A!CopyWithin(c, x, y, n) = Arr!CopyWithin(c, x, y, n)
PROOF
<1>1. Lib!A!Junk = Arr!Junk
  BY Zenon DEF Lib!A!Junk, Arr!Junk
<1>2. Lib!A!Capacity = Arr!Capacity
  BY Zenon DEF Lib!A!Capacity, Arr!Capacity, Lib!A!Cardinality, Arr!Cardinality
<1>3. Lib!A!All = Arr!All
  BY Zenon DEF Lib!A!All, Arr!All, Lib!A!Elements, Arr!Elements
<1>4. \A i : Lib!A!RealIdx(i) = Arr!RealIdx(i)
  BY Zenon DEF Lib!A!RealIdx, Arr!RealIdx
<1>5. \A n, f : Lib!A!Elements(f, n) = Arr!Elements(f, n)
  BY Zenon DEF Lib!A!Elements, Arr!Elements
<1>6. \A c, x, s : Lib!A!CopyAt(c, x, s) = Arr!CopyAt(c, x, s)
  BY Zenon DEF Lib!A!CopyAt, Arr!CopyAt
<1>7. \A c, x, y, n : Lib!A!CopyWithin(c, x, y, n) = Arr!CopyWithin(c, x, y, n)
  BY Zenon DEF Lib!A!CopyWithin, Arr!CopyWithin
<1> QED BY <1>1, <1>2, <1>3, <1>4, <1>5, <1>6, <1>7

LEMMA SameAdded ==
  /\ Lib!A!Silent <=> Arr!Silent
  /\ Lib!A!Refused <=> Arr!Refused
  /\ Lib!A!OutOfMemory <=> Arr!OutOfMemory
  /\ \A f, g : Lib!A!Out(f, g) <=> Arr!Out(f, g)
  /\ \A g : Lib!A!Reads(g) <=> Arr!Reads(g)
  /\ \A n, s : Lib!A!AddAt(n, s) <=> Arr!AddAt(n, s)
PROOF
<1>1. \A f, g : Lib!A!Out(f, g) <=> Arr!Out(f, g)
  BY Zenon DEF Lib!A!Out, Arr!Out
<1>2. Lib!A!Silent <=> Arr!Silent
  BY <1>1, Zenon DEF Lib!A!Silent, Arr!Silent
<1>3. Lib!A!Refused <=> Arr!Refused
  BY <1>2, Zenon DEF Lib!A!Refused, Arr!Refused
<1>4. Lib!A!OutOfMemory <=> Arr!OutOfMemory
  BY <1>2, Zenon DEF Lib!A!OutOfMemory, Arr!OutOfMemory
<1>5. \A g : Lib!A!Reads(g) <=> Arr!Reads(g)
  BY <1>1, Zenon DEF Lib!A!Reads, Arr!Reads
<1>6. \A n, s : Lib!A!AddAt(n, s) <=> Arr!AddAt(n, s)
  <2>1. \A n : Lib!A!Grown(n) = Arr!Grown(n)
    BY SameCells, Zenon DEF Lib!A!Grown, Arr!Grown
  <2> QED BY <1>2, <2>1, SameCells, Zenon DEF Lib!A!AddAt, Arr!AddAt
<1> QED BY <1>1, <1>2, <1>3, <1>4, <1>5, <1>6

LEMMA SameArray == (Lib!A!Init => Arr!Init) /\ (Lib!A!Next => Arr!Next)
PROOF
<1>1. Lib!A!Init => Arr!Init
  <2>1. \A n : Lib!A!Memory(n) = Arr!Memory(n)
    BY SameCells, Zenon DEF Lib!A!Memory, Arr!Memory
  <2>2. \A s : Lib!A!FromVanillaArray(s) <=> Arr!FromVanillaArray(s)
    BY <2>1, SameCells, Zenon DEF Lib!A!FromVanillaArray, Arr!FromVanillaArray
  <2> QED BY <2>1, <2>2, SameGiven, Zenon DEF Lib!A!Init, Arr!Init
<1>2. ASSUME NEW e, Lib!A!Push(e) PROVE Arr!Push(e)
  <2>1. Lib!A!Doubled = Arr!Doubled
    BY SameCells, Zenon DEF Lib!A!Doubled, Arr!Doubled
  <2> QED BY <1>2, <2>1, SameCells, SameAdded, Zenon DEF Lib!A!Push, Arr!Push
<1>3. ASSUME NEW s, Lib!A!Concat(s) PROVE Arr!Concat(s)
  BY <1>3, SameCells, SameAdded, Zenon DEF Lib!A!Concat, Arr!Concat
<1>4. Lib!A!Pop => Arr!Pop
  <2>1. \A e : Lib!A!Popped(e) <=> Arr!Popped(e)
    BY SameAdded, Zenon DEF Lib!A!Popped, Arr!Popped
  <2> QED BY <2>1, SameCells, SameAdded, Zenon DEF Lib!A!Pop, Arr!Pop
<1>5. (Lib!A!Clear => Arr!Clear) /\ (Lib!A!Free => Arr!Free)
  <2>1. Lib!A!FreeAll <=> Arr!FreeAll
    BY SameCells, SameAdded, Zenon DEF Lib!A!FreeAll, Arr!FreeAll
  <2> QED BY <2>1, Zenon DEF Lib!A!Clear, Arr!Clear, Lib!A!Free, Arr!Free
<1>6. Lib!A!GetVanillaArrayCopy => Arr!GetVanillaArrayCopy
  BY SameCells, SameAdded, Zenon DEF Lib!A!GetVanillaArrayCopy, Arr!GetVanillaArrayCopy
<1>7. ASSUME NEW i PROVE (Lib!A!Delete(i) => Arr!Delete(i)) /\ (Lib!A!Get(i) => Arr!Get(i))
  BY SameCells, SameAdded, Zenon DEF Lib!A!Delete, Arr!Delete, Lib!A!Get, Arr!Get
<1>8. ASSUME NEW i, NEW n, Lib!A!GetnCopy(i, n) PROVE Arr!GetnCopy(i, n)
  BY <1>8, SameCells, SameAdded, Zenon DEF Lib!A!GetnCopy, Arr!GetnCopy
<1>9. ASSUME NEW i, NEW s, NEW free, Lib!A!Setn(i, s, free) PROVE Arr!Setn(i, s, free)
  BY <1>9, SameCells, SameAdded, Zenon DEF Lib!A!Setn, Arr!Setn
<1>10. Lib!A!Next => Arr!Next
  BY <1>2, <1>3, <1>4, <1>5, <1>6, <1>7, <1>8, <1>9, SameGiven, Zenon DEF Lib!A!Next, Arr!Next
<1> QED BY <1>1, <1>10

\* The list that Vector has, and what it does
LEMMA SameVec ==
  /\ (IF ended THEN <<>> ELSE Lib!A!Elements(0, length))
       = (IF ended THEN <<>> ELSE Arr!Elements(0, length))
  /\ (IF ended THEN <<>> ELSE Lib!A!Elements(0, length))'
       = (IF ended THEN <<>> ELSE Arr!Elements(0, length))'
PROOF
<1>1. Lib!A!Elements(0, length) = Arr!Elements(0, length)
  BY SameCells
<1>2. Lib!A!Elements(0, length)' = Arr!Elements(0, length)'
  BY DEF Lib!A!Elements, Arr!Elements
<1> QED BY <1>1, <1>2, Zenon

LEMMA SameVector == (Vct!Init => Lib!V!Init) /\ (Vct!Next => Lib!V!Next)
PROOF
<1>1. Vct!Init => Lib!V!Init
  BY SameVec, SameGiven, Zenon DEF Vct!Init, Lib!V!Init
<1>2. PICK v, w : /\ v = (IF ended THEN <<>> ELSE Arr!Elements(0, length))
                  /\ w = (IF ended THEN <<>> ELSE Arr!Elements(0, length))'
  OBVIOUS
<1>3. /\ v = (IF ended THEN <<>> ELSE Lib!A!Elements(0, length))
      /\ w = (IF ended THEN <<>> ELSE Lib!A!Elements(0, length))'
  BY <1>2, SameVec, Zenon
<1>4. /\ \A new, out : Vct!Become(new, out) <=> Lib!V!Become(new, out)
      /\ \A new, s : Vct!Give(new, s) <=> Lib!V!Give(new, s)
  BY <1>2, <1>3, Zenon DEF Vct!Become, Lib!V!Become, Vct!Give, Lib!V!Give
<1>5. \A i : Vct!Place(i) = Lib!V!Place(i)
  BY <1>2, <1>3, Zenon DEF Vct!Place, Lib!V!Place
<1>6. ASSUME NEW e, Vct!Append1(e) PROVE Lib!V!Append1(e)
  BY <1>2, <1>3, <1>4, <1>6, Zenon DEF Vct!Append1, Lib!V!Append1
<1>7. ASSUME NEW s, Vct!Concat(s) PROVE Lib!V!Concat(s)
  BY <1>2, <1>3, <1>4, <1>7, Zenon DEF Vct!Concat, Lib!V!Concat
<1>8. (Vct!Clear => Lib!V!Clear) /\ (Vct!LookAtAll => Lib!V!LookAtAll) /\ (Vct!Refuse => Lib!V!Refuse)
  BY <1>2, <1>3, <1>4, Zenon DEF Vct!Clear, Lib!V!Clear, Vct!LookAtAll, Lib!V!LookAtAll,
       Vct!Refuse, Lib!V!Refuse
<1>9. Vct!Pop => Lib!V!Pop
  BY <1>2, <1>3, <1>4, Zenon DEF Vct!Pop, Lib!V!Pop, Vct!Front, Lib!V!Front, Vct!Last, Lib!V!Last
<1>10. Vct!Leave => Lib!V!Leave
  BY <1>2, <1>3, Zenon DEF Vct!Leave, Lib!V!Leave
<1>11. ASSUME NEW p, NEW n, Vct!Look(p, n) PROVE Lib!V!Look(p, n)
  BY <1>2, <1>3, <1>4, <1>11, Zenon DEF Vct!Look, Lib!V!Look
<1>12. ASSUME NEW p, NEW s, Vct!Put(p, s) PROVE Lib!V!Put(p, s)
  <2>1. \A out : Vct!Replace(p, s, out) <=> Lib!V!Replace(p, s, out)
    BY <1>2, <1>3, <1>4, Zenon DEF Vct!Replace, Lib!V!Replace
  <2> QED BY <1>2, <1>3, <1>12, <2>1, Zenon DEF Vct!Put, Lib!V!Put
<1>13. ASSUME NEW p, Vct!Delete(p) PROVE Lib!V!Delete(p)
  BY <1>2, <1>3, <1>4, <1>13, Zenon DEF Vct!Delete, Lib!V!Delete, Vct!RemoveAt, Lib!V!RemoveAt
<1>14. v = <<>> /\ Vct!Refuse => v = <<>> /\ Lib!V!Refuse
  BY <1>8
<1>15. Vct!Next => Lib!V!Next
  BY <1>2, <1>3, <1>5, <1>6, <1>7, <1>8, <1>9, <1>10, <1>11, <1>12, <1>13, SameGiven, Zenon
     DEF Vct!Next, Lib!V!Next
<1> QED BY <1>1, <1>15

LEMMA ArrayOrNot ==
  ASSUME MaxGiven \in Nat, MaxLength \in Nat, ArrayInv, [Lib!Next]_libraryVars
  PROVE  ArrayInv' /\ [Lib!V!Next]_(Lib!V!vars)
PROOF
<1>1. CASE Lib!A!Next
  BY <1>1, ArrayStep, SameArray, SameVector
<1>2. CASE UNCHANGED Lib!arrayVars
  <2>1. /\ asked' = asked /\ inKernel' = inKernel /\ cells' = cells /\ length' = length
        /\ freed' = freed /\ got' = got /\ ended' = ended
    BY <1>2, Zenon DEF Lib!arrayVars
  <2>2. UNCHANGED Lib!V!vars
    BY <2>1, Zenon DEF Lib!V!vars, Lib!A!Elements
  <2>3. ArrayInv'
    BY <2>1, Zenon DEF ArrayInv, ArrayOk
  <2> QED BY <2>2, <2>3, Zenon
<1> QED BY <1>1, <1>2, Zenon DEF Lib!Next, libraryVars

\* An Array is a list, whatever its capacity, until it is freed, its process has
\* exited for want of memory, or the kernel has found none to grow it: array.c of
\* the kernel and of the library implement Vector, and give back each element that
\* leaves, once.
THEOREM ArrayImplementsVector ==
  ASSUME InitialCapacity \subseteq Nat, MaxGiven \in Nat, MaxLength \in Nat
  PROVE  Lib!Spec => Lib!ImplementsVector
PROOF
<1>1. Lib!Init => ArrayInv /\ Lib!V!Init
  <2>1. Lib!Init => Lib!A!Init
    BY Zenon DEF Lib!Init
  <2> QED BY <2>1, ArrayStarts, SameArray, SameVector
<1>2. ArrayInv /\ [Lib!Next]_libraryVars => ArrayInv' /\ [Lib!V!Next]_(Lib!V!vars)
  BY ArrayOrNot
<1> QED BY <1>1, <1>2, PTL DEF Lib!Spec, Lib!ImplementsVector, Lib!V!Spec, libraryVars

(* The history of MCLibrary is the one above.                               *)

LEMMA SameHist ==
  /\ Lib!Nothing = NoEntry /\ Lib!H!NewHistory = Hist!NewHistory
  /\ \A h : Lib!H!Oldest(h) = Hist!Oldest(h)
  /\ \A h : Lib!H!ReadRest(h) = Hist!ReadRest(h)
  /\ \A h : Lib!H!ReadNext(h) = Hist!ReadNext(h)
  /\ \A h : Lib!H!ReadPrev(h) = Hist!ReadPrev(h)
  /\ \A h : Lib!H!ElementRead(h) = Hist!ElementRead(h)
  /\ \A h : Lib!H!CanReadNext(h) <=> Hist!CanReadNext(h)
  /\ \A h : Lib!H!CanReadPrev(h) <=> Hist!CanReadPrev(h)
  /\ \A h : Lib!Quiet(h) = QuietRing(h)
PROOF
<1>1. Lib!Nothing = NoEntry /\ Lib!H!NewHistory = Hist!NewHistory
  BY Zenon DEF Lib!Nothing, NoEntry, Lib!H!NewHistory, Hist!NewHistory
<1>2. \A h : Lib!H!Oldest(h) = Hist!Oldest(h)
  BY Zenon DEF Lib!H!Oldest, Hist!Oldest
<1>3. \A h : Lib!H!ReadRest(h) = Hist!ReadRest(h)
  BY Zenon DEF Lib!H!ReadRest, Hist!ReadRest
<1>4. \A h : Lib!H!ReadNext(h) = Hist!ReadNext(h)
  BY Zenon DEF Lib!H!ReadNext, Hist!ReadNext, Lib!H!IncreasedIdx, Hist!IncreasedIdx
<1>5. \A h : Lib!H!ReadPrev(h) = Hist!ReadPrev(h)
  BY Zenon DEF Lib!H!ReadPrev, Hist!ReadPrev, Lib!H!DecreasedIdx, Hist!DecreasedIdx
<1>6. \A h : Lib!H!ElementRead(h) = Hist!ElementRead(h)
  BY Zenon DEF Lib!H!ElementRead, Hist!ElementRead
<1>7. \A h : Lib!H!CanReadNext(h) <=> Hist!CanReadNext(h)
  BY Zenon DEF Lib!H!CanReadNext, Hist!CanReadNext
<1>8. \A h : Lib!H!CanReadPrev(h) <=> Hist!CanReadPrev(h)
  BY Zenon DEF Lib!H!CanReadPrev, Hist!CanReadPrev
<1>9. \A h : Lib!Quiet(h) = QuietRing(h)
  BY Zenon DEF Lib!Quiet, QuietRing
<1> QED BY <1>1, <1>2, <1>3, <1>4, <1>5, <1>6, <1>7, <1>8, <1>9

LEMMA SameMove == \A h, e : Lib!H!MoveToFrontOrPush(h, e) = Hist!MoveToFrontOrPush(h, e)
PROOF
<1>1. \A s, e : Lib!H!Find(s, e) = Hist!Find(s, e)
  BY Zenon DEF Lib!H!Find, Hist!Find, Lib!H!SelectInSeq, Hist!SelectInSeq,
       Lib!H!Min, Hist!Min, Lib!Same, SameName
<1>2. \A a, x, w : /\ Lib!H!ShiftedBack(a, x, w) = Hist!ShiftedBack(a, x, w)
                   /\ Lib!H!ShiftedForward(a, x, w) = Hist!ShiftedForward(a, x, w)
  BY Zenon DEF Lib!H!ShiftedBack, Hist!ShiftedBack, Lib!H!ShiftedForward, Hist!ShiftedForward
<1>3. \A h, x : Lib!H!IncreasedIdx(h, x) = Hist!IncreasedIdx(h, x)
  BY Zenon DEF Lib!H!IncreasedIdx, Hist!IncreasedIdx
<1>4. \A h, e : Lib!H!Push(h, e) = Hist!Push(h, e)
  BY Zenon DEF Lib!H!Push, Hist!Push, Lib!H!ReadRest, Hist!ReadRest,
       Lib!H!IncreasedIdx, Hist!IncreasedIdx
<1>5. ASSUME NEW h, NEW e
      PROVE  Lib!H!MoveToFrontOrPush(h, e) = Hist!MoveToFrontOrPush(h, e)
  <2>1. PICK x, w, a, back, forward, up :
          /\ x = Hist!Find(h.array, e) /\ w = h.writeIdx /\ a = h.array
          /\ back = Hist!ShiftedBack(a, x, w) /\ forward = Hist!ShiftedForward(a, x, w)
          /\ up = Hist!IncreasedIdx(h, w)
    OBVIOUS
  <2>2. /\ x = Lib!H!Find(h.array, e)
        /\ back = Lib!H!ShiftedBack(a, x, w) /\ forward = Lib!H!ShiftedForward(a, x, w)
        /\ up = Lib!H!IncreasedIdx(h, w)
    BY <1>1, <1>2, <1>3, <2>1, Zenon
  <2>3. PICK before, after : /\ before = [h EXCEPT !.array = [back EXCEPT ![w] = e]]
                             /\ after = [h EXCEPT !.array = [forward EXCEPT ![w+1] = e],
                                                  !.writeIdx = up]
    BY Zenon
  <2>4. Hist!MoveToFrontOrPush(h, e)
          = IF x >= 0 /\ x # w
            THEN [Hist!ReadRest(IF x < w THEN before ELSE after)
                    EXCEPT !.freed = <<h.array[x+1]>>]
            ELSE Hist!Push(h, e)
    BY <2>1, <2>3 DEF Hist!MoveToFrontOrPush
  <2>5. Lib!H!MoveToFrontOrPush(h, e)
          = IF x >= 0 /\ x # w
            THEN [Lib!H!ReadRest(IF x < w THEN before ELSE after)
                    EXCEPT !.freed = <<h.array[x+1]>>]
            ELSE Lib!H!Push(h, e)
    BY <2>1, <2>2, <2>3 DEF Lib!H!MoveToFrontOrPush
  <2> QED BY <1>4, <2>4, <2>5, SameHist, Zenon
<1> QED BY <1>5

LEMMA SameCalls == Lib!HistoryNext => HistoryCall
PROOF
<1>1. \A h : Lib!Silent(h) => SilentCall(h)
  BY SameHist, Zenon DEF Lib!Silent, SilentCall
<1>2. \A h : Lib!Returns(h) => ReturningCall(h)
  BY SameHist, Zenon DEF Lib!Returns, ReturningCall
<1>3. Lib!Remember => RememberCall
  BY <1>1, SameMove, Zenon DEF Lib!Remember, RememberCall
<1>4. Lib!Silent(Lib!H!ReadRest(history)) => SilentCall(Hist!ReadRest(history))
  BY <1>1, SameHist, Zenon
<1>5. Lib!Silent(Lib!Quiet(history)) => SilentCall(QuietRing(history))
  BY <1>1, SameHist, Zenon
<1>6. Lib!Returns(Lib!H!ReadNext(history)) => ReturningCall(Hist!ReadNext(history))
  BY <1>2, SameHist, Zenon
<1>7. Lib!Returns(Lib!H!ReadPrev(history)) => ReturningCall(Hist!ReadPrev(history))
  BY <1>2, SameHist, Zenon
<1> QED BY <1>3, <1>4, <1>5, <1>6, <1>7, SameHist, Zenon DEF Lib!HistoryNext, HistoryCall

LEMMA SameRecent == (Rec!Init => Lib!R!Init) /\ (Rec!Next => Lib!R!Next)
PROOF
<1>1. Rec!Nothing = Lib!R!Nothing
  BY Zenon DEF Rec!Nothing, Lib!R!Nothing
<1>2. Rec!Init => Lib!R!Init
  BY Zenon DEF Rec!Init, Lib!R!Init, Rec!Nothing, Lib!R!Nothing, Hist!Oldest, Lib!H!Oldest
<1>3. ASSUME NEW e, Rec!Add(e) PROVE Lib!R!Add(e)
  BY <1>3, Zenon DEF Rec!Add, Lib!R!Add, Rec!Like, Lib!R!Like, Rec!RemoveAt, Lib!R!RemoveAt,
       Rec!Nothing, Lib!R!Nothing, Hist!Oldest, Lib!H!Oldest, SameName, Lib!Same
<1>4. ASSUME NEW n PROVE (Rec!Move(n) => Lib!R!Move(n)) /\ (Rec!Stay(n) => Lib!R!Stay(n))
  BY Zenon DEF Rec!Move, Lib!R!Move, Rec!Stay, Lib!R!Stay, Rec!Nothing, Lib!R!Nothing,
       Hist!Oldest, Lib!H!Oldest
<1>5. Rec!Prev => Lib!R!Prev
  BY <1>4, Zenon DEF Rec!Prev, Lib!R!Prev
<1>6. Rec!Succ => Lib!R!Succ
  BY <1>4, SameHist, Zenon DEF Rec!Succ, Lib!R!Succ
<1>7. Rec!Rest => Lib!R!Rest
  BY <1>4, SameHist, Zenon DEF Rec!Rest, Lib!R!Rest
<1> QED BY <1>2, <1>3, <1>5, <1>6, <1>7, Zenon DEF Rec!Next, Lib!R!Next

LEMMA LibraryStep ==
  ASSUME Size \in Nat \ {0}, HistoryInv(history), [Lib!Next]_libraryVars
  PROVE  HistoryInv(history') /\ [Lib!R!Next]_(Lib!R!vars)
PROOF
<1>1. CASE Lib!HistoryNext
  BY <1>1, HistoryStep, SameCalls, SameRecent
<1>2. CASE UNCHANGED Lib!historyVars
  <2>1. history' = history /\ returned' = returned
    BY <1>2, Zenon DEF Lib!historyVars
  <2>2. UNCHANGED Lib!R!vars
    BY <2>1, Zenon DEF Lib!R!vars, Lib!H!Oldest
  <2> QED BY <2>1, <2>2, Zenon
<1> QED BY <1>1, <1>2, Zenon DEF Lib!Next, libraryVars

\* The command history keeps the last Size different elements in the order
\* of their last use, whatever the size of the ring and whatever is put in,
\* and hands each back once: circularHistoryBuffer.c implements Recent.
THEOREM HistoryImplementsRecent ==
  ASSUME Size \in Nat \ {0}
  PROVE  Lib!Spec => Lib!ImplementsRecent
PROOF
<1>1. Lib!Init => HistoryInv(history) /\ Lib!R!Init
  <2>1. Lib!Init => history = Hist!NewHistory /\ returned = NoEntry
    BY SameHist, Zenon DEF Lib!Init
  <2> QED BY <2>1, HistoryStarts, SameRecent
<1>2. HistoryInv(history) /\ [Lib!Next]_libraryVars
        => HistoryInv(history') /\ [Lib!R!Next]_(Lib!R!vars)
  BY LibraryStep
<1>3. HistoryInv(history') => HistoryInv(history)'
  OBVIOUS
<1> QED BY <1>1, <1>2, <1>3, PTL DEF Lib!Spec, Lib!ImplementsRecent, Lib!R!Spec, libraryVars

=============================================================================
