---------------------------- MODULE KernelProof ----------------------------
(***************************************************************************)
(* What module Kernel shows of the devices on an instance, proved for any   *)
(* number of processes and priorities, tables of any length, any values and *)
(* names, and sleeps of any length.                                         *)
(*                                                                         *)
(* First the table of semaphores alone (Inv), which needs no more of the   *)
(* processes than that current is one.  Then who is recorded where (IInv):  *)
(* each step of a device is shown to be one of module Processes, with Held  *)
(* for held, so that what ProcessesProof shows of every step there carries  *)
(* over, and in turn says of the processes recorded that they wait.         *)
(***************************************************************************)
EXTENDS Kernel, SubsequenceProof

Sem == [value : 0..MaxValue, destroyed : BOOLEAN, queue : Seq(P!Pid), name : Names]

TableOK ==
  /\ slot \in P!Pid
  /\ sems \in Seq(Sem)
  /\ freedPositions \in Seq(DOMAIN sems)

Inv == TableOK /\ TokenOrQueue /\ FreedOnce

-----------------------------------------------------------------------------
(* current: whoever schedule() elects is a process.                         *)

LEMMA SwitchSlot == ASSUME slot \in P!Pid, NEW st, P!Switch(st) PROVE slot' \in P!Pid
PROOF
<1>1. PICK s \in P!Schedule(st) : slot' = s.slot
  BY DEF P!Switch
<1>2. s.slot = slot \/ s.slot \in P!Elected(P!Preempted(st))
  BY <1>1 DEF P!Schedule
<1> QED BY <1>1, <1>2 DEF P!Elected

LEMMA ProcessStepSlot == ASSUME slot \in P!Pid, ProcessStep PROVE slot' \in P!Pid
PROOF
<1>1. (\E st : P!Switch(st)) \/ slot' = slot
  BY DEF ProcessStep, P!Create, P!CreateFails, P!Exit, P!Yield, P!KillBlocked,
         P!Kill, P!WaitPid, P!BlockByUser, P!Unblock, P!ChangePriority,
         P!CtrlC, P!F2
<1> QED BY <1>1, SwitchSlot

LEMMA TickSlot == ASSUME slot \in P!Pid, Tick PROVE slot' \in P!Pid
PROOF
<1>1. PICK s \in P!Schedule(state) : slot' = s.slot
  BY DEF Tick
<1>2. s.slot = slot \/ s.slot \in P!Elected(P!Preempted(state))
  BY <1>1 DEF P!Schedule
<1> QED BY <1>1, <1>2 DEF P!Elected

-----------------------------------------------------------------------------
(* The table, one lemma per action that changes it.                         *)

LEMMA InitInv == Init => Inv
PROOF
<1> SUFFICES ASSUME Init PROVE Inv
  OBVIOUS
<1> DEFINE stdin == [value |-> 0, destroyed |-> FALSE, queue |-> <<>>, name |-> NoName]
<1>8. NoName \in Names /\ MaxPid \in Nat /\ MaxPid >= 1
  BY KernelAssumption
<1>10. 0 \in P!Pid
  BY <1>8 DEF P!Pid
<1>9. <<>> \in Seq(P!Pid)
  OBVIOUS
<1>4. stdin \in Sem
  BY <1>8, <1>9, KernelAssumption DEF Sem
<1>5. stdin.value = 0 /\ ~stdin.destroyed
  OBVIOUS
<1>6. sems = <<stdin>>
  BY DEF Init
<1> HIDE DEF stdin
<1>7. sems \in Seq(Sem) /\ DOMAIN sems = {1} /\ sems[1] = stdin
  BY <1>4, <1>6
<1>1. TableOK
  BY <1>7, <1>10 DEF Init, TableOK
<1>2. TokenOrQueue
  BY <1>5, <1>7 DEF TokenOrQueue
<1>3. FreedOnce
  BY <1>5, <1>7 DEF Init, FreedOnce, IsInjective, Range
<1> QED BY <1>1, <1>2, <1>3 DEF Inv

(* A new semaphore gets a position of its own: the last one freed, which no *)
(* other holds, or one at the end.                                          *)
LEMMA AddSemInv ==
  ASSUME Inv, NEW name \in Names, NEW v \in 0..MaxValue, AddSem(name, v), slot' = slot
  PROVE  Inv'
PROOF
<1> DEFINE new == [value |-> v, destroyed |-> FALSE, queue |-> <<>>, name |-> name]
<1>1. new \in Sem
  BY KernelAssumption DEF Sem
<1>2. TableOK
  BY DEF Inv
<1>3. CASE freedPositions # <<>>
  <2> DEFINE i == Last(freedPositions)
  <2>1. i \in DOMAIN sems /\ i = freedPositions[Len(freedPositions)]
    BY <1>2, <1>3 DEF TableOK, Last
  <2>2. sems' = [sems EXCEPT ![i] = new]
    BY <1>3 DEF AddSem
  <2>3. freedPositions' = SubSeq(freedPositions, 1, Len(freedPositions) - 1)
    BY <1>3 DEF AddSem, Front
  <2> HIDE DEF new, i
  <2>4. sems' \in Seq(Sem) /\ DOMAIN sems' = DOMAIN sems
    BY <1>1, <1>2, <2>1, <2>2 DEF TableOK
  <2>5. freedPositions' \in Seq(DOMAIN sems')
    BY <1>2, <1>3, <2>3, <2>4 DEF TableOK
  <2>6. TableOK'
    BY <1>2, <2>4, <2>5 DEF TableOK
  <2>7. sems'[i] = new /\ \A j \in DOMAIN sems \ {i} : sems'[j] = sems[j]
    BY <1>2, <2>1, <2>2 DEF TableOK
  <2>8. TokenOrQueue'
    BY <2>4, <2>7 DEF Inv, TokenOrQueue, new
  <2>9. /\ IsInjective(freedPositions')
        /\ Range(freedPositions') = Range(freedPositions) \ {i}
    <3> DEFINE n == Len(freedPositions)
    <3>1. /\ n \in Nat \ {0} /\ DOMAIN freedPositions = 1..n
          /\ DOMAIN freedPositions' = 1..n-1
          /\ \A k \in 1..n-1 : freedPositions'[k] = freedPositions[k]
      BY <1>2, <1>3, <2>3 DEF TableOK
    <3>2. \A k, l \in 1..n : freedPositions[k] = freedPositions[l] => k = l
      BY <3>1 DEF Inv, FreedOnce, IsInjective
    <3> HIDE DEF n
    <3>3. i = freedPositions[n]
      BY <2>1 DEF n
    <3>4. IsInjective(freedPositions')
      BY <3>1, <3>2 DEF IsInjective
    <3>5. \A k \in 1..n-1 : freedPositions[k] # i
      BY <3>1, <3>2, <3>3
    <3>6. \A k \in 1..n : k \in 1..n-1 \/ k = n
      BY <3>1
    <3> QED BY <3>1, <3>3, <3>4, <3>5, <3>6 DEF Range
  <2>10. FreedOnce'
    BY <2>4, <2>7, <2>9 DEF Inv, FreedOnce, new
  <2> QED BY <2>6, <2>8, <2>10 DEF Inv
<1>4. CASE freedPositions = <<>>
  <2>1. sems' = Append(sems, new) /\ freedPositions' = <<>>
    BY <1>4 DEF AddSem
  <2> HIDE DEF new
  <2>2. /\ sems' \in Seq(Sem)
        /\ DOMAIN sems' = DOMAIN sems \cup {Len(sems) + 1}
        /\ \A j \in DOMAIN sems : sems'[j] = sems[j]
        /\ sems'[Len(sems) + 1] = new
    BY <1>1, <1>2, <2>1 DEF TableOK
  <2>3. TableOK'
    BY <1>2, <2>1, <2>2 DEF TableOK
  <2>4. TokenOrQueue'
    BY <2>2 DEF Inv, TokenOrQueue, new
  <2>5. Range(freedPositions) = {} /\ Range(freedPositions') = {}
    BY <1>4, <2>1 DEF Range
  <2>6. FreedOnce'
    BY <1>4, <2>1, <2>2, <2>5 DEF Inv, FreedOnce, IsInjective, new
  <2> QED BY <2>3, <2>4, <2>6 DEF Inv
<1> QED BY <1>3, <1>4

(* An operation on one live semaphore that leaves it live.                  *)
LEMMA OneSem ==
  ASSUME Inv, NEW i \in DOMAIN sems, Live(i), NEW v \in 0..MaxValue, NEW q \in Seq(P!Pid),
         v > 0 => q = <<>>,
         sems' = [sems EXCEPT ![i].value = v, ![i].queue = q],
         UNCHANGED freedPositions, slot' \in P!Pid
  PROVE  Inv'
PROOF
<1>1. TableOK
  BY DEF Inv
<1>2. sems[i] \in Sem
  BY <1>1 DEF TableOK
<1>3. /\ DOMAIN sems' = DOMAIN sems
      /\ sems'[i] = [sems[i] EXCEPT !.value = v, !.queue = q]
      /\ \A j \in DOMAIN sems \ {i} : sems'[j] = sems[j]
  BY <1>1, <1>2 DEF TableOK, Sem
<1>4. sems'[i] \in Sem /\ sems'[i].value = v /\ sems'[i].queue = q
        /\ ~sems'[i].destroyed
  BY <1>2, <1>3 DEF Sem, Live
<1>5. sems' \in Seq(Sem)
  <2>1. sems' = [sems EXCEPT ![i] = sems'[i]]
    BY <1>1, <1>3 DEF TableOK
  <2>2. \A r \in Sem : [sems EXCEPT ![i] = r] \in Seq(Sem)
    BY <1>1 DEF TableOK
  <2> QED BY <1>4, <2>1, <2>2
<1>6. TableOK'
  BY <1>1, <1>3, <1>5 DEF TableOK
<1>7. TokenOrQueue'
  BY <1>3, <1>4 DEF Inv, TokenOrQueue
<1>8. FreedOnce'
  BY <1>3, <1>4 DEF Inv, FreedOnce, Live
<1> QED BY <1>6, <1>7, <1>8 DEF Inv

(* The uses of OneSem: a token taken, a process queued, and a post, which   *)
(* takes everyone off the queue unless it finds somebody BLOCKED.           *)
LEMMA TakeTokenInv == ASSUME Inv, NEW i \in DOMAIN sems, TakeToken(i) PROVE Inv'
PROOF
<1>1. sems[i] \in Sem
  BY DEF Inv, TableOK
<1>2. sems[i].value > 0 /\ sems[i].value \in 0..MaxValue /\ sems[i].queue \in Seq(P!Pid)
  BY <1>1 DEF TakeToken, Sem
<1>3. sems[i].queue = <<>>
  BY <1>2 DEF Inv, TokenOrQueue
<1>4. sems' = [sems EXCEPT ![i].value = sems[i].value - 1, ![i].queue = sems[i].queue]
  BY <1>1 DEF TakeToken, Inv, TableOK, Sem
<1>5. slot' \in P!Pid /\ Live(i) /\ UNCHANGED freedPositions
  BY DEF TakeToken, procVars, Inv, TableOK
<1>6. sems[i].value - 1 \in 0..MaxValue
  BY <1>2, KernelAssumption
<1> QED BY <1>2, <1>3, <1>4, <1>5, <1>6, OneSem

LEMMA WaitInQueueInv == ASSUME Inv, NEW i \in DOMAIN sems, WaitInQueue(i) PROVE Inv'
PROOF
<1>1. sems[i] \in Sem
  BY DEF Inv, TableOK
<1>2. sems[i].value = 0 /\ sems[i].queue \in Seq(P!Pid)
  BY <1>1 DEF WaitInQueue, Sem
<1>3. Queued(i) \in Seq(P!Pid)
  BY <1>2 DEF Queued, Inv, TableOK
<1>4. sems' = [sems EXCEPT ![i].value = 0, ![i].queue = Queued(i)]
  BY <1>1, <1>2 DEF WaitInQueue, Inv, TableOK, Sem
<1>5. slot' \in P!Pid
  BY SwitchSlot DEF WaitInQueue, Inv, TableOK
<1>6. Live(i) /\ UNCHANGED freedPositions
  BY DEF WaitInQueue
<1>7. 0 \in 0..MaxValue /\ ~(0 > 0)
  BY KernelAssumption
<1> QED BY <1>3, <1>4, <1>5, <1>6, <1>7, OneSem

LEMMA PostInv == ASSUME Inv, NEW i \in DOMAIN sems, Post(i) PROVE Inv'
PROOF
<1> DEFINE q == sems[i].queue
           n == Unqueued(q)
           ds == SubSeq(q, 1, n)
<1>0. sems[i] \in Sem
  BY DEF Inv, TableOK
<1>1. q \in Seq(P!Pid) /\ sems[i].value \in 0..MaxValue
  BY <1>0 DEF Sem
<1>2. /\ sems' = [sems EXCEPT ![i].queue = SubSeq(q, n + 1, Len(q)),
                              ![i].value = ValueAfter(i, ds)]
      /\ slot' = slot
      /\ ValueAfter(i, ds) <= MaxValue
  BY DEF Post, LetGo, procVars
<1>3. \/ n = Len(q)
      \/ n \in DOMAIN q /\ state[q[n]] = "BLOCKED"
  <2>1. CASE \E k \in DOMAIN q : state[q[k]] = "BLOCKED"
    <3> DEFINE B == {k \in DOMAIN q : state[q[k]] = "BLOCKED"}
    <3>3. B \in SUBSET Nat /\ B # {}
      BY <1>1, <2>1
    <3> HIDE DEF B
    <3>4. PICK k \in B : \A j \in B : k <= j
      BY <3>3, LeastOfSome
    <3>1. k \in B /\ \A j \in B : k <= j
      BY <3>4
    <3> USE DEF B
    <3>2. state[q[k]] = "BLOCKED" /\ \A j \in 1..k-1 : state[q[j]] # "BLOCKED"
      BY <1>1, <3>1
    <3> QED BY <2>1, <3>1, <3>2 DEF Unqueued
  <2>2. CASE ~\E k \in DOMAIN q : state[q[k]] = "BLOCKED"
    BY <2>2 DEF Unqueued
  <2> QED BY <2>1, <2>2
<1>4. n \in 0..Len(q)
  BY <1>1, <1>3
<1> HIDE DEF n
<1>5. SubSeq(q, n + 1, Len(q)) \in Seq(P!Pid)
  BY <1>1, <1>4
<1>6. ValueAfter(i, ds) \in 0..MaxValue
  <2>1. ValueAfter(i, ds) \in {sems[i].value, sems[i].value + 1}
    BY DEF ValueAfter
  <2> QED BY <1>1, <1>2, <2>1, KernelAssumption
<1>7. ValueAfter(i, ds) > 0 => SubSeq(q, n + 1, Len(q)) = <<>>
  <2>1. CASE n = Len(q)
    BY <1>1, <2>1
  <2>2. CASE n \in DOMAIN q /\ state[q[n]] = "BLOCKED"
    <3>1. q # <<>>
      BY <1>1, <2>2
    <3>2. sems[i].value = 0
      BY <1>1, <3>1 DEF Inv, TokenOrQueue
    <3>3. q[n] \in Range(ds)
      <4>1. n \in DOMAIN ds /\ ds[n] = q[n]
        BY <1>1, <1>4, <2>2
      <4> QED BY <4>1 DEF Range
    <3> QED BY <2>2, <3>2, <3>3 DEF ValueAfter
  <2> QED BY <1>3, <2>1, <2>2
<1>8. sems' = [sems EXCEPT ![i].value = ValueAfter(i, ds),
                           ![i].queue = SubSeq(q, n + 1, Len(q))]
  BY <1>2 DEF Inv, TableOK, Sem
<1>9. Live(i) /\ UNCHANGED freedPositions /\ slot' \in P!Pid
  BY <1>2 DEF Post, Inv, TableOK
<1> HIDE DEF q, ds
<1> QED BY <1>5, <1>6, <1>7, <1>8, <1>9, OneSem

(* Its position, on no list before, is the last to be freed.                *)
LEMMA DestroySemaphoreInv ==
  ASSUME Inv, NEW i \in DOMAIN sems, DestroySemaphore(i) PROVE Inv'
PROOF
<1>1. TableOK /\ sems[i] \in Sem /\ ~sems[i].destroyed
  BY DEF Inv, TableOK, DestroySemaphore, Destroyable, Live
<1> DEFINE r == [sems[i] EXCEPT !.destroyed = TRUE, !.queue = <<>>]
<1>2. sems' = [sems EXCEPT ![i] = r]
  BY <1>1 DEF DestroySemaphore, TableOK, Sem
<1>3. r \in Sem /\ r.destroyed /\ r.queue = <<>>
  <2>1. \A x \in Sem, t \in BOOLEAN, q \in Seq(P!Pid) :
          LET y == [x EXCEPT !.destroyed = t, !.queue = q] IN
            y \in Sem /\ y.destroyed = t /\ y.queue = q
    BY DEF Sem
  <2>2. <<>> \in Seq(P!Pid) /\ TRUE \in BOOLEAN
    OBVIOUS
  <2> QED BY <1>1, <2>1, <2>2
<1> HIDE DEF r
<1>4. /\ sems' \in Seq(Sem) /\ DOMAIN sems' = DOMAIN sems
      /\ sems'[i] = r /\ \A j \in DOMAIN sems \ {i} : sems'[j] = sems[j]
  BY <1>1, <1>2, <1>3 DEF TableOK
<1>5. freedPositions' = Append(freedPositions, i) /\ slot' = slot
  BY DEF DestroySemaphore, LetGo, procVars
<1> DEFINE n == Len(freedPositions)
<1>6. /\ n \in Nat /\ DOMAIN freedPositions = 1..n
      /\ DOMAIN freedPositions' = 1..n+1
      /\ \A k \in 1..n : freedPositions'[k] = freedPositions[k]
      /\ freedPositions'[n+1] = i
      /\ freedPositions' \in Seq(DOMAIN sems)
  BY <1>1, <1>5 DEF TableOK
<1> HIDE DEF n
<1>7. TableOK'
  BY <1>1, <1>4, <1>5, <1>6 DEF TableOK
<1>8. TokenOrQueue'
  BY <1>3, <1>4 DEF Inv, TokenOrQueue
<1>9. \A k \in 1..n : freedPositions[k] # i
  BY <1>1, <1>6 DEF Inv, FreedOnce, Range
<1>10. \A k \in 1..n+1 : k \in 1..n \/ k = n + 1
  BY <1>6
<1>11. IsInjective(freedPositions')
  <2>1. \A k, l \in 1..n : freedPositions[k] = freedPositions[l] => k = l
    BY <1>6 DEF Inv, FreedOnce, IsInjective
  <2> QED BY <1>6, <1>9, <1>10, <2>1 DEF IsInjective
<1>12. Range(freedPositions') = Range(freedPositions) \cup {i}
  <2>1. 1..n \subseteq 1..n+1 /\ n + 1 \in 1..n+1
    BY <1>6
  <2> QED BY <1>6, <1>10, <2>1 DEF Range
<1>13. FreedOnce'
  BY <1>3, <1>4, <1>11, <1>12 DEF Inv, FreedOnce
<1> QED BY <1>7, <1>8, <1>13 DEF Inv

(* The timer, the processes and sleep() leave the table alone.              *)
LEMMA Elsewhere ==
  ASSUME Inv, UNCHANGED <<sems, freedPositions>>, slot' \in P!Pid PROVE Inv'
PROOF
BY DEF Inv, TableOK, TokenOrQueue, FreedOnce

LEMMA NextInv == Inv /\ [Next]_vars => Inv'
PROOF
<1> SUFFICES ASSUME Inv, [Next]_vars PROVE Inv'
  OBVIOUS
<1>1. slot \in P!Pid
  BY DEF Inv, TableOK
<1>2. CASE UNCHANGED vars
  BY <1>1, <1>2, Elsewhere DEF vars, procVars, devVars
<1>3. CASE Stopped
  BY <1>2, <1>3 DEF Stopped
<1>4. CASE Running /\ Step
  <2>1. CASE ProcessStep
    BY <1>1, <2>1, ProcessStepSlot, Elsewhere DEF ProcessStep, devVars
  <2>2. ASSUME NEW v \in 0..MaxValue, SemInit(v) PROVE Inv'
    <3>1. NoName \in Names
      BY KernelAssumption
    <3> QED BY <2>2, <3>1, AddSemInv DEF SemInit, procVars
  <2>3. ASSUME NEW v \in 0..MaxValue, NEW name \in Names, CreateSemaphore(name, v)
        PROVE  Inv'
    BY <2>3, AddSemInv DEF CreateSemaphore, procVars
  <2>4. ASSUME NEW i \in DOMAIN sems,
               \/ DestroySemaphore(i) \/ TakeToken(i)
               \/ WaitInQueue(i) \/ PostSemaphore(i)
        PROVE  Inv'
    BY <2>4, DestroySemaphoreInv, TakeTokenInv, WaitInQueueInv, PostInv
       DEF PostSemaphore
  <2>5. ASSUME NEW n \in 1..MaxSleep, Sleep(n) PROVE Inv'
    BY <1>1, <2>5, SwitchSlot, Elsewhere DEF Sleep
  <2>6. CASE KeyPress
    <3>1. StdinWritten \in DOMAIN sems
      BY <2>6 DEF KeyPress, Post, Live
    <3> QED BY <2>6, <3>1, PostInv DEF KeyPress
  <2>7. CASE Tick
    BY <1>1, <2>7, TickSlot, Elsewhere DEF Tick
  <2> QED BY <1>4, <2>1, <2>2, <2>3, <2>4, <2>5, <2>6, <2>7 DEF Step
<1> QED BY <1>2, <1>3, <1>4 DEF Next

LEMMA Invariance == Spec => []Inv
PROOF
<1>1. Init => Inv
  BY InitInv
<1>2. Inv /\ [Next]_vars => Inv'
  BY NextInv
<1> QED BY <1>1, <1>2, PTL DEF Spec

(* Nobody waits at a semaphore that has a token: in whatever order          *)
(* processes wait, are killed in the queue and are passed over by a post    *)
(* (semaphores.c:131-145), the queue is empty before a token is counted.    *)
THEOREM TokenMeansNoQueue == Spec => []TokenOrQueue
PROOF
<1>1. Inv => TokenOrQueue
  BY DEF Inv
<1> QED BY <1>1, Invariance, PTL

(* A position of the table is on the stack of free ones exactly while its   *)
(* semaphore is destroyed, and once: addSem() never gives out one that is   *)
(* in use, nor one twice (semaphores.c:30-36, 93).                          *)
THEOREM PositionsFreedOnce == Spec => []FreedOnce
PROOF
<1>1. Inv => FreedOnce
  BY DEF Inv
<1> QED BY <1>1, Invariance, PTL

-----------------------------------------------------------------------------
(* The processes: what ProcessesProof shows of `held' holds of Held, as     *)
(* every step of this module is one of Processes.                           *)

PP == INSTANCE ProcessesProof WITH held <- Held

Sleeper == [pcb : P!Pid, ticksRemaining : 1..MaxSleep]

\* The invariant of the devices together with the processes.
IInv ==
  /\ Inv
  /\ HeldOnce
  /\ sleepers \in Seq(Sleeper)
  /\ hung \in BOOLEAN
  /\ PP!Inv

(* The module whose instance has the proofs is the one the model refers to. *)
LEMMA SameNext == (P!Next <=> PP!Next) /\ P!vars = PP!vars /\ (P!CtrlC <=> PP!CtrlC)
PROOF
<1> USE DEF P!Pid, PP!Pid, P!Range, PP!Range,
            P!Place, PP!Place, P!KeepsCpu, PP!KeepsCpu, P!Preempted, PP!Preempted,
            P!Elected, PP!Elected, P!Freed, PP!Freed, P!Schedule, PP!Schedule,
            P!Switch, PP!Switch,
            P!Cascades, PP!Cascades, P!ExitSet, PP!ExitSet,
            P!AfterExit, PP!AfterExit,
            P!FlattenSeq, PP!FlattenSeq, P!Max, PP!Max,
            P!MapThenFoldSet, PP!MapThenFoldSet, P!FoldLeft, PP!FoldLeft,
            P!ExitOrder, PP!ExitOrder, P!Foreground, PP!Foreground,
            P!ForegroundAfter, PP!ForegroundAfter,
            P!Doomed, PP!Doomed, P!Released, PP!Released,
            P!ForegroundReleased, PP!ForegroundReleased,
            P!Cardinality, PP!Cardinality, P!SetToSeqs, PP!SetToSeqs,
            P!SetToAllKPermutations, PP!SetToAllKPermutations,
            P!vars, PP!vars, P!CtrlC, PP!CtrlC
<1>1. P!Intact <=> PP!Intact
  BY DEF P!Intact, PP!Intact
<1>2. P!Step <=> PP!Step
  <2> USE DEF P!CreatePCBNode, PP!CreatePCBNode, P!Killable, PP!Killable,
              P!Awaitable, PP!Awaitable, P!WaitersRoom, PP!WaitersRoom
  <2>1. /\ P!Create <=> PP!Create
        /\ P!CreateFails <=> PP!CreateFails
        /\ P!Exit <=> PP!Exit
        /\ P!Yield <=> PP!Yield
        /\ P!Block <=> PP!Block
    BY DEF P!Create, PP!Create, P!CreateFails, PP!CreateFails, P!Exit, PP!Exit,
           P!Yield, PP!Yield, P!Block, PP!Block
  <2>2. ASSUME NEW p
        PROVE  /\ P!KillBlocked(p) <=> PP!KillBlocked(p)
               /\ P!Kill(p) <=> PP!Kill(p)
               /\ P!WaitPid(p) <=> PP!WaitPid(p)
    BY DEF P!KillBlocked, PP!KillBlocked, P!Kill, PP!Kill, P!WaitPid, PP!WaitPid
  <2>3. ASSUME NEW p, NEW n
        PROVE  /\ P!BlockByUser(p) <=> PP!BlockByUser(p)
               /\ P!Unblock(p) <=> PP!Unblock(p)
               /\ P!ChangePriority(p, n) <=> PP!ChangePriority(p, n)
    BY DEF P!BlockByUser, PP!BlockByUser, P!Unblock, PP!Unblock,
           P!ChangePriority, PP!ChangePriority
  <2>4. ASSUME NEW ds PROVE P!Release(ds) <=> PP!Release(ds)
    BY DEF P!Release, PP!Release
  <2>5. (P!Tick <=> PP!Tick) /\ (P!F2 <=> PP!F2)
    BY DEF P!Tick, PP!Tick, P!F2, PP!F2
  <2>6. (P!CtrlC <=> PP!CtrlC) /\ P!SetToAllKPermutations(Held) = PP!SetToAllKPermutations(Held)
    OBVIOUS
  <2>7. P!Pid = PP!Pid
    OBVIOUS
  <2> USE <2>1, <2>2, <2>3, <2>4, <2>5, <2>6, <2>7
  <2> QED BY DEF P!Step, PP!Step
<1>3. P!vars = PP!vars /\ (P!CtrlC <=> PP!CtrlC)
  OBVIOUS
<1> QED BY <1>1, <1>2, <1>3 DEF P!Next, PP!Next, P!Undefined, PP!Undefined

LEMMA ProcessesNext ==
  ASSUME PP!Inv, P!Next \/ UNCHANGED P!vars PROVE PP!Inv'
PROOF
<1>1. [PP!Next]_(PP!vars)
  BY SameNext DEF P!vars, PP!vars
<1> QED BY <1>1, KernelAssumption, PP!NextInv

\* What of PP!Inv the devices rely on, in the terms of the model.
LEMMA ProcessFacts ==
  ASSUME PP!Inv
  PROVE  /\ P!TypeOK
         /\ \A p \in Held : p \in P!Pid /\ state[p] \in P!Waiting \cup P!Dead
         /\ ~idle => /\ slot \in P!Pid /\ slot \notin Held
                     /\ state[slot] \in {"READY", "RUNNING"}
PROOF
<1>1. P!TypeOK
  BY DEF PP!Inv, PP!TypeOK, P!TypeOK, PP!Pid, P!Pid, PP!State, P!State
<1>2. \A p \in P!Pid : state[p] \in {"READY", "RUNNING", "BLK_USER"} => p \notin Held
  BY DEF PP!Inv, PP!OneWaitPlace, PP!Pid, P!Pid
<1>3. ASSUME ~idle
      PROVE  slot \in P!Pid /\ slot \notin Held /\ state[slot] \in {"READY", "RUNNING"}
  BY <1>3, KernelAssumption, PP!CurrentIsFree DEF PP!Pid, P!Pid
<1> QED BY <1>1, <1>2, <1>3 DEF P!TypeOK, P!State, P!Waiting, P!Dead

-----------------------------------------------------------------------------
(* What a step does to the queues and the sleep list.                       *)

\* The queue of i becomes q, and those of new semaphores are empty.
Queues(i, q) ==
  /\ DOMAIN sems \subseteq DOMAIN sems'
  /\ \A j \in DOMAIN sems' :
       sems'[j].queue = IF j = i THEN q
                        ELSE IF j \in DOMAIN sems THEN sems[j].queue ELSE <<>>

NoQueue == 0
QueuesKept == Queues(NoQueue, <<>>)

LEMMA TableFacts ==
  ASSUME Inv
  PROVE  /\ DOMAIN sems \in SUBSET (Nat \ {0})
         /\ \A i \in DOMAIN sems : sems[i] \in Sem /\ sems[i].queue \in Seq(P!Pid)
         /\ \A i \in DOMAIN sems : Range(sems[i].queue) \in SUBSET P!Pid
PROOF
<1>1. sems \in Seq(Sem)
  BY DEF Inv, TableOK
<1>2. ASSUME NEW i \in DOMAIN sems PROVE sems[i] \in Sem /\ sems[i].queue \in Seq(P!Pid)
  <2>1. sems[i] \in Sem
    BY <1>1
  <2> QED BY <2>1 DEF Sem
<1>3. ASSUME NEW i \in DOMAIN sems PROVE Range(sems[i].queue) \in SUBSET P!Pid
  BY <1>2 DEF Range
<1> QED BY <1>1, <1>2, <1>3

LEMMA QueuesSame == ASSUME Inv, sems' = sems PROVE QueuesKept
PROOF
<1>1. NoQueue \notin DOMAIN sems
  BY TableFacts DEF NoQueue
<1> QED BY <1>1 DEF QueuesKept, Queues

(* A new semaphore has no queue, at whatever position it is put: nobody     *)
(* waits at a destroyed one.                                                *)
LEMMA AddSemQueues ==
  ASSUME Inv, NEW name \in Names, NEW v \in 0..MaxValue, AddSem(name, v)
  PROVE  QueuesKept
PROOF
<1> DEFINE new == [value |-> v, destroyed |-> FALSE, queue |-> <<>>, name |-> name]
<1>0. sems \in Seq(Sem) /\ NoQueue \notin DOMAIN sems
  BY TableFacts DEF Inv, TableOK, NoQueue
<1>1. new.queue = <<>>
  OBVIOUS
<1>2. CASE freedPositions # <<>>
  <2> DEFINE i == Last(freedPositions)
  <2>1. i \in DOMAIN sems /\ i \in Range(freedPositions)
    <3>1. Len(freedPositions) \in DOMAIN freedPositions /\ freedPositions \in Seq(DOMAIN sems)
      BY <1>2 DEF Inv, TableOK
    <3> QED BY <3>1 DEF Last, Range
  <2>2. sems[i].queue = <<>>
    BY <2>1 DEF Inv, FreedOnce
  <2>3. sems' = [sems EXCEPT ![i] = new]
    BY <1>2 DEF AddSem
  <2> HIDE DEF new, i
  <2>4. /\ DOMAIN sems' = DOMAIN sems
        /\ sems'[i] = new /\ \A j \in DOMAIN sems \ {i} : sems'[j] = sems[j]
    BY <1>0, <2>1, <2>3
  <2> QED BY <1>0, <1>1, <2>1, <2>2, <2>4 DEF QueuesKept, Queues
<1>3. CASE freedPositions = <<>>
  <2>1. sems' = Append(sems, new)
    BY <1>3 DEF AddSem
  <2> HIDE DEF new
  <2>2. /\ DOMAIN sems' = DOMAIN sems \cup {Len(sems) + 1}
        /\ Len(sems) + 1 \notin DOMAIN sems /\ Len(sems) + 1 # NoQueue
        /\ \A j \in DOMAIN sems : sems'[j] = sems[j]
        /\ sems'[Len(sems) + 1] = new
    BY <1>0, <2>1 DEF NoQueue
  <2> QED BY <1>0, <1>1, <2>2 DEF QueuesKept, Queues
<1> QED BY <1>2, <1>3

(* An update of the record of semaphore i, whichever fields it changes.     *)
LEMMA OneSemQueues ==
  ASSUME Inv, NEW i \in DOMAIN sems, NEW r, sems' = [sems EXCEPT ![i] = r]
  PROVE  Queues(i, r.queue)
PROOF
<1>1. sems \in Seq(Sem)
  BY DEF Inv, TableOK
<1>2. /\ DOMAIN sems' = DOMAIN sems
      /\ sems'[i] = r /\ \A j \in DOMAIN sems \ {i} : sems'[j] = sems[j]
  BY <1>1
<1> QED BY <1>2 DEF Queues

LEMMA TakeTokenQueues ==
  ASSUME Inv, NEW i \in DOMAIN sems, TakeToken(i) PROVE QueuesKept
PROOF
<1>1. sems[i] \in Sem /\ NoQueue \notin DOMAIN sems
  BY TableFacts DEF NoQueue
<1> DEFINE r == [sems[i] EXCEPT !.value = @ - 1]
<1>2. sems' = [sems EXCEPT ![i] = r]
  BY DEF TakeToken
<1>3. r.queue = sems[i].queue
  BY <1>1 DEF Sem
<1> HIDE DEF r
<1>4. Queues(i, sems[i].queue) /\ DOMAIN sems' = DOMAIN sems
  BY <1>2, <1>3, OneSemQueues DEF Inv, TableOK
<1> QED BY <1>1, <1>4 DEF QueuesKept, Queues

LEMMA WaitInQueueQueues ==
  ASSUME Inv, NEW i \in DOMAIN sems, WaitInQueue(i)
  PROVE  Queues(i, Append(sems[i].queue, slot))
PROOF
<1>1. sems[i] \in Sem
  BY TableFacts
<1> DEFINE r == [sems[i] EXCEPT !.queue = Queued(i)]
<1>2. sems' = [sems EXCEPT ![i] = r]
  BY DEF WaitInQueue
<1>3. r.queue = Append(sems[i].queue, slot)
  BY <1>1 DEF Sem, Queued
<1> HIDE DEF r
<1> QED BY <1>2, <1>3, OneSemQueues

LEMMA DestroySemaphoreQueues ==
  ASSUME Inv, NEW i \in DOMAIN sems, DestroySemaphore(i) PROVE Queues(i, <<>>)
PROOF
<1>1. sems[i] \in Sem
  BY TableFacts
<1> DEFINE r == [sems[i] EXCEPT !.destroyed = TRUE, !.queue = <<>>]
<1>2. sems' = [sems EXCEPT ![i] = r]
  BY <1>1 DEF DestroySemaphore, Inv, TableOK, Sem
<1>3. r.queue = <<>>
  BY <1>1 DEF Sem
<1> HIDE DEF r
<1> QED BY <1>2, <1>3, OneSemQueues

\* A post stops at the first BLOCKED process, or at the end.
LEMMA UnqueuedFacts ==
  ASSUME NEW q \in Seq(P!Pid)
  PROVE  /\ Unqueued(q) \in 0..Len(q)
         /\ \A j \in DOMAIN q : j < Unqueued(q) => state[q[j]] # "BLOCKED"
         /\ \/ /\ Unqueued(q) = Len(q)
               /\ \A j \in DOMAIN q : state[q[j]] # "BLOCKED"
            \/ Unqueued(q) \in DOMAIN q /\ state[q[Unqueued(q)]] = "BLOCKED"
PROOF
<1>1. CASE \E k \in DOMAIN q : state[q[k]] = "BLOCKED"
  <2> DEFINE B == {k \in DOMAIN q : state[q[k]] = "BLOCKED"}
  <2>1. B \in SUBSET Nat /\ B # {}
    BY <1>1
  <2> HIDE DEF B
  <2>2. PICK k \in B : \A j \in B : k <= j
    BY <2>1, LeastOfSome
  <2>3. k \in B /\ \A j \in B : k <= j
    BY <2>2
  <2> USE DEF B
  <2>4. state[q[k]] = "BLOCKED" /\ \A j \in 1..k-1 : state[q[j]] # "BLOCKED"
    BY <2>3
  <2>5. /\ Unqueued(q) \in DOMAIN q /\ state[q[Unqueued(q)]] = "BLOCKED"
        /\ \A j \in 1..Unqueued(q)-1 : state[q[j]] # "BLOCKED"
    BY <1>1, <2>3, <2>4 DEF Unqueued
  <2> QED BY <2>5
<1>2. CASE ~\E k \in DOMAIN q : state[q[k]] = "BLOCKED"
  BY <1>2 DEF Unqueued
<1> QED BY <1>1, <1>2

LEMMA PostQueues ==
  ASSUME Inv, NEW i \in DOMAIN sems, Post(i)
  PROVE  LET q == sems[i].queue
             n == Unqueued(q) IN
         /\ Queues(i, SubSeq(q, n + 1, Len(q)))
         /\ LetGo(SubSeq(q, 1, n))
         /\ sems'[i].value = ValueAfter(i, SubSeq(q, 1, n))
PROOF
<1> DEFINE q == sems[i].queue
           n == Unqueued(q)
           ds == SubSeq(q, 1, n)
           q2 == SubSeq(q, n + 1, Len(q))
           r == [sems[i] EXCEPT !.queue = q2, !.value = ValueAfter(i, ds)]
<1>1. sems[i] \in Sem
  BY TableFacts
<1>2. LetGo(ds) /\ sems' = [sems EXCEPT ![i].queue = q2, ![i].value = ValueAfter(i, ds)]
  BY DEF Post
<1> HIDE DEF ds, q2
<1>3. sems' = [sems EXCEPT ![i] = r]
  BY <1>2 DEF Inv, TableOK
<1>4. r.queue = q2 /\ r.value = ValueAfter(i, ds)
  BY <1>1 DEF Sem
<1> HIDE DEF r
<1>5. Queues(i, q2)
  BY <1>3, <1>4, OneSemQueues
<1>6. sems'[i].value = ValueAfter(i, ds)
  BY <1>3, <1>4 DEF Inv, TableOK
<1> QED BY <1>2, <1>5, <1>6 DEF ds, q2

-----------------------------------------------------------------------------
(* Who is held after such a change, and that nobody is held twice.          *)

\* At the places of a device: a queue, or the sleep list.
QueuedAt(p, i) == i \in DOMAIN sems /\ p \in Range(sems[i].queue)
SleepsAt(p, k) == k \in DOMAIN sleepers /\ sleepers[k].pcb = p

LEMMA HeldMembers ==
  ASSUME NEW p
  PROVE  p \in Held <=> (\E i : QueuedAt(p, i)) \/ (\E k : SleepsAt(p, k))
PROOF
BY DEF Held, QueuedAt, SleepsAt

LEMMA HeldMembersNext ==
  ASSUME NEW p
  PROVE  p \in Held' <=> \/ \E i \in DOMAIN sems' : p \in Range(sems'[i].queue)
                         \/ \E k \in DOMAIN sleepers' : sleepers'[k].pcb = p
PROOF
BY DEF Held

LEMMA HeldKept ==
  ASSUME Inv, QueuesKept, sleepers' = sleepers PROVE Held' = Held
PROOF
<1>1. Range(<<>>) = {}
  BY DEF Range
<1>2. NoQueue \notin DOMAIN sems
  BY TableFacts DEF NoQueue
<1>3. ASSUME NEW p PROVE p \in Held' <=> p \in Held
  <2>1. (\E i \in DOMAIN sems' : p \in Range(sems'[i].queue))
          <=> \E i \in DOMAIN sems : p \in Range(sems[i].queue)
    BY <1>1, <1>2 DEF QueuesKept, Queues
  <2> QED BY <2>1, HeldMembers, HeldMembersNext DEF QueuedAt, SleepsAt
<1> QED BY <1>3

LEMMA HeldAfter ==
  ASSUME HeldOnce, NEW i \in DOMAIN sems, NEW q, Queues(i, q), sleepers' = sleepers
  PROVE  Held' = (Held \ Range(sems[i].queue)) \cup Range(q)
PROOF
<1>1. Range(<<>>) = {}
  BY DEF Range
<1>2. ASSUME NEW p
      PROVE  p \in Held' <=> p \in (Held \ Range(sems[i].queue)) \cup Range(q)
  <2>1. (\E j \in DOMAIN sems' : p \in Range(sems'[j].queue))
          <=> p \in Range(q) \/ \E j \in DOMAIN sems \ {i} : p \in Range(sems[j].queue)
    BY <1>1 DEF Queues
  <2>2. p \in Range(sems[i].queue) =>
          /\ \A j \in DOMAIN sems \ {i} : p \notin Range(sems[j].queue)
          /\ \A k \in DOMAIN sleepers : sleepers[k].pcb # p
    BY DEF HeldOnce
  <2> QED BY <2>1, <2>2, HeldMembers, HeldMembersNext DEF QueuedAt, SleepsAt
<1> QED BY <1>2

(* A queue takes in nobody but a process that no device holds.              *)
LEMMA HeldOnceQueues ==
  ASSUME HeldOnce, NEW i, NEW q, Queues(i, q), sleepers' = sleepers,
         IsInjective(q),
         \A p \in Range(q) : p \notin Held \/ QueuedAt(p, i)
  PROVE  HeldOnce'
PROOF
<1>1. Range(<<>>) = {} /\ IsInjective(<<>>)
  BY DEF Range, IsInjective
<1>2. ASSUME NEW j \in DOMAIN sems' PROVE IsInjective(sems'[j].queue)
  BY <1>1 DEF HeldOnce, Queues
<1>3. ASSUME NEW p, NEW j \in DOMAIN sems', p \in Range(sems'[j].queue)
      PROVE  /\ j # i => QueuedAt(p, j)
             /\ j = i => p \notin Held \/ QueuedAt(p, i)
  BY <1>1, <1>3 DEF Queues, QueuedAt
<1>4. ASSUME NEW j \in DOMAIN sems', NEW l \in DOMAIN sems', j # l
      PROVE  Range(sems'[j].queue) \cap Range(sems'[l].queue) = {}
  <2> SUFFICES ASSUME NEW p, p \in Range(sems'[j].queue), p \in Range(sems'[l].queue)
               PROVE  FALSE
    OBVIOUS
  <2>1. QueuedAt(p, j) /\ QueuedAt(p, l)
    BY <1>3, <1>4, HeldMembers
  <2> QED BY <1>4, <2>1 DEF HeldOnce, QueuedAt
<1>5. ASSUME NEW k \in DOMAIN sleepers, NEW j \in DOMAIN sems',
             sleepers[k].pcb \in Range(sems'[j].queue)
      PROVE  FALSE
  <2>1. sleepers[k].pcb \in Held
    BY HeldMembers DEF SleepsAt
  <2>2. QueuedAt(sleepers[k].pcb, j)
    BY <1>3, <1>5, <2>1
  <2> QED BY <2>2 DEF HeldOnce, QueuedAt
<1> QED BY <1>2, <1>4, <1>5 DEF HeldOnce

LEMMA HeldOnceKept ==
  ASSUME Inv, HeldOnce, QueuesKept, sleepers' = sleepers PROVE HeldOnce'
PROOF
<1>1. Range(<<>>) = {} /\ IsInjective(<<>>)
  BY DEF Range, IsInjective
<1> QED BY <1>1, HeldOnceQueues DEF QueuesKept

-----------------------------------------------------------------------------
(* Every step is a step of Processes, or leaves its variables alone.        *)

\* A sequence without repetition is one of those Processes releases.
LEMMA InPermutations ==
  ASSUME NEW S, NEW q \in Seq(S), IsInjective(q)
  PROVE  q \in P!SetToAllKPermutations(S)
PROOF
<1> DEFINE n == Len(q)
           D == Range(q)
<1>1. n \in Nat /\ DOMAIN q = 1..n /\ D \in SUBSET S
  BY DEF Range
<1>2. q \in [1..n -> D] /\ \A i, j \in 1..n : i # j => q[i] # q[j]
  BY <1>1 DEF Range, IsInjective
<1>3. \A d \in D : \E i \in 1..n : q[i] = d
  BY <1>1 DEF Range
<1> HIDE DEF n, D
<1>4. q \in Bijection(1..n, D)
  BY <1>2, <1>3 DEF Bijection, Injection, Surjection, IsInjective
<1>5. Cardinality(D) = n
  BY <1>1, <1>4, FS_CountingElements DEF ExistsBijection
<1>6. P!Cardinality(D) = n
  BY <1>5 DEF P!Cardinality, Cardinality
<1>7. q \in P!SetToSeqs(D)
  BY <1>2, <1>6 DEF P!SetToSeqs
<1> QED BY <1>1, <1>7 DEF P!SetToAllKPermutations

LEMMA SameRange == ASSUME NEW f PROVE P!Range(f) = Range(f)
PROOF
BY DEF P!Range, Range

LEMMA DeviceStep ==
  ASSUME Running, P!Step PROVE P!Next
PROOF
BY DEF Running, P!Next

(* Semaphores: those at the head of a queue are let go of.                  *)
LEMMA LetGoStep ==
  ASSUME IInv, Running, NEW i \in DOMAIN sems, NEW n \in 0..Len(sems[i].queue),
         Queues(i, SubSeq(sems[i].queue, n + 1, Len(sems[i].queue))),
         LetGo(SubSeq(sems[i].queue, 1, n)), sleepers' = sleepers
  PROVE  /\ HeldOnce'
         /\ Held' = Held \ Range(SubSeq(sems[i].queue, 1, n))
         /\ P!Next
PROOF
<1> DEFINE q == sems[i].queue
           ds == SubSeq(q, 1, n)
           q2 == SubSeq(q, n + 1, Len(q))
<1>1. q \in Seq(P!Pid) /\ IsInjective(q)
  BY TableFacts DEF IInv, HeldOnce
<1>2. /\ ds \in Seq(P!Pid) /\ IsInjective(ds) /\ IsInjective(q2)
      /\ Range(q) = Range(ds) \cup Range(q2) /\ Range(ds) \cap Range(q2) = {}
  BY <1>1, SplitQueue
<1>3. LetGo(ds) /\ Queues(i, q2) /\ sleepers' = sleepers /\ HeldOnce
  BY DEF IInv
<1>4. Range(q) \subseteq Held
  BY HeldMembers DEF QueuedAt
<1>5. \A p \in Range(q) : QueuedAt(p, i)
  BY DEF QueuedAt
<1> HIDE DEF q, ds, q2
<1>6. HeldOnce'
  BY <1>2, <1>3, <1>5, HeldOnceQueues
<1>7. Held' = Held \ Range(ds)
  <2>1. Held' = (Held \ Range(q)) \cup Range(q2)
    BY <1>3, HeldAfter DEF q
  <2> QED BY <1>2, <1>4, <2>1
<1>8. ds \in P!SetToAllKPermutations(Held)
  <2>1. ds \in Seq(Held)
    BY <1>2, <1>4 DEF Range
  <2> QED BY <1>2, <2>1, InPermutations
<1>9. P!Release(ds)
  BY <1>3, <1>7, SameRange DEF P!Release, LetGo, procVars
<1>10. P!Next
  BY <1>8, <1>9, DeviceStep DEF P!Step
<1> QED BY <1>6, <1>7, <1>10 DEF ds, q

LEMMA PostStep ==
  ASSUME IInv, Running, NEW i \in DOMAIN sems, Post(i)
  PROVE  HeldOnce' /\ P!Next
PROOF
<1>1. sems[i].queue \in Seq(P!Pid)
  BY TableFacts DEF IInv
<1>2. Unqueued(sems[i].queue) \in 0..Len(sems[i].queue)
  BY <1>1, UnqueuedFacts
<1>3. sleepers' = sleepers
  BY DEF Post
<1> QED BY <1>2, <1>3, PostQueues, LetGoStep DEF IInv

LEMMA DestroySemaphoreStep ==
  ASSUME IInv, Running, NEW i \in DOMAIN sems, DestroySemaphore(i)
  PROVE  HeldOnce' /\ P!Next
PROOF
<1> DEFINE q == sems[i].queue
<1>1. q \in Seq(P!Pid)
  BY TableFacts DEF IInv
<1>2. Len(q) \in 0..Len(q) /\ SubSeq(q, 1, Len(q)) = q /\ SubSeq(q, Len(q) + 1, Len(q)) = <<>>
  BY <1>1
<1>3. LetGo(q) /\ sleepers' = sleepers /\ Queues(i, <<>>)
  BY DestroySemaphoreQueues DEF DestroySemaphore, IInv
<1> QED BY <1>2, <1>3, LetGoStep

(* A process that blocks is recorded as it does.                            *)
LEMMA BlockStep ==
  ASSUME Running, ~idle, Held' = Held \cup {slot},
         P!Switch([state EXCEPT ![slot] = "BLOCKED"]),
         UNCHANGED <<priority, parent, waiters, nextPid, fg>>
  PROVE  P!Next
PROOF
<1>1. P!Block
  BY DEF P!Block
<1> QED BY <1>1, DeviceStep DEF P!Step

LEMMA WaitInQueueStep ==
  ASSUME IInv, Running, NEW i \in DOMAIN sems, WaitInQueue(i)
  PROVE  HeldOnce' /\ P!Next
PROOF
<1> DEFINE q == sems[i].queue
<1>1. q \in Seq(P!Pid) /\ IsInjective(q) /\ HeldOnce
  BY TableFacts DEF IInv, HeldOnce
<1>2. slot \in P!Pid /\ slot \notin Held /\ ~idle
  BY ProcessFacts DEF IInv, WaitInQueue
<1>3. Queues(i, Append(q, slot)) /\ sleepers' = sleepers
  BY WaitInQueueQueues DEF IInv, WaitInQueue
<1>4. \A p \in Range(q) : QueuedAt(p, i) /\ p \in Held
  BY HeldMembers DEF QueuedAt
<1> HIDE DEF q
<1>5. /\ DOMAIN Append(q, slot) = DOMAIN q \cup {Len(q) + 1}
      /\ Len(q) + 1 \notin DOMAIN q
      /\ \A k \in DOMAIN q : Append(q, slot)[k] = q[k]
      /\ Append(q, slot)[Len(q) + 1] = slot
  BY <1>1, <1>2
<1>6. Range(Append(q, slot)) = Range(q) \cup {slot} /\ slot \notin Range(q)
  BY <1>2, <1>4, <1>5 DEF Range
<1>7. IsInjective(Append(q, slot))
  BY <1>1, <1>5, <1>6 DEF IsInjective, Range
<1>8. HeldOnce'
  BY <1>1, <1>2, <1>3, <1>4, <1>6, <1>7, HeldOnceQueues
<1>9. Held' = Held \cup {slot}
  <2>1. Held' = (Held \ Range(q)) \cup Range(Append(q, slot))
    BY <1>1, <1>3, HeldAfter DEF q
  <2> QED BY <1>4, <1>6, <2>1
<1>10. P!Next
  BY <1>9, BlockStep DEF WaitInQueue
<1> QED BY <1>8, <1>10

LEMMA SleepStep ==
  ASSUME IInv, Running, NEW n \in 1..MaxSleep, Sleep(n)
  PROVE  HeldOnce' /\ sleepers' \in Seq(Sleeper) /\ P!Next
PROOF
<1> DEFINE new == [pcb |-> slot, ticksRemaining |-> n]
<1>1. slot \in P!Pid /\ slot \notin Held /\ ~idle
  BY ProcessFacts DEF IInv, Sleep
<1>2. new \in Sleeper /\ new.pcb = slot /\ sleepers' = <<new>> \o sleepers
  BY <1>1 DEF Sleeper, Sleep
<1>3. sleepers \in Seq(Sleeper) /\ HeldOnce /\ sems' = sems
  BY DEF IInv, Sleep
<1> HIDE DEF new
<1>4. /\ sleepers' \in Seq(Sleeper)
      /\ DOMAIN sleepers' = 1..Len(sleepers)+1
      /\ sleepers'[1] = new
      /\ \A k \in 2..Len(sleepers)+1 : sleepers'[k] = sleepers[k - 1]
  BY <1>2, <1>3
<1>5. /\ Len(sleepers) \in Nat /\ DOMAIN sleepers = 1..Len(sleepers)
      /\ \A k \in 1..Len(sleepers)+1 : k = 1 \/ k \in 2..Len(sleepers)+1
      /\ \A k \in 2..Len(sleepers)+1 : k - 1 \in DOMAIN sleepers
  BY <1>3
<1>6. \A k \in DOMAIN sleepers : sleepers[k].pcb # slot
  BY <1>1, HeldMembers DEF SleepsAt
<1>7. \A i \in DOMAIN sems : slot \notin Range(sems[i].queue)
  BY <1>1, HeldMembers DEF QueuedAt
<1>8. ASSUME NEW k \in DOMAIN sleepers', NEW l \in DOMAIN sleepers',
             sleepers'[k].pcb = sleepers'[l].pcb
      PROVE  k = l
  <2>1. CASE k = 1 \/ l = 1
    BY <1>2, <1>4, <1>5, <1>6, <1>8, <2>1
  <2>2. CASE k # 1 /\ l # 1
    <3>1. k \in 2..Len(sleepers)+1 /\ l \in 2..Len(sleepers)+1
      BY <1>4, <1>5, <2>2
    <3>2. k - 1 = l - 1
      BY <1>3, <1>4, <1>5, <1>8, <3>1 DEF HeldOnce
    <3> QED BY <3>1, <3>2
  <2> QED BY <2>1, <2>2
<1>9. ASSUME NEW k \in DOMAIN sleepers', NEW i \in DOMAIN sems
      PROVE  sleepers'[k].pcb \notin Range(sems[i].queue)
  BY <1>2, <1>3, <1>4, <1>5, <1>7 DEF HeldOnce
<1>10. HeldOnce'
  BY <1>3, <1>8, <1>9 DEF HeldOnce
<1>11. Held' = Held \cup {slot}
  <2>1. ASSUME NEW p
        PROVE  (\E k \in DOMAIN sleepers' : sleepers'[k].pcb = p)
                 <=> p = slot \/ \E k \in DOMAIN sleepers : sleepers[k].pcb = p
    <3>1. ASSUME NEW k \in DOMAIN sleepers
          PROVE  k + 1 \in DOMAIN sleepers' /\ sleepers'[k + 1] = sleepers[k]
      BY <1>4, <1>5
    <3>2. 1 \in DOMAIN sleepers'
      BY <1>4, <1>5
    <3> QED BY <1>2, <1>4, <1>5, <3>1, <3>2
  <2>2. ASSUME NEW p PROVE p \in Held' <=> p \in Held \cup {slot}
    BY <1>3, <2>1, HeldMembers, HeldMembersNext DEF QueuedAt, SleepsAt
  <2> QED BY <2>2
<1>12. P!Next
  BY <1>11, BlockStep DEF Sleep
<1> QED BY <1>4, <1>10, <1>12

(* The timer: the loop of incTicks() goes as far as the first sleeper that  *)
(* is neither BLOCKED nor W-EXIT.                                           *)
LEMMA StuckAtFacts ==
  ASSUME sleepers \in Seq(Sleeper), NEW st
  PROVE  /\ StuckAt(st) \in 1..Len(sleepers)+1
         /\ \A j \in 1..StuckAt(st)-1 : j \in DOMAIN sleepers
                                        /\ st[sleepers[j].pcb] \in P!Waiting
PROOF
<1> DEFINE stuck == {k \in DOMAIN sleepers : st[sleepers[k].pcb] \notin P!Waiting}
<1>1. Len(sleepers) \in Nat /\ DOMAIN sleepers = 1..Len(sleepers)
  OBVIOUS
<1>2. CASE stuck = {}
  <2>1. StuckAt(st) = Len(sleepers) + 1
    BY <1>2 DEF StuckAt
  <2> QED BY <1>1, <1>2, <2>1
<1>3. CASE stuck # {}
  <2>1. stuck \in SUBSET Nat
    BY <1>1
  <2>2. StuckAt(st) = CHOOSE k \in stuck : \A j \in stuck : k <= j
    BY <1>3 DEF StuckAt
  <2> HIDE DEF stuck
  <2>3. \E k \in stuck : \A j \in stuck : k <= j
    BY <1>3, <2>1, LeastOfSome
  <2>4. StuckAt(st) \in stuck /\ \A j \in stuck : StuckAt(st) <= j
    BY <2>2, <2>3
  <2>5. StuckAt(st) \in DOMAIN sleepers
    BY <2>4 DEF stuck
  <2>6. ASSUME NEW j \in 1..StuckAt(st)-1
        PROVE  j \in DOMAIN sleepers /\ st[sleepers[j].pcb] \in P!Waiting
    <3>1. j \in DOMAIN sleepers /\ ~(StuckAt(st) <= j)
      BY <1>1, <2>5
    <3>2. j \notin stuck
      BY <2>4, <3>1
    <3> QED BY <3>1, <3>2 DEF stuck
  <2> QED BY <1>1, <2>5, <2>6
<1> QED BY <1>2, <1>3

\* The sleepers that incTicks() takes off the list, and those it leaves.
Gone(st) == {j \in 1..StuckAt(st)-1 : Wakes(sleepers[j], st)}
Slept(st) == AtPlaces([j \in DOMAIN sleepers |-> sleepers[j].pcb], Gone(st))
Left(st) == AtPlaces(CountedBefore(StuckAt(st)), DOMAIN sleepers \ Gone(st))

(* Those taken off are waiting processes, each once.                        *)
LEMMA SleptFacts ==
  ASSUME IInv, NEW st
  PROVE  /\ Gone(st) \in SUBSET (DOMAIN sleepers)
         /\ Slept(st) \in Seq({p \in Held : st[p] \in P!Waiting})
         /\ IsInjective(Slept(st))
         /\ Range(Slept(st)) = {sleepers[j].pcb : j \in Gone(st)}
PROOF
<1> DEFINE pcbs == [j \in DOMAIN sleepers |-> sleepers[j].pcb]
           W == {p \in Held : st[p] \in P!Waiting}
<1>1. sleepers \in Seq(Sleeper) /\ HeldOnce
  BY DEF IInv
<1>2. Gone(st) \in SUBSET (DOMAIN sleepers) /\ \A j \in Gone(st) : st[sleepers[j].pcb] \in P!Waiting
  BY <1>1, StuckAtFacts DEF Gone
<1>3. pcbs \in Seq(P!Pid) /\ DOMAIN pcbs = DOMAIN sleepers
  <2>1. ASSUME NEW j \in DOMAIN sleepers PROVE sleepers[j].pcb \in P!Pid
    <3>1. sleepers[j] \in Sleeper
      BY <1>1
    <3> QED BY <3>1 DEF Sleeper
  <2> QED BY <1>1, <2>1
<1>4. IsInjective(pcbs)
  BY <1>1 DEF HeldOnce, IsInjective
<1>5. \A j \in DOMAIN sleepers : sleepers[j].pcb \in Held
  BY HeldMembers DEF SleepsAt
<1>6. \A j \in DOMAIN pcbs : pcbs[j] = sleepers[j].pcb
  OBVIOUS
<1> HIDE DEF pcbs, W
<1>7. /\ Slept(st) \in Seq(P!Pid)
      /\ Range(Slept(st)) = {pcbs[k] : k \in Gone(st)}
      /\ IsInjective(Slept(st))
  <2>1. Gone(st) \in SUBSET (DOMAIN pcbs)
    BY <1>2, <1>3
  <2>2. Slept(st) = AtPlaces(pcbs, Gone(st))
    BY DEF Slept, pcbs
  <2> QED BY <1>3, <1>4, <2>1, <2>2, AtPlacesFacts
<1>8. Range(Slept(st)) = {sleepers[j].pcb : j \in Gone(st)}
  BY <1>2, <1>3, <1>6, <1>7
<1>9. Range(Slept(st)) \subseteq W
  BY <1>2, <1>5, <1>8 DEF W
<1>10. Slept(st) \in Seq(W)
  BY <1>7, <1>9 DEF Range
<1> QED BY <1>2, <1>7, <1>8, <1>10 DEF W

(* Those left sleep on, at least for another tick.                          *)
LEMMA LeftFacts ==
  ASSUME IInv, NEW st
  PROVE  /\ Left(st) \in Seq(Sleeper)
         /\ \A k \in DOMAIN Left(st) : \E j \in DOMAIN sleepers \ Gone(st) :
              Left(st)[k].pcb = sleepers[j].pcb
         /\ \A j \in DOMAIN sleepers \ Gone(st) : \E k \in DOMAIN Left(st) :
              Left(st)[k].pcb = sleepers[j].pcb
         /\ \A k, l \in DOMAIN Left(st) : Left(st)[k].pcb = Left(st)[l].pcb => k = l
PROOF
<1> DEFINE R == [pcb : P!Pid, ticksRemaining : Int]
           c == CountedBefore(StuckAt(st))
           K == DOMAIN sleepers \ Gone(st)
<1>1. sleepers \in Seq(Sleeper) /\ HeldOnce /\ MaxSleep \in Nat
  BY KernelAssumption DEF IInv
<1>2. /\ StuckAt(st) \in 1..Len(sleepers)+1
      /\ \A j \in 1..StuckAt(st)-1 : st[sleepers[j].pcb] \in P!Waiting
  BY <1>1, StuckAtFacts
<1>3. ASSUME NEW j \in DOMAIN sleepers
      PROVE  /\ c[j] \in R /\ c[j].pcb = sleepers[j].pcb
             /\ j \notin Gone(st) => c[j] \in Sleeper
  <2>1. /\ sleepers[j].pcb \in P!Pid /\ sleepers[j].ticksRemaining \in 1..MaxSleep
        /\ sleepers[j] \in Sleeper
        /\ sleepers[j] = [pcb |-> sleepers[j].pcb,
                          ticksRemaining |-> sleepers[j].ticksRemaining]
    <3>1. sleepers[j] \in Sleeper
      BY <1>1
    <3> QED BY <3>1 DEF Sleeper
  <2>2. c[j] = IF j < StuckAt(st) THEN Counted(sleepers[j]) ELSE sleepers[j]
    BY DEF CountedBefore
  <2>3. Counted(sleepers[j]) = [pcb |-> sleepers[j].pcb,
                                ticksRemaining |-> sleepers[j].ticksRemaining - 1]
    BY <2>1 DEF Counted
  <2>4. CASE j < StuckAt(st)
    <3>1. j \in 1..StuckAt(st)-1
      BY <1>1, <1>2, <2>4
    <3>2. j \notin Gone(st) => sleepers[j].ticksRemaining # 1
      BY <3>1 DEF Gone, Wakes
    <3> QED BY <1>1, <2>1, <2>2, <2>3, <2>4, <3>2 DEF Sleeper
  <2>5. CASE ~(j < StuckAt(st))
    BY <2>1, <2>2, <2>5 DEF Sleeper
  <2> QED BY <2>4, <2>5
<1>4. c \in Seq(R) /\ DOMAIN c = DOMAIN sleepers
  <2>1. DOMAIN c = 1..Len(sleepers) /\ Len(sleepers) \in Nat
    BY <1>1 DEF CountedBefore
  <2>2. c = [j \in DOMAIN sleepers |-> c[j]]
    BY DEF CountedBefore
  <2> HIDE DEF c, R
  <2>3. c \in [1..Len(sleepers) -> R]
    BY <1>1, <1>3, <2>1, <2>2
  <2> QED BY <1>1, <2>1, <2>3
<1>5. K \in SUBSET (DOMAIN c)
  BY <1>4
<1>6. IsInjective(c)
  BY <1>1, <1>3, <1>4 DEF IsInjective, HeldOnce
<1> HIDE DEF c, R, K
<1>7. /\ Left(st) = AtPlaces(c, K)
      /\ AtPlaces(c, K) \in Seq(R)
      /\ Range(AtPlaces(c, K)) = {c[k] : k \in K}
      /\ \A i \in DOMAIN AtPlaces(c, K) : \E k \in K : AtPlaces(c, K)[i] = c[k]
      /\ IsInjective(AtPlaces(c, K))
  <2>1. Left(st) = AtPlaces(c, K)
    BY DEF Left, c, K
  <2> QED BY <1>4, <1>5, <1>6, <2>1, AtPlacesFacts
<1>8. ASSUME NEW i \in DOMAIN Left(st)
      PROVE  \E j \in K : Left(st)[i] = c[j] /\ Left(st)[i] \in Sleeper
                          /\ Left(st)[i].pcb = sleepers[j].pcb
  <2>1. PICK j \in K : Left(st)[i] = c[j]
    BY <1>7
  <2>2. j \in DOMAIN sleepers /\ j \notin Gone(st)
    BY DEF K
  <2> QED BY <1>3, <2>1, <2>2
<1>9. Left(st) \in Seq(Sleeper)
  <2>1. Len(Left(st)) \in Nat /\ DOMAIN Left(st) = 1..Len(Left(st))
        /\ Left(st) \in Seq(R)
    BY <1>7
  <2>2. \A i \in 1..Len(Left(st)) : Left(st)[i] \in Sleeper
    BY <1>8, <2>1
  <2> QED BY <2>1, <2>2
<1>10. ASSUME NEW j \in K
       PROVE  \E k \in DOMAIN Left(st) : Left(st)[k].pcb = sleepers[j].pcb
  <2>1. c[j] \in Range(Left(st))
    BY <1>7
  <2>2. PICK k \in DOMAIN Left(st) : Left(st)[k] = c[j]
    BY <2>1 DEF Range
  <2> QED BY <1>3, <2>2 DEF K
<1>11. ASSUME NEW k \in DOMAIN Left(st), NEW l \in DOMAIN Left(st),
              Left(st)[k].pcb = Left(st)[l].pcb
       PROVE  k = l
  <2>1. PICK i \in K : Left(st)[k] = c[i] /\ Left(st)[k].pcb = sleepers[i].pcb
    BY <1>8
  <2>2. PICK j \in K : Left(st)[l] = c[j] /\ Left(st)[l].pcb = sleepers[j].pcb
    BY <1>8
  <2>3. i = j
    BY <1>1, <1>11, <2>1, <2>2 DEF HeldOnce, K
  <2> QED BY <1>7, <2>1, <2>2, <2>3 DEF IsInjective
<1> QED BY <1>8, <1>9, <1>10, <1>11 DEF K

LEMMA TickStep ==
  ASSUME IInv, Running, Tick
  PROVE  HeldOnce' /\ sleepers' \in Seq(Sleeper) /\ hung' \in BOOLEAN /\ P!Next
PROOF
<1>1. PICK s \in P!Schedule(state) :
        /\ state' = P!Released(s.state, Slept(s.state))
        /\ P!ForegroundReleased(s.state, Slept(s.state))
        /\ sleepers' = Left(s.state)
        /\ hung' = (StuckAt(s.state) <= Len(sleepers))
        /\ slot' = s.slot
        /\ idle' = s.idle
        /\ quantumsLeft' = s.quantumsLeft
  BY DEF Tick, Slept, Left, Gone
<1>2. UNCHANGED <<priority, parent, waiters, nextPid, sems>> /\ HeldOnce
  BY DEF Tick, IInv
<1> DEFINE st == s.state
           ds == Slept(st)
           W == {p \in Held : st[p] \in {"BLOCKED", "W-EXIT"}}
<1>3. /\ Gone(st) \in SUBSET (DOMAIN sleepers)
      /\ ds \in Seq(W) /\ IsInjective(ds)
      /\ Range(ds) = {sleepers[j].pcb : j \in Gone(st)}
  BY SleptFacts DEF P!Waiting
<1>4. /\ sleepers' \in Seq(Sleeper)
      /\ \A k \in DOMAIN sleepers' : \E j \in DOMAIN sleepers \ Gone(st) :
           sleepers'[k].pcb = sleepers[j].pcb
      /\ \A j \in DOMAIN sleepers \ Gone(st) : \E k \in DOMAIN sleepers' :
           sleepers'[k].pcb = sleepers[j].pcb
      /\ \A k, l \in DOMAIN sleepers' : sleepers'[k].pcb = sleepers'[l].pcb => k = l
  BY <1>1, LeftFacts
<1>5. hung' \in BOOLEAN
  BY <1>1
<1> HIDE DEF st, ds
<1>6. HeldOnce'
  BY <1>2, <1>4 DEF HeldOnce
<1>7. Held' = Held \ Range(ds)
  <2>1. ASSUME NEW p PROVE p \in Held' <=> p \in Held \ Range(ds)
    <3>1. (\E k \in DOMAIN sleepers' : sleepers'[k].pcb = p)
            <=> \E j \in DOMAIN sleepers \ Gone(st) : sleepers[j].pcb = p
      BY <1>4
    <3>2. ASSUME NEW j \in DOMAIN sleepers, sleepers[j].pcb = p
          PROVE  /\ p \in Range(ds) <=> j \in Gone(st)
                 /\ \A i \in DOMAIN sems : p \notin Range(sems[i].queue)
      BY <1>2, <1>3, <3>2 DEF HeldOnce
    <3>3. p \in Range(ds) => \E j \in DOMAIN sleepers : sleepers[j].pcb = p
      BY <1>3
    <3>4. (\E i \in DOMAIN sems' : p \in Range(sems'[i].queue))
            <=> \E i \in DOMAIN sems : p \in Range(sems[i].queue)
      BY <1>2
    <3>5. p \in Held <=> \/ \E i \in DOMAIN sems : p \in Range(sems[i].queue)
                         \/ \E j \in DOMAIN sleepers : sleepers[j].pcb = p
      BY HeldMembers DEF QueuedAt, SleepsAt
    <3>6. CASE \E j \in DOMAIN sleepers : sleepers[j].pcb = p
      BY <3>1, <3>2, <3>4, <3>5, <3>6, HeldMembersNext
    <3>7. CASE ~\E j \in DOMAIN sleepers : sleepers[j].pcb = p
      BY <3>1, <3>3, <3>4, <3>5, <3>7, HeldMembersNext
    <3> QED BY <3>6, <3>7
  <2> QED BY <2>1
<1>8. ds \in P!SetToAllKPermutations(W)
  BY <1>3, InPermutations
<1>9. P!Tick
  BY <1>1, <1>2, <1>7, <1>8, SameRange DEF P!Tick, st, ds
<1>10. P!Next
  BY <1>9, DeviceStep DEF P!Step
<1> QED BY <1>4, <1>5, <1>6, <1>10

-----------------------------------------------------------------------------
(* The invariant.                                                           *)

LEMMA InitIInv == Init => P!Init /\ IInv
PROOF
<1> SUFFICES ASSUME Init PROVE P!Init /\ IInv
  OBVIOUS
<1> DEFINE stdin == [value |-> 0, destroyed |-> FALSE, queue |-> <<>>, name |-> NoName]
<1>1. sems = <<stdin>> /\ sleepers = <<>>
  BY DEF Init
<1>2. stdin.queue = <<>>
  OBVIOUS
<1> HIDE DEF stdin
<1>3. DOMAIN sems = {1} /\ sems[1].queue = <<>> /\ DOMAIN sleepers = {}
  BY <1>1, <1>2
<1>4. Range(<<>>) = {} /\ IsInjective(<<>>)
  BY DEF Range, IsInjective
<1>5. HeldOnce
  BY <1>3, <1>4 DEF HeldOnce
<1>6. Held = {}
  <2>1. \A p : p \notin Held
    BY <1>3, <1>4, HeldMembers DEF QueuedAt, SleepsAt
  <2> QED BY <2>1
<1>7. P!Init
  BY <1>6 DEF Init, P!Init
<1>8. PP!Init
  BY <1>7 DEF P!Init, PP!Init, P!Pid, PP!Pid
<1>9. PP!Inv
  BY <1>8, KernelAssumption, PP!InitInv
<1>10. sleepers \in Seq(Sleeper) /\ hung \in BOOLEAN
  <2>1. hung = FALSE
    BY DEF Init
  <2>2. <<>> \in Seq(Sleeper)
    OBVIOUS
  <2>3. sleepers = <<>>
    BY <1>1
  <2> QED BY <2>1, <2>2, <2>3
<1> QED BY <1>5, <1>7, <1>9, <1>10, InitInv DEF IInv

\* A step of the devices that no process notices.
LEMMA QuietStep ==
  ASSUME IInv, QueuesKept, UNCHANGED <<state, procVars, fg, sleepers>>
  PROVE  HeldOnce' /\ UNCHANGED P!vars
PROOF
BY HeldKept, HeldOnceKept DEF IInv, P!vars, procVars

(* Every step keeps the devices sound and is one of Processes.              *)
LEMMA StepIInv ==
  ASSUME IInv, Running, Step
  PROVE  /\ HeldOnce' /\ sleepers' \in Seq(Sleeper) /\ hung' \in BOOLEAN
         /\ P!Next \/ UNCHANGED P!vars
PROOF
<1>0. Inv /\ HeldOnce /\ sleepers \in Seq(Sleeper) /\ hung \in BOOLEAN
  BY DEF IInv
<1>1. CASE ProcessStep
  <2>1. UNCHANGED <<sems, sleepers, hung>>
    BY <1>1 DEF ProcessStep, devVars
  <2>2. HeldOnce'
    BY <1>0, <2>1, QueuesSame, HeldOnceKept
  <2>3. P!Step
    BY <1>1 DEF ProcessStep, P!Step
  <2> QED BY <1>0, <2>1, <2>2, <2>3, DeviceStep
<1>2. ASSUME NEW v \in 0..MaxValue, NEW name \in Names, AddSem(name, v),
             UNCHANGED <<state, procVars, fg, sleepers, hung>>
      PROVE  /\ HeldOnce' /\ UNCHANGED P!vars
             /\ sleepers' \in Seq(Sleeper) /\ hung' \in BOOLEAN
  <2>1. QueuesKept
    BY <1>0, <1>2, AddSemQueues
  <2> QED BY <1>0, <1>2, <2>1, QuietStep
<1>3. ASSUME NEW v \in 0..MaxValue, SemInit(v)
      PROVE  /\ HeldOnce' /\ UNCHANGED P!vars
             /\ sleepers' \in Seq(Sleeper) /\ hung' \in BOOLEAN
  <2>1. NoName \in Names
    BY KernelAssumption
  <2> QED BY <1>2, <1>3, <2>1 DEF SemInit
<1>4. ASSUME NEW v \in 0..MaxValue, NEW name \in Names, CreateSemaphore(name, v)
      PROVE  /\ HeldOnce' /\ UNCHANGED P!vars
             /\ sleepers' \in Seq(Sleeper) /\ hung' \in BOOLEAN
  BY <1>2, <1>4 DEF CreateSemaphore
<1>5. ASSUME NEW i \in DOMAIN sems, DestroySemaphore(i)
      PROVE  HeldOnce' /\ P!Next /\ sleepers' \in Seq(Sleeper) /\ hung' \in BOOLEAN
  <2>1. UNCHANGED <<sleepers, hung>>
    BY <1>5 DEF DestroySemaphore
  <2> QED BY <1>0, <1>5, <2>1, DestroySemaphoreStep
<1>6. ASSUME NEW i \in DOMAIN sems, TakeToken(i)
      PROVE  /\ HeldOnce' /\ UNCHANGED P!vars
             /\ sleepers' \in Seq(Sleeper) /\ hung' \in BOOLEAN
  <2>1. UNCHANGED <<state, procVars, fg, sleepers, hung>>
    BY <1>6 DEF TakeToken
  <2> QED BY <1>0, <1>6, <2>1, TakeTokenQueues, QuietStep
<1>7. ASSUME NEW i \in DOMAIN sems, WaitInQueue(i)
      PROVE  HeldOnce' /\ P!Next /\ sleepers' \in Seq(Sleeper) /\ hung' \in BOOLEAN
  <2>1. UNCHANGED <<sleepers, hung>>
    BY <1>7 DEF WaitInQueue
  <2> QED BY <1>0, <1>7, <2>1, WaitInQueueStep
<1>8. ASSUME NEW i \in DOMAIN sems, Post(i)
      PROVE  HeldOnce' /\ P!Next /\ sleepers' \in Seq(Sleeper) /\ hung' \in BOOLEAN
  <2>1. UNCHANGED <<sleepers, hung>>
    BY <1>8 DEF Post
  <2> QED BY <1>0, <1>8, <2>1, PostStep
<1>9. CASE KeyPress
  <2>1. StdinWritten \in DOMAIN sems /\ Post(StdinWritten)
    BY <1>9 DEF KeyPress, Post, Live
  <2> QED BY <1>8, <2>1
<1>10. ASSUME NEW n \in 1..MaxSleep, Sleep(n)
       PROVE  HeldOnce' /\ P!Next /\ sleepers' \in Seq(Sleeper) /\ hung' \in BOOLEAN
  <2>1. hung' = hung
    BY <1>10 DEF Sleep
  <2> QED BY <1>0, <1>10, <2>1, SleepStep
<1>11. CASE Tick
  BY <1>11, TickStep
<1> QED BY <1>1, <1>3, <1>4, <1>5, <1>6, <1>7, <1>8, <1>9, <1>10, <1>11
        DEF Step, PostSemaphore

LEMMA UnchangedIInv ==
  ASSUME IInv, UNCHANGED vars
  PROVE  HeldOnce' /\ UNCHANGED P!vars /\ UNCHANGED <<sleepers, hung>>
PROOF
<1>1. UNCHANGED <<state, procVars, fg, sems, sleepers, hung>>
  BY DEF vars, devVars
<1> QED BY <1>1, QueuesSame, QuietStep DEF IInv

LEMMA NextIInv ==
  ASSUME IInv, [Next]_vars
  PROVE  IInv' /\ (P!Next \/ UNCHANGED P!vars)
PROOF
<1>1. CASE Running /\ Step
  <2>1. /\ HeldOnce' /\ sleepers' \in Seq(Sleeper) /\ hung' \in BOOLEAN
        /\ P!Next \/ UNCHANGED P!vars
    BY <1>1, StepIInv
  <2>2. Inv' /\ PP!Inv'
    BY <2>1, NextInv, ProcessesNext DEF IInv
  <2> QED BY <2>1, <2>2 DEF IInv
<1>2. CASE UNCHANGED vars
  <2>1. HeldOnce' /\ UNCHANGED P!vars /\ UNCHANGED <<sleepers, hung>>
    BY <1>2, UnchangedIInv
  <2>2. Inv' /\ PP!Inv'
    BY <2>1, NextInv, ProcessesNext DEF IInv
  <2> QED BY <2>1, <2>2 DEF IInv
<1> QED BY <1>1, <1>2 DEF Next, Stopped

LEMMA IInvariance == Spec => []IInv
PROOF
<1>1. Init => IInv
  BY InitIInv
<1>2. IInv /\ [Next]_vars => IInv'
  BY NextIInv
<1> QED BY <1>1, <1>2, PTL DEF Spec

(* The devices record each blocked process once, and the fields of the      *)
(* table, the sleep list and the PCBs keep their types: semaphores.c and    *)
(* timer.c never leave a process at two places, whatever is killed.         *)
THEOREM DevicesAreSound == Spec => []DevicesSound
PROOF
<1>1. IInv => DevicesSound
  <2> SUFFICES ASSUME IInv PROVE DevicesSound
    OBVIOUS
  <2>1. P!TypeOK /\ TableOK /\ HeldOnce /\ TokenOrQueue /\ FreedOnce
    BY ProcessFacts DEF IInv, Inv
  <2>2. TypeOK
    BY <2>1 DEF TypeOK, TableOK, Sem, Sleeper, IInv
  <2> QED BY <2>1, <2>2 DEF DevicesSound
<1> QED BY <1>1, IInvariance, PTL

(* Semaphores and the timer are a way to block processes as Processes has   *)
(* it: each of their steps records the process that blocks, or lets go of   *)
(* those it readies and exits, as its actions Block, Release and Tick do.   *)
THEOREM RefinesProcesses == Spec => ImplementsProcesses
PROOF
<1>1. Init => P!Init
  BY InitIInv
<1>2. IInv /\ [Next]_vars => [P!Next]_(P!vars)
  BY NextIInv
<1> QED BY <1>1, <1>2, IInvariance, PTL DEF Spec, ImplementsProcesses

-----------------------------------------------------------------------------
(* What one step may not do.                                                *)

\* Of those held after a step none can run: ProcessFacts, one step later.
LEMMA HeldWaitNext ==
  ASSUME PP!Inv'
  PROVE  \A p \in Held' : p \in P!Pid /\ state'[p] \in P!Waiting \cup P!Dead
PROOF
<1>1. Held' \subseteq P!Pid /\ state' \in [P!Pid -> P!State]
  BY DEF PP!Inv, PP!TypeOK, PP!Pid, P!Pid, PP!State, P!State
<1>2. \A p \in P!Pid : state'[p] \in {"READY", "RUNNING", "BLK_USER"} => p \notin Held'
  BY DEF PP!Inv, PP!OneWaitPlace, PP!Pid, P!Pid
<1> QED BY <1>1, <1>2 DEF P!State, P!Waiting, P!Dead

\* A sleeper slept before, or is current and calls sleep().
LEMMA SleepersFrom ==
  ASSUME IInv, [Next]_vars, NEW k \in DOMAIN sleepers'
  PROVE  \/ \E j \in DOMAIN sleepers : sleepers'[k].pcb = sleepers[j].pcb
         \/ (\E n \in 1..MaxSleep : Sleep(n)) /\ sleepers'[k].pcb = slot
PROOF
<1>1. CASE sleepers' = sleepers
  BY <1>1
<1>2. ASSUME NEW n \in 1..MaxSleep, Sleep(n)
      PROVE  \/ \E j \in DOMAIN sleepers : sleepers'[k].pcb = sleepers[j].pcb
             \/ sleepers'[k].pcb = slot
  <2> DEFINE new == [pcb |-> slot, ticksRemaining |-> n]
  <2>1. sleepers' = <<new>> \o sleepers /\ new.pcb = slot /\ sleepers \in Seq(Sleeper)
    BY <1>2 DEF Sleep, IInv
  <2> HIDE DEF new
  <2>2. /\ DOMAIN sleepers' = 1..Len(sleepers)+1
        /\ sleepers'[1] = new
        /\ \A l \in 2..Len(sleepers)+1 : sleepers'[l] = sleepers[l - 1]
    BY <2>1
  <2>3. k = 1 \/ (k \in 2..Len(sleepers)+1 /\ k - 1 \in DOMAIN sleepers)
    BY <2>1, <2>2
  <2> QED BY <2>1, <2>2, <2>3
<1>3. CASE Tick
  <2>1. PICK s \in P!Schedule(state) : sleepers' = Left(s.state)
    BY <1>3 DEF Tick, Left, Gone
  <2> QED BY <2>1, LeftFacts
<1>4. CASE UNCHANGED vars
  BY <1>1, <1>4 DEF vars, devVars
<1>5. CASE Step
  BY <1>1, <1>2, <1>3, <1>5
     DEF Step, ProcessStep, devVars, SemInit, CreateSemaphore, DestroySemaphore,
         TakeToken, WaitInQueue, PostSemaphore, KeyPress, Post
<1> QED BY <1>4, <1>5 DEF Next, Stopped

(* incTicks() never meets a sleeper on which its loop does not end but one  *)
(* that Ctrl-C exited (timer.c:35-50): a sleeper is BLOCKED from its sleep()*)
(* on, and no exit, kill or release but Ctrl-C's turns a held process into  *)
(* anything but W-EXIT.                                                     *)
THEOREM TicksEnd == Spec => HangsByCtrlCOnly
PROOF
<1>1. ASSUME IInv, [Next]_vars, ~Stuck, Stuck', ~P!CtrlC PROVE FALSE
  <2>1. IInv' /\ (P!Next \/ UNCHANGED P!vars)
    BY <1>1, NextIInv
  <2>2. PICK k \in DOMAIN sleepers' : state'[sleepers'[k].pcb] \notin P!Waiting
    BY <1>1 DEF Stuck, P!Waiting
  <2> DEFINE p == sleepers'[k].pcb
  <2>3. p \in Held'
    BY HeldMembersNext
  <2>4. state'[p] \in P!Dead
    BY <2>1, <2>2, <2>3, HeldWaitNext DEF IInv
  <2>5. PP!Inv /\ [PP!Next]_(PP!vars) /\ ~PP!CtrlC
    BY <1>1, <2>1, SameNext DEF IInv, P!vars, PP!vars
  <2>6. ASSUME NEW j \in DOMAIN sleepers, p = sleepers[j].pcb PROVE FALSE
    <3>1. state[p] \in P!Waiting /\ p \in Held
      BY <1>1, <2>6, HeldMembers DEF Stuck, SleepsAt
    <3>2. state[p] \notin PP!Dead /\ p \in Held \cap Held'
      BY <2>3, <3>1 DEF P!Waiting, PP!Dead
    <3>3. state'[p] \notin PP!Dead
      BY <2>5, <3>2, KernelAssumption, PP!HeldStaysAlive
    <3> QED BY <2>4, <3>3 DEF P!Dead, PP!Dead
  <2>7. ASSUME NEW n \in 1..MaxSleep, Sleep(n), p = slot PROVE FALSE
    <3>1. ~idle /\ PP!Switch([state EXCEPT ![slot] = "BLOCKED"])
      BY <2>7 DEF Sleep, P!Pid, PP!Pid,
            P!Place, PP!Place, P!KeepsCpu, PP!KeepsCpu, P!Preempted, PP!Preempted,
            P!Elected, PP!Elected, P!Freed, PP!Freed, P!Schedule, PP!Schedule,
            P!Switch, PP!Switch
    <3>2. state'[slot] = "BLOCKED"
      BY <2>5, <3>1, KernelAssumption, PP!CurrentBlocks
    <3> QED BY <2>4, <2>7, <3>2 DEF P!Dead
  <2> QED BY <1>1, <2>6, <2>7, SleepersFrom
<1>2. IInv /\ [Next]_vars => [~Stuck /\ Stuck' => P!CtrlC]_vars
  BY <1>1
<1> QED BY <1>2, IInvariance, PTL DEF Spec, HangsByCtrlCOnly

\* PP!ReleasedReadies in the terms of the model.
LEMMA WhoIsReadied ==
  ASSUME PP!Inv, NEW ds, Range(ds) \subseteq Held
  PROVE  \A p \in P!Pid :
           /\ state[p] = "BLOCKED" /\ p \in Range(ds) => P!Released(state, ds)[p] = "READY"
           /\ state[p] \in {"W-EXIT"} \cup P!Dead
                => P!Released(state, ds)[p] \in {"W-EXIT"} \cup P!Dead
PROOF
<1>1. PP!Range(ds) = Range(ds)
  BY DEF PP!Range, Range
<1>2. P!Released(state, ds) = PP!Released(state, ds)
  BY DEF P!Pid, PP!Pid, P!Range, PP!Range, P!Cascades, PP!Cascades, P!ExitSet, PP!ExitSet,
         P!AfterExit, PP!AfterExit, P!Doomed, PP!Doomed, P!Released, PP!Released
<1>3. \A p \in PP!Pid :
        /\ state[p] = "BLOCKED" /\ p \in PP!Range(ds) => PP!Released(state, ds)[p] = "READY"
        /\ state[p] \in {"W-EXIT"} \cup PP!Dead
             => PP!Released(state, ds)[p] \in {"W-EXIT"} \cup PP!Dead
  BY <1>1, KernelAssumption, PP!ReleasedReadies
<1> QED BY <1>1, <1>2, <1>3 DEF P!Pid, PP!Pid, P!Dead, PP!Dead

LEMMA PostReadies ==
  ASSUME IInv, IInv', NEW i \in DOMAIN sems, Post(i)
  PROVE  \/ /\ sems'[i].value = sems[i].value + 1
            /\ \A p \in Range(sems[i].queue) : state'[p] # "READY"
         \/ /\ sems'[i].value = sems[i].value
            /\ \E p \in Range(sems[i].queue) :
                 /\ state[p] = "BLOCKED" /\ state'[p] = "READY"
                 /\ \A q \in Range(sems[i].queue) \ {p} : state'[q] # "READY"
PROOF
<1> DEFINE q == sems[i].queue
           n == Unqueued(q)
           ds == SubSeq(q, 1, n)
           q2 == SubSeq(q, n + 1, Len(q))
<1>1. q \in Seq(P!Pid) /\ IsInjective(q)
  BY TableFacts DEF IInv, HeldOnce
<1>2. /\ n \in 0..Len(q)
      /\ \A j \in DOMAIN q : j < n => state[q[j]] # "BLOCKED"
      /\ \/ n = Len(q) /\ \A j \in DOMAIN q : state[q[j]] # "BLOCKED"
         \/ n \in DOMAIN q /\ state[q[n]] = "BLOCKED"
  BY <1>1, UnqueuedFacts
<1>3. Queues(i, q2) /\ LetGo(ds) /\ sems'[i].value = ValueAfter(i, ds)
  BY PostQueues DEF IInv
<1>4. \A p \in Range(q) : p \in Held /\ p \in P!Pid /\ state[p] \in P!Waiting \cup P!Dead
  BY HeldMembers, ProcessFacts DEF QueuedAt, IInv
<1>5. /\ Range(q) = Range(ds) \cup Range(q2)
      /\ Len(q) \in Nat /\ DOMAIN q = 1..Len(q) /\ DOMAIN ds = 1..n
      /\ \A k \in 1..n : ds[k] = q[k]
  <2> HIDE DEF n
  <2> QED BY <1>1, <1>2, SplitQueue
<1>6. state' = P!Released(state, ds)
  BY <1>3 DEF LetGo
<1>7. \A p \in Range(q2) : state'[p] # "READY"
  <2>1. i \in DOMAIN sems' /\ sems'[i].queue = q2
    BY <1>3 DEF Queues
  <2>2. \A p \in Range(q2) : p \in Held'
    BY <2>1, HeldMembersNext
  <2> QED BY <2>2, HeldWaitNext DEF IInv, P!Waiting, P!Dead
<1> HIDE DEF q, n, ds, q2
<1>8. Range(ds) \subseteq Held
  BY <1>4, <1>5
<1>9. \A p \in P!Pid :
        /\ state[p] = "BLOCKED" /\ p \in Range(ds) => state'[p] = "READY"
        /\ state[p] \in {"W-EXIT"} \cup P!Dead => state'[p] \in {"W-EXIT"} \cup P!Dead
  BY <1>6, <1>8, WhoIsReadied DEF IInv
<1>10. ASSUME NEW p \in Range(q), state[p] # "BLOCKED" PROVE state'[p] # "READY"
  BY <1>4, <1>9, <1>10 DEF P!Waiting, P!Dead
<1>11. CASE \A j \in DOMAIN q : state[q[j]] # "BLOCKED"
  <2>1. \A p \in Range(q) : state[p] # "BLOCKED"
    BY <1>11 DEF Range
  <2>2. sems'[i].value = sems[i].value + 1
    BY <1>3, <1>5, <2>1 DEF ValueAfter
  <2> QED BY <1>10, <2>1, <2>2 DEF q
<1>12. CASE n \in DOMAIN q /\ state[q[n]] = "BLOCKED"
  <2>1. n \in 1..n /\ q[n] \in Range(q) /\ q[n] \in Range(ds)
    BY <1>5, <1>12 DEF Range
  <2>2. state'[q[n]] = "READY" /\ sems'[i].value = sems[i].value
    BY <1>3, <1>4, <1>9, <1>12, <2>1 DEF ValueAfter
  <2>3. ASSUME NEW p \in Range(ds), p # q[n] PROVE p \in Range(q) /\ state[p] # "BLOCKED"
    <3>1. PICK k \in 1..n : p = ds[k]
      BY <1>5 DEF Range
    <3>2. k \in DOMAIN q /\ k < n /\ p = q[k]
      BY <1>2, <1>5, <2>3, <3>1
    <3> QED BY <1>2, <3>2 DEF Range
  <2>4. \A p \in Range(q) \ {q[n]} : state'[p] # "READY"
    BY <1>5, <1>7, <1>10, <2>3
  <2> QED BY <1>12, <2>1, <2>2, <2>4 DEF q
<1> QED BY <1>2, <1>11, <1>12

(* The token of a post is counted, or wakes the first process of the queue  *)
(* that is still BLOCKED and nobody else: not one killed in the queue, which*)
(* the loop exits, nor one further on (semaphores.c:131-145).               *)
THEOREM PostGivesOneToken == Spec => OneTokenPerPost
PROOF
<1>1. IInv /\ [Next]_vars =>
        [\A i \in DOMAIN sems :
           Post(i) =>
             \/ /\ sems'[i].value = sems[i].value + 1
                /\ \A p \in Range(sems[i].queue) : state'[p] # "READY"
             \/ /\ sems'[i].value = sems[i].value
                /\ \E p \in Range(sems[i].queue) :
                     /\ state[p] = "BLOCKED" /\ state'[p] = "READY"
                     /\ \A q \in Range(sems[i].queue) \ {p} : state'[q] # "READY"]_vars
  BY NextIInv, PostReadies
<1> QED BY <1>1, IInvariance, PTL DEF Spec, OneTokenPerPost

\* A queue grows at its end and shrinks at its head.
LEMMA QueueMoves ==
  ASSUME IInv, [Next]_vars, NEW i \in DOMAIN sems
  PROVE  LET q == sems[i].queue
             q2 == sems'[i].queue IN
         \/ q2 = q
         \/ q2 = Append(q, slot)
         \/ \E n \in 0..Len(q) : q2 = SubSeq(q, n + 1, Len(q))
PROOF
<1>1. ASSUME QueuesKept PROVE sems'[i].queue = sems[i].queue
  <2>1. i # NoQueue
    BY TableFacts DEF IInv, NoQueue
  <2> QED BY <1>1, <2>1 DEF QueuesKept, Queues
<1>2. ASSUME NEW l \in DOMAIN sems, l # i, NEW q, Queues(l, q)
      PROVE  sems'[i].queue = sems[i].queue
  BY <1>2 DEF Queues
<1>3. ASSUME NEW q, Queues(i, q) PROVE sems'[i].queue = q
  BY <1>3 DEF Queues
<1>4. sems[i].queue \in Seq(P!Pid) /\ Inv
  BY TableFacts DEF IInv
<1>5. CASE sems' = sems
  BY <1>5
<1>6. CASE \E v \in 0..MaxValue, name \in Names : AddSem(name, v)
  BY <1>1, <1>4, <1>6, AddSemQueues
<1>7. ASSUME NEW l \in DOMAIN sems, TakeToken(l) PROVE sems'[i].queue = sems[i].queue
  BY <1>1, <1>4, <1>7, TakeTokenQueues
<1>8. ASSUME NEW l \in DOMAIN sems, WaitInQueue(l)
      PROVE  sems'[i].queue = sems[i].queue \/ sems'[i].queue = Append(sems[i].queue, slot)
  BY <1>2, <1>3, <1>4, <1>8, WaitInQueueQueues
<1>9. ASSUME NEW l \in DOMAIN sems, DestroySemaphore(l)
      PROVE  \/ sems'[i].queue = sems[i].queue
             \/ \E n \in 0..Len(sems[i].queue) :
                  sems'[i].queue = SubSeq(sems[i].queue, n + 1, Len(sems[i].queue))
  <2> DEFINE q == sems[i].queue
  <2>1. Len(q) \in 0..Len(q) /\ SubSeq(q, Len(q) + 1, Len(q)) = <<>>
    BY <1>4
  <2> QED BY <1>2, <1>3, <1>4, <1>9, <2>1, DestroySemaphoreQueues
<1>10. ASSUME NEW l \in DOMAIN sems, Post(l)
       PROVE  \/ sems'[i].queue = sems[i].queue
              \/ \E n \in 0..Len(sems[i].queue) :
                   sems'[i].queue = SubSeq(sems[i].queue, n + 1, Len(sems[i].queue))
  <2>1. CASE l # i
    BY <1>2, <1>4, <1>10, <2>1, PostQueues
  <2>2. CASE l = i
    <3>1. Unqueued(sems[i].queue) \in 0..Len(sems[i].queue)
      BY <1>4, UnqueuedFacts
    <3> QED BY <1>3, <1>4, <1>10, <2>2, <3>1, PostQueues
  <2> QED BY <2>1, <2>2
<1>11. CASE KeyPress
  <2>1. StdinWritten \in DOMAIN sems /\ Post(StdinWritten)
    BY <1>11 DEF KeyPress, Post, Live
  <2> QED BY <1>10, <2>1
<1>12. CASE \E v \in 0..MaxValue : SemInit(v) \/ \E name \in Names : CreateSemaphore(name, v)
  <2>1. NoName \in Names
    BY KernelAssumption
  <2> QED BY <1>6, <1>12, <2>1 DEF SemInit, CreateSemaphore
<1>13. CASE UNCHANGED vars
  BY <1>5, <1>13 DEF vars, devVars
<1>14. CASE Step
  BY <1>5, <1>7, <1>8, <1>9, <1>10, <1>11, <1>12, <1>14
     DEF Step, ProcessStep, devVars, PostSemaphore, Sleep, Tick
<1> QED BY <1>13, <1>14 DEF Next, Stopped

\* Whoever joins a queue is ahead of nobody in it.
LEMMA AheadAppend ==
  ASSUME NEW S, NEW q \in Seq(S), NEW s \in S, NEW p \in Range(q)
  PROVE  p \in Range(Append(q, s)) /\ Ahead(Append(q, s), p) \subseteq Ahead(q, p)
PROOF
<1> DEFINE q2 == Append(q, s)
           m == Len(q)
<1>1. /\ m \in Nat /\ DOMAIN q = 1..m /\ DOMAIN q2 = 1..m+1
      /\ \A k \in 1..m : q2[k] = q[k]
  OBVIOUS
<1>2. PICK l \in 1..m : q[l] = p
  BY <1>1 DEF Range
<1> HIDE DEF q2, m
<1>3. p \in Range(q2)
  BY <1>1, <1>2 DEF Range
<1>4. ASSUME NEW j \in 1..m+1, \A k \in 1..j : q2[k] # p
      PROVE  q2[j] \in Ahead(q, p)
  <2>1. ~(l <= j)
    BY <1>1, <1>2, <1>4
  <2>2. j \in 1..m /\ \A k \in 1..j : k \in 1..m
    BY <1>1, <2>1
  <2>3. q2[j] = q[j] /\ \A k \in 1..j : q[k] # p
    BY <1>1, <1>4, <2>2
  <2> QED BY <1>1, <2>2, <2>3 DEF Ahead
<1>5. Ahead(q2, p) \subseteq Ahead(q, p)
  BY <1>1, <1>4 DEF Ahead
<1> QED BY <1>3, <1>5 DEF q2

\* Whoever leaves a queue leaves it after those ahead of it.
LEMMA AheadSuffix ==
  ASSUME NEW S, NEW q \in Seq(S), IsInjective(q), NEW n \in 0..Len(q), NEW p \in Range(q)
  PROVE  LET q2 == SubSeq(q, n + 1, Len(q)) IN
         IF p \in Range(q2) THEN Ahead(q2, p) \subseteq Ahead(q, p)
                            ELSE Ahead(q, p) \cap Range(q2) = {}
PROOF
<1> DEFINE ds == SubSeq(q, 1, n)
           q2 == SubSeq(q, n + 1, Len(q))
           m == Len(q)
<1>1. /\ m \in Nat /\ n \in Nat /\ n <= m
      /\ DOMAIN q = 1..m /\ DOMAIN ds = 1..n /\ DOMAIN q2 = 1..m-n
      /\ \A k \in 1..n : ds[k] = q[k]
      /\ \A k \in 1..m-n : q2[k] = q[k + n]
      /\ Range(q) = Range(ds) \cup Range(q2)
      /\ Range(ds) \cap Range(q2) = {}
  BY SplitQueue
<1> HIDE DEF ds, q2, m
<1>2. ASSUME p \in Range(q2), NEW j \in 1..m-n, \A k \in 1..j : q2[k] # p
      PROVE  q2[j] \in Ahead(q, p)
  <2>1. j + n \in 1..m /\ q2[j] = q[j + n]
    BY <1>1
  <2>2. ASSUME NEW k \in 1..j+n PROVE q[k] # p
    <3>1. CASE k <= n
      <4>1. k \in 1..n /\ ds[k] = q[k]
        BY <1>1, <3>1
      <4>2. q[k] \in Range(ds)
        BY <1>1, <4>1 DEF Range
      <4> QED BY <1>1, <1>2, <4>2
    <3>2. CASE ~(k <= n)
      <4>1. k - n \in 1..j /\ k - n \in 1..m-n /\ (k - n) + n = k
        BY <1>1, <3>2
      <4>2. q2[k - n] = q[k]
        BY <1>1, <4>1
      <4> QED BY <1>2, <4>1, <4>2
    <3> QED BY <3>1, <3>2
  <2> QED BY <1>1, <2>1, <2>2 DEF Ahead
<1>3. ASSUME p \notin Range(q2), NEW j \in 1..m, \A k \in 1..j : q[k] # p
      PROVE  q[j] \notin Range(q2)
  <2>1. PICK l \in 1..n : q[l] = p
    BY <1>1, <1>3 DEF Range
  <2>2. ~(l <= j)
    BY <1>1, <1>3, <2>1
  <2>3. j \in 1..n
    BY <1>1, <2>2
  <2>4. q[j] \in Range(ds)
    BY <1>1, <2>3 DEF Range
  <2> QED BY <1>1, <2>4
<1>4. CASE p \in Range(q2)
  <2>1. Ahead(q2, p) \subseteq Ahead(q, p)
    BY <1>1, <1>2, <1>4 DEF Ahead
  <2> QED BY <1>4, <2>1 DEF q2, m
<1>5. CASE p \notin Range(q2)
  <2>1. Ahead(q, p) \cap Range(q2) = {}
    BY <1>1, <1>3, <1>5 DEF Ahead
  <2> QED BY <1>5, <2>1 DEF q2, m
<1> QED BY <1>4, <1>5

(* A process waiting at a semaphore is overtaken by none that came later,   *)
(* whoever is killed in the queue: every operation takes from the head and  *)
(* adds at the end (semaphores.c, fifoQueue and fifoUnqueue).               *)
THEOREM FirstComeFirstServed == Spec => NoOvertaking
PROOF
<1>1. ASSUME IInv, [Next]_vars, NEW i \in DOMAIN sems, NEW p \in Range(sems[i].queue)
      PROVE  LET q == sems[i].queue
                 q2 == sems'[i].queue IN
             IF p \in Range(q2) THEN Ahead(q2, p) \subseteq Ahead(q, p)
                               ELSE Ahead(q, p) \cap Range(q2) = {}
  <2> DEFINE q == sems[i].queue
  <2>1. q \in Seq(P!Pid) /\ IsInjective(q) /\ slot \in P!Pid
    BY <1>1, TableFacts DEF IInv, HeldOnce, Inv, TableOK
  <2>2. CASE sems'[i].queue = q
    BY <2>2
  <2>3. CASE sems'[i].queue = Append(q, slot)
    BY <2>1, <2>3, AheadAppend
  <2>4. ASSUME NEW n \in 0..Len(q), sems'[i].queue = SubSeq(q, n + 1, Len(q))
        PROVE  LET q2 == sems'[i].queue IN
               IF p \in Range(q2) THEN Ahead(q2, p) \subseteq Ahead(q, p)
                                 ELSE Ahead(q, p) \cap Range(q2) = {}
    BY <2>1, <2>4, AheadSuffix
  <2> QED BY <1>1, <2>2, <2>3, <2>4, QueueMoves
<1>2. IInv /\ [Next]_vars =>
        [\A i \in DOMAIN sems : \A p \in Range(sems[i].queue) :
           LET q == sems[i].queue
               q2 == sems'[i].queue IN
           IF p \in Range(q2) THEN Ahead(q2, p) \subseteq Ahead(q, p)
                             ELSE Ahead(q, p) \cap Range(q2) = {}]_vars
  BY <1>1
<1> QED BY <1>2, IInvariance, PTL DEF Spec, NoOvertaking
=============================================================================
