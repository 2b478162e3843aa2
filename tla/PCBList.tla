------------------------------ MODULE PCBList ------------------------------
(***************************************************************************)
(* The circular list of PCBs of scheduler.c with its four pointers, and the*)
(* loop of schedule() one iteration at a time.  A node is named by its pid,*)
(* which is never reused.  What processes do to each other's states between*)
(* two calls of schedule() is the environment; schedule() only tells READY,*)
(* RUNNING, EXITED and the other states apart, all written BLOCKED here.   *)
(***************************************************************************)
EXTENDS Integers, FiniteSets

CONSTANTS MaxPid, MaxPriority   \* as in Processes

ASSUME ListAssumption == MaxPid \in Nat \ {0} /\ MaxPriority \in 1..9

VARIABLES
  next,                        \* node->next, Nil where there is no node
  head, tail, current, prev,   \* pcbList
  len,
  state,                       \* pcb->state, "NONE" where there is no node
  priority,
  quantumsLeft,
  nextPid,                     \* the counter pid
  ogCurrent,                   \* the local of schedule(), Nil outside its loop
  entry                        \* history: what the loop of schedule() found

list == <<next, head, tail, current, prev, len>>
vars == <<list, state, priority, quantumsLeft, nextPid, ogCurrent, entry>>

Pid == 0..MaxPid
Nil == -2
Idle == -1     \* the node idleProcPCBNode, outside the list
State == {"NONE", "READY", "RUNNING", "BLOCKED", "EXITED"}
Node == {p \in Pid : state[p] # "NONE"}

Outside == ogCurrent = Nil
NoEntry == [state |-> [p \in Pid |-> "NONE"], slot |-> 0, idle |-> FALSE]
-----------------------------------------------------------------------------
\* The line for prev dropped.
PrevAnyway == prev

\* A node added behind prev comes between it and the head.
PrevAfterAdd == IF prev = tail THEN nextPid ELSE prev

\* addPCB(), called by createProcess()
AddPCB ==
  /\ Outside
  /\ current # Idle
  /\ nextPid <= MaxPid
  /\ nextPid' = nextPid + 1
  /\ next' = [next EXCEPT ![nextPid] = head, ![tail] = nextPid]
  /\ tail' = nextPid
  /\ prev' = PrevAfterAdd
  /\ len' = len + 1
  /\ state' = [state EXCEPT ![nextPid] = "READY"]
  /\ UNCHANGED <<head, current, priority, quantumsLeft, ogCurrent, entry>>

\* createPCBNode() without memory
AddFails ==
  /\ Outside
  /\ current # Idle
  /\ nextPid <= MaxPid
  /\ nextPid' = nextPid + 1
  /\ UNCHANGED <<list, state, priority, quantumsLeft, ogCurrent, entry>>

\* A system call or an interrupt changes the state of a process that does not
\* run; who may do so to whom is for Processes to say.
Change(p, s) ==
  /\ Outside
  /\ p # current
  /\ state[p] \in {"READY", "BLOCKED"}
  /\ s \in {"READY", "BLOCKED", "EXITED"} \ {state[p]}
  /\ state' = [state EXCEPT ![p] = s]
  /\ UNCHANGED <<list, priority, quantumsLeft, nextPid, ogCurrent, entry>>

ChangePriority(p, n) ==
  /\ Outside
  /\ state[p] # "NONE"
  /\ priority' = [priority EXCEPT ![p] = n]
  /\ UNCHANGED <<list, state, quantumsLeft, nextPid, ogCurrent, entry>>

-----------------------------------------------------------------------------
(* schedule(), called with the current process in state s: the one it has   *)
(* at an interrupt, another one when it gives the CPU away.                 *)

StateAt(s) == IF current = Idle THEN state ELSE [state EXCEPT ![current] = s]

\* The quantums of the process are not over.
Continue ==
  /\ Outside
  /\ current # Idle
  /\ state[current] = "RUNNING"
  /\ quantumsLeft > 0
  /\ quantumsLeft' = quantumsLeft - 1
  /\ UNCHANGED <<list, state, priority, nextPid, ogCurrent, entry>>

\* From the idle node the walk starts at the head.
NextOfAny(c, pv) ==
  IF c = Idle THEN [current |-> head, prev |-> tail]
              ELSE [current |-> next[c], prev |-> c]

\* nextPCB()
NextPCB(c, pv) ==
  IF c = Idle THEN [current |-> next[pv], prev |-> pv]
              ELSE [current |-> next[c], prev |-> c]

\* The lines before the loop.
Enter(s) ==
  LET og == IF current = Idle THEN NextPCB(current, prev)
                              ELSE [current |-> current, prev |-> prev]
      start == NextPCB(og.current, og.prev)
  IN /\ Outside
     /\ current # Idle /\ s = "RUNNING" => quantumsLeft = 0
     /\ ogCurrent' = og.current
     /\ current' = start.current
     /\ prev' = start.prev
     /\ state' = StateAt(IF s = "RUNNING" THEN "READY" ELSE s)
     /\ entry' = [state |-> StateAt(s), idle |-> current = Idle,
                  slot |-> IF current = Idle THEN next[prev] ELSE current]
     /\ UNCHANGED <<next, head, tail, len, priority, quantumsLeft, nextPid>>

Quantums(p) == priority[p] - 1

\* An iteration that finds a READY process
Elect ==
  /\ ~Outside
  /\ state[current] = "READY"
  /\ state' = [state EXCEPT ![current] = "RUNNING"]
  /\ quantumsLeft' = Quantums(current)
  /\ ogCurrent' = Nil
  /\ entry' = NoEntry
  /\ UNCHANGED <<list, priority, nextPid>>

\* The test for ogCurrent, made after the one for EXITED.
IsBackIfNotExited == current = ogCurrent /\ state[current] # "EXITED"

\* That test made in the branch for EXITED.
IsBackIfExited == current = ogCurrent /\ state[current] = "EXITED"

IsBack == current = ogCurrent

\* An iteration that is back at ogCurrent
GoIdle ==
  /\ ~Outside
  /\ state[current] # "READY"
  /\ IsBack
  /\ current' = Idle
  /\ ogCurrent' = Nil
  /\ entry' = NoEntry
  /\ UNCHANGED <<next, head, tail, prev, len, state, priority, quantumsLeft,
                 nextPid>>

\* The assignment to tail dropped.
TailAnyway == tail

TailAfterFree == IF head # current /\ tail = current THEN prev ELSE tail

\* An iteration that finds an EXITED process: freeCurrentProcess()
FreeCurrent ==
  /\ ~Outside
  /\ state[current] = "EXITED"
  /\ ~IsBack
  /\ head # tail
  /\ current' = next[current]
  /\ next' = [next EXCEPT ![prev] = next[current], ![current] = Nil]
  /\ head' = IF head = current THEN next[current] ELSE head
  /\ tail' = TailAfterFree
  /\ len' = len - 1
  /\ state' = [state EXCEPT ![current] = "NONE"]
  /\ UNCHANGED <<prev, priority, quantumsLeft, nextPid, ogCurrent, entry>>

\* Any other iteration
Advance ==
  /\ ~Outside
  /\ state[current] \notin {"READY", "EXITED"}
  /\ ~IsBack
  /\ current' = NextPCB(current, prev).current
  /\ prev' = NextPCB(current, prev).prev
  /\ UNCHANGED <<next, head, tail, len, state, priority, quantumsLeft, nextPid,
                 ogCurrent, entry>>

-----------------------------------------------------------------------------
(* getPCBByPid(p) finds p: the nodes it meets first are not larger, and the *)
(* head is not among them again.                                            *)
Finds(p) ==
  LET at[n \in 0..MaxPid] == IF n = 0 THEN head ELSE next[at[n-1]]
  IN \E n \in 0..MaxPid : /\ \A m \in 1..n : at[m-1] # p
                          /\ \A m \in 1..n : at[m] <= p /\ at[m] # head
                          /\ at[n] = p

-----------------------------------------------------------------------------
\* init and the speaker, as createUserModuleProcess() leaves them.
Init ==
  /\ next = [p \in Pid |-> IF p = 0 THEN 1 ELSE IF p = 1 THEN 0 ELSE Nil]
  /\ head = 0 /\ tail = 1 /\ current = 0 /\ prev = 1
  /\ len = 2
  /\ state = [p \in Pid |-> IF p <= 1 THEN "READY" ELSE "NONE"]
  /\ priority = [p \in Pid |-> 1]
  /\ quantumsLeft = 0
  /\ nextPid = 2
  /\ ogCurrent = Nil
  /\ entry = NoEntry

Loop == Elect \/ GoIdle \/ FreeCurrent \/ Advance

Next ==
  \/ AddPCB \/ AddFails \/ Continue \/ Loop
  \/ \E p \in Pid : \/ \E s \in State : Change(p, s)
                    \/ \E n \in 1..MaxPriority : ChangePriority(p, n)
  \/ IF current = Idle THEN Enter("READY")
     ELSE \E s \in {state[current], "READY", "BLOCKED", "EXITED"} : Enter(s)

\* The loop of schedule() goes on once begun.
Spec == Init /\ [][Next]_vars /\ WF_vars(Loop)
-----------------------------------------------------------------------------
(* Properties.                                                              *)

TypeOK ==
  /\ next \in [Pid -> Pid \cup {Nil}]
  /\ head \in Pid /\ tail \in Pid /\ prev \in Pid
  /\ current \in Pid \cup {Idle}
  /\ len \in 1..MaxPid+1
  /\ state \in [Pid -> State]
  /\ priority \in [Pid -> 1..MaxPriority]
  /\ quantumsLeft \in 0..MaxPriority-1
  /\ nextPid \in 2..MaxPid+1
  /\ ogCurrent \in Pid \cup {Nil}
  /\ entry \in [state : [Pid -> State], slot : Pid, idle : BOOLEAN]

\* The node that follows p in a circle of the nodes in pid order.
Follows(p, q) ==
  \/ p < q /\ \A r \in Node : r <= p \/ q <= r
  \/ q <= p /\ \A r \in Node : q <= r /\ r <= p

(* The nodes form one circle in pid order, from head to tail, and len is    *)
(* their number, whatever is added at the tail and freed in the middle.     *)
Circle ==
  /\ \A p \in Node : next[p] \in Node /\ Follows(p, next[p])
  /\ head \in Node /\ tail \in Node
  /\ \A p \in Node : head <= p /\ p <= tail
  /\ len = Cardinality(Node)

(* prev is one node behind current, also while the idle process runs, when  *)
(* the next walk starts from prev->next (scheduler.c:139-140).              *)
PrevInStep ==
  /\ prev \in Node
  /\ current # Idle => current \in Node /\ next[prev] = current

(* The node schedule() was called on, whose stack it uses, stays allocated  *)
(* throughout its loop; once out of it the node at prev->next does.         *)
StackStays ==
  /\ ~Outside => ogCurrent \in Node
  /\ next[prev] \in Node

(* getPCBByPid() finds exactly the pids in the list, though it gives up at  *)
(* the first larger pid: "pcbList is orded by pid" (scheduler.c:314).       *)
SearchFinds == \A p \in Pid : Finds(p) <=> p \in Node

P == INSTANCE Processes WITH
       slot <- entry.slot, idle <- entry.idle, parent <- [p \in Pid |-> 0],
       waiters <- [p \in Pid |-> <<>>], fg <- 0, held <- {}

(* The loop computes the Schedule of Processes: where it ends it leaves the *)
(* states, the current node and the quantums that operator says.            *)
ImplementsSchedule ==
  [][~Outside /\ ogCurrent' = Nil =>
       [state |-> state',
        slot |-> IF current' = Idle THEN next'[prev'] ELSE current',
        idle |-> current' = Idle,
        quantumsLeft |-> quantumsLeft'] \in P!Schedule(entry.state)]_vars

(* Every call of schedule() returns: the walk comes back to ogCurrent even  *)
(* as nodes are freed under it.                                             *)
LoopEnds == ~Outside ~> Outside
=============================================================================
