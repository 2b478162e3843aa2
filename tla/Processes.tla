----------------------------- MODULE Processes -----------------------------
(***************************************************************************)
(* The process table of the kernel: scheduler.c and struct PCB of          *)
(* scheduler.h.  Every action is one entry into the kernel -- a system     *)
(* call, the timer interrupt or a key press.  All IDT entries are          *)
(* interrupt gates (interruptions.c:10-19), so an entry runs to its        *)
(* context switch, or to its iretq, without being interrupted, and each    *)
(* action carries the call of schedule() its handler ends with.            *)
(*                                                                         *)
(* The devices that block processes (semaphore queues, the sleep list) are *)
(* abstracted to the set `held' of the PCBs they point to: module Kernel   *)
(* gives the queues and is shown to implement this module.                 *)
(***************************************************************************)
EXTENDS Integers, Sequences, SequencesExt

CONSTANTS
  MaxPid,        \* bound on the pids handed out: 2^32 - 1 in the code
  MaxPriority    \* highest priority changePriority() accepts (9 in the code)

ASSUME PidAssumption == MaxPid \in Nat \ {0}
ASSUME PriorityAssumption == MaxPriority \in 1..9

VARIABLES
  state,         \* pcb->state, or "NONE" where no PCB is allocated
  priority,      \* pcb->priority
  parent,        \* pcb->parentProc
  waiters,       \* pcb->waitingForMe, of length pcb->wfmLen
  nextPid,       \* the counter pid
  slot,          \* the pid at pcbList.prev->next, where schedule()'s walk starts
  idle,          \* pcbList.current = idleProcPCBNode; otherwise current is slot
  quantumsLeft,  \* the static of schedule()
  fg,            \* processInForeground
  held           \* the PCBs that semaphore queues and the sleep list point to

vars == <<state, priority, parent, waiters, nextPid, slot, idle, quantumsLeft,
          fg, held>>
switchVars == <<state, slot, idle, quantumsLeft>>

Pid == 0..MaxPid
State == {"NONE", "READY", "RUNNING", "BLOCKED", "EXITED", "W-EXIT", "BLK_USER"}

-----------------------------------------------------------------------------
(* schedule(): the list is circular and ordered by pid (PCBList shows it),  *)
(* so its walk visits the pids in cyclic order, from the one after slot to  *)
(* slot itself.                                                             *)

\* A walk from the head of the list every time.
PlaceFromHead(p) == p + 1

\* The place of p in that walk: slot comes last.
Place(p) == IF p > slot THEN p - slot ELSE p - slot + MaxPid + 1

\* A process whose quantums are not over goes on.
KeepsCpu(st) == ~idle /\ st[slot] = "RUNNING" /\ quantumsLeft > 0

\* The current process, its quantums over, becomes READY.
Preempted(st) ==
  IF ~idle /\ st[slot] = "RUNNING" THEN [st EXCEPT ![slot] = "READY"] ELSE st

\* The READY process the walk meets first.
Elected(st) ==
  {p \in Pid : /\ st[p] = "READY"
               /\ \A q \in Pid : st[q] = "READY" => Place(p) <= Place(q)}

\* The comparison with ogCurrent made after the one with EXITED.
FreedWithSlot(st, n) ==
  [p \in Pid |-> IF st[p] = "EXITED" /\ Place(p) <= n THEN "NONE" ELSE st[p]]

\* EXITED processes passed over.
FreedNone(st, n) == st

\* freeCurrentProcess() on the EXITED processes met before place n.
Freed(st, n) ==
  [p \in Pid |-> IF st[p] = "EXITED" /\ Place(p) < n THEN "NONE" ELSE st[p]]

\* What schedule() leaves, a set of exactly one outcome.
Schedule(st) ==
  IF KeepsCpu(st)
  THEN {[state |-> st, slot |-> slot, idle |-> idle,
         quantumsLeft |-> quantumsLeft - 1]}
  ELSE LET ps == Preempted(st) IN
       IF \A p \in Pid : ps[p] # "READY"
       THEN {[state |-> Freed(ps, MaxPid + 1), slot |-> slot, idle |-> TRUE,
              quantumsLeft |-> quantumsLeft]}
       ELSE {[state |-> [Freed(ps, Place(p)) EXCEPT ![p] = "RUNNING"],
              slot |-> p, idle |-> FALSE, quantumsLeft |-> priority[p] - 1] :
                p \in Elected(ps)}

Switch(st) ==
  \E s \in Schedule(st) : /\ state' = s.state
                          /\ slot' = s.slot
                          /\ idle' = s.idle
                          /\ quantumsLeft' = s.quantumsLeft

-----------------------------------------------------------------------------
(* exitProcessByPCB() on a process that is not BLOCKED, with its recursive  *)
(* calls on the W-EXIT processes that wait for an exiting one.              *)

\* The branch for W-EXIT dropped.
CascadesNowhere(st, S) == TRUE

\* S holds every W-EXIT process that waits for a member of S.
Cascades(st, S) ==
  \A q \in S : \A w \in Range(waiters[q]) : st[w] = "W-EXIT" => w \in S

\* The processes that exit with those of R: the least such set over R.
ExitSet(st, R) ==
  {q \in Pid : \A S \in SUBSET Pid : R \subseteq S /\ Cascades(st, S) => q \in S}

\* They become EXITED, and a BLOCKED process that waits for one READY.
AfterExit(st, R) ==
  LET exiting == ExitSet(st, R)
      woken == {w \in Pid : /\ st[w] = "BLOCKED"
                            /\ \E q \in exiting : w \in Range(waiters[q])}
  IN [p \in Pid |-> IF p \in exiting THEN "EXITED"
                    ELSE IF p \in woken THEN "READY" ELSE st[p]]

\* The order of those exits: the calls on the processes of rs one after the
\* other, each followed by the calls its own loop makes.
ExitOrder(st, rs) ==
  LET recursesInto(q) ==
        SelectSeq(waiters[q], LAMBDA w : st[w] = "W-EXIT" /\ w \notin Range(rs))
      exits[d \in 0..MaxPid+1] ==
        [q \in Pid |-> IF d = 0 THEN <<>>
           ELSE <<q>> \o FlattenSeq([i \in DOMAIN recursesInto(q) |->
                                       exits[d-1][recursesInto(q)[i]]])]
  IN FlattenSeq([i \in DOMAIN rs |-> exits[MaxPid+1][rs[i]]])

\* Each exiting process that is in the foreground then gives it to its parent.
Foreground(st, rs) ==
  FoldLeft(LAMBDA f, q : IF q = f THEN parent[q] ELSE f, fg, ExitOrder(st, rs))

\* fg' is a Pid because parent maps Pid to Pid.
ForegroundAfter(st, rs) == fg' \in Pid /\ fg' = Foreground(st, rs)

-----------------------------------------------------------------------------
(* System calls, made by the current process.                               *)

\* createPCBNode(), called by addPCB(): the fields of the new PCB.
CreatePCBNode(p) ==
  /\ priority' = [priority EXCEPT ![p] = 1]
  /\ parent' = [parent EXCEPT ![p] = slot]
  /\ waiters' = [waiters EXCEPT ![p] = <<>>]

\* createProcess(): the new PCB joins the tail of the list, READY.
Create ==
  /\ ~idle
  /\ nextPid <= MaxPid
  /\ nextPid' = nextPid + 1
  /\ state' = [state EXCEPT ![nextPid] = "READY"]
  /\ CreatePCBNode(nextPid)
  /\ UNCHANGED <<slot, idle, quantumsLeft, fg, held>>

\* createPCBNode() finds no memory: the pid is used up all the same.
CreateFails ==
  /\ ~idle
  /\ nextPid <= MaxPid
  /\ nextPid' = nextPid + 1
  /\ UNCHANGED <<state, priority, parent, waiters, slot, idle, quantumsLeft,
                 fg, held>>

\* exitCurrentProcess().  init (pid 0) never calls it: its main is a loop.
Exit ==
  /\ ~idle
  /\ slot # 0
  /\ Switch(AfterExit(state, {slot}))
  /\ ForegroundAfter(state, <<slot>>)
  /\ UNCHANGED <<priority, parent, waiters, nextPid, held>>

\* kill(): a BLOCKED process waits in W-EXIT for the device that blocked it.
KillBlocked(p) ==
  /\ ~idle
  /\ p # 0
  /\ state[p] = "BLOCKED"
  /\ state' = [state EXCEPT ![p] = "W-EXIT"]
  /\ UNCHANGED <<priority, parent, waiters, nextPid, slot, idle, quantumsLeft,
                 fg, held>>

\* The test for W-EXIT dropped.
KillableTwice(p) == state[p] \notin {"NONE", "EXITED", "BLOCKED"}

Killable(p) == state[p] \notin {"NONE", "EXITED", "W-EXIT", "BLOCKED"}

\* kill() of any other living process: killing oneself ends in schedule().
Kill(p) ==
  /\ ~idle
  /\ p # 0
  /\ Killable(p)
  /\ IF p = slot THEN Switch(AfterExit(state, {p}))
                 ELSE /\ state' = AfterExit(state, {p})
                      /\ UNCHANGED <<slot, idle, quantumsLeft>>
  /\ ForegroundAfter(state, <<p>>)
  /\ UNCHANGED <<priority, parent, waiters, nextPid, held>>

\* Another process, one that has not exited.
Awaitable(p) == p # slot /\ state[p] \notin {"NONE", "EXITED"}

\* bound: waitingForMe has room for 10 PCBs (scheduler.h:32), and the code
\* would write an eleventh behind them.
WaitersRoom == 10

\* waitPid()
WaitPid(p) ==
  /\ ~idle
  /\ Awaitable(p)
  /\ Len(waiters[p]) < WaitersRoom
  /\ waiters' = [waiters EXCEPT ![p] = Append(@, slot)]
  /\ fg' = IF fg = slot THEN p ELSE fg
  /\ Switch([state EXCEPT ![slot] = "BLOCKED"])
  /\ UNCHANGED <<priority, parent, nextPid, held>>

\* blockByUser()
BlockByUser(p) ==
  /\ ~idle
  /\ state[p] \in {"READY", "RUNNING"}
  /\ LET st == [state EXCEPT ![p] = "BLK_USER"] IN
       IF p = slot THEN Switch(st)
                   ELSE state' = st /\ UNCHANGED <<slot, idle, quantumsLeft>>
  /\ UNCHANGED <<priority, parent, waiters, nextPid, fg, held>>

\* A process that a device or waitPid() blocked unblocked too.
UnblockAny(p) ==
  /\ ~idle
  /\ state[p] \in {"BLK_USER", "BLOCKED"}
  /\ state' = [state EXCEPT ![p] = "READY"]
  /\ UNCHANGED <<priority, parent, waiters, nextPid, slot, idle, quantumsLeft,
                 fg, held>>

\* unblock()
Unblock(p) ==
  /\ ~idle
  /\ state[p] = "BLK_USER"
  /\ state' = [state EXCEPT ![p] = "READY"]
  /\ UNCHANGED <<priority, parent, waiters, nextPid, slot, idle, quantumsLeft,
                 fg, held>>

\* yield()
Yield ==
  /\ ~idle
  /\ Switch([state EXCEPT ![slot] = "READY"])
  /\ UNCHANGED <<priority, parent, waiters, nextPid, fg, held>>

\* changePriority()
ChangePriority(p, n) ==
  /\ ~idle
  /\ state[p] # "NONE"
  /\ priority' = [priority EXCEPT ![p] = n]
  /\ UNCHANGED <<state, parent, waiters, nextPid, slot, idle, quantumsLeft, fg,
                 held>>

-----------------------------------------------------------------------------
(* Devices.                                                                 *)

\* blockCurrentProcess(), after a device has recorded the current PCB.
Block ==
  /\ ~idle
  /\ held' = held \cup {slot}
  /\ Switch([state EXCEPT ![slot] = "BLOCKED"])
  /\ UNCHANGED <<priority, parent, waiters, nextPid, fg>>

\* A device lets go of the PCBs of ds: it readies the BLOCKED ones and exits
\* the W-EXIT ones, and leaves any other alone.
Doomed(st, ds) == {p \in Range(ds) : st[p] = "W-EXIT"}

\* A W-EXIT process readied as a BLOCKED one.
ReleasedAlike(st, ds) ==
  [p \in Pid |-> IF st[p] \in {"BLOCKED", "W-EXIT"} /\ p \in Range(ds)
                 THEN "READY" ELSE st[p]]

Released(st, ds) ==
  [p \in Pid |-> IF st[p] = "BLOCKED" /\ p \in Range(ds) THEN "READY"
                 ELSE AfterExit(st, Doomed(st, ds))[p]]

ForegroundReleased(st, ds) ==
  ForegroundAfter(st, SelectSeq(ds, LAMBDA p : st[p] = "W-EXIT"))

\* postSemaphore() and destroySemaphore(), by a process or by a key press.
\* Nobody may be there to let go of.
Release(ds) ==
  /\ state' = Released(state, ds)
  /\ ForegroundReleased(state, ds)
  /\ held' = held \ Range(ds)
  /\ UNCHANGED <<priority, parent, waiters, nextPid, slot, idle, quantumsLeft>>

-----------------------------------------------------------------------------
(* Interrupts.                                                              *)

\* The timer interrupt: schedule(), then incTicks(), which knows what to do
\* with a BLOCKED or a W-EXIT sleeper only.
Tick ==
  /\ \E s \in Schedule(state) :
     \E ds \in SetToAllKPermutations({p \in held : s.state[p] \in {"BLOCKED", "W-EXIT"}}) :
       /\ state' = Released(s.state, ds)
       /\ ForegroundReleased(s.state, ds)
       /\ held' = held \ Range(ds)
       /\ slot' = s.slot
       /\ idle' = s.idle
       /\ quantumsLeft' = s.quantumsLeft
  /\ UNCHANGED <<priority, parent, waiters, nextPid>>

\* Ctrl-C: killCurrentProcessInForeground(), which spares init only.
CtrlC ==
  /\ fg # 0
  /\ \/ state[fg] = "EXITED" /\ Switch(state) /\ UNCHANGED fg
     \/ /\ state[fg] = "BLOCKED"
        /\ Switch([state EXCEPT ![fg] = "W-EXIT"])
        /\ UNCHANGED fg
     \/ /\ state[fg] \notin {"EXITED", "BLOCKED"}
        /\ Switch(AfterExit(state, {fg}))
        /\ ForegroundAfter(state, <<fg>>)
  /\ UNCHANGED <<priority, parent, waiters, nextPid, held>>

\* F2: int 0x22, a context switch with no tick.
F2 ==
  /\ Switch(state)
  /\ UNCHANGED <<priority, parent, waiters, nextPid, fg, held>>

-----------------------------------------------------------------------------
\* Every PCB the kernel may read through a pointer is allocated.
Intact ==
  /\ state[fg] # "NONE"
  /\ \A p \in held : state[p] # "NONE"
  /\ \A q \in Pid : state[q] \notin {"NONE", "EXITED"} =>
       \A w \in Range(waiters[q]) : state[w] # "NONE"

\* Past a use of freed memory the model says nothing.
Undefined == ~Intact /\ UNCHANGED vars

\* createUserModuleProcess(): init, READY although it runs, and the speaker.
Init ==
  /\ state = [p \in Pid |-> IF p <= 1 THEN "READY" ELSE "NONE"]
  /\ priority = [p \in Pid |-> 1]
  /\ parent = [p \in Pid |-> 0]      \* init's is NULL, and never read
  /\ waiters = [p \in Pid |-> <<>>]
  /\ nextPid = 2
  /\ slot = 0
  /\ idle = FALSE
  /\ quantumsLeft = 0
  /\ fg = 0
  /\ held = {}

Step ==
  \/ Create \/ CreateFails \/ Exit \/ Yield \/ Block
  \/ \E p \in Pid : \/ KillBlocked(p) \/ Kill(p) \/ WaitPid(p)
                    \/ BlockByUser(p) \/ Unblock(p)
                    \/ \E n \in 1..MaxPriority : ChangePriority(p, n)
  \/ \E ds \in SetToAllKPermutations(held) : Release(ds)
  \/ Tick \/ CtrlC \/ F2

Next == (Intact /\ Step) \/ Undefined

\* The timer interrupts for ever.
Spec == Init /\ [][Next]_vars /\ WF_vars(Intact /\ Tick)
-----------------------------------------------------------------------------
(* Properties.                                                              *)

TypeOK ==
  /\ state \in [Pid -> State]
  /\ priority \in [Pid -> 1..MaxPriority]
  /\ parent \in [Pid -> Pid]
  /\ waiters \in [Pid -> Seq(Pid)]
  /\ nextPid \in 2..MaxPid+1
  /\ slot \in Pid
  /\ idle \in BOOLEAN
  /\ quantumsLeft \in 0..MaxPriority-1
  /\ fg \in Pid
  /\ held \subseteq Pid

Dead == {"EXITED", "NONE"}
Waiting == {"BLOCKED", "W-EXIT"}

\* The processes p is blocked on in waitPid().
WaitsFor(p) == {q \in Pid : state[q] \notin Dead /\ p \in Range(waiters[q])}

(* A process that is BLOCKED or W-EXIT is known to exactly one party that   *)
(* will free it -- a device or a living process that exits -- and one that  *)
(* can run is known to none.  exitProcessByPCB, waitPid, kill and the       *)
(* devices have to agree on this; were it to fail, a process would be       *)
(* readied behind the back of the party it waits for, or never.             *)
OneWaitPlace ==
  \A p \in Pid :
    /\ state[p] \in Waiting =>
         \/ p \in held /\ WaitsFor(p) = {}
         \/ p \notin held /\ \E q \in Pid : WaitsFor(p) = {q}
    /\ state[p] \in {"READY", "RUNNING", "BLK_USER"} =>
         p \notin held /\ WaitsFor(p) = {}

(* schedule() never frees the node its next walk starts from: when current  *)
(* is a process this is the stack in use (scheduler.c:177-178, 187-188).    *)
StackInUse == state[slot] # "NONE"

(* The CPU runs the process that current points to, and no other PCB is     *)
(* marked RUNNING; init is READY until its first context switch.            *)
OneRunning ==
  /\ ~idle => state[slot] = "RUNNING" \/ (slot = 0 /\ state[0] = "READY")
  /\ \A p \in Pid : state[p] = "RUNNING" => ~idle /\ p = slot

(* A killed process never runs again (in W-EXIT its heap is already freed,  *)
(* scheduler.c:282), an EXITED one only disappears, and a pid is not reused.*)
DoomedNeverRuns ==
  [][\A p \in Pid :
       /\ state[p] = "W-EXIT" => state'[p] \in {"W-EXIT"} \cup Dead
       /\ state[p] = "EXITED" => state'[p] \in Dead
       /\ state[p] = "NONE" /\ p < nextPid => state'[p] = "NONE"]_vars

(* A PCB that a device still points to is exited, and so becomes free to be *)
(* deallocated, by no step but Ctrl-C: W-EXIT exists to rule this out, and  *)
(* killCurrentProcessInForeground() lacks the check that kill() makes.      *)
OnlyCtrlCExitsHeld ==
  [][\A p \in held \cap held' :
       state[p] \notin Dead /\ state'[p] \in Dead => CtrlC]_vars

(* A process blocked in waitPid() goes on only when the one it waits for    *)
(* exits: no device and no other exit wakes it.                             *)
WakesWhenAwaitedExits ==
  [][\A p \in Pid : state[p] = "BLOCKED" /\ state'[p] \in {"READY", "RUNNING"}
       => \A q \in WaitsFor(p) : state'[q] \in Dead]_vars

(* Round robin starves no one: a READY process gets the CPU, unless it is   *)
(* killed or blocked by another.                                            *)
ReadyRuns ==
  \A p \in Pid : state[p] = "READY" ~> (state[p] # "READY" \/ ~Intact)

(* The PCB, stack and heap of an EXITED process are freed in the end, unless*)
(* every process left is blocked.                                           *)
ExitedFreed ==
  \A p \in Pid : state[p] = "EXITED" ~> (state[p] = "NONE" \/ idle \/ ~Intact)
=============================================================================
