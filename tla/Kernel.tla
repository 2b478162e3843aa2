------------------------------- MODULE Kernel -------------------------------
(***************************************************************************)
(* The devices that block processes, semaphores.c and timer.c, composed    *)
(* with the process table of module Processes, whose variable held is here *)
(* the set of PCBs that the semaphore queues and the sleep list point to.  *)
(* The keyboard is a post to the semaphore that counts the characters of   *)
(* stdin (pipes.c:98), and Ctrl-C.                                         *)
(***************************************************************************)
EXTENDS Integers, Sequences, SequencesExt, Subsequence

CONSTANTS
  MaxPid, MaxPriority,
  MaxSems,     \* bound on the length of the table (it grows in the code)
  MaxValue,    \* bound on a semaphore's value (2^32 - 1 in the code)
  MaxSleep,    \* the longest sleep, in ticks
  Names        \* names of semaphores, with "" for those of semInit()

NoName == ""

ASSUME KernelAssumption ==
  /\ MaxPid \in Nat \ {0} /\ MaxPriority \in 1..9
  /\ MaxSems \in Nat \ {0} /\ MaxValue \in Nat \ {0} /\ MaxSleep \in Nat \ {0}
  /\ NoName \in Names

VARIABLES
  state, priority, parent, waiters, nextPid, slot, idle, quantumsLeft, fg,
  sems,            \* semArray
  freedPositions,  \* the positions of semArray to be used again, a stack
  sleepers,        \* the sleep list, from `first' on
  hung             \* incTicks() has entered an endless loop

(* The fields of a PCB and of the scheduler that no device touches.         *)
procVars == <<priority, parent, waiters, nextPid, slot, idle, quantumsLeft>>
devVars == <<sems, freedPositions, sleepers>>
vars == <<state, procVars, fg, devVars, hung>>

(* The PCBs that the devices point to.                                      *)
Held == (UNION {Range(sems[i].queue) : i \in DOMAIN sems})
          \cup {sleepers[i].pcb : i \in DOMAIN sleepers}

P == INSTANCE Processes WITH held <- Held

-----------------------------------------------------------------------------
(* semaphores.c.  Positions start at 1 here, at 0 in the code.              *)

Live(i) == i \in DOMAIN sems /\ ~sems[i].destroyed

\* findName() fails.  The anonymous semaphores all have the name "".
Unnamed(name) == \A i \in DOMAIN sems : Live(i) => sems[i].name # name

\* addSem()
AddSem(name, v) ==
  LET new == [value |-> v, destroyed |-> FALSE, queue |-> <<>>, name |-> name] IN
  IF freedPositions # <<>>
  THEN /\ sems' = [sems EXCEPT ![Last(freedPositions)] = new]
       /\ freedPositions' = Front(freedPositions)
  ELSE /\ Len(sems) < MaxSems
       /\ sems' = Append(sems, new)
       /\ UNCHANGED freedPositions

\* semInit()
SemInit(v) ==
  /\ ~idle
  /\ AddSem(NoName, v)
  /\ UNCHANGED <<state, procVars, fg, sleepers, hung>>

\* createSemaphore(), and openSemaphore() when there is none of that name.
CreateSemaphore(name, v) ==
  /\ ~idle
  /\ Unnamed(name)
  /\ AddSem(name, v)
  /\ UNCHANGED <<state, procVars, fg, sleepers, hung>>

\* readyProcess() or exitProcessByPCB() on each of the PCBs of ds in turn.
LetGo(ds) ==
  /\ state' = P!Released(state, ds)
  /\ P!ForegroundReleased(state, ds)
  /\ UNCHANGED procVars

Destroyable(i) == Live(i)

\* destroySemaphore() and destroySemaphoreByName()
DestroySemaphore(i) ==
  /\ ~idle
  /\ Destroyable(i)
  /\ sems' = [sems EXCEPT ![i].destroyed = TRUE, ![i].queue = <<>>]
  /\ freedPositions' = Append(freedPositions, i)
  /\ LetGo(sems[i].queue)
  /\ UNCHANGED <<sleepers, hung>>

\* fifoQueue() at the head of the queue.
QueuedFirst(i) == <<slot>> \o sems[i].queue

\* fifoQueue() without a node.
QueuedNot(i) == sems[i].queue

\* fifoQueue()
Queued(i) == Append(sems[i].queue, slot)

\* waitSemaphore() with a token to take
TakeToken(i) ==
  /\ ~idle
  /\ Live(i)
  /\ sems[i].value > 0
  /\ sems' = [sems EXCEPT ![i].value = @ - 1]
  /\ UNCHANGED <<state, procVars, fg, freedPositions, sleepers, hung>>

\* waitSemaphore() without one.  Memory for the node is taken to suffice.
WaitInQueue(i) ==
  /\ ~idle
  /\ Live(i)
  /\ sems[i].value = 0
  /\ sems' = [sems EXCEPT ![i].queue = Queued(i)]
  /\ P!Switch([state EXCEPT ![slot] = "BLOCKED"])
  /\ UNCHANGED <<priority, parent, waiters, nextPid, fg, freedPositions,
                 sleepers, hung>>

\* The loop left after a killed process too.
UnqueuedOne(q) == IF q = <<>> THEN 0 ELSE 1

\* How many PCBs postSemaphore() takes off q: up to the first BLOCKED one.
Unqueued(q) ==
  IF \E k \in DOMAIN q : state[q[k]] = "BLOCKED"
  THEN CHOOSE k \in DOMAIN q : /\ state[q[k]] = "BLOCKED"
                               /\ \A j \in 1..k-1 : state[q[j]] # "BLOCKED"
  ELSE Len(q)

\* A token spent on a killed process.
SpentOnKilled(i, ds) ==
  IF ds # <<>> THEN sems[i].value ELSE sems[i].value + 1

\* The token is counted unless a process got it.
ValueAfter(i, ds) ==
  IF \E p \in Range(ds) : state[p] = "BLOCKED" THEN sems[i].value
                                               ELSE sems[i].value + 1

\* postSemaphore()
Post(i) ==
  /\ Live(i)
  /\ LET q == sems[i].queue
         n == Unqueued(q)
         ds == SubSeq(q, 1, n) IN
       /\ ValueAfter(i, ds) <= MaxValue
       /\ sems' = [sems EXCEPT ![i].queue = SubSeq(q, n + 1, Len(q)),
                               ![i].value = ValueAfter(i, ds)]
       /\ LetGo(ds)
  /\ UNCHANGED <<freedPositions, sleepers, hung>>

PostSemaphore(i) == ~idle /\ Post(i)

\* A key press: writeStdin() posts whoever runs; StdinWritten is made at boot.
StdinWritten == 1
KeyPress == Post(StdinWritten)

-----------------------------------------------------------------------------
(* timer.c                                                                  *)

\* sleep()
Sleep(n) ==
  /\ ~idle
  /\ sleepers' = <<[pcb |-> slot, ticksRemaining |-> n]>> \o sleepers
  /\ P!Switch([state EXCEPT ![slot] = "BLOCKED"])
  /\ UNCHANGED <<priority, parent, waiters, nextPid, fg, sems, freedPositions,
                 hung>>

\* A sleeper that incTicks() takes off the list.
Wakes(s, st) == st[s.pcb] = "W-EXIT" \/ s.ticksRemaining = 1

\* The count left alone.
Uncounted(s) == s

Counted(s) == [s EXCEPT !.ticksRemaining = @ - 1]

\* The place where the loop of incTicks() stays for ever, or the end.
StuckAt(st) ==
  LET stuck == {k \in DOMAIN sleepers : st[sleepers[k].pcb] \notin P!Waiting}
  IN IF stuck = {} THEN Len(sleepers) + 1
     ELSE CHOOSE k \in stuck : \A j \in stuck : k <= j

\* The sleep list, with a tick counted at the places before k.
CountedBefore(k) ==
  [j \in DOMAIN sleepers |-> IF j < k THEN Counted(sleepers[j]) ELSE sleepers[j]]

\* The timer interrupt: schedule(), then incTicks().
Tick ==
  /\ \E s \in P!Schedule(state) :
       LET k == StuckAt(s.state)
           gone == {j \in 1..k-1 : Wakes(sleepers[j], s.state)}
           ds == AtPlaces([j \in DOMAIN sleepers |-> sleepers[j].pcb], gone) IN
         /\ state' = P!Released(s.state, ds)
         /\ P!ForegroundReleased(s.state, ds)
         /\ sleepers' = AtPlaces(CountedBefore(k), DOMAIN sleepers \ gone)
         /\ hung' = (k <= Len(sleepers))
         /\ slot' = s.slot
         /\ idle' = s.idle
         /\ quantumsLeft' = s.quantumsLeft
  /\ UNCHANGED <<priority, parent, waiters, nextPid, sems, freedPositions>>

-----------------------------------------------------------------------------
(* What needs no device is as in Processes.                                 *)
ProcessStep ==
  /\ UNCHANGED <<devVars, hung>>
  /\ \/ P!Create \/ P!CreateFails \/ P!Exit \/ P!Yield
     \/ \E p \in P!Pid : \/ P!KillBlocked(p) \/ P!Kill(p) \/ P!WaitPid(p)
                         \/ P!BlockByUser(p) \/ P!Unblock(p)
                         \/ \E n \in 1..MaxPriority : P!ChangePriority(p, n)
     \/ P!CtrlC \/ P!F2

Init ==
  /\ state = [p \in P!Pid |-> IF p <= 1 THEN "READY" ELSE "NONE"]
  /\ priority = [p \in P!Pid |-> 1]
  /\ parent = [p \in P!Pid |-> 0]
  /\ waiters = [p \in P!Pid |-> <<>>]
  /\ nextPid = 2
  /\ slot = 0
  /\ idle = FALSE
  /\ quantumsLeft = 0
  /\ fg = 0
  /\ sems = <<[value |-> 0, destroyed |-> FALSE, queue |-> <<>>, name |-> NoName]>>
  /\ freedPositions = <<>>
  /\ sleepers = <<>>
  /\ hung = FALSE

Step ==
  \/ ProcessStep
  \/ \E v \in 0..MaxValue : \/ SemInit(v)
                            \/ \E name \in Names : CreateSemaphore(name, v)
  \/ \E i \in DOMAIN sems : \/ DestroySemaphore(i) \/ TakeToken(i)
                            \/ WaitInQueue(i) \/ PostSemaphore(i)
  \/ \E n \in 1..MaxSleep : Sleep(n)
  \/ KeyPress
  \/ Tick

Running == P!Intact /\ ~hung

\* In the endless loop, or past a use of freed memory, nothing more is said.
Stopped == ~Running /\ UNCHANGED vars

Next == (Running /\ Step) \/ Stopped

Spec == Init /\ [][Next]_vars /\ WF_vars(Running /\ Tick)
-----------------------------------------------------------------------------
(* Properties.                                                              *)

TypeOK ==
  /\ P!TypeOK
  /\ sems \in Seq([value : 0..MaxValue, destroyed : BOOLEAN,
                   queue : Seq(P!Pid), name : Names])
  /\ freedPositions \in Seq(DOMAIN sems)
  /\ sleepers \in Seq([pcb : P!Pid, ticksRemaining : 1..MaxSleep])
  /\ hung \in BOOLEAN

(* A process is recorded by at most one device, at one place: the queues    *)
(* and the sleep list are freed node by node by whoever meets the process.  *)
HeldOnce ==
  /\ \A i \in DOMAIN sems : IsInjective(sems[i].queue)
  /\ \A i, j \in DOMAIN sems :
       i # j => Range(sems[i].queue) \cap Range(sems[j].queue) = {}
  /\ \A k \in DOMAIN sleepers :
       /\ \A l \in DOMAIN sleepers : sleepers[k].pcb = sleepers[l].pcb => k = l
       /\ \A i \in DOMAIN sems : sleepers[k].pcb \notin Range(sems[i].queue)

(* No process waits at a semaphore that has a token: a post that met only   *)
(* killed processes has emptied the queue before it counts its token.       *)
TokenOrQueue ==
  \A i \in DOMAIN sems : sems[i].value > 0 => sems[i].queue = <<>>

(* freedPositions holds each position of a destroyed semaphore once, so two *)
(* new semaphores never share an id, and nobody waits at a destroyed one.   *)
FreedOnce ==
  /\ IsInjective(freedPositions)
  /\ \A i \in DOMAIN sems : /\ sems[i].destroyed <=> i \in Range(freedPositions)
                            /\ sems[i].destroyed => sems[i].queue = <<>>

(* What the three say of a semaphore and its waiters holds at all times.    *)
DevicesSound == TypeOK /\ HeldOnce /\ TokenOrQueue /\ FreedOnce

(* A post passes over the processes killed in the queue: its token is       *)
(* counted or makes exactly one BLOCKED process READY, never both or        *)
(* neither (semaphores.c:131-145).                                          *)
OneTokenPerPost ==
  [][\A i \in DOMAIN sems :
       Post(i) =>
         \/ /\ sems'[i].value = sems[i].value + 1
            /\ \A p \in Range(sems[i].queue) : state'[p] # "READY"
         \/ /\ sems'[i].value = sems[i].value
            /\ \E p \in Range(sems[i].queue) :
                 /\ state[p] = "BLOCKED" /\ state'[p] = "READY"
                 /\ \A q \in Range(sems[i].queue) \ {p} : state'[q] # "READY"]_vars

(* First come, first served: whoever is ahead of a waiting process was so  *)
(* before, and leaves the queue no later.                                   *)
Ahead(q, p) == {q[j] : j \in {i \in DOMAIN q : \A k \in 1..i : q[k] # p}}
NoOvertaking ==
  [][\A i \in DOMAIN sems : \A p \in Range(sems[i].queue) :
       LET q == sems[i].queue
           q2 == sems'[i].queue IN
       IF p \in Range(q2) THEN Ahead(q2, p) \subseteq Ahead(q, p)
                         ELSE Ahead(q, p) \cap Range(q2) = {}]_vars

(* incTicks() loops for ever on a sleeper that is neither BLOCKED nor       *)
(* W-EXIT (timer.c:35-50).  No step makes one but Ctrl-C.                   *)
Stuck == \E k \in DOMAIN sleepers : state[sleepers[k].pcb] \notin P!Waiting
HangsByCtrlCOnly == [][~Stuck /\ Stuck' => P!CtrlC]_vars

(* Every step is one of Processes: the devices keep what it assumes of      *)
(* held -- they record a process when it blocks and let go of it as they    *)
(* ready or exit it.                                                        *)
ImplementsProcesses == P!Init /\ [][P!Next]_(P!vars)

(* A sleep ends: after its ticks, or with the sleeper's death.              *)
SleepEnds ==
  \A p \in P!Pid :
    (\E k \in DOMAIN sleepers : sleepers[k].pcb = p)
      ~> (~Running \/ \A k \in DOMAIN sleepers : sleepers[k].pcb # p)
=============================================================================
