------------------------------ MODULE Testers ------------------------------
(***************************************************************************)
(* testProcesses (testProcesses.c) and testPriority (testPrio.c), which    *)
(* create processes that only loop, block, unblock and kill them; and a    *)
(* user who meanwhile does the same with kill, block, unblock and nice     *)
(* (shellCommands.c).  A step is a system call and the code up to the next *)
(* one.  The loops never wait for anything, so they are never BLOCKED.     *)
(***************************************************************************)
EXTENDS Integers, Sequences, SequencesExt, FiniteSets

CONSTANTS
  MaxPid,       \* bound on the processes created
  Bytes,        \* the values of an uint8_t
  MaxProcesses, \* bound on the argument of testProcesses
  MaxCommands   \* bound on the commands given

VARIABLES
  state, priority, nextPid,  \* of the processes created
  tester,         \* which of the two runs
  max_processes,
  place, rq, alive,          \* where it is, and its uint8_t variables
  p_rqs,          \* what it knows of its processes
  meddled,        \* history: the processes the user's commands have changed
  commands,       \* how many commands were given
  toKill, named,  \* the kill that runs: its arguments, those left and all
  told            \* history: the arguments of a kill that reported success

table == <<state, priority, nextPid>>
testerVars == <<place, rq, alive, p_rqs>>
userVars == <<meddled, commands, toKill, named, told>>
vars == <<table, tester, max_processes, testerVars, userVars>>

LOWEST == 1
MEDIUM == 5
HIGHEST == 9
prio == <<LOWEST, MEDIUM, HIGHEST>>
Pid == 1..MaxPid

-----------------------------------------------------------------------------
(* The system calls (scheduler.c).                                          *)

Found(p) == p \in Pid /\ state[p] # "NONE"

CanKill(p) == Found(p) /\ state[p] # "EXITED"

CanBlock(p) == Found(p) /\ state[p] = "READY"
CanUnblock(p) == Found(p) /\ state[p] = "BLK_USER"

SetState(p, s) == state' = [state EXCEPT ![p] = s] /\ UNCHANGED <<priority, nextPid>>

\* A call on p, or its failure
Call(can, p, s) == IF can THEN SetState(p, s) ELSE UNCHANGED table

\* sysCreateProcess(): there may be no memory.
Created ==
  /\ nextPid \in Pid
  /\ state' = [state EXCEPT ![nextPid] = "READY"]
  /\ priority' = [priority EXCEPT ![nextPid] = 1]
  /\ nextPid' = nextPid + 1

\* sysChangePriority()
ChangePriority(p, n) ==
  /\ priority' = IF Found(p) /\ n \in 1..9 THEN [priority EXCEPT ![p] = n] ELSE priority
  /\ UNCHANGED <<state, nextPid>>

\* schedule() frees an EXITED process.
Freed(p) ==
  /\ state[p] = "EXITED"
  /\ SetState(p, "NONE")
  /\ UNCHANGED <<tester, max_processes, testerVars, userVars>>

-----------------------------------------------------------------------------
(* testProcesses.                                                           *)

Byte(n) == n % Bytes
Goto(p) == place' = p /\ rq' = 0
Stay == UNCHANGED place /\ rq' = Byte(rq + 1)
Keep(s) == p_rqs' = [p_rqs EXCEPT ![rq].state = s]
Here(p) == tester = "processes" /\ place = p
Mine == UNCHANGED <<tester, max_processes, userVars>>

CreateOne ==
  /\ Here("create") /\ rq < max_processes
  /\ \/ /\ Created
        /\ p_rqs' = [p_rqs EXCEPT ![rq] = [pid |-> nextPid, state |-> "RUNNING"]]
        /\ alive' = Byte(alive + 1)
        /\ Stay
     \/ place' = "failed" /\ UNCHANGED <<table, rq, alive, p_rqs>>
  /\ Mine

\* Killed, and still counted
NotForgotten == alive

Forgotten == Byte(alive - 1)

\* Action 0 of the switch
KillOne ==
  /\ Here("act") /\ rq < max_processes
  /\ p_rqs[rq].state \in {"RUNNING", "BLOCKED"}
  /\ LET p == p_rqs[rq].pid IN
       /\ Call(CanKill(p), p, "EXITED")
       /\ IF CanKill(p) THEN Keep("KILLED") /\ alive' = Forgotten /\ Stay
                        ELSE place' = "failed" /\ UNCHANGED <<rq, alive, p_rqs>>
  /\ Mine

\* Action 1
BlockOne ==
  /\ Here("act") /\ rq < max_processes /\ p_rqs[rq].state = "RUNNING"
  /\ LET p == p_rqs[rq].pid IN
       /\ Call(CanBlock(p), p, "BLK_USER")
       /\ IF CanBlock(p) THEN Keep("BLOCKED") /\ Stay
                         ELSE place' = "failed" /\ UNCHANGED <<rq, p_rqs>>
  /\ Mine /\ UNCHANGED alive

UnblockOne ==
  /\ Here("unblock") /\ rq < max_processes /\ p_rqs[rq].state = "BLOCKED"
  /\ LET p == p_rqs[rq].pid IN
       /\ Call(CanUnblock(p), p, "READY")
       /\ IF CanUnblock(p) THEN Keep("RUNNING") /\ Stay
                           ELSE place' = "failed" /\ UNCHANGED <<rq, p_rqs>>
  /\ Mine /\ UNCHANGED alive

\* Nothing to be done with this one, or chance spares it.
Spare ==
  /\ rq < max_processes
  /\ \/ Here("act") /\ p_rqs[rq].state # "RUNNING"
     \/ Here("unblock")
  /\ Stay
  /\ UNCHANGED <<table, alive, p_rqs>> /\ Mine

\* The end of a loop
LoopEnds ==
  /\ tester = "processes" /\ rq >= max_processes
  /\ place \in {"create", "act", "unblock"}
  /\ CASE place = "create" -> Goto("act")
       [] place = "act" -> Goto("unblock")
       [] place = "unblock" -> Goto(IF alive > 0 THEN "act" ELSE "succeeded")
  /\ UNCHANGED <<table, alive, p_rqs>> /\ Mine

TestProcesses == CreateOne \/ KillOne \/ BlockOne \/ UnblockOne \/ Spare \/ LoopEnds

-----------------------------------------------------------------------------
(* testPriority: a call for each of its processes, phase by phase; what    *)
(* the calls return is not looked at.                                      *)

NextPhase == [create |-> "prio", prio |-> "block", block |-> "prioBlocked",
              prioBlocked |-> "unblock", unblock |-> "kill", kill |-> "succeeded"]

TestPriority ==
  /\ tester = "priority" /\ place \notin {"succeeded", "failed"}
  /\ IF rq = Len(prio)
     THEN Goto(NextPhase[place]) /\ UNCHANGED <<table, p_rqs>>
     ELSE /\ rq' = rq + 1 /\ UNCHANGED place
          /\ LET p == p_rqs[rq].pid IN
             CASE place = "create" ->
                    \/ Created /\ p_rqs' = [p_rqs EXCEPT ![rq].pid = nextPid]
                    \/ UNCHANGED <<table, p_rqs>>
               [] place = "prio" -> ChangePriority(p, prio[rq + 1])
               [] place = "block" -> Call(CanBlock(p), p, "BLK_USER")
               [] place = "prioBlocked" -> ChangePriority(p, MEDIUM)
               [] place = "unblock" -> Call(CanUnblock(p), p, "READY")
               [] place = "kill" -> Call(CanKill(p), p, "EXITED")
          /\ place # "create" => UNCHANGED p_rqs
  /\ UNCHANGED alive /\ Mine

-----------------------------------------------------------------------------
(* The user's commands, each on one pid or two (shellCommands.c).           *)

\* A command that takes no notice of what the call returns reports success.
Give(p) ==
  /\ toKill = <<>>
  /\ commands < MaxCommands /\ commands' = commands + 1
  /\ meddled' = meddled \cup {p}
  /\ UNCHANGED <<tester, max_processes, testerVars, toKill, named, told>>

\* commandKill() of a process, or of two
StartKill(ps) ==
  /\ toKill = <<>>
  /\ commands < MaxCommands /\ commands' = commands + 1
  /\ toKill' = ps /\ named' = Range(ps)
  /\ UNCHANGED <<table, tester, max_processes, testerVars, meddled, told>>

\* A turn of its loop, which the first failure ends
commandKill ==
  /\ toKill # <<>>
  /\ LET p == Head(toKill) IN
       /\ Call(CanKill(p), p, "EXITED")
       /\ toKill' = IF CanKill(p) THEN Tail(toKill) ELSE <<>>
       /\ told' = IF CanKill(p) /\ Tail(toKill) = <<>> THEN told \cup named ELSE told
       /\ meddled' = meddled \cup {p}
  /\ UNCHANGED <<commands, named, tester, max_processes, testerVars>>

commandBlock(p) == Give(p) /\ Call(CanBlock(p), p, "BLK_USER")
commandUnBlock(p) == Give(p) /\ Call(CanUnblock(p), p, "READY")
commandNice(p, n) == Give(p) /\ n \in 1..9 /\ ChangePriority(p, n)

User ==
  \/ commandKill
  \/ \E p \in Pid :
       \/ commandBlock(p) \/ commandUnBlock(p) \/ commandNice(p, HIGHEST)
       \/ StartKill(<<p>>) \/ \E q \in Pid : StartKill(<<p, q>>)

Init ==
  /\ state = [p \in Pid |-> "NONE"] /\ priority = [p \in Pid |-> 1] /\ nextPid = 1
  /\ tester \in {"processes", "priority"}
  /\ max_processes \in 1..MaxProcesses
  /\ tester = "priority" => max_processes = 1
  /\ place = "create" /\ rq = 0 /\ alive = 0
  /\ p_rqs = [k \in 0..(IF tester = "priority" THEN 2 ELSE max_processes-1) |->
                [pid |-> 0, state |-> "KILLED"]]
  /\ meddled = {} /\ commands = 0 /\ toKill = <<>> /\ named = {} /\ told = {}

Next == TestProcesses \/ TestPriority \/ User \/ \E p \in Pid : Freed(p)
-----------------------------------------------------------------------------
Dead == {"EXITED", "NONE"}

\* What testProcesses notes of a process
Actual == [RUNNING |-> {"READY"}, BLOCKED |-> {"BLK_USER"}, KILLED |-> Dead]
NotesRight ==
  tester = "processes" /\ max_processes < Bytes =>
    /\ \A k \in DOMAIN p_rqs :
         LET p == p_rqs[k].pid IN
         p # 0 /\ p \notin meddled => state[p] \in Actual[p_rqs[k].state]
    /\ alive = Cardinality({k \in DOMAIN p_rqs : p_rqs[k].state # "KILLED"})
    /\ place = "failed" => meddled # {} \/ nextPid <= max_processes

NothingLeft ==
  /\ place = "succeeded" =>
       \A k \in DOMAIN p_rqs : p_rqs[k].pid # 0 => state[p_rqs[k].pid] \in Dead
  /\ \A p \in told : state[p] \in Dead

(* What testProcesses believes of its processes is so, as long as the user *)
(* keeps away from them; and it fails only for his doing, or for want of   *)
(* memory.  With max_processes above what an uint8_t holds it never ends   *)
(* its first loop.  Whatever the user does, a tester that ends well leaves *)
(* no process of its own behind, and a kill that reports success has       *)
(* killed them all (testProcesses.c:45-114, shellCommands.c:192-204).      *)
BeliefsHold == NotesRight /\ NothingLeft
=============================================================================
