--------------------------- MODULE ProcessesProof ---------------------------
(***************************************************************************)
(* Proofs about Processes, for every number of processes and priorities.   *)
(* The inductive invariant is Inv: types, the stack in use, the running    *)
(* process and the place where each blocked process waits.                 *)
(***************************************************************************)
EXTENDS Processes, TLAPS

\* OneWaitPlace of a table st, wait lists ws and devices hd.
Awaited(st, ws, p) == {q \in Pid : st[q] \notin Dead /\ p \in Range(ws[q])}

Places(st, ws, hd) ==
  \A p \in Pid :
    /\ st[p] \in Waiting =>
         \/ p \in hd /\ Awaited(st, ws, p) = {}
         \/ p \notin hd /\ \E q \in Pid : Awaited(st, ws, p) = {q}
    /\ st[p] \in {"READY", "RUNNING", "BLK_USER"} =>
         p \notin hd /\ Awaited(st, ws, p) = {}

\* All that schedule() does to the states of the table.
Moves(st, st2) ==
  \A p \in Pid : \/ st2[p] = st[p]
                 \/ st[p] \in {"READY", "RUNNING"} /\ st2[p] \in {"READY", "RUNNING"}
                 \/ st[p] = "EXITED" /\ st2[p] = "NONE"

\* What a handler leaves to schedule().
Handed(st) ==
  /\ st \in [Pid -> State]
  /\ st[slot] # "NONE"
  /\ \A p \in Pid : st[p] = "RUNNING" => ~idle /\ p = slot
  /\ \A p \in Pid : p >= nextPid => st[p] = "NONE"

\* No PCB is allocated for a pid that was not handed out yet.
PidsAreFresh == \A p \in Pid : p >= nextPid => state[p] = "NONE"

\* The invariant.
Inv == TypeOK /\ OneWaitPlace /\ StackInUse /\ OneRunning /\ PidsAreFresh

-----------------------------------------------------------------------------
\* The walk takes MaxPid + 1 steps and meets slot last.
LEMMA PlaceRange ==
  ASSUME slot \in Pid, NEW p \in Pid
  PROVE  Place(p) \in 1..MaxPid+1 /\ Place(slot) = MaxPid + 1
PROOF BY PidAssumption DEF Pid, Place

(* What schedule() returns: it moves states only as Moves says, stays off   *)
(* the stack in use and runs at most one process.                           *)
LEMMA ScheduleOutcome ==
  ASSUME TypeOK, NEW st, Handed(st), NEW s \in Schedule(st)
  PROVE  /\ s.state \in [Pid -> State]
         /\ s.slot \in Pid
         /\ s.idle \in BOOLEAN
         /\ s.quantumsLeft \in 0..MaxPriority-1
         /\ Moves(st, s.state)
         /\ s.state[s.slot] # "NONE"
         /\ ~s.idle => s.state[s.slot] = "RUNNING"
         /\ \A p \in Pid : s.state[p] = "RUNNING" => ~s.idle /\ p = s.slot
PROOF
<1> USE PidAssumption, PriorityAssumption DEF Pid
<1>0. /\ st \in [Pid -> State]
      /\ st[slot] # "NONE"
      /\ \A p \in Pid : st[p] = "RUNNING" => ~idle /\ p = slot
  BY DEF Handed
<1> USE <1>0
<1>1. CASE KeepsCpu(st)
  <2>1. s = [state |-> st, slot |-> slot, idle |-> idle,
             quantumsLeft |-> quantumsLeft - 1]
    BY <1>1 DEF Schedule
  <2>2. s.state = st /\ s.slot = slot /\ s.idle = idle
        /\ s.quantumsLeft = quantumsLeft - 1
    BY <2>1
  <2> QED BY <1>1, <2>2 DEF KeepsCpu, TypeOK, Moves
<1>2. CASE ~KeepsCpu(st)
  <2> DEFINE ps == Preempted(st)
  <2>1. /\ ps \in [Pid -> State]
        /\ \A p \in Pid : ps[p] # "RUNNING"
        /\ \A p \in Pid : \/ ps[p] = st[p]
                          \/ st[p] = "RUNNING" /\ ps[p] = "READY"
        /\ ps[slot] # "NONE"
    BY DEF Preempted, TypeOK, State
  <2>2. ASSUME NEW n \in Int, n <= MaxPid + 1
        PROVE  /\ Freed(ps, n) \in [Pid -> State]
               /\ \A p \in Pid : \/ Freed(ps, n)[p] = ps[p]
                                 \/ ps[p] = "EXITED" /\ Freed(ps, n)[p] = "NONE"
               /\ Freed(ps, n)[slot] # "NONE"
    <3>1. slot \in Pid /\ Place(slot) = MaxPid + 1
      BY PlaceRange DEF TypeOK
    <3> HIDE DEF ps
    <3> QED BY <2>1, <2>2, <3>1 DEF Freed, State
  <2> HIDE DEF ps
  <2>3. CASE \A p \in Pid : ps[p] # "READY"
    <3>1. s = [state |-> Freed(ps, MaxPid + 1), slot |-> slot, idle |-> TRUE,
               quantumsLeft |-> quantumsLeft]
      BY <1>2, <2>3 DEF Schedule, ps
    <3>2. s.state = Freed(ps, MaxPid + 1) /\ s.slot = slot /\ s.idle = TRUE
          /\ s.quantumsLeft = quantumsLeft
      BY <3>1
    <3>3. \A p \in Pid : s.state[p] # "RUNNING"
      BY <2>1, <2>2, <3>2
    <3>4. Moves(st, s.state)
      BY <2>1, <2>2, <3>2 DEF Moves
    <3>5. /\ s.slot \in Pid /\ s.idle \in BOOLEAN
          /\ s.quantumsLeft \in 0..MaxPriority-1
      BY <3>2 DEF TypeOK
    <3>6. s.state \in [Pid -> State] /\ s.state[s.slot] # "NONE"
      BY <2>2, <3>2
    <3> QED BY <3>2, <3>3, <3>4, <3>5, <3>6
  <2>4. CASE ~ \A p \in Pid : ps[p] # "READY"
    <3>1. PICK w \in Elected(ps) :
            s = [state |-> [Freed(ps, Place(w)) EXCEPT ![w] = "RUNNING"],
                 slot |-> w, idle |-> FALSE, quantumsLeft |-> priority[w] - 1]
      BY <1>2, <2>4 DEF Schedule, ps
    <3>2. w \in Pid /\ ps[w] = "READY"
      BY DEF Elected
    <3>3. /\ w \in Pid /\ ps[w] = "READY"
          /\ Place(w) \in Int /\ Place(w) <= MaxPid + 1
      BY <3>2, PlaceRange DEF TypeOK
    <3>4. s.state = [Freed(ps, Place(w)) EXCEPT ![w] = "RUNNING"]
          /\ s.slot = w /\ s.idle = FALSE /\ s.quantumsLeft = priority[w] - 1
      BY <3>1
    <3>5. /\ Freed(ps, Place(w)) \in [Pid -> State]
          /\ \A p \in Pid : \/ Freed(ps, Place(w))[p] = ps[p]
                            \/ /\ ps[p] = "EXITED"
                               /\ Freed(ps, Place(w))[p] = "NONE"
      BY <2>2, <3>3
    <3>6. /\ s.state \in [Pid -> State]
          /\ s.state[w] = "RUNNING"
          /\ \A p \in Pid \ {w} : s.state[p] = Freed(ps, Place(w))[p]
      BY <3>2, <3>5, <3>4 DEF State
    <3>7. \A p \in Pid \ {w} : s.state[p] # "RUNNING"
      BY <2>1, <3>5, <3>6
    <3>8. Moves(st, s.state)
      BY <2>1, <3>5, <3>2, <3>6 DEF Moves
    <3>9. s.quantumsLeft \in 0..MaxPriority-1
      <4>1. priority[w] \in 1..MaxPriority
        BY <3>2 DEF TypeOK
      <4> QED BY <4>1, <3>4, PriorityAssumption
    <3> QED BY <3>3, <3>4, <3>6, <3>7, <3>8, <3>9
  <2> QED BY <2>3, <2>4
<1> QED BY <1>1, <1>2

(* Scheduling moves no process between wait places.                         *)
LEMMA MovesKeepsPlaces ==
  ASSUME NEW st, NEW st2, NEW ws, NEW hd, Moves(st, st2), Places(st, ws, hd)
  PROVE  Places(st2, ws, hd)
PROOF
<1>1. ASSUME NEW p \in Pid
      PROVE  Awaited(st2, ws, p) = Awaited(st, ws, p)
  BY DEF Moves, Awaited, Dead
<1> QED BY <1>1 DEF Places, Moves, Waiting

-----------------------------------------------------------------------------
(* The recursive exits end exactly R and, beyond it, W-EXIT processes that  *)
(* wait for one that exits; ExitSet is closed under that relation.          *)
LEMMA ExitSetFacts ==
  ASSUME TypeOK, NEW st, NEW R \in SUBSET Pid
  PROVE  /\ ExitSet(st, R) \subseteq Pid
         /\ R \subseteq ExitSet(st, R)
         /\ \A q \in ExitSet(st, R) : \A w \in Range(waiters[q]) :
              w \in Pid /\ st[w] = "W-EXIT" => w \in ExitSet(st, R)
         /\ \A w \in ExitSet(st, R) \ R :
              /\ st[w] = "W-EXIT"
              /\ \E q \in ExitSet(st, R) : w \in Range(waiters[q])
PROOF
<1> DEFINE X == ExitSet(st, R)
<1>1. X \subseteq Pid /\ R \subseteq X
  BY DEF ExitSet
<1>2. ASSUME NEW q \in X, NEW w \in Range(waiters[q]), w \in Pid, st[w] = "W-EXIT"
      PROVE  w \in X
  BY <1>2 DEF ExitSet, Cascades
<1>3. ASSUME NEW x \in X \ R,
             ~ (st[x] = "W-EXIT" /\ \E q \in X : x \in Range(waiters[q]))
      PROVE  FALSE
  <2>1. R \subseteq X \ {x} /\ X \ {x} \in SUBSET Pid
    BY <1>1
  <2>2. CASE Cascades(st, X \ {x})
    BY <2>1, <2>2 DEF ExitSet
  <2>3. CASE ~ Cascades(st, X \ {x})
    <3>1. PICK q \in X \ {x} : \E w \in Range(waiters[q]) :
            st[w] = "W-EXIT" /\ w \notin X \ {x}
      BY <2>3 DEF Cascades
    <3>2. PICK w \in Range(waiters[q]) : st[w] = "W-EXIT" /\ w \notin X \ {x}
      BY <3>1
    <3>3. w \in Pid
      BY <1>1 DEF Range, TypeOK
    <3>4. w # x
      BY <1>3, <3>2
    <3> QED BY <1>2, <3>2, <3>3, <3>4
  <2> QED BY <2>2, <2>3
<1> QED BY <1>1, <1>2, <1>3

(* What the exits of R do to the states: the exiting are those of R and     *)
(* W-EXIT processes that wait for one of them, the woken wait for one.      *)
LEMMA AfterExitFacts ==
  ASSUME TypeOK, NEW st \in [Pid -> State], NEW R \in SUBSET Pid
  PROVE  /\ AfterExit(st, R) \in [Pid -> State]
         /\ \A p \in Pid :
              \/ AfterExit(st, R)[p] = st[p]
              \/ p \in ExitSet(st, R) /\ AfterExit(st, R)[p] = "EXITED"
              \/ /\ st[p] = "BLOCKED" /\ AfterExit(st, R)[p] = "READY"
                 /\ \E q \in ExitSet(st, R) : p \in Range(waiters[q])
         /\ \A p \in ExitSet(st, R) : AfterExit(st, R)[p] = "EXITED"
         /\ \A p \in Pid : \A q \in ExitSet(st, R) :
              p \in Range(waiters[q]) => AfterExit(st, R)[p] \notin Waiting
PROOF
<1>1. ExitSet(st, R) \subseteq Pid
  BY ExitSetFacts
<1>2. ASSUME NEW p \in Pid
      PROVE  AfterExit(st, R)[p] =
               IF p \in ExitSet(st, R) THEN "EXITED"
               ELSE IF st[p] = "BLOCKED"
                       /\ \E q \in ExitSet(st, R) : p \in Range(waiters[q])
                    THEN "READY" ELSE st[p]
  BY DEF AfterExit
<1>3. AfterExit(st, R) \in [Pid -> State]
  BY DEF AfterExit, State
<1>4. ASSUME NEW p \in Pid, NEW q \in ExitSet(st, R), p \in Range(waiters[q])
      PROVE  AfterExit(st, R)[p] \notin Waiting
  <2>1. st[p] = "W-EXIT" => p \in ExitSet(st, R)
    BY <1>4, ExitSetFacts
  <2> QED BY <1>2, <1>4, <2>1 DEF Waiting
<1> QED BY <1>1, <1>2, <1>3, <1>4

(* Exits keep every other process in its wait place.                        *)
LEMMA AfterExitKeepsPlaces ==
  ASSUME TypeOK, NEW st \in [Pid -> State], NEW R \in SUBSET Pid, NEW hd,
         \A r \in R : st[r] \notin Dead, Places(st, waiters, hd)
  PROVE  Places(AfterExit(st, R), waiters, hd)
PROOF
<1> DEFINE X == ExitSet(st, R)
           st2 == AfterExit(st, R)
<1>1. \A q \in X : st[q] \notin Dead
  BY ExitSetFacts DEF Dead
<1>2. ASSUME NEW p \in Pid
      PROVE  Awaited(st2, waiters, p) = Awaited(st, waiters, p) \ X
  BY <1>1, AfterExitFacts DEF Awaited, Dead
<1>3. ASSUME NEW p \in Pid, NEW q \in X, p \in Range(waiters[q])
      PROVE  q \in Awaited(st, waiters, p)
  BY <1>1, <1>3, ExitSetFacts DEF Awaited
<1>4. ASSUME NEW p \in Pid, st2[p] \in Waiting
      PROVE  st2[p] = st[p] /\ Awaited(st2, waiters, p) = Awaited(st, waiters, p)
  <2>1. st2[p] = st[p]
    BY <1>4, AfterExitFacts DEF Waiting
  <2>2. \A q \in X : p \notin Range(waiters[q])
    BY <1>4, AfterExitFacts
  <2> QED BY <1>2, <2>1, <2>2 DEF Awaited
<1>5. ASSUME NEW p \in Pid, st2[p] \in {"READY", "RUNNING", "BLK_USER"}
      PROVE  p \notin hd /\ Awaited(st2, waiters, p) = {}
  <2>1. CASE st2[p] = st[p]
    BY <1>2, <1>5, <2>1 DEF Places
  <2>2. CASE st2[p] # st[p]
    <3>1. st[p] = "BLOCKED" /\ \E q \in X : p \in Range(waiters[q])
      BY <1>5, <2>2, AfterExitFacts
    <3>2. PICK q \in X : q \in Awaited(st, waiters, p)
      BY <1>3, <3>1
    <3>3. p \notin hd /\ Awaited(st, waiters, p) = {q}
      BY <3>1, <3>2 DEF Places, Waiting
    <3> QED BY <1>2, <3>2, <3>3
  <2> QED BY <2>1, <2>2
<1> HIDE DEF X, st2
<1>6. ASSUME NEW p \in Pid, st2[p] \in Waiting
      PROVE  \/ p \in hd /\ Awaited(st2, waiters, p) = {}
             \/ p \notin hd /\ \E q \in Pid : Awaited(st2, waiters, p) = {q}
  BY <1>4, <1>6 DEF Places
<1>7. Places(st2, waiters, hd)
  BY <1>5, <1>6 DEF Places
<1> QED BY <1>7 DEF st2

(* A device that lets go of ds, PCBs it holds, keeps the rest in place.     *)
LEMMA ReleasedKeepsPlaces ==
  ASSUME TypeOK, NEW st \in [Pid -> State], NEW hd \in SUBSET Pid, NEW ds,
         Range(ds) \subseteq hd, Places(st, waiters, hd)
  PROVE  /\ Released(st, ds) \in [Pid -> State]
         /\ Places(Released(st, ds), waiters, hd \ Range(ds))
PROOF
<1> DEFINE R == Doomed(st, ds)
           st1 == AfterExit(st, R)
           st2 == Released(st, ds)
<1>1. R \in SUBSET Pid /\ \A r \in R : st[r] = "W-EXIT"
  BY DEF Doomed
<1>2. st1 \in [Pid -> State] /\ Places(st1, waiters, hd)
  BY <1>1, AfterExitFacts, AfterExitKeepsPlaces DEF Dead
<1>3. \A p \in R : st1[p] = "EXITED"
  BY <1>1, AfterExitFacts, ExitSetFacts
<1>4. \A p \in Pid : st2[p] = IF st[p] = "BLOCKED" /\ p \in Range(ds)
                              THEN "READY" ELSE st1[p]
  BY DEF Released
<1>5. st2 \in [Pid -> State]
  BY <1>2 DEF Released, State
<1>6. ASSUME NEW p \in Pid, p \in hd, st[p] = "BLOCKED"
      PROVE  st1[p] \in Waiting
  <2>1. Awaited(st, waiters, p) = {}
    BY <1>6 DEF Places, Waiting
  <2>2. \A q \in ExitSet(st, R) : st[q] \notin Dead
    BY <1>1, ExitSetFacts DEF Dead
  <2>3. \A q \in ExitSet(st, R) : p \notin Range(waiters[q])
    BY <2>1, <2>2, ExitSetFacts, <1>1 DEF Awaited
  <2>4. p \notin ExitSet(st, R)
    BY <1>1, <1>6, <2>3, ExitSetFacts
  <2> QED BY <1>1, <1>6, <2>3, <2>4, AfterExitFacts DEF Waiting
<1> HIDE DEF R, st1, st2
<1>7. ASSUME NEW p \in Pid
      PROVE  Awaited(st2, waiters, p) \subseteq Awaited(st1, waiters, p)
  <2>1. \A q \in Pid : st2[q] \notin Dead => st1[q] \notin Dead
    BY <1>4, <1>6 DEF Waiting, Dead
  <2> QED BY <2>1 DEF Awaited
<1>8. ASSUME NEW p \in Pid
      PROVE  Awaited(st2, waiters, p) = Awaited(st1, waiters, p)
  <2>1. \A q \in Pid : st1[q] \notin Dead => st2[q] \notin Dead
    BY <1>4 DEF Dead
  <2> QED BY <1>7, <2>1 DEF Awaited
<1>9. ASSUME NEW p \in Pid, st2[p] \in Waiting
      PROVE  \/ p \in hd \ Range(ds) /\ Awaited(st2, waiters, p) = {}
             \/ p \notin hd \ Range(ds) /\ \E q \in Pid : Awaited(st2, waiters, p) = {q}
  <2>1. st2[p] = st1[p]
    BY <1>4, <1>9 DEF Waiting
  <2>2. p \notin Range(ds) \/ p \notin hd
    <3>1. SUFFICES ASSUME p \in Range(ds) PROVE FALSE
      OBVIOUS
    <3>2. st[p] # "BLOCKED"
      BY <1>4, <1>9, <3>1 DEF Waiting
    <3>3. st[p] # "W-EXIT"
      BY <1>3, <1>9, <2>1, <3>1 DEF R, Doomed, Waiting
    <3>4. st1[p] = st[p] \/ st1[p] = "EXITED" \/ st1[p] = "READY"
      BY <1>1, AfterExitFacts DEF st1
    <3> QED BY <1>9, <2>1, <3>2, <3>3, <3>4 DEF Waiting
  <2> QED BY <1>2, <1>8, <1>9, <2>1, <2>2 DEF Places
<1>10. ASSUME NEW p \in Pid, st2[p] \in {"READY", "RUNNING", "BLK_USER"}
       PROVE  p \notin hd \ Range(ds) /\ Awaited(st2, waiters, p) = {}
  <2>1. CASE st[p] = "BLOCKED" /\ p \in Range(ds)
    <3>1. st1[p] \in Waiting /\ p \in hd
      BY <1>6, <2>1
    <3> QED BY <1>2, <1>8, <2>1, <3>1 DEF Places
  <2>2. CASE ~ (st[p] = "BLOCKED" /\ p \in Range(ds))
    BY <1>2, <1>4, <1>8, <1>10, <2>2 DEF Places
  <2> QED BY <2>1, <2>2
<1>11. Places(st2, waiters, hd \ Range(ds))
  BY <1>9, <1>10 DEF Places
<1> QED BY <1>5, <1>11 DEF st2

-----------------------------------------------------------------------------
(* From the lemmas to the invariant.                                        *)

LEMMA OneWaitPlaceIsPlaces == OneWaitPlace <=> Places(state, waiters, held)
PROOF BY DEF OneWaitPlace, Places, WaitsFor, Awaited

\* The fields that are not the scheduler's keep their types.
TypedFields ==
  /\ priority \in [Pid -> 1..MaxPriority]
  /\ parent \in [Pid -> Pid]
  /\ waiters \in [Pid -> Seq(Pid)]
  /\ nextPid \in 2..MaxPid+1
  /\ fg \in Pid
  /\ held \subseteq Pid

(* A handler that ends in schedule().                                       *)
LEMMA SwitchInv ==
  ASSUME TypeOK, NEW st, Handed(st), Switch(st), UNCHANGED nextPid,
         TypedFields', Places(st, waiters', held')
  PROVE  Inv'
PROOF
<1>1. PICK s \in Schedule(st) : state' = s.state /\ slot' = s.slot
                                /\ idle' = s.idle /\ quantumsLeft' = s.quantumsLeft
  BY DEF Switch
<1>2. TypeOK'
  BY <1>1, ScheduleOutcome DEF TypeOK, TypedFields
<1>3. Places(state', waiters', held')
  BY <1>1, ScheduleOutcome, MovesKeepsPlaces
<1>4. OneWaitPlace'
  BY <1>3 DEF OneWaitPlace, Places, WaitsFor, Awaited
<1>5. StackInUse' /\ OneRunning'
  BY <1>1, ScheduleOutcome DEF StackInUse, OneRunning
<1>6. PidsAreFresh'
  BY <1>1, ScheduleOutcome DEF PidsAreFresh, Handed, Moves
<1> QED BY <1>2, <1>4, <1>5, <1>6 DEF Inv

(* A handler that returns to the process it interrupted, or to idle.        *)
LEMMA ReturnInv ==
  ASSUME Inv, UNCHANGED <<slot, idle, quantumsLeft>>,
         state' \in [Pid -> State],
         \A p \in Pid : state'[p] = "RUNNING" => state[p] = "RUNNING",
         ~idle => state'[slot] = state[slot],
         state'[slot] # "NONE", PidsAreFresh',
         TypedFields', Places(state', waiters', held')
  PROVE  Inv'
PROOF
<1>1. TypeOK'
  BY DEF Inv, TypeOK, TypedFields
<1>2. OneWaitPlace'
  BY DEF OneWaitPlace, Places, WaitsFor, Awaited
<1>3. StackInUse' /\ OneRunning'
  BY DEF Inv, TypeOK, StackInUse, OneRunning
<1> QED BY <1>1, <1>2, <1>3 DEF Inv

\* The current process is runnable and waits nowhere.
LEMMA CurrentIsFree ==
  ASSUME Inv, ~idle
  PROVE  /\ slot \in Pid
         /\ state[slot] \in {"READY", "RUNNING"}
         /\ slot \notin held
         /\ WaitsFor(slot) = {}
PROOF BY DEF Inv, TypeOK, OneRunning, OneWaitPlace

\* A table whose states are those of `state', but for one process.
LEMMA HandedExcept ==
  ASSUME Inv, NEW p \in Pid, state[p] # "NONE", NEW v \in State \ {"NONE", "RUNNING"}
  PROVE  Handed([state EXCEPT ![p] = v])
PROOF BY DEF Handed, Inv, TypeOK, OneRunning, StackInUse, PidsAreFresh

LEMMA HandedAfterExit ==
  ASSUME Inv, NEW R \in SUBSET Pid, \A r \in R : state[r] \notin Dead
  PROVE  Handed(AfterExit(state, R))
PROOF
<1>1. state \in [Pid -> State] /\ slot \in Pid /\ state[slot] # "NONE"
  BY DEF Inv, TypeOK, StackInUse
<1>2. AfterExit(state, R)[slot] # "NONE"
  BY <1>1, AfterExitFacts DEF Inv
<1>3. \A p \in Pid : AfterExit(state, R)[p] = "RUNNING" => state[p] = "RUNNING"
  BY <1>1, AfterExitFacts DEF Inv
<1>4. \A p \in Pid : p >= nextPid => AfterExit(state, R)[p] = "NONE"
  BY <1>1, AfterExitFacts, ExitSetFacts DEF Inv, PidsAreFresh, Dead
<1> QED BY <1>1, <1>2, <1>3, <1>4, AfterExitFacts DEF Handed, Inv, OneRunning

LEMMA RangeAppend ==
  ASSUME NEW S, NEW s \in Seq(S), NEW e \in S
  PROVE  Range(Append(s, e)) = Range(s) \cup {e}
PROOF
<1>1. DOMAIN Append(s, e) = DOMAIN s \cup {Len(s) + 1}
  OBVIOUS
<1>2. \A i \in DOMAIN s : Append(s, e)[i] = s[i]
  OBVIOUS
<1>3. Append(s, e)[Len(s) + 1] = e
  OBVIOUS
<1> QED BY <1>1, <1>2, <1>3 DEF Range

-----------------------------------------------------------------------------
LEMMA InitInv == Init => Inv
PROOF
<1> SUFFICES ASSUME Init PROVE Inv
  OBVIOUS
<1> USE PidAssumption, PriorityAssumption DEF Init, Pid
<1>1. TypeOK
  <2>1. /\ nextPid \in 2..MaxPid+1
        /\ 0 \in Pid
        /\ quantumsLeft \in 0..MaxPriority-1
    OBVIOUS
  <2>2. /\ state \in [Pid -> State]
        /\ priority \in [Pid -> 1..MaxPriority]
    BY DEF State
  <2>3. /\ parent \in [Pid -> Pid]
        /\ waiters \in [Pid -> Seq(Pid)]
    OBVIOUS
  <2> QED BY <2>1, <2>2, <2>3 DEF TypeOK
<1>2. OneWaitPlace
  <2>1. \A q \in Pid : Range(waiters[q]) = {}
    BY DEF Range
  <2> QED BY <2>1 DEF OneWaitPlace, WaitsFor, Waiting
<1>3. StackInUse /\ OneRunning
  BY DEF StackInUse, OneRunning
<1>4. PidsAreFresh
  BY DEF PidsAreFresh
<1> QED BY <1>1, <1>2, <1>3, <1>4 DEF Inv

(* A change among the states that wait, or among those that can run, moves  *)
(* no process between wait places.                                          *)
LEMMA SameKindKeepsPlaces ==
  ASSUME NEW st, NEW st2, NEW ws, NEW hd, Places(st, ws, hd),
         \A p \in Pid : \/ st2[p] = st[p]
                        \/ st[p] \in Waiting /\ st2[p] \in Waiting
                        \/ /\ st[p] \in {"READY", "RUNNING", "BLK_USER"}
                           /\ st2[p] \in {"READY", "RUNNING", "BLK_USER"}
  PROVE  Places(st2, ws, hd)
PROOF
<1>1. ASSUME NEW p \in Pid
      PROVE  Awaited(st2, ws, p) = Awaited(st, ws, p)
  BY DEF Awaited, Dead, Waiting
<1> QED BY <1>1 DEF Places, Waiting

-----------------------------------------------------------------------------
(* One lemma per action.                                                    *)

LEMMA CreateInv == Inv /\ Intact /\ Create => Inv'
PROOF
<1> SUFFICES ASSUME Inv, Intact, Create PROVE Inv'
  OBVIOUS
<1> USE PidAssumption, PriorityAssumption
<1>1. nextPid \in Pid /\ slot \in Pid /\ slot # nextPid
  BY DEF Create, CreatePCBNode, Inv, TypeOK, Pid, PidsAreFresh, StackInUse
<1>2. state[nextPid] = "NONE"
  BY <1>1 DEF Inv, TypeOK, PidsAreFresh
<1>3. TypedFields'
  BY <1>1 DEF Create, CreatePCBNode, TypedFields, Inv, TypeOK
<1>4. /\ state' \in [Pid -> State]
      /\ state'[nextPid] = "READY"
      /\ \A p \in Pid \ {nextPid} : state'[p] = state[p]
  BY <1>1 DEF Create, CreatePCBNode, Inv, TypeOK, State
<1>5. /\ Range(waiters'[nextPid]) = {}
      /\ \A q \in Pid \ {nextPid} : waiters'[q] = waiters[q]
  BY <1>1 DEF Create, CreatePCBNode, Inv, TypeOK, Range
<1>6. ASSUME NEW p \in Pid
      PROVE  Awaited(state', waiters', p) = Awaited(state, waiters, p)
  BY <1>2, <1>4, <1>5 DEF Awaited, Dead
<1>7. Awaited(state, waiters, nextPid) = {} /\ nextPid \notin held
  BY <1>2 DEF Intact, Awaited, Dead
<1>8. Places(state, waiters, held)
  BY OneWaitPlaceIsPlaces DEF Inv
<1>9. Places(state', waiters', held)
  BY <1>4, <1>6, <1>7, <1>8 DEF Places, Waiting
<1>10. held' = held /\ UNCHANGED <<slot, idle, quantumsLeft>>
  BY DEF Create, CreatePCBNode
<1>11. PidsAreFresh'
  <2>1. nextPid \in Int /\ nextPid' = nextPid + 1 /\ PidsAreFresh
    BY <1>1 DEF Create, CreatePCBNode, Inv, Pid
  <2> QED BY <1>4, <2>1 DEF PidsAreFresh, Pid
<1>12. \A p \in Pid : state'[p] = "RUNNING" => state[p] = "RUNNING"
  BY <1>4
<1>13. state'[slot] = state[slot] /\ state[slot] # "NONE"
  BY <1>1, <1>4 DEF Inv, StackInUse
<1> QED BY <1>3, <1>4, <1>9, <1>10, <1>11, <1>12, <1>13, ReturnInv

LEMMA CreateFailsInv == Inv /\ CreateFails => Inv'
PROOF
<1> SUFFICES ASSUME Inv, CreateFails PROVE Inv'
  OBVIOUS
<1>1. nextPid \in 2..MaxPid+1 /\ nextPid <= MaxPid /\ nextPid' = nextPid + 1
  BY DEF CreateFails, Inv, TypeOK
<1>2. TypeOK'
  BY <1>1, PidAssumption DEF CreateFails, Inv, TypeOK
<1>3. OneWaitPlace' /\ StackInUse' /\ OneRunning'
  BY DEF CreateFails, Inv, OneWaitPlace, WaitsFor, StackInUse, OneRunning
<1>4. PidsAreFresh'
  BY <1>1, PidAssumption DEF CreateFails, Inv, PidsAreFresh, Pid
<1> QED BY <1>2, <1>3, <1>4 DEF Inv

(* The processes that exit when the live ones of R do, with a switch after. *)
LEMMA ExitSwitchInv ==
  ASSUME Inv, NEW R \in SUBSET Pid, \A r \in R : state[r] \notin Dead,
         Switch(AfterExit(state, R)), fg' \in Pid,
         UNCHANGED <<priority, parent, waiters, nextPid, held>>
  PROVE  Inv'
PROOF
<1>1. Places(AfterExit(state, R), waiters, held)
  BY OneWaitPlaceIsPlaces, AfterExitKeepsPlaces DEF Inv, TypeOK
<1>2. TypedFields'
  BY DEF TypedFields, Inv, TypeOK
<1> QED BY <1>1, <1>2, HandedAfterExit, SwitchInv DEF Inv

LEMMA ExitInv == Inv /\ Exit => Inv'
PROOF
<1> SUFFICES ASSUME Inv, Exit PROVE Inv'
  OBVIOUS
<1>1. slot \in Pid /\ state[slot] \notin Dead
  BY CurrentIsFree DEF Exit, Dead
<1> QED BY <1>1, ExitSwitchInv DEF Exit, ForegroundAfter

LEMMA KillBlockedInv == ASSUME Inv, NEW p \in Pid, KillBlocked(p) PROVE Inv'
PROOF
<1>1. /\ state' \in [Pid -> State]
      /\ state[p] = "BLOCKED" /\ state'[p] = "W-EXIT"
      /\ \A q \in Pid \ {p} : state'[q] = state[q]
  BY DEF KillBlocked, Inv, TypeOK, State
<1>2. Places(state', waiters', held')
  <2>1. Places(state, waiters, held)
    BY OneWaitPlaceIsPlaces DEF Inv
  <2>2. Places(state', waiters, held)
    BY <1>1, <2>1, SameKindKeepsPlaces DEF Waiting
  <2> QED BY <2>2 DEF KillBlocked
<1>3. TypedFields' /\ UNCHANGED <<slot, idle, quantumsLeft>>
  BY DEF TypedFields, Inv, TypeOK, KillBlocked
<1>4. PidsAreFresh'
  BY <1>1 DEF PidsAreFresh, Inv, KillBlocked
<1>5. state'[slot] = state[slot]
  BY <1>1, CurrentIsFree DEF KillBlocked
<1>6. state[slot] # "NONE"
  BY DEF Inv, StackInUse
<1> QED BY <1>1, <1>2, <1>3, <1>4, <1>5, <1>6, ReturnInv

LEMMA KillInv == ASSUME Inv, NEW p \in Pid, Kill(p) PROVE Inv'
PROOF
<1>1. state[p] \notin Dead /\ fg' \in Pid
  BY DEF Kill, Killable, Dead, ForegroundAfter
<1>2. CASE p = slot
  BY <1>1, <1>2, ExitSwitchInv DEF Kill
<1>3. CASE p # slot
  <2>1. state' = AfterExit(state, {p}) /\ UNCHANGED <<slot, idle, quantumsLeft>>
    BY <1>3 DEF Kill
  <2>2. Handed(state')
    BY <1>1, <2>1, HandedAfterExit
  <2>3. Places(state', waiters', held')
    BY <1>1, <2>1, OneWaitPlaceIsPlaces, AfterExitKeepsPlaces DEF Kill, Inv, TypeOK
  <2>0. \A q \in Pid : \/ state'[q] = state[q]
                       \/ q \in ExitSet(state, {p}) /\ state'[q] = "EXITED"
                       \/ state[q] = "BLOCKED" /\ state'[q] = "READY"
    <3>1. {p} \in SUBSET Pid /\ state \in [Pid -> State] /\ TypeOK
      BY DEF Inv, TypeOK
    <3> QED BY <2>1, <3>1, AfterExitFacts
  <2>4. \A q \in Pid : state'[q] = "RUNNING" => state[q] = "RUNNING"
    BY <2>0
  <2>5. state'[slot] = state[slot]
    <3>1. state[slot] \in {"READY", "RUNNING"} /\ slot \in Pid
      BY CurrentIsFree DEF Kill
    <3>2. slot \notin ExitSet(state, {p})
      BY <1>3, <3>1, ExitSetFacts DEF Inv
    <3> QED BY <2>0, <3>1, <3>2
  <2>6. TypedFields'
    BY <1>1 DEF Kill, TypedFields, Inv, TypeOK
  <2>7. PidsAreFresh'
    BY <2>2 DEF Handed, PidsAreFresh, Kill
  <2>8. state' \in [Pid -> State] /\ state'[slot] # "NONE"
    BY <2>2 DEF Handed
  <2> QED BY <2>1, <2>3, <2>4, <2>5, <2>6, <2>7, <2>8, ReturnInv
<1> QED BY <1>2, <1>3

\* The current process blocks, recorded by one party.
LEMMA BlockedSomewhere ==
  ASSUME Inv, NEW ws, NEW hd,
         ~idle,
         \A p \in Pid \ {slot} : (p \in hd <=> p \in held),
         \A p \in Pid \ {slot} : \A q \in Pid :
           state[q] \notin Dead => (p \in Range(ws[q]) <=> p \in Range(waiters[q])),
         \/ slot \in hd /\ \A q \in Pid : state[q] \notin Dead => slot \notin Range(ws[q])
         \/ /\ slot \notin hd
            /\ \E q \in Pid : /\ state[q] \notin Dead
                              /\ \A r \in Pid : state[r] \notin Dead =>
                                   (slot \in Range(ws[r]) <=> r = q)
  PROVE  Places([state EXCEPT ![slot] = "BLOCKED"], ws, hd)
PROOF
<1> DEFINE st == [state EXCEPT ![slot] = "BLOCKED"]
<1>1. /\ slot \in Pid
      /\ state[slot] \notin Dead
      /\ st[slot] = "BLOCKED"
      /\ \A p \in Pid \ {slot} : st[p] = state[p]
  BY CurrentIsFree DEF Inv, TypeOK, Dead
<1>2. \A q \in Pid : st[q] \notin Dead <=> state[q] \notin Dead
  BY <1>1 DEF Dead
<1> HIDE DEF st
<1>3. Places(state, waiters, held)
  BY OneWaitPlaceIsPlaces DEF Inv
<1>4. ASSUME NEW p \in Pid \ {slot}
      PROVE  Awaited(st, ws, p) = Awaited(state, waiters, p)
  BY <1>2 DEF Awaited
<1>5. \/ slot \in hd /\ Awaited(st, ws, slot) = {}
      \/ slot \notin hd /\ \E q \in Pid : Awaited(st, ws, slot) = {q}
  BY <1>1, <1>2 DEF Awaited
<1>6. Places(st, ws, hd)
  BY <1>1, <1>3, <1>4, <1>5 DEF Places, Waiting
<1> QED BY <1>6 DEF st

LEMMA WaitPidInv == ASSUME Inv, NEW p \in Pid, WaitPid(p) PROVE Inv'
PROOF
<1> DEFINE st == [state EXCEPT ![slot] = "BLOCKED"]
<1>1. /\ ~idle /\ p # slot /\ state[p] \notin Dead
      /\ waiters' = [waiters EXCEPT ![p] = Append(@, slot)]
      /\ Switch(st)
      /\ UNCHANGED <<priority, parent, nextPid, held>>
  BY DEF WaitPid, Awaitable, Dead
<1>2. /\ slot \in Pid /\ slot \notin held
      /\ \A q \in Pid : state[q] \notin Dead => slot \notin Range(waiters[q])
      /\ state[slot] # "NONE"
  BY <1>1, CurrentIsFree DEF WaitsFor
<1>3. /\ waiters' \in [Pid -> Seq(Pid)]
      /\ waiters'[p] = Append(waiters[p], slot)
      /\ \A q \in Pid \ {p} : waiters'[q] = waiters[q]
  BY <1>1, <1>2 DEF Inv, TypeOK
<1>4. Range(waiters'[p]) = Range(waiters[p]) \cup {slot}
  BY <1>2, <1>3, RangeAppend DEF Inv, TypeOK
<1>5. \A r \in Pid \ {slot} : \A q \in Pid :
        r \in Range(waiters'[q]) <=> r \in Range(waiters[q])
  <2> SUFFICES ASSUME NEW r \in Pid \ {slot}, NEW q \in Pid
               PROVE  r \in Range(waiters'[q]) <=> r \in Range(waiters[q])
    OBVIOUS
  <2>1. CASE q = p
    BY <1>4, <2>1
  <2>2. CASE q # p
    BY <1>3, <2>2
  <2> QED BY <2>1, <2>2
<1>6. \A r \in Pid : state[r] \notin Dead => (slot \in Range(waiters'[r]) <=> r = p)
  <2> SUFFICES ASSUME NEW r \in Pid, state[r] \notin Dead
               PROVE  slot \in Range(waiters'[r]) <=> r = p
    OBVIOUS
  <2>1. CASE r = p
    BY <1>4, <2>1
  <2>2. CASE r # p
    <3>1. waiters'[r] = waiters[r] /\ slot \notin Range(waiters[r])
      BY <1>2, <1>3, <2>2
    <3> QED BY <2>2, <3>1
  <2> QED BY <2>1, <2>2
<1>7. Places(st, waiters', held')
  <2>1. \A r \in Pid \ {slot} : (r \in held' <=> r \in held)
    BY <1>1
  <2>2. \A r \in Pid \ {slot} : \A q \in Pid :
          state[q] \notin Dead =>
            (r \in Range(waiters'[q]) <=> r \in Range(waiters[q]))
    BY <1>5
  <2>3. /\ slot \notin held'
        /\ \E q \in Pid : /\ state[q] \notin Dead
                          /\ \A r \in Pid : state[r] \notin Dead =>
                               (slot \in Range(waiters'[r]) <=> r = q)
    BY <1>1, <1>2, <1>6
  <2> QED BY <1>1, <2>1, <2>2, <2>3, BlockedSomewhere
<1>8. TypedFields'
  <2>1. fg' \in Pid
    BY <1>2 DEF WaitPid, Inv, TypeOK
  <2> QED BY <1>1, <1>3, <2>1 DEF TypedFields, Inv, TypeOK
<1>9. Handed(st)
  BY <1>2, HandedExcept DEF State
<1> QED BY <1>1, <1>7, <1>8, <1>9, SwitchInv DEF Inv

LEMMA BlockInv == Inv /\ Block => Inv'
PROOF
<1> SUFFICES ASSUME Inv, Block PROVE Inv'
  OBVIOUS
<1> DEFINE st == [state EXCEPT ![slot] = "BLOCKED"]
<1>1. /\ ~idle /\ held' = held \cup {slot} /\ Switch(st)
      /\ UNCHANGED <<priority, parent, waiters, nextPid, fg>>
  BY DEF Block
<1>2. /\ slot \in Pid /\ state[slot] # "NONE"
      /\ \A q \in Pid : state[q] \notin Dead => slot \notin Range(waiters[q])
  BY <1>1, CurrentIsFree DEF WaitsFor
<1>3. Places(st, waiters', held')
  BY <1>1, <1>2, BlockedSomewhere
<1>4. TypedFields'
  BY <1>1, <1>2 DEF TypedFields, Inv, TypeOK
<1>5. Handed(st)
  BY <1>2, HandedExcept DEF State
<1> QED BY <1>1, <1>3, <1>4, <1>5, SwitchInv DEF Inv

LEMMA BlockByUserInv == ASSUME Inv, NEW p \in Pid, BlockByUser(p) PROVE Inv'
PROOF
<1> DEFINE st == [state EXCEPT ![p] = "BLK_USER"]
<1>1. /\ ~idle /\ state[p] \in {"READY", "RUNNING"}
      /\ UNCHANGED <<priority, parent, waiters, nextPid, fg, held>>
  BY DEF BlockByUser
<1>2. Handed(st)
  BY <1>1, HandedExcept DEF State
<1>3. st[p] = "BLK_USER" /\ \A q \in Pid \ {p} : st[q] = state[q]
  BY DEF Inv, TypeOK
<1>4. Places(st, waiters', held')
  <2>1. Places(state, waiters, held)
    BY OneWaitPlaceIsPlaces DEF Inv
  <2> HIDE DEF st
  <2> QED BY <1>1, <1>3, <2>1, SameKindKeepsPlaces
<1>5. TypedFields'
  BY <1>1 DEF TypedFields, Inv, TypeOK
<1>6. CASE p = slot
  BY <1>1, <1>2, <1>4, <1>5, <1>6, SwitchInv DEF BlockByUser, Inv
<1>7. CASE p # slot
  <2>1. state' = st /\ UNCHANGED <<slot, idle, quantumsLeft>>
    BY <1>7 DEF BlockByUser
  <2> HIDE DEF st
  <2>2. state' \in [Pid -> State] /\ state'[slot] # "NONE" /\ PidsAreFresh'
    BY <1>1, <1>2, <2>1 DEF Handed, PidsAreFresh
  <2>3. state'[slot] = state[slot]
    BY <1>3, <1>7, <2>1 DEF Inv, TypeOK
  <2>4. \A q \in Pid : state'[q] = "RUNNING" => state[q] = "RUNNING"
    BY <1>3, <2>1
  <2> QED BY <1>4, <1>5, <2>1, <2>2, <2>3, <2>4, ReturnInv
<1> QED BY <1>6, <1>7

LEMMA UnblockInv == ASSUME Inv, NEW p \in Pid, Unblock(p) PROVE Inv'
PROOF
<1>1. /\ ~idle /\ state[p] = "BLK_USER"
      /\ UNCHANGED <<priority, parent, waiters, nextPid, slot, idle,
                     quantumsLeft, fg, held>>
      /\ state' = [state EXCEPT ![p] = "READY"]
  BY DEF Unblock
<1>2. Handed(state')
  BY <1>1, HandedExcept DEF State
<1>3. state'[p] = "READY" /\ \A q \in Pid \ {p} : state'[q] = state[q]
  BY <1>1 DEF Inv, TypeOK
<1>4. Places(state', waiters', held')
  <2>1. Places(state, waiters, held)
    BY OneWaitPlaceIsPlaces DEF Inv
  <2> QED BY <1>1, <1>3, <2>1, SameKindKeepsPlaces
<1>5. TypedFields'
  BY <1>1 DEF TypedFields, Inv, TypeOK
<1>6. state' \in [Pid -> State] /\ state'[slot] # "NONE" /\ PidsAreFresh'
  BY <1>1, <1>2 DEF Handed, PidsAreFresh
<1>7. state'[slot] = state[slot]
  BY <1>1, <1>3, CurrentIsFree
<1>8. \A q \in Pid : state'[q] = "RUNNING" => state[q] = "RUNNING"
  BY <1>3
<1> QED BY <1>1, <1>4, <1>5, <1>6, <1>7, <1>8, ReturnInv

LEMMA YieldInv == Inv /\ Yield => Inv'
PROOF
<1> SUFFICES ASSUME Inv, Yield PROVE Inv'
  OBVIOUS
<1> DEFINE st == [state EXCEPT ![slot] = "READY"]
<1>1. /\ ~idle /\ Switch(st)
      /\ UNCHANGED <<priority, parent, waiters, nextPid, fg, held>>
  BY DEF Yield
<1>2. slot \in Pid /\ state[slot] \in {"READY", "RUNNING"}
  BY <1>1, CurrentIsFree
<1>3. Handed(st)
  BY <1>2, HandedExcept DEF State
<1>4. st[slot] = "READY" /\ \A q \in Pid \ {slot} : st[q] = state[q]
  BY <1>2 DEF Inv, TypeOK
<1> HIDE DEF st
<1>5. Places(st, waiters', held')
  <2>1. Places(state, waiters, held)
    BY OneWaitPlaceIsPlaces DEF Inv
  <2> QED BY <1>1, <1>2, <1>4, <2>1, SameKindKeepsPlaces
<1>6. TypedFields'
  BY <1>1 DEF TypedFields, Inv, TypeOK
<1> QED BY <1>1, <1>3, <1>5, <1>6, SwitchInv DEF Inv

LEMMA ChangePriorityInv ==
  ASSUME Inv, NEW p \in Pid, NEW n \in 1..MaxPriority, ChangePriority(p, n)
  PROVE  Inv'
PROOF
<1>1. TypeOK'
  BY DEF ChangePriority, Inv, TypeOK
<1> QED BY <1>1 DEF ChangePriority, Inv, OneWaitPlace, WaitsFor, StackInUse,
                    OneRunning, PidsAreFresh

LEMMA HandedNow == ASSUME Inv PROVE Handed(state)
PROOF BY DEF Inv, TypeOK, Handed, OneRunning, StackInUse, PidsAreFresh

LEMMA F2Inv == Inv /\ F2 => Inv'
PROOF
<1> SUFFICES ASSUME Inv, F2 PROVE Inv'
  OBVIOUS
<1>1. Switch(state) /\ UNCHANGED <<priority, parent, waiters, nextPid, fg, held>>
  BY DEF F2
<1>2. Places(state, waiters', held')
  BY <1>1, OneWaitPlaceIsPlaces DEF Inv
<1>3. TypedFields'
  BY <1>1 DEF TypedFields, Inv, TypeOK
<1> QED BY <1>1, <1>2, <1>3, HandedNow, SwitchInv DEF Inv

LEMMA CtrlCInv == Inv /\ Intact /\ CtrlC => Inv'
PROOF
<1> SUFFICES ASSUME Inv, Intact, CtrlC PROVE Inv'
  OBVIOUS
<1>1. /\ UNCHANGED <<priority, parent, waiters, nextPid, held>>
      /\ fg \in Pid /\ state[fg] # "NONE"
  BY DEF CtrlC, Inv, TypeOK, Intact
<1>2. Places(state, waiters, held)
  BY OneWaitPlaceIsPlaces DEF Inv
<1>3. CASE state[fg] = "EXITED"
  <2>1. Switch(state) /\ UNCHANGED fg
    BY <1>3 DEF CtrlC
  <2>2. TypedFields'
    BY <1>1, <2>1 DEF TypedFields, Inv, TypeOK
  <2> QED BY <1>1, <1>2, <2>1, <2>2, HandedNow, SwitchInv DEF Inv
<1>4. CASE state[fg] = "BLOCKED"
  <2> DEFINE st == [state EXCEPT ![fg] = "W-EXIT"]
  <2>1. Switch(st) /\ UNCHANGED fg
    BY <1>4 DEF CtrlC
  <2>2. TypedFields'
    BY <1>1, <2>1 DEF TypedFields, Inv, TypeOK
  <2>3. Handed(st)
    BY <1>1, HandedExcept DEF State
  <2>4. st[fg] = "W-EXIT" /\ \A q \in Pid \ {fg} : st[q] = state[q]
    BY <1>1 DEF Inv, TypeOK
  <2> HIDE DEF st
  <2>5. Places(st, waiters', held')
    <3>1. \A q \in Pid : \/ st[q] = state[q]
                         \/ state[q] \in Waiting /\ st[q] \in Waiting
      BY <1>4, <2>4 DEF Waiting
    <3>2. Places(st, waiters, held)
      BY <1>2, <3>1, SameKindKeepsPlaces
    <3> QED BY <1>1, <3>2
  <2> QED BY <1>1, <2>1, <2>2, <2>3, <2>5, SwitchInv DEF Inv
<1>5. CASE state[fg] \notin {"EXITED", "BLOCKED"}
  <2>1. Switch(AfterExit(state, {fg})) /\ fg' \in Pid
    BY <1>5 DEF CtrlC, ForegroundAfter
  <2>2. \A r \in {fg} : state[r] \notin Dead
    BY <1>1, <1>5 DEF Dead
  <2> QED BY <1>1, <2>1, <2>2, ExitSwitchInv
<1> QED BY <1>3, <1>4, <1>5

\* What SetToAllKPermutations(S) gives are sequences over S.
LEMMA PermutationRange ==
  ASSUME NEW S, NEW ds \in SetToAllKPermutations(S)
  PROVE  Range(ds) \subseteq S
PROOF
<1>1. PICK D \in SUBSET S : ds \in SetToSeqs(D)
  BY DEF SetToAllKPermutations
<1>2. ds \in [1..Cardinality(D) -> D]
  BY <1>1 DEF SetToSeqs
<1> QED BY <1>2 DEF Range

\* A device that lets go of PCBs readies or exits processes that wait, no other.
LEMMA ReleasedFacts ==
  ASSUME TypeOK, NEW st \in [Pid -> State], NEW ds, Range(ds) \subseteq Pid
  PROVE  \A p \in Pid : \/ Released(st, ds)[p] = st[p]
                        \/ /\ st[p] \in Waiting
                           /\ Released(st, ds)[p] \in {"READY", "EXITED"}
PROOF
<1> DEFINE R == Doomed(st, ds)
<1>1. R \in SUBSET Pid /\ \A r \in R : st[r] = "W-EXIT"
  BY DEF Doomed
<1>2. \A p \in ExitSet(st, R) : st[p] = "W-EXIT"
  BY <1>1, ExitSetFacts
<1>3. \A p \in Pid : \/ AfterExit(st, R)[p] = st[p]
                     \/ p \in ExitSet(st, R) /\ AfterExit(st, R)[p] = "EXITED"
                     \/ st[p] = "BLOCKED" /\ AfterExit(st, R)[p] = "READY"
  BY <1>1, AfterExitFacts
<1> QED BY <1>2, <1>3 DEF Released, Waiting

LEMMA ReleaseInv ==
  ASSUME Inv, NEW ds \in SetToAllKPermutations(held), Release(ds)
  PROVE  Inv'
PROOF
<1>1. /\ state' = Released(state, ds)
      /\ held' = held \ Range(ds)
      /\ fg' \in Pid
      /\ UNCHANGED <<priority, parent, waiters, nextPid, slot, idle, quantumsLeft>>
  BY DEF Release, ForegroundReleased, ForegroundAfter
<1>2. /\ TypeOK /\ state \in [Pid -> State] /\ held \in SUBSET Pid
      /\ slot \in Pid /\ state[slot] # "NONE"
  BY DEF Inv, TypeOK, StackInUse
<1>3. Range(ds) \subseteq held
  BY PermutationRange
<1>4. Places(state, waiters, held)
  BY OneWaitPlaceIsPlaces DEF Inv
<1>5. state' \in [Pid -> State] /\ Places(state', waiters', held')
  BY <1>1, <1>2, <1>3, <1>4, ReleasedKeepsPlaces
<1>6. \A p \in Pid : \/ state'[p] = state[p]
                     \/ state[p] \in Waiting /\ state'[p] \in {"READY", "EXITED"}
  BY <1>1, <1>2, <1>3, ReleasedFacts
<1>7. ~idle => state'[slot] = state[slot]
  BY <1>6, CurrentIsFree DEF Waiting
<1>8. state'[slot] # "NONE"
  BY <1>2, <1>6
<1>9. PidsAreFresh'
  BY <1>1, <1>6 DEF PidsAreFresh, Inv, Waiting
<1>10. \A p \in Pid : state'[p] = "RUNNING" => state[p] = "RUNNING"
  BY <1>6
<1>11. TypedFields'
  BY <1>1 DEF TypedFields, Inv, TypeOK
<1> QED BY <1>1, <1>5, <1>7, <1>8, <1>9, <1>10, <1>11, ReturnInv

LEMMA TickInv == Inv /\ Tick => Inv'
PROOF
<1> SUFFICES ASSUME Inv, Tick PROVE Inv'
  OBVIOUS
<1>1. PICK s \in Schedule(state) :
        \E ds \in SetToAllKPermutations(
                    {p \in held : s.state[p] \in {"BLOCKED", "W-EXIT"}}) :
          /\ state' = Released(s.state, ds)
          /\ fg' \in Pid
          /\ held' = held \ Range(ds)
          /\ slot' = s.slot
          /\ idle' = s.idle
          /\ quantumsLeft' = s.quantumsLeft
  BY DEF Tick, ForegroundReleased, ForegroundAfter
<1>2. PICK ds \in SetToAllKPermutations(
                    {p \in held : s.state[p] \in {"BLOCKED", "W-EXIT"}}) :
          /\ state' = Released(s.state, ds)
          /\ fg' \in Pid
          /\ held' = held \ Range(ds)
          /\ slot' = s.slot
          /\ idle' = s.idle
          /\ quantumsLeft' = s.quantumsLeft
  BY <1>1
<1>3. UNCHANGED <<priority, parent, waiters, nextPid>>
  BY DEF Tick
<1>4. TypeOK /\ Handed(state) /\ held \in SUBSET Pid
  BY HandedNow DEF Inv, TypeOK
<1>5. /\ s.state \in [Pid -> State]
      /\ s.slot \in Pid /\ s.idle \in BOOLEAN
      /\ s.quantumsLeft \in 0..MaxPriority-1
      /\ Moves(state, s.state)
      /\ s.state[s.slot] # "NONE"
      /\ ~s.idle => s.state[s.slot] = "RUNNING"
      /\ \A p \in Pid : s.state[p] = "RUNNING" => ~s.idle /\ p = s.slot
  BY <1>4, ScheduleOutcome
<1>6. Range(ds) \subseteq held
  BY PermutationRange
<1>7. Places(s.state, waiters, held)
  BY <1>5, OneWaitPlaceIsPlaces, MovesKeepsPlaces DEF Inv
<1>8. state' \in [Pid -> State] /\ Places(state', waiters', held')
  BY <1>2, <1>3, <1>4, <1>5, <1>6, <1>7, ReleasedKeepsPlaces
<1>9. \A p \in Pid : \/ state'[p] = s.state[p]
                     \/ s.state[p] \in Waiting /\ state'[p] \in {"READY", "EXITED"}
  BY <1>2, <1>4, <1>5, <1>6, ReleasedFacts
<1>10. TypeOK'
  BY <1>2, <1>3, <1>5, <1>8 DEF Inv, TypeOK
<1>11. OneWaitPlace'
  BY <1>8 DEF OneWaitPlace, Places, WaitsFor, Awaited
<1>12. StackInUse' /\ OneRunning'
  BY <1>2, <1>5, <1>9 DEF StackInUse, OneRunning, Waiting
<1>13. PidsAreFresh'
  BY <1>3, <1>4, <1>5, <1>9 DEF PidsAreFresh, Handed, Moves, Waiting
<1> QED BY <1>10, <1>11, <1>12, <1>13 DEF Inv

-----------------------------------------------------------------------------
(* Every step keeps the invariant.                                          *)
LEMMA NextInv == Inv /\ [Next]_vars => Inv'
PROOF
<1> SUFFICES ASSUME Inv, [Next]_vars PROVE Inv'
  OBVIOUS
<1>1. CASE UNCHANGED vars
  <2>1. TypeOK'
    BY <1>1 DEF vars, Inv, TypeOK
  <2>2. OneWaitPlace'
    BY <1>1 DEF vars, Inv, OneWaitPlace, WaitsFor
  <2>3. StackInUse' /\ OneRunning' /\ PidsAreFresh'
    BY <1>1 DEF vars, Inv, StackInUse, OneRunning, PidsAreFresh
  <2> QED BY <2>1, <2>2, <2>3 DEF Inv
<1>2. CASE Undefined
  BY <1>1, <1>2 DEF Undefined
<1>3. CASE Intact /\ Step
  <2>1. CASE Create
    BY <1>3, <2>1, CreateInv
  <2>2. CASE CreateFails
    BY <2>2, CreateFailsInv
  <2>3. CASE Exit
    BY <2>3, ExitInv
  <2>4. CASE Yield
    BY <2>4, YieldInv
  <2>5. CASE Block
    BY <2>5, BlockInv
  <2>6. ASSUME NEW p \in Pid,
               \/ KillBlocked(p) \/ Kill(p) \/ WaitPid(p)
               \/ BlockByUser(p) \/ Unblock(p)
               \/ \E n \in 1..MaxPriority : ChangePriority(p, n)
        PROVE  Inv'
    BY <2>6, KillBlockedInv, KillInv, WaitPidInv, BlockByUserInv, UnblockInv,
       ChangePriorityInv
  <2>7. ASSUME NEW ds \in SetToAllKPermutations(held), Release(ds)
        PROVE  Inv'
    BY <2>7, ReleaseInv
  <2>8. CASE Tick
    BY <2>8, TickInv
  <2>9. CASE CtrlC
    BY <1>3, <2>9, CtrlCInv
  <2>10. CASE F2
    BY <2>10, F2Inv
  <2> QED BY <1>3, <2>1, <2>2, <2>3, <2>4, <2>5, <2>6, <2>7, <2>8, <2>9, <2>10
          DEF Step
<1> QED BY <1>1, <1>2, <1>3 DEF Next

LEMMA Invariance == Spec => []Inv
PROOF
<1>1. Init => Inv
  BY InitInv
<1>2. Inv /\ [Next]_vars => Inv'
  BY NextInv
<1> QED BY <1>1, <1>2, PTL DEF Spec

(* The fields of every PCB and of the scheduler keep their types, for any   *)
(* number of processes, of which ten at most wait for one (WaitersRoom).    *)
THEOREM TypeCorrect == Spec => []TypeOK
PROOF
<1>1. Inv => TypeOK
  BY DEF Inv
<1> QED BY <1>1, Invariance, PTL

(* A blocked or killed-while-blocked process is known to exactly one party  *)
(* that will free it: exit, kill, waitPid and the devices agree.            *)
THEOREM WaitPlaceCorrect == Spec => []OneWaitPlace
PROOF
<1>1. Inv => OneWaitPlace
  BY DEF Inv
<1> QED BY <1>1, Invariance, PTL

(* schedule() never frees the stack it runs on.                             *)
THEOREM StackIsSafe == Spec => []StackInUse
PROOF
<1>1. Inv => StackInUse
  BY DEF Inv
<1> QED BY <1>1, Invariance, PTL

(* current is the one process marked RUNNING.                               *)
THEOREM RunningIsCurrent == Spec => []OneRunning
PROOF
<1>1. Inv => OneRunning
  BY DEF Inv
<1> QED BY <1>1, Invariance, PTL

-----------------------------------------------------------------------------
(* What a step may do to a process.                                         *)

\* From st to st2 the killed stay killed, the PCBs of hd are not exited and a
\* process blocked in waitPid() goes on only if the one it waits for is dead.
Fates(st, st2, hd) ==
  \A p \in Pid :
    /\ st[p] = "W-EXIT" => st2[p] \in {"W-EXIT"} \cup Dead
    /\ st[p] = "EXITED" => st2[p] \in Dead
    /\ st[p] = "NONE" => st2[p] = "NONE"
    /\ p \in hd /\ st[p] \notin Dead => st2[p] \notin Dead
    /\ st[p] = "BLOCKED" /\ st2[p] \in {"READY", "RUNNING"}
         => \A q \in Awaited(st, waiters, p) : st2[q] \in Dead

LEMMA FatesThenMoves ==
  ASSUME NEW st, NEW st1, NEW st2, NEW hd,
         Fates(st, st1, hd), Moves(st1, st2)
  PROVE  Fates(st, st2, hd)
PROOF BY DEF Fates, Moves, Dead, Awaited

LEMMA MovesThenFates ==
  ASSUME NEW st, NEW st1, NEW st2, NEW hd,
         Moves(st, st1), Fates(st1, st2, hd)
  PROVE  Fates(st, st2, hd)
PROOF
<1>1. ASSUME NEW p \in Pid
      PROVE  Awaited(st1, waiters, p) = Awaited(st, waiters, p)
  BY DEF Moves, Awaited, Dead
<1> QED BY <1>1 DEF Moves, Fates, Dead

(* Exits started in processes that no device of hd holds.                   *)
LEMMA ExitFates ==
  ASSUME TypeOK, NEW st \in [Pid -> State], NEW R \in SUBSET Pid, NEW hd,
         NEW hd2, hd2 \subseteq hd, Places(st, waiters, hd),
         \A r \in R : st[r] \notin Dead /\ r \notin hd2
  PROVE  Fates(st, AfterExit(st, R), hd2)
PROOF
<1> DEFINE X == ExitSet(st, R)
           st2 == AfterExit(st, R)
<1>1. /\ X \subseteq Pid
      /\ \A q \in X : st[q] \notin Dead
      /\ \A p \in Pid : \/ st2[p] = st[p]
                        \/ p \in X /\ st2[p] = "EXITED"
                        \/ /\ st[p] = "BLOCKED" /\ st2[p] = "READY"
                           /\ \E q \in X : p \in Range(waiters[q])
      /\ \A q \in X : st2[q] = "EXITED"
      /\ \A w \in X \ R : st[w] = "W-EXIT" /\ \E q \in X : w \in Range(waiters[q])
  BY ExitSetFacts, AfterExitFacts DEF Dead
<1> HIDE DEF X, st2
<1>2. ASSUME NEW p \in X, p \in hd2 PROVE FALSE
  <2>1. PICK q \in X : q \in Awaited(st, waiters, p)
    BY <1>1, <1>2 DEF Awaited
  <2> QED BY <1>1, <1>2, <2>1 DEF Places, Waiting
<1>3. ASSUME NEW p \in Pid, st[p] = "BLOCKED", st2[p] = "READY"
      PROVE  \A q \in Awaited(st, waiters, p) : st2[q] \in Dead
  <2>1. PICK r \in X : r \in Awaited(st, waiters, p)
    BY <1>1, <1>3 DEF Awaited
  <2>2. Awaited(st, waiters, p) = {r}
    BY <1>3, <2>1 DEF Places, Waiting
  <2> QED BY <1>1, <2>2 DEF Dead
<1>4. Fates(st, st2, hd2)
  BY <1>1, <1>2, <1>3 DEF Fates, Dead
<1> QED BY <1>4 DEF st2

LEMMA ReleaseFates ==
  ASSUME TypeOK, NEW st \in [Pid -> State], NEW hd \in SUBSET Pid, NEW ds,
         Range(ds) \subseteq hd, Places(st, waiters, hd)
  PROVE  Fates(st, Released(st, ds), hd \ Range(ds))
PROOF
<1> DEFINE R == Doomed(st, ds)
<1>1. R \in SUBSET Pid /\ \A r \in R : st[r] \notin Dead /\ r \notin hd \ Range(ds)
  BY DEF Doomed, Dead
<1>2. Fates(st, AfterExit(st, R), hd \ Range(ds))
  BY <1>1, ExitFates
<1>3. \A p \in Pid : Released(st, ds)[p] =
        IF st[p] = "BLOCKED" /\ p \in Range(ds) THEN "READY" ELSE AfterExit(st, R)[p]
  BY DEF Released
<1>4. ASSUME NEW p \in Pid, st[p] = "BLOCKED", p \in Range(ds)
      PROVE  Awaited(st, waiters, p) = {}
  BY <1>4 DEF Places, Waiting
<1>5. ASSUME NEW p \in Pid, NEW q \in Awaited(st, waiters, p),
             AfterExit(st, R)[q] \in Dead
      PROVE  Released(st, ds)[q] \in Dead
  <2>1. q \in Pid /\ st[q] \notin Dead
    BY DEF Awaited
  <2>2. ~ (st[q] = "BLOCKED" /\ q \in Range(ds))
    <3>1. ASSUME st[q] = "BLOCKED" PROVE AfterExit(st, R)[q] \notin Dead
      <4>1. \A r \in R : st[r] = "W-EXIT"
        BY DEF Doomed
      <4>2. q \notin ExitSet(st, R)
        BY <1>1, <3>1, <4>1, ExitSetFacts
      <4> QED BY <1>1, <2>1, <3>1, <4>2, AfterExitFacts DEF Dead
    <3> QED BY <1>5, <3>1
  <2> QED BY <1>3, <1>5, <2>1, <2>2
<1> QED BY <1>2, <1>3, <1>4, <1>5 DEF Fates, Dead

\* A handler that ends in schedule().
LEMMA SwitchFates ==
  ASSUME TypeOK, NEW st, NEW hd, Handed(st), Switch(st), Fates(state, st, hd)
  PROVE  Fates(state, state', hd)
PROOF
<1>1. PICK s \in Schedule(st) : state' = s.state
  BY DEF Switch
<1>2. Moves(st, state')
  BY <1>1, ScheduleOutcome
<1> QED BY <1>2, FatesThenMoves

\* One process changes to a state that ends nothing.
LEMMA ExceptFates ==
  ASSUME Inv, NEW p \in Pid, NEW v \in {"READY", "BLOCKED", "BLK_USER", "W-EXIT"},
         state[p] \notin Dead, state[p] = "W-EXIT" => v = "W-EXIT",
         state[p] = "BLOCKED" => v # "READY", NEW hd
  PROVE  Fates(state, [state EXCEPT ![p] = v], hd)
PROOF
<1> DEFINE st == [state EXCEPT ![p] = v]
<1>1. st[p] = v /\ \A q \in Pid \ {p} : st[q] = state[q]
  BY DEF Inv, TypeOK
<1> HIDE DEF st
<1>2. Fates(state, st, hd)
  BY <1>1 DEF Fates, Dead
<1> QED BY <1>2 DEF st

\* The exits of R, none of them held, from the present state.
LEMMA ExitFatesNow ==
  ASSUME Inv, NEW R \in SUBSET Pid, NEW hd, hd \subseteq held,
         \A r \in R : state[r] \notin Dead /\ r \notin hd
  PROVE  Fates(state, AfterExit(state, R), hd)
PROOF BY ExitFates, OneWaitPlaceIsPlaces DEF Inv, TypeOK

(* Every step but Create, which only makes a PCB, and Ctrl-C, the one step  *)
(* that may exit a PCB some device holds.                                   *)
LEMMA StepFates ==
  ASSUME Inv, Intact, Step, ~Create, ~CtrlC
  PROVE  Fates(state, state', held \cap held')
PROOF
<1> DEFINE hd == held \cap held'
<1>0. TypeOK /\ Handed(state) /\ Fates(state, state, hd)
  BY HandedNow DEF Inv, Fates, Dead
<1>1. CASE UNCHANGED state
  BY <1>0, <1>1
<1>2. CASE Exit
  <2>1. slot \in Pid /\ state[slot] \notin Dead /\ slot \notin hd
    BY <1>2, CurrentIsFree DEF Exit, Dead
  <2>2. Switch(AfterExit(state, {slot}))
    BY <1>2 DEF Exit
  <2>3. Fates(state, AfterExit(state, {slot}), hd) /\ Handed(AfterExit(state, {slot}))
    BY <2>1, ExitFatesNow, HandedAfterExit
  <2> QED BY <1>0, <2>2, <2>3, SwitchFates
<1>3. CASE Yield
  <2>1. /\ slot \in Pid /\ state[slot] \in {"READY", "RUNNING"}
        /\ Switch([state EXCEPT ![slot] = "READY"])
    BY <1>3, CurrentIsFree DEF Yield
  <2>2. /\ Fates(state, [state EXCEPT ![slot] = "READY"], hd)
        /\ Handed([state EXCEPT ![slot] = "READY"])
    BY <2>1, ExceptFates, HandedExcept DEF State, Dead
  <2> QED BY <1>0, <2>1, <2>2, SwitchFates
<1>4. ASSUME ~idle, Switch([state EXCEPT ![slot] = "BLOCKED"])
      PROVE  Fates(state, state', hd)
  <2>1. slot \in Pid /\ state[slot] \in {"READY", "RUNNING"}
    BY <1>4, CurrentIsFree
  <2>2. /\ Fates(state, [state EXCEPT ![slot] = "BLOCKED"], hd)
        /\ Handed([state EXCEPT ![slot] = "BLOCKED"])
    BY <2>1, ExceptFates, HandedExcept DEF State, Dead
  <2> QED BY <1>0, <1>4, <2>2, SwitchFates
<1>5. CASE Block
  BY <1>4, <1>5 DEF Block
<1>6. ASSUME NEW p \in Pid, WaitPid(p)
      PROVE  Fates(state, state', hd)
  BY <1>4, <1>6 DEF WaitPid
<1>7. ASSUME NEW p \in Pid, KillBlocked(p)
      PROVE  Fates(state, state', hd)
  BY <1>7, ExceptFates DEF KillBlocked, Dead
<1>8. ASSUME NEW p \in Pid, Kill(p)
      PROVE  Fates(state, state', hd)
  <2>1. state[p] \in {"READY", "RUNNING", "BLK_USER"}
    BY <1>8 DEF Kill, Killable, Inv, TypeOK, State
  <2>2. p \notin hd /\ state[p] \notin Dead
    BY <2>1 DEF Inv, OneWaitPlace, Dead
  <2>3. Fates(state, AfterExit(state, {p}), hd) /\ Handed(AfterExit(state, {p}))
    BY <2>2, ExitFatesNow, HandedAfterExit
  <2>4. state' = AfterExit(state, {p}) \/ Switch(AfterExit(state, {p}))
    BY <1>8 DEF Kill
  <2> QED BY <1>0, <2>3, <2>4, SwitchFates
<1>9. ASSUME NEW p \in Pid, BlockByUser(p)
      PROVE  Fates(state, state', hd)
  <2>1. state[p] \in {"READY", "RUNNING"}
    BY <1>9 DEF BlockByUser
  <2>2. /\ Fates(state, [state EXCEPT ![p] = "BLK_USER"], hd)
        /\ Handed([state EXCEPT ![p] = "BLK_USER"])
    BY <2>1, ExceptFates, HandedExcept DEF State, Dead
  <2>3. \/ state' = [state EXCEPT ![p] = "BLK_USER"]
        \/ Switch([state EXCEPT ![p] = "BLK_USER"])
    BY <1>9 DEF BlockByUser
  <2> QED BY <1>0, <2>2, <2>3, SwitchFates
<1>10. ASSUME NEW p \in Pid, Unblock(p)
       PROVE  Fates(state, state', hd)
  BY <1>10, ExceptFates DEF Unblock, Dead
<1>11. ASSUME NEW ds \in SetToAllKPermutations(held), Release(ds)
       PROVE  Fates(state, state', hd)
  <2>1. Range(ds) \subseteq held /\ hd = held \ Range(ds)
    BY <1>11, PermutationRange DEF Release
  <2>2. Fates(state, Released(state, ds), held \ Range(ds))
    BY <2>1, ReleaseFates, OneWaitPlaceIsPlaces DEF Inv, TypeOK
  <2> QED BY <1>11, <2>1, <2>2 DEF Release
<1>12. CASE F2
  BY <1>0, <1>12, SwitchFates DEF F2
<1>13. CASE Tick
  <2>1. PICK s \in Schedule(state) :
          \E ds \in SetToAllKPermutations(
                      {p \in held : s.state[p] \in {"BLOCKED", "W-EXIT"}}) :
            state' = Released(s.state, ds) /\ held' = held \ Range(ds)
    BY <1>13 DEF Tick
  <2>2. PICK ds \in SetToAllKPermutations(
                      {p \in held : s.state[p] \in {"BLOCKED", "W-EXIT"}}) :
            state' = Released(s.state, ds) /\ held' = held \ Range(ds)
    BY <2>1
  <2>3. s.state \in [Pid -> State] /\ Moves(state, s.state)
    BY <1>0, ScheduleOutcome
  <2>4. Range(ds) \subseteq held /\ hd = held \ Range(ds)
    BY <2>2, PermutationRange
  <2>5. Places(s.state, waiters, held)
    BY <2>3, MovesKeepsPlaces, OneWaitPlaceIsPlaces DEF Inv
  <2>6. Fates(s.state, state', hd)
    <3>1. held \in SUBSET Pid
      BY <1>0 DEF TypeOK
    <3> QED BY <1>0, <2>2, <2>3, <2>4, <2>5, <3>1, ReleaseFates
  <2> QED BY <2>3, <2>6, MovesThenFates
<1>14. \/ UNCHANGED state \/ Exit \/ Yield \/ Block \/ F2 \/ Tick
       \/ \E p \in Pid : \/ KillBlocked(p) \/ Kill(p) \/ WaitPid(p)
                         \/ BlockByUser(p) \/ Unblock(p)
       \/ \E ds \in SetToAllKPermutations(held) : Release(ds)
  BY DEF Step, CreateFails, ChangePriority
<1> QED BY <1>1, <1>2, <1>3, <1>5, <1>6, <1>7, <1>8, <1>9, <1>10, <1>11,
           <1>12, <1>13, <1>14

LEMMA CreateFates ==
  ASSUME Inv, Create
  PROVE  /\ state[nextPid] = "NONE" /\ nextPid \in Pid
         /\ \A p \in Pid \ {nextPid} : state'[p] = state[p]
PROOF BY PidAssumption DEF Create, CreatePCBNode, Inv, TypeOK, PidsAreFresh, Pid

LEMMA CtrlCFates ==
  ASSUME Inv, Intact, CtrlC
  PROVE  Fates(state, state', {})
PROOF
<1>0. TypeOK /\ Handed(state) /\ Fates(state, state, {})
  BY HandedNow DEF Inv, Fates, Dead
<1>1. fg \in Pid /\ state[fg] # "NONE"
  BY DEF Inv, TypeOK, Intact
<1>2. CASE state[fg] = "EXITED"
  BY <1>0, <1>2, SwitchFates DEF CtrlC
<1>3. CASE state[fg] = "BLOCKED"
  <2>1. /\ Fates(state, [state EXCEPT ![fg] = "W-EXIT"], {})
        /\ Handed([state EXCEPT ![fg] = "W-EXIT"])
    BY <1>1, <1>3, ExceptFates, HandedExcept DEF State, Dead
  <2> QED BY <1>0, <1>3, <2>1, SwitchFates DEF CtrlC
<1>4. CASE state[fg] \notin {"EXITED", "BLOCKED"}
  <2>1. Switch(AfterExit(state, {fg}))
    BY <1>4 DEF CtrlC
  <2>2. {fg} \in SUBSET Pid /\ \A r \in {fg} : state[r] \notin Dead /\ r \notin {}
    BY <1>1, <1>4 DEF Dead
  <2>3. Fates(state, AfterExit(state, {fg}), {}) /\ Handed(AfterExit(state, {fg}))
    BY <2>2, ExitFatesNow, HandedAfterExit
  <2> QED BY <1>0, <2>1, <2>3, SwitchFates
<1> QED BY <1>2, <1>3, <1>4

\* The three ways a step can go.
LEMMA StepKinds ==
  ASSUME Inv, [Next]_vars
  PROVE  \/ UNCHANGED vars
         \/ Create
         \/ CtrlC /\ Fates(state, state', {})
         \/ Fates(state, state', held \cap held')
PROOF BY StepFates, CtrlCFates DEF Next, Undefined

\* A process some device goes on holding is not exited, but by Ctrl-C.
LEMMA HeldStaysAlive ==
  ASSUME Inv, [Next]_vars, ~CtrlC
  PROVE  \A p \in held \cap held' : state[p] \notin Dead => state'[p] \notin Dead
PROOF
<1>1. held \subseteq Pid
  BY DEF Inv, TypeOK
<1>2. CASE UNCHANGED vars
  BY <1>2 DEF vars
<1>3. CASE Create
  BY <1>1, <1>3, CreateFates DEF Dead
<1>4. CASE Fates(state, state', held \cap held')
  BY <1>1, <1>4 DEF Fates
<1> QED BY <1>2, <1>3, <1>4, StepKinds

\* Of the processes a device lets go of, only the BLOCKED ones are readied.
LEMMA ReleasedReadies ==
  ASSUME Inv, NEW ds, Range(ds) \subseteq held
  PROVE  \A p \in Pid :
           /\ state[p] = "BLOCKED" /\ p \in Range(ds) => Released(state, ds)[p] = "READY"
           /\ state[p] \in {"W-EXIT"} \cup Dead
                => Released(state, ds)[p] \in {"W-EXIT"} \cup Dead
PROOF
<1>1. Places(state, waiters, held) /\ TypeOK /\ state \in [Pid -> State]
      /\ held \in SUBSET Pid
  BY OneWaitPlaceIsPlaces DEF Inv, TypeOK
<1>2. Fates(state, Released(state, ds), held \ Range(ds))
  BY <1>1, ReleaseFates
<1>3. \A p \in Pid : state[p] = "BLOCKED" /\ p \in Range(ds)
        => Released(state, ds)[p] = "READY"
  BY DEF Released
<1> QED BY <1>2, <1>3 DEF Fates, Dead

\* blockCurrentProcess() leaves the process BLOCKED, whoever runs next.
LEMMA CurrentBlocks ==
  ASSUME Inv, ~idle, Switch([state EXCEPT ![slot] = "BLOCKED"])
  PROVE  state'[slot] = "BLOCKED"
PROOF
<1> DEFINE st == [state EXCEPT ![slot] = "BLOCKED"]
<1>1. slot \in Pid /\ state[slot] # "NONE" /\ TypeOK
  BY CurrentIsFree DEF Inv
<1>2. Handed(st) /\ st[slot] = "BLOCKED"
  BY <1>1, HandedExcept DEF State, TypeOK
<1> HIDE DEF st
<1>3. PICK s \in Schedule(st) : state' = s.state
  BY DEF Switch, st
<1>4. Moves(st, state')
  BY <1>1, <1>2, <1>3, ScheduleOutcome
<1> QED BY <1>1, <1>2, <1>4 DEF Moves

(* A killed process never runs again, an EXITED one only disappears and a   *)
(* pid is never given a second PCB.                                         *)
THEOREM KilledStaysKilled == Spec => DoomedNeverRuns
PROOF
<1> DEFINE A == \A p \in Pid :
                  /\ state[p] = "W-EXIT" => state'[p] \in {"W-EXIT"} \cup Dead
                  /\ state[p] = "EXITED" => state'[p] \in Dead
                  /\ state[p] = "NONE" /\ p < nextPid => state'[p] = "NONE"
<1>1. ASSUME Inv, [Next]_vars PROVE [A]_vars
  <2>1. CASE UNCHANGED vars
    BY <2>1
  <2>2. CASE Create
    <3>1. \A p \in Pid : p < nextPid => p # nextPid
      BY <1>1 DEF Inv, TypeOK, Pid
    <3> QED BY <1>1, <2>2, <3>1, CreateFates DEF Dead
  <2>3. ASSUME NEW hd, Fates(state, state', hd) PROVE A
    BY <2>3 DEF Fates
  <2> QED BY <1>1, <2>1, <2>2, <2>3, StepKinds
<1>2. Spec => [][A]_vars
  BY <1>1, Invariance, PTL DEF Spec
<1> QED BY <1>2 DEF DoomedNeverRuns

(* Only Ctrl-C exits a PCB that a semaphore queue or the sleep list still   *)
(* points to: kill(), exit, the timer and the semaphores never do.          *)
THEOREM HeldIsExitedByCtrlCOnly == Spec => OnlyCtrlCExitsHeld
PROOF
<1> DEFINE A == \A p \in held \cap held' :
                  state[p] \notin Dead /\ state'[p] \in Dead => CtrlC
<1>1. ASSUME Inv, [Next]_vars PROVE [A]_vars
  BY <1>1, HeldStaysAlive
<1>2. Spec => [][A]_vars
  BY <1>1, Invariance, PTL DEF Spec
<1> QED BY <1>2 DEF OnlyCtrlCExitsHeld

(* A process blocked in waitPid() goes on only if the awaited one is dead.  *)
THEOREM WaitPidIsFaithful == Spec => WakesWhenAwaitedExits
PROOF
<1> DEFINE A == \A p \in Pid :
                  state[p] = "BLOCKED" /\ state'[p] \in {"READY", "RUNNING"}
                    => \A q \in WaitsFor(p) : state'[q] \in Dead
<1>1. ASSUME Inv, [Next]_vars PROVE [A]_vars
  <2>1. CASE UNCHANGED vars
    BY <2>1
  <2>2. CASE Create
    BY <1>1, <2>2, CreateFates
  <2>3. ASSUME NEW hd, Fates(state, state', hd) PROVE A
    BY <2>3 DEF Fates, WaitsFor, Awaited
  <2> QED BY <1>1, <2>1, <2>2, <2>3, StepKinds
<1>2. Spec => [][A]_vars
  BY <1>1, Invariance, PTL DEF Spec
<1> QED BY <1>2 DEF WakesWhenAwaitedExits
=============================================================================
