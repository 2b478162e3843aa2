--------------------------- MODULE StructuresProof ---------------------------
(***************************************************************************)
(* The structures that the kernel keeps its data in, proved for every      *)
(* value of the constants:                                                 *)
(*  - the list of the scheduler, of any length (the theorems about the     *)
(*    specification of PCBList);                                           *)
(*  - the heap of buddyMM.c, of any size, and with the one of freeListMM.c *)
(*    (HeapProof) the heap of either build.                                *)
(* The second is about a part of MCLibrary, instantiated here as Lib; the  *)
(* proof has an instance of BuddyMM of its own, shown to be the same.      *)
(***************************************************************************)
EXTENDS PCBList, SubsequenceProof

(* The circle as a fact about a set of nodes and a next function.           *)
Fol(N, p, q) ==
  \/ p < q /\ \A r \in N : r <= p \/ q <= r
  \/ q <= p /\ \A r \in N : q <= r /\ r <= p

Ring(N, nx, h, t) ==
  /\ \A p \in N : nx[p] \in N /\ Fol(N, p, nx[p])
  /\ h \in N /\ t \in N
  /\ \A p \in N : h <= p /\ p <= t

(* Pids not handed out have no node.                                        *)
Fresh == \A p \in Pid : p >= nextPid => state[p] = "NONE"

(* The loop never stands on the idle node.                                  *)
InLoop == ~Outside => current # Idle

ListInv ==
  /\ TypeOK /\ Ring(Node, next, head, tail) /\ PrevInStep /\ StackStays
  /\ Fresh /\ InLoop
  /\ len = Cardinality(Node)

-----------------------------------------------------------------------------
(* Lemmas about the circle.                                                 *)

LEMMA RingIsCircle ==
  Ring(Node, next, head, tail) /\ len = Cardinality(Node) <=> Circle
PROOF
BY DEF Ring, Fol, Circle, Follows

(* Only one node comes before a given one.                                  *)
LEMMA FolInjective ==
  ASSUME NEW N \in SUBSET Int, NEW p \in N, NEW q \in N, NEW c \in N,
         Fol(N, p, c), Fol(N, q, c)
  PROVE  p = q
PROOF
<1>1. p \in Int /\ q \in Int /\ c \in Int
  OBVIOUS
<1> QED BY <1>1 DEF Fol

(* A node that follows itself is the only one.                              *)
LEMMA FolItself ==
  ASSUME NEW N \in SUBSET Int, NEW p \in N, Fol(N, p, p)
  PROVE  \A q \in N : q = p
PROOF
<1>1. SUFFICES ASSUME NEW q \in N PROVE q = p
  OBVIOUS
<1>2. p \in Int /\ q \in Int
  OBVIOUS
<1> QED BY <1>2 DEF Fol

(* The tail is followed by the head.                                        *)
LEMMA TailThenHead ==
  ASSUME NEW N \in SUBSET Int, NEW nx, NEW h, NEW t, Ring(N, nx, h, t)
  PROVE  nx[t] = h
PROOF
<1>1. /\ t \in N /\ h \in N /\ nx[t] \in N /\ Fol(N, t, nx[t])
      /\ h <= nx[t] /\ nx[t] <= t
  BY DEF Ring
<1>2. t \in Int /\ h \in Int /\ nx[t] \in Int
  BY <1>1
<1>3. nx[t] <= h
  BY <1>1, <1>2 DEF Fol
<1> QED BY <1>1, <1>2, <1>3

(* A node behind the tail, larger than all.                                 *)
LEMMA RingAdd ==
  ASSUME NEW N \in SUBSET Int, NEW nx, NEW h, NEW t, Ring(N, nx, h, t),
         NEW n \in Int, \A p \in N : p < n,
         NEW nx2, nx2[n] = h, nx2[t] = n, \A p \in N \ {t} : nx2[p] = nx[p]
  PROVE  Ring(N \cup {n}, nx2, h, n)
PROOF
<1>1. h \in N /\ t \in N /\ \A p \in N : h <= p /\ p <= t
  BY DEF Ring
<1>2. ASSUME NEW p \in N \cup {n}
      PROVE  nx2[p] \in N \cup {n} /\ Fol(N \cup {n}, p, nx2[p])
  <2>1. CASE p = n
    <3>1. h \in N /\ h \in Int /\ h <= n
      BY <1>1
    <3>2. \A r \in N \cup {n} : h <= r /\ r <= n
      BY <1>1
    <3> QED BY <2>1, <3>1, <3>2 DEF Fol
  <2>2. CASE p = t
    <3>1. t < n /\ t \in Int
      BY <1>1
    <3>2. \A r \in N \cup {n} : r <= t \/ n <= r
      BY <1>1
    <3> QED BY <2>2, <3>1, <3>2 DEF Fol
  <2>3. CASE p \in N /\ p # t
    <3>1. nx2[p] = nx[p] /\ nx[p] \in N /\ Fol(N, p, nx[p])
      BY <2>3 DEF Ring
    <3>2. p \in Int /\ nx[p] \in Int /\ t \in Int /\ p < n /\ nx[p] < n
      BY <1>1, <2>3, <3>1
    <3>3. p < nx[p] /\ \A r \in N : r <= p \/ nx[p] <= r
      BY <1>1, <2>3, <3>1, <3>2 DEF Fol
    <3>4. \A r \in N \cup {n} : r <= p \/ nx[p] <= r
      BY <3>2, <3>3
    <3> QED BY <3>1, <3>3, <3>4 DEF Fol
  <2> QED BY <2>1, <2>2, <2>3
<1>3. \A p \in N \cup {n} : h <= p /\ p <= n
  BY <1>1
<1> QED BY <1>1, <1>2, <1>3 DEF Ring

(* A node taken out from between two others.                                *)
LEMMA RingRemove ==
  ASSUME NEW N \in SUBSET Int, NEW nx, NEW h, NEW t, Ring(N, nx, h, t),
         NEW c \in N, NEW v \in N, nx[v] = c, NEW o \in N, o # c,
         NEW nx2, nx2[v] = nx[c], \A p \in N \ {c, v} : nx2[p] = nx[p]
  PROVE  /\ Ring(N \ {c}, nx2, IF h = c THEN nx[c] ELSE h,
                               IF t = c THEN v ELSE t)
         /\ v # c /\ nx[c] # c /\ nx[c] \in N
PROOF
<1> DEFINE d == nx[c]
<1>1. /\ h \in N /\ t \in N /\ d \in N
      /\ \A p \in N : h <= p /\ p <= t
      /\ Fol(N, v, c) /\ Fol(N, c, d)
  BY DEF Ring
<1>2. v # c /\ d # c
  BY <1>1, FolItself
<1>3. v \in Int /\ c \in Int /\ d \in Int /\ h \in Int /\ t \in Int
  BY <1>1
<1> HIDE DEF d
<1>4. Fol(N \ {c}, v, d)
  <2>1. CASE v < c /\ c < d
    <3>1. \A r \in N \ {c} : r <= v \/ d <= r
      BY <1>1, <1>3, <2>1 DEF Fol
    <3> QED BY <1>3, <2>1, <3>1 DEF Fol
  <2>2. CASE v < c /\ d <= c
    <3>1. \A r \in N \ {c} : d <= r /\ r <= v
      BY <1>1, <1>3, <2>2 DEF Fol
    <3>2. d <= v
      BY <1>2, <3>1
    <3> QED BY <3>1, <3>2 DEF Fol
  <2>3. CASE c <= v
    <3>1. \A r \in N : c <= r /\ r <= v
      BY <1>1, <1>3, <2>3 DEF Fol
    <3>2. c < d
      BY <1>1, <1>2, <1>3, <3>1
    <3>3. \A r \in N \ {c} : d <= r /\ r <= v
      BY <1>1, <1>3, <3>1, <3>2 DEF Fol
    <3>4. d <= v
      BY <1>2, <3>3
    <3> QED BY <3>3, <3>4 DEF Fol
  <2> QED BY <1>3, <2>1, <2>2, <2>3
<1>5. ASSUME NEW p \in N \ {c}
      PROVE  nx2[p] \in N \ {c} /\ Fol(N \ {c}, p, nx2[p])
  <2>1. CASE p = v
    BY <1>1, <1>2, <1>4, <2>1 DEF d
  <2>2. CASE p # v
    <3>1. nx2[p] = nx[p] /\ nx[p] \in N /\ Fol(N, p, nx[p])
      BY <2>2 DEF Ring
    <3>2. nx[p] # c
      BY <1>1, <2>2, <3>1, FolInjective
    <3> QED BY <3>1, <3>2 DEF Fol
  <2> QED BY <2>1, <2>2
<1>6. h = c => \A p \in N \ {c} : d <= p
  BY <1>1, <1>2, <1>3 DEF Fol
<1>7. t = c => \A p \in N \ {c} : p <= v
  BY <1>1, <1>2, <1>3 DEF Fol
<1>8. Ring(N \ {c}, nx2, IF h = c THEN d ELSE h, IF t = c THEN v ELSE t)
  <2>1. /\ (IF h = c THEN d ELSE h) \in N \ {c}
        /\ (IF t = c THEN v ELSE t) \in N \ {c}
    BY <1>1, <1>2
  <2>2. \A p \in N \ {c} : /\ (IF h = c THEN d ELSE h) <= p
                           /\ p <= (IF t = c THEN v ELSE t)
    BY <1>1, <1>6, <1>7
  <2> QED BY <1>5, <2>1, <2>2 DEF Ring
<1> QED BY <1>1, <1>2, <1>8 DEF d

(* A set of pids has at most MaxPid + 1 elements.                           *)
LEMMA NodeSize ==
  ASSUME NEW N \in SUBSET (0..MaxPid)
  PROVE  /\ IsFiniteSet(N)
         /\ N # {} => Cardinality(N) \in 1..MaxPid+1
PROOF
<1>1. IsFiniteSet(0..MaxPid) /\ Cardinality(0..MaxPid) = MaxPid + 1
  <2>1. 0 \in Int /\ MaxPid \in Int /\ 0 <= MaxPid
    BY ListAssumption
  <2> QED BY <2>1, FS_Interval
<1>2. IsFiniteSet(N) /\ Cardinality(N) <= MaxPid + 1
  BY <1>1, FS_Subset
<1>3. N # {} => Cardinality(N) \in Nat /\ Cardinality(N) # 0
  BY <1>2, FS_CardinalityType, FS_EmptySet
<1> QED BY <1>2, <1>3, ListAssumption

LEMMA NodeFinite == IsFiniteSet(Node)
PROOF
BY NodeSize DEF Node, Pid

-----------------------------------------------------------------------------
(* Preservation, action by action.                                          *)

LEMMA InitInv == Init => ListInv
PROOF
<1> SUFFICES ASSUME Init PROVE ListInv
  OBVIOUS
<1>0. MaxPid \in Nat \ {0} /\ MaxPriority \in 1..9
  BY ListAssumption
<1>1. Node = {0, 1} /\ 0 \in Pid /\ 1 \in Pid
  BY <1>0 DEF Init, Node, Pid
<1>2. TypeOK
  <2>1. NoEntry \in [state : [Pid -> State], slot : Pid, idle : BOOLEAN]
    BY <1>1 DEF NoEntry, State
  <2>2. next \in [Pid -> Pid \cup {Nil}] /\ state \in [Pid -> State]
    BY <1>1 DEF Init, State, Nil
  <2> QED BY <1>0, <1>1, <2>1, <2>2 DEF Init, TypeOK, Nil
<1>3. Ring(Node, next, head, tail)
  BY <1>1 DEF Init, Ring, Fol, Pid
<1>4. PrevInStep /\ StackStays /\ InLoop
  BY <1>1 DEF Init, PrevInStep, StackStays, InLoop, Outside, Nil, Idle
<1>5. Fresh
  BY <1>0 DEF Init, Fresh, Pid
<1>6. Cardinality({0, 1}) = 2
  <2>1. IsFiniteSet({1}) /\ Cardinality({1}) = 1
    BY FS_Singleton
  <2>2. Cardinality({1} \cup {0}) = Cardinality({1}) + 1
    BY <2>1, FS_AddElement
  <2>3. {1} \cup {0} = {0, 1}
    OBVIOUS
  <2> QED BY <2>1, <2>2, <2>3
<1> QED BY <1>1, <1>2, <1>3, <1>4, <1>5, <1>6 DEF ListInv, Init

(* A new node at the tail.                                                  *)
LEMMA AddInv == ListInv /\ AddPCB => ListInv'
PROOF
<1> SUFFICES ASSUME ListInv, AddPCB PROVE ListInv'
  OBVIOUS
<1> DEFINE n == nextPid
<1>0. MaxPid \in Nat \ {0}
  BY ListAssumption
<1>1. /\ n \in Pid /\ n \in Int /\ n \notin Node /\ Node \in SUBSET Int
      /\ \A p \in Node : p < n
  BY <1>0 DEF ListInv, TypeOK, Fresh, AddPCB, Node, Pid
<1>2. Node' = Node \cup {n}
  <2>1. state' = [state EXCEPT ![n] = "READY"]
    BY DEF AddPCB
  <2> QED BY <1>1, <2>1 DEF Node, ListInv, TypeOK
<1>3. /\ head \in Node /\ tail \in Node /\ prev \in Node
      /\ next[prev] = current /\ current \in Node
  BY DEF ListInv, Ring, PrevInStep, AddPCB
<1>4. /\ next' = [next EXCEPT ![n] = head, ![tail] = n]
      /\ head' = head /\ tail' = n /\ current' = current
      /\ prev' = IF prev = tail THEN n ELSE prev
      /\ ogCurrent' = ogCurrent /\ ogCurrent = Nil
  BY DEF AddPCB, PrevAfterAdd, Outside
<1>5. /\ next'[n] = head /\ next'[tail] = n
      /\ \A p \in Node \ {tail} : next'[p] = next[p]
      /\ next' \in [Pid -> Pid \cup {Nil}]
  <2>1. n # tail /\ tail \in Pid /\ head \in Pid
    BY <1>1, <1>3 DEF Node
  <2> QED BY <1>1, <1>4, <2>1 DEF ListInv, TypeOK, Node
<1>6. Ring(Node', next', head', tail')
  <2>1. Ring(Node \cup {n}, next', head, n)
    BY <1>1, <1>5, RingAdd DEF ListInv
  <2> QED BY <1>2, <1>4, <2>1
<1>7. PrevInStep' /\ StackStays'
  <2>1. prev' \in Node' /\ next'[prev'] = current /\ current \in Node'
    <3>1. CASE prev = tail
      <4>1. next[tail] = head
        BY <1>1, TailThenHead DEF ListInv
      <4> QED BY <1>2, <1>3, <1>4, <1>5, <3>1, <4>1
    <3>2. CASE prev # tail
      BY <1>2, <1>3, <1>4, <1>5, <3>2
    <3> QED BY <3>1, <3>2
  <2> QED BY <2>1, <1>4 DEF PrevInStep, StackStays, Outside
<1>8. len' = Cardinality(Node')
  <2>1. Cardinality(Node') = Cardinality(Node) + 1
    BY <1>1, <1>2, NodeFinite, FS_AddElement
  <2> QED BY <2>1 DEF AddPCB, ListInv
<1>9. len' \in 1..MaxPid+1
  <2>1. Node' # {} => Cardinality(Node') \in 1..MaxPid+1
    BY NodeSize, <1>1, <1>2 DEF ListInv, Node, Pid
  <2> QED BY <1>8, <1>2, <2>1
<1>10. TypeOK'
  <2>1. state' \in [Pid -> State]
    BY <1>1 DEF AddPCB, ListInv, TypeOK, State
  <2>2. tail' \in Pid /\ prev' \in Pid /\ nextPid' \in 2..MaxPid+1
    BY <1>0, <1>1, <1>4 DEF AddPCB, ListInv, TypeOK
  <2> QED BY <1>4, <1>5, <1>9, <2>1, <2>2 DEF TypeOK, ListInv, AddPCB
<1>11. Fresh' /\ InLoop'
  <2>1. nextPid' = n + 1 /\ state' = [state EXCEPT ![n] = "READY"]
    BY DEF AddPCB
  <2>2. Fresh'
    BY <1>1, <2>1 DEF Fresh, ListInv, TypeOK, Pid
  <2> QED BY <1>4, <2>2 DEF InLoop, Outside, ListInv
<1> QED BY <1>6, <1>7, <1>8, <1>10, <1>11 DEF ListInv

(* What the other actions outside the loop have in common.                  *)
LEMMA SameNodes ==
  ASSUME ListInv, Node' = Node, UNCHANGED list, Outside, UNCHANGED ogCurrent,
         nextPid' >= nextPid, nextPid' \in 2..MaxPid+1,
         TypeOK'
  PROVE  ListInv'
PROOF
<1>1. /\ next' = next /\ head' = head /\ tail' = tail /\ current' = current
      /\ prev' = prev /\ len' = len
  BY DEF list
<1>2. Ring(Node', next', head', tail')
  BY <1>1 DEF ListInv
<1>3. PrevInStep' /\ StackStays' /\ InLoop' /\ len' = Cardinality(Node')
  BY <1>1 DEF ListInv, PrevInStep, StackStays, InLoop, Outside
<1>4. Fresh'
  <2>1. \A p \in Pid : p \in Node' <=> p \in Node
    OBVIOUS
  <2>2. \A p \in Pid : state'[p] = "NONE" <=> state[p] = "NONE"
    BY <2>1 DEF Node
  <2> QED BY <2>2 DEF Fresh, ListInv, TypeOK, Pid
<1> QED BY <1>2, <1>3, <1>4 DEF ListInv

LEMMA AddFailsInv == ListInv /\ AddFails => ListInv'
PROOF
<1> SUFFICES ASSUME ListInv, AddFails PROVE ListInv'
  OBVIOUS
<1>1. TypeOK' /\ nextPid' >= nextPid /\ nextPid' \in 2..MaxPid+1
  BY ListAssumption DEF AddFails, ListInv, TypeOK, list
<1>2. Node' = Node
  BY DEF AddFails, Node
<1> QED BY <1>1, <1>2, SameNodes DEF AddFails

LEMMA ChangeInv ==
  \A p \in Pid, s \in State : ListInv /\ Change(p, s) => ListInv'
PROOF
<1> SUFFICES ASSUME NEW p \in Pid, NEW s \in State, ListInv, Change(p, s)
             PROVE  ListInv'
  OBVIOUS
<1>1. state' = [state EXCEPT ![p] = s] /\ state[p] # "NONE" /\ s # "NONE"
  BY DEF Change
<1>2. TypeOK' /\ nextPid' >= nextPid /\ nextPid' \in 2..MaxPid+1
  BY <1>1 DEF Change, ListInv, TypeOK, list
<1>3. Node' = Node
  BY <1>1 DEF Node, ListInv, TypeOK
<1> QED BY <1>2, <1>3, SameNodes DEF Change

LEMMA ChangePriorityInv ==
  \A p \in Pid, n \in 1..MaxPriority :
    ListInv /\ ChangePriority(p, n) => ListInv'
PROOF
<1> SUFFICES ASSUME NEW p \in Pid, NEW n \in 1..MaxPriority, ListInv,
                    ChangePriority(p, n)
             PROVE  ListInv'
  OBVIOUS
<1>1. TypeOK' /\ nextPid' >= nextPid /\ nextPid' \in 2..MaxPid+1
  BY DEF ChangePriority, ListInv, TypeOK, list
<1>2. Node' = Node
  BY DEF ChangePriority, Node
<1> QED BY <1>1, <1>2, SameNodes DEF ChangePriority

LEMMA ContinueInv == ListInv /\ Continue => ListInv'
PROOF
<1> SUFFICES ASSUME ListInv, Continue PROVE ListInv'
  OBVIOUS
<1>1. quantumsLeft' \in 0..MaxPriority-1
  BY ListAssumption DEF Continue, ListInv, TypeOK
<1>2. TypeOK' /\ nextPid' >= nextPid /\ nextPid' \in 2..MaxPid+1
  BY <1>1 DEF Continue, ListInv, TypeOK, list
<1>3. Node' = Node
  BY DEF Continue, Node
<1> QED BY <1>2, <1>3, SameNodes DEF Continue

(* Where schedule() starts: at og, the current node or the one at           *)
(* prev->next, with its successor the first one looked at.                  *)
LEMMA EnterStarts ==
  ASSUME ListInv, NEW s \in State, Enter(s)
  PROVE  /\ ogCurrent' \in Node
         /\ ogCurrent' = next[prev]
         /\ current # Idle => ogCurrent' = current
         /\ prev' = ogCurrent'
         /\ current' = next[ogCurrent']
         /\ current' \in Node
PROOF
<1>1. /\ prev \in Node /\ next[prev] \in Node
      /\ current # Idle => current \in Node /\ next[prev] = current
      /\ \A p \in Node : next[p] \in Node
  BY DEF ListInv, PrevInStep, StackStays, Ring
<1>2. \A p \in Node : p # Idle
  BY ListAssumption DEF Node, Pid, Idle
<1>3. CASE current = Idle
  <2>1. NextPCB(current, prev) = [current |-> next[prev], prev |-> prev]
    BY <1>3 DEF NextPCB
  <2>2. NextPCB(next[prev], prev) = [current |-> next[next[prev]],
                                     prev |-> next[prev]]
    BY <1>1, <1>2 DEF NextPCB
  <2> QED BY <1>1, <1>3, <2>1, <2>2 DEF Enter
<1>4. CASE current # Idle
  <2>1. NextPCB(current, prev) = [current |-> next[current], prev |-> current]
    BY <1>4 DEF NextPCB
  <2> QED BY <1>1, <1>4, <2>1 DEF Enter
<1> QED BY <1>3, <1>4

LEMMA EnterInv ==
  \A s \in State \ {"NONE"} : ListInv /\ Enter(s) => ListInv'
PROOF
<1> SUFFICES ASSUME NEW s \in State \ {"NONE"}, ListInv, Enter(s)
             PROVE  ListInv'
  OBVIOUS
<1>1. /\ ogCurrent' \in Node /\ ogCurrent' = next[prev]
      /\ prev' = ogCurrent' /\ current' = next[ogCurrent'] /\ current' \in Node
  BY EnterStarts
<1>2. /\ next' = next /\ head' = head /\ tail' = tail /\ len' = len
      /\ priority' = priority /\ quantumsLeft' = quantumsLeft
      /\ nextPid' = nextPid
  BY DEF Enter
<1>3. \A r \in State \ {"NONE"} :
        /\ StateAt(r) \in [Pid -> State]
        /\ \A p \in Pid : StateAt(r)[p] = "NONE" <=> state[p] = "NONE"
  <2>1. current # Idle => current \in Pid /\ state[current] # "NONE"
    BY DEF ListInv, PrevInStep, Node
  <2> QED BY <2>1 DEF StateAt, ListInv, TypeOK, State
<1>4. /\ state' \in [Pid -> State]
      /\ \A p \in Pid : state'[p] = "NONE" <=> state[p] = "NONE"
  <2>1. state' = StateAt(IF s = "RUNNING" THEN "READY" ELSE s)
    BY DEF Enter
  <2>2. (IF s = "RUNNING" THEN "READY" ELSE s) \in State \ {"NONE"}
    BY DEF State
  <2> QED BY <1>3, <2>1, <2>2
<1>5. Node' = Node
  BY <1>4 DEF Node
<1>6. TypeOK'
  <2>1. entry' \in [state : [Pid -> State], slot : Pid, idle : BOOLEAN]
    <3>1. entry' = [state |-> StateAt(s), idle |-> current = Idle,
                    slot |-> IF current = Idle THEN next[prev] ELSE current]
      BY DEF Enter
    <3>2. (IF current = Idle THEN next[prev] ELSE current) \in Pid
      BY DEF ListInv, PrevInStep, StackStays, Node
    <3>3. StateAt(s) \in [Pid -> State] /\ (current = Idle) \in BOOLEAN
      BY <1>3
    <3> QED BY <3>1, <3>2, <3>3
  <2>2. ogCurrent' \in Pid /\ current' \in Pid /\ prev' \in Pid
    BY <1>1 DEF Node
  <2> QED BY <1>2, <1>4, <2>1, <2>2 DEF ListInv, TypeOK
<1>7. Ring(Node', next', head', tail') /\ len' = Cardinality(Node')
  BY <1>2, <1>5 DEF ListInv
<1>8. PrevInStep' /\ StackStays' /\ InLoop'
  <2>1. \A p \in Node : p # Idle
    BY ListAssumption DEF Node, Pid, Idle
  <2> QED BY <1>1, <1>2, <1>5, <2>1 DEF PrevInStep, StackStays, InLoop, Outside
<1>9. Fresh'
  BY <1>2, <1>4 DEF Fresh, ListInv
<1> QED BY <1>6, <1>7, <1>8, <1>9 DEF ListInv

(* An iteration stands on a node, with ogCurrent another node or the same.  *)
LEMMA InLoopNodes ==
  ASSUME ListInv, ~Outside
  PROVE  /\ current \in Node /\ prev \in Node /\ ogCurrent \in Node
         /\ next[prev] = current /\ current # Idle /\ next[current] \in Node
PROOF
BY DEF ListInv, InLoop, PrevInStep, StackStays, Ring

LEMMA ElectInv == ListInv /\ Elect => ListInv'
PROOF
<1> SUFFICES ASSUME ListInv, Elect PROVE ListInv'
  OBVIOUS
<1>1. current \in Node /\ prev \in Node /\ next[prev] = current
  BY InLoopNodes DEF Elect
<1>2. /\ next' = next /\ head' = head /\ tail' = tail /\ len' = len
      /\ current' = current /\ prev' = prev /\ ogCurrent' = Nil
      /\ priority' = priority /\ nextPid' = nextPid
  BY DEF Elect, list
<1>3. /\ state' \in [Pid -> State]
      /\ \A p \in Pid : state'[p] = "NONE" <=> state[p] = "NONE"
  <2>1. state' = [state EXCEPT ![current] = "RUNNING"]
    BY DEF Elect
  <2> QED BY <1>1, <2>1 DEF Node, ListInv, TypeOK, State
<1>4. Node' = Node
  BY <1>3 DEF Node
<1>5. TypeOK'
  <2>1. entry' \in [state : [Pid -> State], slot : Pid, idle : BOOLEAN]
    <3>1. 0 \in Pid
      BY ListAssumption DEF Pid
    <3> QED BY <3>1 DEF Elect, NoEntry, State
  <2>2. quantumsLeft' \in 0..MaxPriority-1
    <3>1. quantumsLeft' = priority[current] - 1
      BY DEF Elect, Quantums
    <3>2. priority[current] \in 1..MaxPriority
      BY <1>1 DEF Node, ListInv, TypeOK
    <3> QED BY <3>1, <3>2, ListAssumption
  <2> QED BY <1>2, <1>3, <2>1, <2>2 DEF ListInv, TypeOK
<1>6. Ring(Node', next', head', tail') /\ len' = Cardinality(Node')
  BY <1>2, <1>4 DEF ListInv
<1>7. PrevInStep' /\ StackStays' /\ InLoop'
  BY <1>1, <1>2, <1>4 DEF PrevInStep, StackStays, InLoop, Outside
<1>8. Fresh'
  BY <1>2, <1>3 DEF Fresh, ListInv
<1> QED BY <1>5, <1>6, <1>7, <1>8 DEF ListInv

LEMMA GoIdleInv == ListInv /\ GoIdle => ListInv'
PROOF
<1> SUFFICES ASSUME ListInv, GoIdle PROVE ListInv'
  OBVIOUS
<1>1. current \in Node /\ prev \in Node /\ next[prev] = current
  BY InLoopNodes DEF GoIdle
<1>2. /\ next' = next /\ head' = head /\ tail' = tail /\ len' = len
      /\ current' = Idle /\ prev' = prev /\ ogCurrent' = Nil /\ state' = state
      /\ priority' = priority /\ quantumsLeft' = quantumsLeft
      /\ nextPid' = nextPid
  BY DEF GoIdle
<1>3. Node' = Node
  BY <1>2 DEF Node
<1>4. TypeOK'
  <2>1. entry' \in [state : [Pid -> State], slot : Pid, idle : BOOLEAN]
    <3>1. 0 \in Pid
      BY ListAssumption DEF Pid
    <3> QED BY <3>1 DEF GoIdle, NoEntry, State
  <2> QED BY <1>2, <2>1 DEF ListInv, TypeOK
<1>5. Ring(Node', next', head', tail') /\ len' = Cardinality(Node')
  BY <1>2, <1>3 DEF ListInv
<1>6. PrevInStep' /\ StackStays' /\ InLoop'
  BY <1>1, <1>2, <1>3 DEF PrevInStep, StackStays, InLoop, Outside
<1>7. Fresh'
  BY <1>2 DEF Fresh, ListInv
<1> QED BY <1>4, <1>5, <1>6, <1>7 DEF ListInv

LEMMA AdvanceInv == ListInv /\ Advance => ListInv'
PROOF
<1> SUFFICES ASSUME ListInv, Advance PROVE ListInv'
  OBVIOUS
<1>1. /\ current \in Node /\ ogCurrent \in Node /\ next[current] \in Node
      /\ current # Idle
  BY InLoopNodes DEF Advance
<1>2. /\ next' = next /\ head' = head /\ tail' = tail /\ len' = len
      /\ ogCurrent' = ogCurrent /\ state' = state /\ entry' = entry
      /\ priority' = priority /\ quantumsLeft' = quantumsLeft
      /\ nextPid' = nextPid
  BY DEF Advance
<1>3. current' = next[current] /\ prev' = current
  BY <1>1 DEF Advance, NextPCB
<1>4. Node' = Node
  BY <1>2 DEF Node
<1>5. TypeOK'
  BY <1>1, <1>2, <1>3 DEF ListInv, TypeOK, Node
<1>6. Ring(Node', next', head', tail') /\ len' = Cardinality(Node')
  BY <1>2, <1>4 DEF ListInv
<1>7. PrevInStep' /\ StackStays' /\ InLoop'
  <2>1. next[current] # Idle
    BY <1>1, ListAssumption DEF Node, Pid, Idle
  <2> QED BY <1>1, <1>2, <1>3, <1>4, <2>1
          DEF PrevInStep, StackStays, InLoop, Outside
<1>8. Fresh'
  BY <1>2 DEF Fresh, ListInv
<1> QED BY <1>5, <1>6, <1>7, <1>8 DEF ListInv

(* A freed node leaves the circle, ogCurrent stays in it.                   *)
LEMMA FreeInv == ListInv /\ FreeCurrent => ListInv'
PROOF
<1> SUFFICES ASSUME ListInv, FreeCurrent PROVE ListInv'
  OBVIOUS
<1> DEFINE c == current
           v == prev
<1>1. /\ c \in Node /\ v \in Node /\ ogCurrent \in Node /\ next[v] = c
      /\ c # Idle /\ next[c] \in Node /\ ogCurrent # c
  BY InLoopNodes DEF FreeCurrent, IsBack
<1>2. /\ current' = next[c] /\ prev' = v /\ ogCurrent' = ogCurrent
      /\ next' = [next EXCEPT ![v] = next[c], ![c] = Nil]
      /\ head' = IF head = c THEN next[c] ELSE head
      /\ tail' = IF head # c /\ tail = c THEN v ELSE tail
      /\ len' = len - 1 /\ state' = [state EXCEPT ![c] = "NONE"]
      /\ priority' = priority /\ quantumsLeft' = quantumsLeft
      /\ nextPid' = nextPid /\ entry' = entry /\ head # tail
  BY DEF FreeCurrent, TailAfterFree
<1> HIDE DEF c, v
<1>3. Node \in SUBSET Int /\ Node \in SUBSET Pid
  BY DEF Node, Pid
<1>4. Node' = Node \ {c}
  BY <1>1, <1>2, <1>3 DEF Node, ListInv, TypeOK
<1>5. v # c
  BY <1>1, <1>3, FolItself DEF ListInv, Ring
<1>6. /\ next'[v] = next[c] /\ \A p \in Node \ {c, v} : next'[p] = next[p]
      /\ next' \in [Pid -> Pid \cup {Nil}]
  BY <1>1, <1>2, <1>3, <1>5 DEF ListInv, TypeOK
<1>7. /\ Ring(Node \ {c}, next', IF head = c THEN next[c] ELSE head,
                                 IF tail = c THEN v ELSE tail)
      /\ next[c] # c
  BY <1>1, <1>3, <1>6, RingRemove DEF ListInv
<1>8. Ring(Node', next', head', tail')
  <2>1. tail' = IF tail = c THEN v ELSE tail
    BY <1>2
  <2> QED BY <1>2, <1>4, <1>7, <2>1
<1>9. PrevInStep' /\ StackStays' /\ InLoop'
  <2>1. next[c] # Idle
    BY <1>1, <1>3, ListAssumption DEF Pid, Idle
  <2> QED BY <1>1, <1>2, <1>4, <1>5, <1>6, <1>7, <2>1
          DEF PrevInStep, StackStays, InLoop, Outside
<1>10. len' = Cardinality(Node')
  <2>1. Cardinality(Node \ {c}) = Cardinality(Node) - 1
    BY <1>1, NodeFinite, FS_RemoveElement
  <2> QED BY <1>2, <1>4, <2>1 DEF ListInv
<1>11. len' \in 1..MaxPid+1
  <2>1. v \in Node \ {c} /\ Node \ {c} \in SUBSET (0..MaxPid)
    BY <1>1, <1>3, <1>5 DEF Pid
  <2>2. Cardinality(Node \ {c}) \in 1..MaxPid+1
    BY <2>1, NodeSize
  <2> QED BY <1>4, <1>10, <2>2
<1>12. TypeOK'
  <2>1. state' \in [Pid -> State]
    BY <1>2 DEF ListInv, TypeOK, State
  <2>2. head' \in Pid /\ tail' \in Pid /\ prev' \in Pid /\ current' \in Pid
    BY <1>1, <1>2, <1>3 DEF ListInv, TypeOK
  <2> QED BY <1>2, <1>6, <1>11, <2>1, <2>2 DEF ListInv, TypeOK
<1>13. Fresh'
  BY <1>2 DEF Fresh, ListInv, TypeOK
<1> QED BY <1>8, <1>9, <1>10, <1>12, <1>13 DEF ListInv

LEMMA NextInv == ListInv /\ [Next]_vars => ListInv'
PROOF
<1> SUFFICES ASSUME ListInv, [Next]_vars PROVE ListInv'
  OBVIOUS
<1>1. CASE Loop
  BY <1>1, ElectInv, GoIdleInv, FreeInv, AdvanceInv DEF Loop
<1>2. CASE \E p \in Pid : \/ \E s \in State : Change(p, s)
                          \/ \E n \in 1..MaxPriority : ChangePriority(p, n)
  BY <1>2, ChangeInv, ChangePriorityInv
<1>3. CASE IF current = Idle THEN Enter("READY")
           ELSE \E s \in {state[current], "READY", "BLOCKED", "EXITED"} : Enter(s)
  <2>1. current # Idle => state[current] \in State \ {"NONE"}
    BY DEF ListInv, PrevInStep, TypeOK, Node
  <2>2. \A s \in {"READY", "BLOCKED", "EXITED"} : s \in State \ {"NONE"}
    BY DEF State
  <2> QED BY <1>3, <2>1, <2>2, EnterInv
<1>4. CASE UNCHANGED vars
  <2>1. /\ Node' = Node /\ UNCHANGED list
        /\ TypeOK' = TypeOK /\ PrevInStep' = PrevInStep
        /\ StackStays' = StackStays /\ Fresh' = Fresh /\ InLoop' = InLoop
    BY <1>4 DEF vars, list, Node, TypeOK, PrevInStep, StackStays, Fresh, InLoop,
                Outside
  <2> QED BY <2>1 DEF ListInv, list
<1> QED BY <1>1, <1>2, <1>3, <1>4, AddInv, AddFailsInv, ContinueInv DEF Next

-----------------------------------------------------------------------------
(* The invariant of the loop: the walk has freed the EXITED processes       *)
(* before current, and met no READY one.                                    *)

(* The place of p in the walk that begins after o, as in Processes.         *)
Pl(o, p) == IF p > o THEN p - o ELSE p - o + MaxPid + 1

WalkedTo(ps, o, c) ==
  /\ state = [p \in Pid |-> IF ps[p] = "EXITED" /\ Pl(o, p) < Pl(o, c)
                            THEN "NONE" ELSE ps[p]]
  /\ \A p \in Pid : ps[p] = "READY" => Pl(o, c) <= Pl(o, p)

LoopInv ==
  ~Outside =>
    /\ entry.slot = ogCurrent
    /\ ~P!KeepsCpu(entry.state)
    /\ WalkedTo(P!Preempted(entry.state), ogCurrent, current)

(* No node has its place between those of a node and the node after it.     *)
LEMMA NextPlace ==
  ASSUME NEW N \in SUBSET Pid, NEW o \in N, NEW c \in N, NEW d \in N,
         Fol(N, c, d)
  PROVE  /\ \A r \in N : Pl(o, r) < Pl(o, d) => c # o /\ Pl(o, r) <= Pl(o, c)
         /\ c # o => Pl(o, c) < Pl(o, d)
PROOF
<1>1. MaxPid \in Int /\ N \in SUBSET Int /\ \A r \in N : 0 <= r /\ r <= MaxPid
  BY ListAssumption DEF Pid
<1>2. o \in Int /\ c \in Int /\ d \in Int
  BY <1>1
<1>3. ASSUME NEW r \in N, Pl(o, r) < Pl(o, d)
      PROVE  c # o /\ Pl(o, r) <= Pl(o, c)
  <2>1. r \in Int
    BY <1>1
  <2> QED BY <1>1, <1>2, <1>3, <2>1 DEF Pl, Fol
<1>4. c # o => Pl(o, c) < Pl(o, d)
  BY <1>1, <1>2 DEF Pl, Fol
<1> QED BY <1>3, <1>4

(* No two pids have the same place, the last is that of o.                  *)
LEMMA PlaceInjective ==
  ASSUME NEW o \in Pid
  PROVE  /\ \A p, q \in Pid : Pl(o, p) = Pl(o, q) => p = q
         /\ Pl(o, o) = MaxPid + 1
         /\ \A p \in Pid : Pl(o, p) \in 1..MaxPid+1
PROOF
<1>1. MaxPid \in Int /\ Pid = 0..MaxPid
  BY ListAssumption DEF Pid
<1> QED BY <1>1 DEF Pl

(* The step that begins the loop.                                           *)
LEMMA EnterLoop ==
  \A s \in State \ {"NONE"} : ListInv /\ Enter(s) => LoopInv'
PROOF
<1> SUFFICES ASSUME NEW s \in State \ {"NONE"}, ListInv, Enter(s)
             PROVE  LoopInv'
  OBVIOUS
<1> DEFINE o == next[prev]
<1>1. /\ ogCurrent' = o /\ o \in Node /\ current' = next[o] /\ next[o] \in Node
      /\ current # Idle => current = o
  BY EnterStarts
<1>2. /\ entry' = [state |-> StateAt(s), idle |-> current = Idle, slot |-> o]
      /\ state' = StateAt(IF s = "RUNNING" THEN "READY" ELSE s)
      /\ current # Idle /\ s = "RUNNING" => quantumsLeft' = 0
  BY <1>1 DEF Enter
<1> HIDE DEF o
<1>3. entry'.slot = o /\ entry'.state = StateAt(s) /\ entry'.idle = (current = Idle)
  BY <1>2
<1>4. ListInv'
  BY EnterInv
<1>5. o \in Pid /\ state \in [Pid -> State]
  BY <1>1 DEF Node, ListInv, TypeOK
<1>6. ~P!KeepsCpu(entry.state)'
  <2>1. CASE current = Idle
    BY <1>3, <2>1 DEF P!KeepsCpu
  <2>2. CASE current # Idle
    <3>1. entry'.state[entry'.slot] = s
      BY <1>1, <1>3, <1>5, <2>2 DEF StateAt
    <3> QED BY <1>2, <2>2, <3>1 DEF P!KeepsCpu
  <2> QED BY <2>1, <2>2
<1>7. P!Preempted(entry.state)' = state'
  <2>1. CASE current = Idle
    BY <1>2, <1>3, <2>1 DEF P!Preempted, StateAt
  <2>2. CASE current # Idle
    <3>1. /\ entry'.state = [state EXCEPT ![o] = s] /\ entry'.state[o] = s
          /\ state' = [state EXCEPT ![o] = IF s = "RUNNING" THEN "READY" ELSE s]
      BY <1>1, <1>2, <1>3, <1>5, <2>2 DEF StateAt
    <3> QED BY <1>3, <1>5, <2>2, <3>1 DEF P!Preempted
  <2> QED BY <2>1, <2>2
<1>8. WalkedTo(state, ogCurrent, current)'
  <2>1. \A p \in Pid : state'[p] # "NONE" => ~(Pl(o, p) < Pl(o, next[o]))
    <3>1. /\ Node' \in SUBSET Pid /\ next' = next /\ Node' = Node
      <4>1. \A p \in Pid : state'[p] = "NONE" <=> state[p] = "NONE"
        <5>1. current # Idle => current \in Node /\ current \in Pid
          BY <1>1, <1>5
        <5> QED BY <1>2, <1>5, <5>1 DEF StateAt, Node
      <4> QED BY <4>1 DEF Node, Enter
    <3>2. Fol(Node, o, next[o])
      BY <1>1 DEF ListInv, Ring
    <3>3. \A p \in Node : ~(Pl(o, p) < Pl(o, next[o]))
      BY <1>1, <3>1, <3>2, NextPlace
    <3> QED BY <3>1, <3>3 DEF Node
  <2>2. state' \in [Pid -> State]
    BY <1>4 DEF ListInv, TypeOK
  <2>3. \A p \in Pid : /\ Pl(o, p) \in Int /\ Pl(o, next[o]) \in Int
    BY <1>1, <1>5, PlaceInjective DEF Node
  <2>4. state' = [p \in Pid |-> IF state'[p] = "EXITED" /\ Pl(o, p) < Pl(o, next[o])
                                THEN "NONE" ELSE state'[p]]
    BY <2>1, <2>2
  <2>5. \A p \in Pid : state'[p] = "READY" => Pl(o, next[o]) <= Pl(o, p)
    BY <2>1, <2>3
  <2> QED BY <1>1, <2>4, <2>5 DEF WalkedTo
<1> QED BY <1>1, <1>3, <1>6, <1>7, <1>8 DEF LoopInv, WalkedTo

(* An iteration that moves on, freeing the process it stands on if that has *)
(* exited.                                                                  *)
LEMMA WalkOn ==
  ASSUME ListInv, ~Outside, NEW ps \in [Pid -> State],
         WalkedTo(ps, ogCurrent, current),
         state[current] # "READY", current # ogCurrent,
         state' = [state EXCEPT ![current] =
                     IF state[current] = "EXITED" THEN "NONE" ELSE @],
         current' = next[current]
  PROVE  /\ state' = [p \in Pid |-> IF ps[p] = "EXITED" /\ Pl(ogCurrent, p) < Pl(ogCurrent, current')
                            THEN "NONE" ELSE ps[p]]
         /\ \A p \in Pid : ps[p] = "READY" => Pl(ogCurrent, current') <= Pl(ogCurrent, p)
PROOF
<1> DEFINE o == ogCurrent
           c == current
           d == next[current]
<1>1. /\ o \in Node /\ c \in Node /\ d \in Node /\ Node \in SUBSET Pid
      /\ state \in [Pid -> State]
  BY InLoopNodes DEF Node, ListInv, TypeOK
<1>2. Fol(Node, c, d)
  BY <1>1 DEF ListInv, Ring
<1>3. /\ c # o /\ state[c] # "READY" /\ current' = d
      /\ state' = [state EXCEPT ![c] =
                     IF state[c] = "EXITED" THEN "NONE" ELSE @]
      /\ state = [p \in Pid |-> IF ps[p] = "EXITED" /\ Pl(o, p) < Pl(o, c)
                                THEN "NONE" ELSE ps[p]]
      /\ \A p \in Pid : ps[p] = "READY" => Pl(o, c) <= Pl(o, p)
  BY DEF WalkedTo
<1> HIDE DEF o, c, d
<1>4. /\ \A r \in Node : Pl(o, r) < Pl(o, d) => Pl(o, r) <= Pl(o, c)
      /\ Pl(o, c) < Pl(o, d)
  BY <1>1, <1>2, <1>3, NextPlace
<1>5. /\ \A p \in Pid : Pl(o, p) \in Int
      /\ \A p, q \in Pid : Pl(o, p) = Pl(o, q) => p = q
      /\ o \in Pid /\ c \in Pid /\ d \in Pid
  BY <1>1, PlaceInjective
<1>6. ASSUME NEW p \in Pid
      PROVE  /\ state'[p] = IF ps[p] = "EXITED" /\ Pl(o, p) < Pl(o, d)
                            THEN "NONE" ELSE ps[p]
             /\ ps[p] = "READY" => Pl(o, d) <= Pl(o, p)
  <2>1. /\ Pl(o, p) \in Int /\ Pl(o, c) \in Int /\ Pl(o, d) \in Int
        /\ Pl(o, p) = Pl(o, c) <=> p = c
    BY <1>5
  <2>2. p \in Node /\ Pl(o, p) < Pl(o, d) => Pl(o, p) <= Pl(o, c)
    BY <1>4
  <2>3. p \in Node <=> state[p] # "NONE"
    BY DEF Node
  <2>4. /\ p = c => state'[p] = IF state[p] = "EXITED" THEN "NONE" ELSE state[p]
        /\ p # c => state'[p] = state[p]
        /\ state[p] = IF ps[p] = "EXITED" /\ Pl(o, p) < Pl(o, c)
                      THEN "NONE" ELSE ps[p]
    BY <1>1, <1>3
  <2>5. CASE p = c
    BY <1>3, <1>4, <2>1, <2>4, <2>5
  <2>6. CASE p # c
    <3>1. CASE Pl(o, p) < Pl(o, c)
      BY <1>3, <1>4, <2>1, <2>4, <2>6, <3>1
    <3>2. CASE Pl(o, c) < Pl(o, p)
      BY <1>4, <2>1, <2>2, <2>3, <2>4, <2>6, <3>2
    <3> QED BY <2>1, <2>6, <3>1, <3>2
  <2> QED BY <2>5, <2>6
<1>7. state' = [p \in Pid |-> IF ps[p] = "EXITED" /\ Pl(o, p) < Pl(o, d)
                              THEN "NONE" ELSE ps[p]]
  <2>1. state' = [p \in Pid |-> state'[p]]
    BY <1>1, <1>3
  <2> QED BY <1>6, <2>1
<1>8. current' = d
  BY <1>3
<1> QED BY <1>6, <1>7, <1>8 DEF o

LEMMA AdvanceLoop == ListInv /\ LoopInv /\ Advance => LoopInv'
PROOF
<1> SUFFICES ASSUME ListInv, LoopInv, Advance PROVE LoopInv'
  OBVIOUS
<1> DEFINE ps == P!Preempted(entry.state)
<1>1. /\ ~Outside /\ current # Idle /\ current' = next[current]
      /\ current # ogCurrent /\ state[current] \notin {"READY", "EXITED"}
      /\ state' = state /\ UNCHANGED <<ogCurrent, entry, quantumsLeft>>
  BY InLoopNodes DEF Advance, NextPCB, IsBack
<1>2. ps \in [Pid -> State] /\ state \in [Pid -> State] /\ current \in Pid
  BY <1>1 DEF ListInv, TypeOK, P!Preempted, State
<1>3. /\ entry.slot = ogCurrent /\ ~P!KeepsCpu(entry.state)
      /\ WalkedTo(ps, ogCurrent, current)
  BY <1>1 DEF LoopInv
<1>4. /\ ~P!KeepsCpu(entry.state)' /\ entry'.slot = ogCurrent'
      /\ P!Preempted(entry.state)' = ps
  BY <1>1, <1>3 DEF P!KeepsCpu, P!Preempted
<1> HIDE DEF ps
<1>5. state' = [state EXCEPT ![current] =
                  IF state[current] = "EXITED" THEN "NONE" ELSE @]
  BY <1>1, <1>2
<1>6. /\ state' = [p \in Pid |-> IF ps[p] = "EXITED"
                                    /\ Pl(ogCurrent, p) < Pl(ogCurrent, current')
                                 THEN "NONE" ELSE ps[p]]
      /\ \A p \in Pid : ps[p] = "READY" =>
           Pl(ogCurrent, current') <= Pl(ogCurrent, p)
  BY <1>1, <1>2, <1>3, <1>5, WalkOn
<1> QED BY <1>1, <1>4, <1>6 DEF LoopInv, WalkedTo

LEMMA FreeLoop == ListInv /\ LoopInv /\ FreeCurrent => LoopInv'
PROOF
<1> SUFFICES ASSUME ListInv, LoopInv, FreeCurrent PROVE LoopInv'
  OBVIOUS
<1> DEFINE ps == P!Preempted(entry.state)
<1>1. /\ ~Outside /\ current' = next[current]
      /\ current # ogCurrent /\ state[current] = "EXITED"
      /\ state' = [state EXCEPT ![current] = "NONE"]
      /\ UNCHANGED <<ogCurrent, entry, quantumsLeft>>
  BY DEF FreeCurrent, IsBack
<1>2. ps \in [Pid -> State]
  BY DEF ListInv, TypeOK, P!Preempted, State
<1>3. /\ entry.slot = ogCurrent /\ ~P!KeepsCpu(entry.state)
      /\ WalkedTo(ps, ogCurrent, current)
  BY <1>1 DEF LoopInv
<1>4. /\ ~P!KeepsCpu(entry.state)' /\ entry'.slot = ogCurrent'
      /\ P!Preempted(entry.state)' = ps
  BY <1>1, <1>3 DEF P!KeepsCpu, P!Preempted
<1> HIDE DEF ps
<1>5. state' = [state EXCEPT ![current] =
                  IF state[current] = "EXITED" THEN "NONE" ELSE @]
  BY <1>1
<1>6. /\ state' = [p \in Pid |-> IF ps[p] = "EXITED"
                                    /\ Pl(ogCurrent, p) < Pl(ogCurrent, current')
                                 THEN "NONE" ELSE ps[p]]
      /\ \A p \in Pid : ps[p] = "READY" =>
           Pl(ogCurrent, current') <= Pl(ogCurrent, p)
  BY <1>1, <1>2, <1>3, <1>5, WalkOn
<1> QED BY <1>1, <1>4, <1>6 DEF LoopInv, WalkedTo

LEMMA LoopInvNext == ListInv /\ LoopInv /\ [Next]_vars => LoopInv'
PROOF
<1> SUFFICES ASSUME ListInv, LoopInv, [Next]_vars PROVE LoopInv'
  OBVIOUS
<1>1. CASE Elect \/ GoIdle
  BY <1>1 DEF Elect, GoIdle, LoopInv, Outside
<1>2. CASE Outside /\ Outside'
  BY <1>2 DEF LoopInv
<1>3. CASE IF current = Idle THEN Enter("READY")
           ELSE \E s \in {state[current], "READY", "BLOCKED", "EXITED"} : Enter(s)
  <2>1. current # Idle => state[current] \in State \ {"NONE"}
    BY DEF ListInv, PrevInStep, TypeOK, Node
  <2>2. \A s \in {"READY", "BLOCKED", "EXITED"} : s \in State \ {"NONE"}
    BY DEF State
  <2> QED BY <1>3, <2>1, <2>2, EnterLoop
<1>4. CASE UNCHANGED vars
  BY <1>4 DEF vars, list, LoopInv, Outside, WalkedTo, P!KeepsCpu, P!Preempted
<1>5. CASE AddPCB \/ AddFails \/ Continue
  <2>1. Outside /\ Outside'
    BY <1>5 DEF AddPCB, AddFails, Continue, Outside
  <2> QED BY <1>2, <2>1
<1>6. CASE \E p \in Pid : \/ \E s \in State : Change(p, s)
                          \/ \E n \in 1..MaxPriority : ChangePriority(p, n)
  <2>1. Outside /\ Outside'
    BY <1>6 DEF Change, ChangePriority, Outside
  <2> QED BY <1>2, <2>1
<1> QED BY <1>1, <1>3, <1>4, <1>5, <1>6, AdvanceLoop, FreeLoop DEF Next, Loop

(* How the loop ends.                                                       *)
LoopLeaves ==
  [state |-> state',
   slot |-> IF current' = Idle THEN next'[prev'] ELSE current',
   idle |-> current' = Idle,
   quantumsLeft |-> quantumsLeft']

LEMMA ElectSchedules ==
  ListInv /\ LoopInv /\ Elect => LoopLeaves \in P!Schedule(entry.state)
PROOF
<1> SUFFICES ASSUME ListInv, LoopInv, Elect
             PROVE  LoopLeaves \in P!Schedule(entry.state)
  OBVIOUS
<1> DEFINE ps == P!Preempted(entry.state)
           c == current
<1>1. /\ ~Outside /\ c # Idle /\ c \in Pid /\ state[c] = "READY"
      /\ current' = c /\ state' = [state EXCEPT ![c] = "RUNNING"]
      /\ quantumsLeft' = priority[c] - 1
  BY InLoopNodes DEF Elect, Node, Quantums, list
<1>2. /\ entry.slot = ogCurrent /\ ~P!KeepsCpu(entry.state)
      /\ WalkedTo(ps, ogCurrent, c)
  BY <1>1 DEF LoopInv
<1>3. \A p \in Pid : P!Place(p) = Pl(ogCurrent, p)
  BY <1>2 DEF P!Place, Pl
<1> HIDE DEF ps, c
<1>4. state = P!Freed(ps, P!Place(c))
  BY <1>1, <1>2, <1>3 DEF WalkedTo, P!Freed, P!Pid, Pid
<1>5. ps[c] = "READY" /\ c \in P!Elected(ps)
  <2>1. ps[c] = "READY"
    BY <1>1, <1>2 DEF WalkedTo
  <2>2. \A q \in Pid : ps[q] = "READY" => P!Place(c) <= P!Place(q)
    BY <1>1, <1>2, <1>3 DEF WalkedTo
  <2> QED BY <1>1, <2>1, <2>2 DEF P!Elected, P!Pid, Pid
<1>6. LoopLeaves = [state |-> [P!Freed(ps, P!Place(c)) EXCEPT ![c] = "RUNNING"],
                    slot |-> c, idle |-> FALSE, quantumsLeft |-> priority[c] - 1]
  BY <1>1, <1>4 DEF LoopLeaves
<1>7. ~(\A p \in P!Pid : ps[p] # "READY")
  BY <1>1, <1>5 DEF P!Pid, Pid
<1> QED BY <1>2, <1>5, <1>6, <1>7 DEF P!Schedule, ps

LEMMA GoIdleSchedules ==
  ListInv /\ LoopInv /\ GoIdle => LoopLeaves \in P!Schedule(entry.state)
PROOF
<1> SUFFICES ASSUME ListInv, LoopInv, GoIdle
             PROVE  LoopLeaves \in P!Schedule(entry.state)
  OBVIOUS
<1> DEFINE ps == P!Preempted(entry.state)
           o == ogCurrent
<1>1. /\ ~Outside /\ o \in Pid /\ state[o] # "READY" /\ next[prev] = o
      /\ current' = Idle /\ next' = next /\ prev' = prev /\ state' = state
      /\ quantumsLeft' = quantumsLeft /\ current = o
  BY InLoopNodes DEF GoIdle, Node, IsBack
<1>2. /\ entry.slot = o /\ ~P!KeepsCpu(entry.state)
      /\ WalkedTo(ps, o, o)
  BY <1>1 DEF LoopInv
<1>3. \A p \in Pid : P!Place(p) = Pl(o, p)
  BY <1>2 DEF P!Place, Pl
<1> HIDE DEF ps, o
<1>4. state = P!Freed(ps, MaxPid + 1)
  <2>1. Pl(o, o) = MaxPid + 1
    BY <1>1, PlaceInjective
  <2> QED BY <1>2, <1>3, <2>1 DEF WalkedTo, P!Freed, P!Pid, Pid
<1>5. \A p \in Pid : ps[p] # "READY"
  <2>1. SUFFICES ASSUME NEW p \in Pid, ps[p] = "READY" PROVE FALSE
    OBVIOUS
  <2>2. /\ Pl(o, o) <= Pl(o, p) /\ Pl(o, o) = MaxPid + 1
        /\ Pl(o, p) \in 1..MaxPid+1
    BY <1>1, <1>2, <2>1, PlaceInjective DEF WalkedTo
  <2>3. Pl(o, p) = Pl(o, o)
    BY <2>2, ListAssumption
  <2>4. p = o
    BY <1>1, <2>3, PlaceInjective
  <2>5. state[p] = ps[p]
    BY <1>2, <2>1 DEF WalkedTo
  <2> QED BY <1>1, <2>1, <2>4, <2>5
<1>6. LoopLeaves = [state |-> P!Freed(ps, MaxPid + 1), slot |-> entry.slot,
                    idle |-> TRUE, quantumsLeft |-> quantumsLeft]
  BY <1>1, <1>2, <1>4 DEF LoopLeaves
<1>7. \A p \in P!Pid : ps[p] # "READY"
  BY <1>5 DEF P!Pid, Pid
<1> QED BY <1>2, <1>6, <1>7 DEF P!Schedule, ps

-----------------------------------------------------------------------------
(* The walk of getPCBByPid().                                               *)

\* The nodes met from h on, m steps far.
IsChain(at, nx, h, m) == at = [n \in 0..m |-> IF n = 0 THEN h ELSE nx[at[n-1]]]

\* There is a walk of every length: the shortest that were none would be one
\* step longer than one that is.
LEMMA ChainExists ==
  ASSUME NEW M \in Nat, NEW nx, NEW h
  PROVE  \E at : IsChain(at, nx, h, M)
PROOF
<1> DEFINE Bad == {m \in Nat : ~\E at : IsChain(at, nx, h, m)}
<1>1. CASE Bad # {}
  <2>1. PICK k \in Bad : \A j \in Bad : k <= j
    BY <1>1, LeastOfSome
  <2>2. CASE k = 0
    <3> DEFINE at == [n \in 0..0 |-> h]
    <3>1. \A n \in 0..0 : n = 0
      OBVIOUS
    <3>2. IsChain(at, nx, h, 0)
      BY <3>1 DEF IsChain
    <3> QED BY <2>1, <2>2, <3>2
  <2>3. CASE k # 0
    <3>1. k - 1 \in Nat /\ ~(k <= k - 1)
      BY <2>3
    <3>2. PICK at : IsChain(at, nx, h, k - 1)
      BY <2>1, <3>1
    <3>3. \A n \in 0..k-1 : at[n] = IF n = 0 THEN h ELSE nx[at[n-1]]
      BY <3>2 DEF IsChain
    <3> DEFINE more == [n \in 0..k |-> IF n = k THEN nx[at[k-1]] ELSE at[n]]
    <3>4. ASSUME NEW n \in 0..k
          PROVE  more[n] = IF n = 0 THEN h ELSE nx[more[n-1]]
      <4>1. CASE n = k
        BY <2>3, <4>1
      <4>2. CASE n # k
        <5>1. n \in 0..k-1 /\ more[n] = at[n]
          BY <4>2
        <5>2. n # 0 => n - 1 \in 0..k /\ n - 1 # k /\ more[n-1] = at[n-1]
          BY <4>2
        <5> QED BY <3>3, <5>1, <5>2
      <4> QED BY <4>1, <4>2
    <3>5. more = [n \in 0..k |-> more[n]]
      OBVIOUS
    <3> HIDE DEF more
    <3>6. IsChain(more, nx, h, k)
      BY <3>4, <3>5 DEF IsChain
    <3> QED BY <2>1, <3>6
  <2> QED BY <2>2, <2>3
<1>2. CASE Bad = {}
  BY <1>2
<1> QED BY <1>1, <1>2

\* In a circle the walk stays among the nodes.
LEMMA ChainStays ==
  ASSUME NEW M \in Nat, NEW N, NEW nx, NEW h \in N, \A p \in N : nx[p] \in N,
         NEW at, IsChain(at, nx, h, M)
  PROVE  \A n \in 0..M : at[n] \in N
PROOF
<1> DEFINE Bad == {n \in Nat : n <= M /\ at[n] \notin N}
<1>1. \A n \in 0..M : at[n] = IF n = 0 THEN h ELSE nx[at[n-1]]
  BY DEF IsChain
<1>2. CASE Bad # {}
  <2>1. PICK k \in Bad : \A j \in Bad : k <= j
    BY <1>2, LeastOfSome
  <2>2. k # 0 /\ at[k] = nx[at[k-1]]
    BY <1>1, <2>1
  <2>3. k - 1 \in Nat /\ k - 1 <= M /\ ~(k <= k - 1)
    BY <2>1, <2>2
  <2>4. at[k-1] \in N
    BY <2>1, <2>3
  <2> QED BY <2>1, <2>2, <2>4
<1>3. CASE Bad = {}
  BY <1>3
<1> QED BY <1>2, <1>3

\* Until it meets p, the walk from the head climbs towards p.
LEMMA ChainClimbs ==
  ASSUME NEW M \in Nat, NEW N \in SUBSET Int, NEW nx, NEW h, NEW t, Ring(N, nx, h, t),
         NEW at, IsChain(at, nx, h, M), NEW p \in N,
         NEW k \in 0..M, \A j \in 0..M : j < k => at[j] # p
  PROVE  h + k <= at[k] /\ at[k] <= p
PROOF
<1> DEFINE Bad == {n \in Nat : n <= k /\ ~(h + n <= at[n] /\ at[n] <= p)}
<1>1. \A n \in 0..M : at[n] = IF n = 0 THEN h ELSE nx[at[n-1]]
  BY DEF IsChain
<1>2. /\ h \in N /\ h \in Int /\ p \in Int /\ h <= p
      /\ \A q \in N : nx[q] \in N /\ Fol(N, q, nx[q])
  BY DEF Ring
<1>3. \A n \in 0..M : at[n] \in N
  BY <1>2, ChainStays
<1>4. CASE Bad # {}
  <2>1. PICK b \in Bad : \A j \in Bad : b <= j
    BY <1>4, LeastOfSome
  <2>2. b # 0
    BY <1>1, <1>2, <2>1
  <2>3. b - 1 \in Nat /\ b - 1 < k /\ b - 1 \in 0..M /\ b \in 0..M /\ ~(b <= b - 1)
    BY <2>1, <2>2
  <2>4. PICK q \in N : q = at[b-1]
    BY <1>3, <2>3
  <2>5. h + (b - 1) <= q /\ q <= p /\ q # p
    BY <2>1, <2>3, <2>4
  <2>6. PICK r \in N : r = nx[q] /\ Fol(N, q, r)
    BY <1>2
  <2>7. at[b] = r
    BY <1>1, <2>2, <2>3, <2>4, <2>6
  <2>8. q \in Int /\ r \in Int /\ q < p
    BY <1>2, <2>5
  <2>9. q < r /\ r <= p
    BY <1>2, <2>6, <2>8 DEF Fol
  <2>10. h + b <= r
    BY <1>2, <2>1, <2>5, <2>8, <2>9
  <2> QED BY <2>1, <2>7, <2>9, <2>10
<1>5. CASE Bad = {}
  <2>1. k \in Nat /\ k <= k
    OBVIOUS
  <2> QED BY <1>5, <2>1
<1> QED BY <1>4, <1>5

\* So it meets p, before it is back at the head and behind no larger node.
LEMMA ChainMeets ==
  ASSUME NEW M \in Nat, NEW N \in SUBSET (0..M), NEW nx, NEW h, NEW t, Ring(N, nx, h, t),
         NEW at, IsChain(at, nx, h, M), NEW p \in N
  PROVE  \E n \in 0..M : /\ \A m \in 1..n : at[m-1] # p
                         /\ \A m \in 1..n : at[m] <= p /\ at[m] # h
                         /\ at[n] = p
PROOF
<1> DEFINE Hits == {n \in Nat : n <= M /\ at[n] = p}
<1>1. N \in SUBSET Int /\ h \in 0..M /\ p \in 0..M
  BY DEF Ring
<1>2. \A n \in 0..M : at[n] \in 0..M
  BY ChainStays DEF Ring
<1>3. CASE Hits = {}
  <2>1. \A j \in 0..M : at[j] # p
    BY <1>3
  <2>2. h + M <= at[M] /\ at[M] <= p
    BY <1>1, <2>1, ChainClimbs
  <2>3. at[M] \in 0..M /\ at[M] # p
    BY <1>2, <2>1
  <2> QED BY <1>1, <2>2, <2>3
<1>4. CASE Hits # {}
  <2>1. PICK n \in Hits : \A j \in Hits : n <= j
    BY <1>4, LeastOfSome
  <2>2. \A j \in 0..M : j < n => at[j] # p
    BY <2>1
  <2>3. n \in 0..M /\ at[n] = p
    BY <2>1
  <2>4. ASSUME NEW m \in 1..n
        PROVE  at[m-1] # p /\ at[m] <= p /\ at[m] # h
    <3>1. m \in 0..M /\ m - 1 \in 0..M /\ m - 1 < n /\ m <= n /\ 1 <= m
      BY <2>3
    <3>2. \A j \in 0..M : j < m => at[j] # p
      BY <2>2, <3>1
    <3>3. h + m <= at[m] /\ at[m] <= p
      BY <1>1, <3>1, <3>2, ChainClimbs
    <3>4. at[m] \in 0..M
      BY <1>2, <3>1
    <3> QED BY <1>1, <2>2, <3>1, <3>3, <3>4
  <2> QED BY <2>3, <2>4
<1> QED BY <1>3, <1>4

LEMMA SearchInv == ListInv => SearchFinds
PROOF
<1> SUFFICES ASSUME ListInv, NEW p \in Pid PROVE Finds(p) <=> p \in Node
  BY DEF SearchFinds
<1>1. /\ MaxPid \in Nat /\ Node \in SUBSET (0..MaxPid)
      /\ Ring(Node, next, head, tail)
  BY ListAssumption DEF ListInv, Node, Pid
<1> DEFINE at == CHOOSE f : f = [n \in 0..MaxPid |-> IF n = 0 THEN head ELSE next[f[n-1]]]
<1>2. IsChain(at, next, head, MaxPid)
  BY <1>1, ChainExists DEF IsChain
<1>3. Finds(p) <=> \E n \in 0..MaxPid : /\ \A m \in 1..n : at[m-1] # p
                                        /\ \A m \in 1..n : at[m] <= p /\ at[m] # head
                                        /\ at[n] = p
  BY DEF Finds
<1> HIDE DEF at
<1>4. \A n \in 0..MaxPid : at[n] \in Node
  BY <1>1, <1>2, ChainStays DEF Ring
<1>5. Finds(p) => p \in Node
  BY <1>3, <1>4
<1>6. p \in Node => Finds(p)
  BY <1>1, <1>2, <1>3, ChainMeets
<1> QED BY <1>5, <1>6

-----------------------------------------------------------------------------
(* The theorems.                                                            *)

LEMMA Invariants == Spec => [](ListInv /\ LoopInv)
PROOF
<1>1. Init => ListInv /\ LoopInv
  <2>1. Init => LoopInv
    BY DEF Init, LoopInv, Outside
  <2> QED BY <2>1, InitInv
<1>2. ListInv /\ LoopInv /\ [Next]_vars => (ListInv /\ LoopInv)'
  BY NextInv, LoopInvNext
<1> QED BY <1>1, <1>2, PTL DEF Spec

(* The pointers and the fields of the list have the types of scheduler.c.   *)
THEOREM ListTypeCorrect == Spec => []TypeOK
PROOF
<1>1. ListInv => TypeOK
  BY DEF ListInv
<1> QED BY <1>1, Invariants, PTL

(* Adding at the tail and freeing in the middle keep one circle in pid      *)
(* order, with len its length.                                              *)
THEOREM AlwaysCircle == Spec => []Circle
PROOF
<1>1. ListInv => Circle
  BY RingIsCircle DEF ListInv
<1> QED BY <1>1, Invariants, PTL

(* getPCBByPid() finds the processes of the list and no others, although it *)
(* stops at the first larger pid and never meets the head twice.            *)
THEOREM AlwaysFound == Spec => []SearchFinds
PROOF
<1> QED BY SearchInv, Invariants, PTL

(* The pointer prev is one node behind current, in every state.             *)
THEOREM AlwaysInStep == Spec => []PrevInStep
PROOF
<1>1. ListInv => PrevInStep
  BY DEF ListInv
<1> QED BY <1>1, Invariants, PTL

(* The loop never frees the node whose stack schedule() uses.               *)
THEOREM StackNeverFreed == Spec => []StackStays
PROOF
<1>1. ListInv => StackStays
  BY DEF ListInv
<1> QED BY <1>1, Invariants, PTL

(* The loop ends with what the operator Schedule of Processes says.         *)
THEOREM LoopIsSchedule == Spec => ImplementsSchedule
PROOF
<1> DEFINE Ends ==
      ~Outside /\ ogCurrent' = Nil =>
        [state |-> state',
         slot |-> IF current' = Idle THEN next'[prev'] ELSE current',
         idle |-> current' = Idle,
         quantumsLeft |-> quantumsLeft'] \in P!Schedule(entry.state)
<1>1. ListInv /\ LoopInv /\ [Next]_vars => [Ends]_vars
  <2> SUFFICES ASSUME ListInv, LoopInv, Next, ~Outside, ogCurrent' = Nil
               PROVE  LoopLeaves \in P!Schedule(entry.state)
    BY DEF LoopLeaves
  <2>1. Loop
    BY DEF Next, AddPCB, AddFails, Continue, Change, ChangePriority, Enter
  <2>2. ogCurrent # Nil
    BY DEF Outside
  <2>3. CASE FreeCurrent \/ Advance
    BY <2>2, <2>3 DEF FreeCurrent, Advance
  <2> QED BY <2>1, <2>3, ElectSchedules, GoIdleSchedules DEF Loop
<1> QED BY <1>1, Invariants, PTL DEF Spec, ImplementsSchedule

-----------------------------------------------------------------------------
(* The heap of buddyMM.c.                                                   *)

CONSTANTS Top, MaxBuddyRequest
VARIABLES freeList, link, blockSize, isFree

Bud == INSTANCE BuddyMM WITH next <- link, size <- blockSize,
                             MaxRequest <- MaxBuddyRequest

-----------------------------------------------------------------------------
(* The heap of buddyMM.c, proved for any order of the whole.               *)

(* Powers of two.                                                           *)

LEMMA PowTwo ==
  /\ 2^0 = 1
  /\ \A n \in Nat : 2^n \in Nat /\ 2^(n+1) = 2 * 2^n
PROOF
<1>1. ASSUME NEW n \in Nat PROVE 2^n \in Nat /\ 2^(n+1) = 2 * 2^n
  <2> DEFINE S == 1..n
             T == 1..n+1
             With(A) == A \cup {n+1}
             Q == {With(A) : A \in SUBSET S}
  <2>1. /\ IsFiniteSet(S) /\ Cardinality(S) = n
        /\ IsFiniteSet(T) /\ Cardinality(T) = n+1
    <3>1. 1 \in Int /\ n \in Int /\ n+1 \in Int /\ ~(1 > n+1) /\ (1 > n => n = 0) /\ n-1+1 = n /\ n+1-1+1 = n+1
      OBVIOUS
    <3> QED BY <3>1, FS_Interval
  <2>2. /\ IsFiniteSet(SUBSET S) /\ Cardinality(SUBSET S) = 2^n
        /\ IsFiniteSet(SUBSET T) /\ Cardinality(SUBSET T) = 2^(n+1)
    BY <2>1, FS_SUBSET, Zenon
  <2>3. n+1 \notin S /\ T = S \cup {n+1}
    OBVIOUS
  <2> HIDE DEF S, T
  <2>4. SUBSET T = (SUBSET S) \cup Q
    <3>1. ASSUME NEW A \in SUBSET T PROVE A \in (SUBSET S) \cup Q
      <4>1. CASE n+1 \in A
        <5>1. A \ {n+1} \in SUBSET S /\ A = With(A \ {n+1})
          BY <2>3, <4>1
        <5> QED BY <5>1
      <4>2. CASE n+1 \notin A
        BY <2>3, <4>2
      <4> QED BY <4>1, <4>2
    <3> QED BY <2>3, <3>1
  <2>5. (SUBSET S) \cap Q = {}
    BY <2>3
  <2>6. ExistsBijection(SUBSET S, Q)
    <3>1. [A \in SUBSET S |-> With(A)] \in Bijection(SUBSET S, Q)
      <4>1. \A A, C \in SUBSET S : With(A) = With(C) => A = C
        BY <2>3
      <4> HIDE DEF With
      <4> QED BY <4>1 DEF Bijection, Injection, Surjection, IsInjective
    <3> QED BY <3>1 DEF ExistsBijection
  <2>7. IsFiniteSet(Q) /\ Cardinality(Q) = 2^n
    BY <2>2, <2>6, FS_Bijection
  <2>8. Cardinality((SUBSET S) \cup Q) = Cardinality(SUBSET S) + Cardinality(Q) - Cardinality((SUBSET S) \cap Q)
    BY <2>2, <2>7, FS_Union
  <2>9. Cardinality({}) = 0
    BY FS_EmptySet
  <2>10. 2^n \in Nat
    BY <2>2, FS_CardinalityType
  <2>11. 2^(n+1) = 2^n + 2^n - 0
    BY <2>2, <2>4, <2>5, <2>7, <2>8, <2>9, Zenon
  <2>12. PICK k \in Nat : k = 2^n
    BY <2>10
  <2>13. 2^(n+1) = k + k - 0
    BY <2>11, <2>12, Zenon
  <2> QED BY <2>12, <2>13
<1>2. 2^0 = 1
  <2>1. IsFiniteSet({}) /\ Cardinality({}) = 0
    BY FS_EmptySet
  <2>2. Cardinality(SUBSET {}) = 2^0
    BY <2>1, FS_SUBSET
  <2>3. SUBSET {} = {{}}
    OBVIOUS
  <2>4. Cardinality({{}}) = 1
    BY FS_Singleton
  <2> QED BY <2>2, <2>3, <2>4
<1> QED BY <1>1, <1>2

\* From here on a power of two is known by these facts only.
Pow(n) == 2^n

LEMMA PowFacts ==
  /\ Pow(0) = 1
  /\ \A n \in Nat : Pow(n) \in Nat /\ Pow(n+1) = 2 * Pow(n) /\ Pow(n) > 0 /\ Pow(n) > n
PROOF
<1>1. Pow(0) = 1 /\ \A n \in Nat : Pow(n) \in Nat /\ Pow(n+1) = 2 * Pow(n)
  BY PowTwo DEF Pow
<1> DEFINE Bad == {n \in Nat : ~(Pow(n) > n)}
<1>2. CASE Bad # {}
  <2>1. PICK n \in Bad : \A m \in Bad : n <= m
    BY <1>2, LeastOfSome
  <2>2. n # 0
    BY <1>1, <2>1
  <2>3. n - 1 \in Nat /\ n - 1 \notin Bad /\ n - 1 + 1 = n
    BY <2>1, <2>2
  <2>4. Pow(n-1) \in Nat /\ Pow(n-1) > n - 1 /\ Pow(n-1+1) = 2 * Pow(n-1)
    BY <1>1, <2>3
  <2>5. Pow(n) = 2 * Pow(n-1)
    BY <2>3, <2>4
  <2> QED BY <2>1, <2>3, <2>4, <2>5
<1>3. CASE Bad = {}
  <2>1. \A n \in Nat : Pow(n) > n
    BY <1>3
  <2> QED BY <1>1, <2>1
<1> QED BY <1>2, <1>3

\* A larger power is a multiple.
LEMMA PowMultiple ==
  ASSUME NEW j \in Nat, NEW k \in Nat, j <= k
  PROVE  \E q \in Nat \ {0} : Pow(k) = q * Pow(j)
PROOF
<1> DEFINE Good(d) == \E q \in Nat \ {0} : Pow(j+d) = q * Pow(j)
           Bad == {d \in Nat : ~Good(d)}
<1>1. CASE Bad # {}
  <2>1. PICK d \in Bad : \A m \in Bad : d <= m
    BY <1>1, LeastOfSome
  <2>2. d # 0
    <3>1. Pow(j+0) = 1 * Pow(j)
      BY PowFacts
    <3> QED BY <2>1, <3>1
  <2>3. d - 1 \in Nat /\ d - 1 \notin Bad /\ j + (d-1) \in Nat /\ j + (d - 1) + 1 = j + d
    BY <2>1, <2>2
  <2>4. PICK q \in Nat \ {0} : Pow(j + (d-1)) = q * Pow(j)
    BY <2>3
  <2>5. Pow(j + (d-1) + 1) = 2 * Pow(j + (d-1))
    BY <2>3, PowFacts
  <2>6. PICK p \in Nat : p = Pow(j)
    BY PowFacts
  <2>7. Pow(j + d) = 2 * (q * p)
    BY <2>3, <2>4, <2>5, <2>6, Zenon
  <2>8. 2 * (q * p) = (2 * q) * p /\ 2 * q \in Nat \ {0}
    BY <2>6
  <2>9. Pow(j + d) = (2 * q) * Pow(j)
    BY <2>6, <2>7, <2>8, Zenon
  <2> QED BY <2>1, <2>8, <2>9
<1>2. CASE Bad = {}
  <2>1. k - j \in Nat /\ j + (k - j) = k
    OBVIOUS
  <2> QED BY <1>2, <2>1
<1> QED BY <1>1, <1>2

LEMMA PowGrows ==
  ASSUME NEW j \in Nat, NEW k \in Nat
  PROVE  /\ j <= k => Pow(j) <= Pow(k)
         /\ j < k => 2 * Pow(j) <= Pow(k)
         /\ Pow(j) = Pow(k) => j = k
PROOF
<1>1. ASSUME NEW a \in Nat, NEW c \in Nat, a <= c PROVE Pow(a) <= Pow(c)
  <2>1. PICK q \in Nat \ {0} : Pow(c) = q * Pow(a)
    BY <1>1, PowMultiple
  <2>2. PICK p \in Nat : p = Pow(a)
    BY PowFacts
  <2>3. q * p >= p
    BY <2>2
  <2> QED BY <2>1, <2>2, <2>3
<1>2. ASSUME NEW a \in Nat, NEW c \in Nat, a < c PROVE 2 * Pow(a) <= Pow(c)
  <2>1. a + 1 \in Nat /\ a + 1 <= c /\ Pow(a+1) = 2 * Pow(a)
    BY <1>2, PowFacts
  <2>2. Pow(a+1) <= Pow(c)
    BY <1>1, <2>1
  <2> QED BY <2>1, <2>2
<1>3. Pow(j) \in Nat /\ Pow(j) > 0 /\ Pow(k) \in Nat /\ Pow(k) > 0
  BY PowFacts
<1>4. Pow(j) = Pow(k) => j = k
  <2>1. CASE j < k
    BY <1>2, <1>3, <2>1
  <2>2. CASE k < j
    BY <1>2, <1>3, <2>2
  <2> QED BY <2>1, <2>2
<1> QED BY <1>1, <1>2, <1>4

-----------------------------------------------------------------------------
(* Addresses that a block of an order may have.                             *)

Aligned(a, k) == \E m \in Nat : a = m * Pow(k)

LEMMA AlignedFacts ==
  ASSUME NEW a, NEW k \in Nat, Aligned(a, k)
  PROVE  a \in Nat /\ \A j \in Nat : j <= k => Aligned(a, j)
PROOF
<1>1. PICK m \in Nat : a = m * Pow(k)
  BY DEF Aligned
<1>2. ASSUME NEW j \in Nat, j <= k PROVE Aligned(a, j)
  <2>1. PICK q \in Nat \ {0} : Pow(k) = q * Pow(j)
    BY <1>2, PowMultiple
  <2>2. PICK p \in Nat : p = Pow(j)
    BY PowFacts
  <2>3. a = m * (q * p)
    BY <1>1, <2>1, <2>2, Zenon
  <2>4. m * (q * p) = (m * q) * p /\ m * q \in Nat
    BY <2>2
  <2> QED BY <2>2, <2>3, <2>4 DEF Aligned
<1>3. a \in Nat
  BY <1>1, PowFacts
<1> QED BY <1>2, <1>3

\* Two multiples of p are p apart, or the same.
LEMMA Multiples ==
  ASSUME NEW p \in Nat, NEW m \in Nat, NEW n \in Nat, m < n
  PROVE  m * p + p <= n * p
PROOF
<1>1. PICK d \in Nat : n = m + 1 + d
  <2>1. n - m - 1 \in Nat /\ n = m + 1 + (n - m - 1)
    OBVIOUS
  <2> QED BY <2>1
<1>2. (m + 1 + d) * p = m * p + p + d * p
  OBVIOUS
<1>3. d * p >= 0
  OBVIOUS
<1>4. m * p \in Nat /\ d * p \in Nat
  OBVIOUS
<1> QED BY <1>1, <1>2, <1>3, <1>4

\* The smaller of two blocks is inside the larger, or they are apart.
LEMMA Dyadic ==
  ASSUME NEW j \in Nat, NEW k \in Nat, j <= k, NEW a, NEW b, Aligned(a, j), Aligned(b, k)
  PROVE  \/ a + Pow(j) <= b
         \/ b + Pow(k) <= a
         \/ b <= a /\ a + Pow(j) <= b + Pow(k)
PROOF
<1>1. PICK p \in Nat : p = Pow(j) /\ p > 0
  BY PowFacts
<1>2. PICK q \in Nat \ {0} : Pow(k) = q * p
  BY <1>1, PowMultiple
<1>3. PICK m \in Nat : a = m * p
  BY <1>1 DEF Aligned
<1>4. PICK n \in Nat : b = n * p
  <2>1. Aligned(b, j)
    BY AlignedFacts
  <2> QED BY <1>1, <2>1 DEF Aligned
<1>5. n + q \in Nat /\ (n + q) * p = n * p + q * p /\ n * p \in Nat /\ q * p \in Nat /\ m * p \in Nat
  BY <1>1
<1>6. CASE m < n
  BY <1>1, <1>3, <1>4, <1>6, Multiples
<1>7. CASE n + q <= m
  <2>1. (n + q) * p <= m * p
    <3>1. CASE n + q = m
      BY <1>1, <3>1
    <3>2. CASE n + q < m
      <4>1. (n + q) * p + p <= m * p
        BY <1>1, <1>5, <3>2, Multiples
      <4> QED BY <1>1, <1>5, <4>1
    <3> QED BY <1>5, <1>7, <3>1, <3>2
  <2> QED BY <1>2, <1>3, <1>4, <1>5, <2>1
<1>8. CASE n <= m /\ m < n + q
  <2>1. m * p + p <= (n + q) * p
    BY <1>1, <1>5, <1>8, Multiples
  <2>2. n * p <= m * p
    <3>1. CASE n = m
      BY <1>1, <3>1
    <3>2. CASE n < m
      <4>1. n * p + p <= m * p
        BY <1>1, <3>2, Multiples
      <4> QED BY <1>1, <1>5, <4>1
    <3> QED BY <1>8, <3>1, <3>2
  <2> QED BY <1>1, <1>2, <1>3, <1>4, <1>5, <2>1, <2>2
<1> QED BY <1>6, <1>7, <1>8

LEMMA Quotient ==
  ASSUME NEW p \in Nat \ {0}, NEW m \in Nat
  PROVE  (m * p) \div p = m
PROOF
<1>1. m * p \in Int /\ p \in Int /\ p > 0
  OBVIOUS
<1>2. PICK d \in Int : d = (m * p) \div p
  BY <1>1
<1>3. PICK r \in Int : r = (m * p) % p /\ 0 <= r /\ r < p
  BY <1>1
<1>4. m * p = p * d + r
  BY <1>1, <1>2, <1>3
<1>5. (m - d) * p = r
  BY <1>4
<1>6. m - d = 0
  <2>1. CASE m - d > 0
    <3>1. PICK e \in Nat : m - d = e + 1
      <4>1. m - d - 1 \in Nat
        BY <2>1
      <4> QED BY <4>1
    <3>2. (e + 1) * p = e * p + p /\ e * p >= 0
      OBVIOUS
    <3> QED BY <1>3, <1>5, <3>1, <3>2
  <2>2. CASE m - d < 0
    <3>1. PICK e \in Nat : m - d = -(e + 1)
      <4>1. d - m - 1 \in Nat
        BY <2>2
      <4> QED BY <4>1
    <3>2. (-(e + 1)) * p = -(e * p) - p /\ e * p >= 0
      OBVIOUS
    <3> QED BY <1>3, <1>5, <3>1, <3>2
  <2> QED BY <2>1, <2>2
<1> QED BY <1>2, <1>6

\* p is where the block begins that two buddies of order k come from.
LEMMA Halves ==
  ASSUME NEW p, NEW k \in Nat, Aligned(p, k+1)
  PROVE  /\ Aligned(p, k) /\ Aligned(p + Pow(k), k)
         /\ Bud!Buddy(p, Pow(k)) = p + Pow(k)
         /\ Bud!Buddy(p + Pow(k), Pow(k)) = p
PROOF
<1>1. PICK s \in Nat \ {0} : s = Pow(k)
  BY PowFacts
<1>2. Pow(k+1) = 2 * s
  BY <1>1, PowFacts
<1>3. PICK m \in Nat : p = m * (2 * s)
  BY <1>2 DEF Aligned
<1>4. /\ p = (2 * m) * s /\ p + s = (2 * m + 1) * s
      /\ 2 * m \in Nat /\ 2 * m + 1 \in Nat
  BY <1>3
<1>5. Aligned(p, k) /\ Aligned(p + s, k)
  BY <1>1, <1>4 DEF Aligned
<1>6. p \div s = 2 * m /\ (p + s) \div s = 2 * m + 1
  BY <1>4, Quotient
<1>7. (2 * m) % 2 = 0 /\ (2 * m + 1) % 2 = 1
  OBVIOUS
<1>8. p \in Nat /\ (p + s) - s = p
  BY <1>3
<1>9. Bud!Buddy(p, s) = p + s
  BY <1>6, <1>7, Zenon DEF Bud!Buddy
<1>10. Bud!Buddy(p + s, s) = (p + s) - s
  <2>1. (2 * m + 1) % 2 # 0
    BY <1>7
  <2>2. PICK q : q = p + s
    OBVIOUS
  <2>3. (q \div s) % 2 # 0
    BY <1>6, <2>1, <2>2, Zenon
  <2>4. Bud!Buddy(q, s) = q - s
    BY <2>3 DEF Bud!Buddy
  <2> QED BY <2>2, <2>4, Zenon
<1> QED BY <1>1, <1>5, <1>8, <1>9, <1>10, Zenon

LEMMA HasParent ==
  ASSUME NEW b, NEW k \in Nat, Aligned(b, k)
  PROVE  \E p : Aligned(p, k+1) /\ (b = p \/ b = p + Pow(k))
PROOF
<1>1. PICK s \in Nat \ {0} : s = Pow(k)
  BY PowFacts
<1>2. Pow(k+1) = 2 * s
  BY <1>1, PowFacts
<1>3. PICK m \in Nat : b = m * s
  BY <1>1 DEF Aligned
<1>4. PICK j \in Nat : m = 2 * j \/ m = 2 * j + 1
  <2>1. m = 2 * (m \div 2) + (m % 2) /\ m % 2 \in 0..1 /\ m \div 2 \in Nat
    OBVIOUS
  <2> QED BY <2>1
<1>5. Aligned(j * (2 * s), k+1)
  BY <1>2 DEF Aligned
<1>6. m = 2 * j => b = j * (2 * s)
  BY <1>3
<1>7. m = 2 * j + 1 => b = j * (2 * s) + s
  BY <1>3
<1> QED BY <1>1, <1>4, <1>5, <1>6, <1>7

-----------------------------------------------------------------------------
(* The blocks sz tells of: they begin where blocks of their order may, and  *)
(* tile the heap.                                                           *)

Blocks(sz) == {b \in Bud!Addr : sz[b] > 0}

IsBlock(sz, b, k) == k \in Bud!Order /\ sz[b] = Pow(k) /\ Aligned(b, k)

Tiling(sz) ==
  /\ \A a \in Bud!Addr : sz[a] = 0 \/ \E k : IsBlock(sz, a, k)
  /\ \A b, c \in Blocks(sz) : b < c => b + sz[b] <= c
  /\ \A w \in Bud!Addr : \E b \in Blocks(sz) : b <= w /\ w < b + sz[b]

\* A run of words where a block may be
Slot(a, k) == k \in Bud!Order /\ Aligned(a, k) /\ a \in Nat /\ a + Pow(k) <= Pow(Top)

LEMMA HeapIs ==
  ASSUME Top \in Nat
  PROVE  /\ Bud!HeapSize = Pow(Top) /\ Bud!Addr = 0..Pow(Top)-1 /\ Bud!Order = 0..Top
         /\ Pow(Top) \in Nat /\ Pow(Top) > 0 /\ Bud!Null = -1 /\ Bud!Null \notin Bud!Addr
         /\ 0 \in Bud!Addr /\ Aligned(0, Top)
PROOF
<1>1. Bud!HeapSize = Pow(Top) /\ Bud!Addr = 0..Pow(Top)-1 /\ Bud!Order = 0..Top /\ Bud!Null = -1
  BY DEF Bud!HeapSize, Bud!Addr, Bud!Order, Bud!Null, Pow
<1>2. PICK n \in Nat : n = Pow(Top) /\ n > 0
  BY PowFacts
<1>3. 0 = 0 * n
  OBVIOUS
<1> QED BY <1>1, <1>2, <1>3 DEF Aligned

LEMMA InHeap ==
  ASSUME Top \in Nat, NEW a \in Bud!Addr, NEW k \in Bud!Order, Aligned(a, k)
  PROVE  Slot(a, k)
PROOF
<1>1. a \in 0..Pow(Top)-1 /\ k \in 0..Top /\ Pow(Top) \in Nat /\ Aligned(0, Top)
  BY HeapIs
<1>2. k \in Nat /\ k <= Top
  BY <1>1
<1>3. \/ a + Pow(k) <= 0 \/ 0 + Pow(Top) <= a
      \/ 0 <= a /\ a + Pow(k) <= 0 + Pow(Top)
  BY <1>1, <1>2, Dyadic
<1>4. Pow(k) \in Nat /\ Pow(k) > 0
  BY <1>2, PowFacts
<1> QED BY <1>1, <1>3, <1>4 DEF Slot

LEMMA BlockFacts ==
  ASSUME Top \in Nat, NEW sz, Tiling(sz), NEW b \in Blocks(sz)
  PROVE  /\ b \in Bud!Addr /\ b \in Nat /\ sz[b] \in Nat /\ sz[b] > 0
         /\ \E k : k \in Nat /\ IsBlock(sz, b, k) /\ Slot(b, k)
PROOF
<1>1. b \in Bud!Addr /\ sz[b] > 0
  BY DEF Blocks
<1>2. PICK k : IsBlock(sz, b, k)
  <2>1. sz[b] # 0
    BY <1>1
  <2> QED BY <1>1, <2>1 DEF Tiling
<1>3. k \in Bud!Order /\ k \in Nat /\ sz[b] = Pow(k) /\ Aligned(b, k)
  BY <1>2, HeapIs DEF IsBlock
<1>4. Slot(b, k)
  BY <1>1, <1>3, InHeap
<1>5. b \in Nat
  BY <1>3, AlignedFacts
<1>6. sz[b] \in Nat
  BY <1>3, PowFacts
<1> QED BY <1>1, <1>2, <1>3, <1>4, <1>5, <1>6

\* The block of a word of a slot is the slot's, or smaller and inside, or
\* larger and around it.
LEMMA BlockOfSlot ==
  ASSUME Top \in Nat, NEW sz, Tiling(sz), NEW b \in Blocks(sz), NEW j, IsBlock(sz, b, j),
         NEW a, NEW k, Slot(a, k), NEW w \in Nat,
         a <= w, w < a + Pow(k), b <= w, w < b + sz[b]
  PROVE  /\ j <= k => a <= b /\ b + Pow(j) <= a + Pow(k)
         /\ k <= j => b <= a /\ a + Pow(k) <= b + Pow(j)
PROOF
<1>1. j \in Nat /\ k \in Nat /\ sz[b] = Pow(j) /\ Aligned(b, j) /\ Aligned(a, k)
  BY HeapIs DEF IsBlock, Slot
<1>2. b \in Nat /\ a \in Nat /\ Pow(j) \in Nat /\ Pow(k) \in Nat
  BY <1>1, BlockFacts, PowFacts DEF Slot
<1>3. CASE j <= k
  <2>1. b + Pow(j) <= a \/ a + Pow(k) <= b \/ (a <= b /\ b + Pow(j) <= a + Pow(k))
    BY <1>1, <1>3, Dyadic
  <2>2. a <= b /\ b + Pow(j) <= a + Pow(k)
    BY <1>1, <1>2, <2>1
  <2>3. k <= j => j = k
    BY <1>1, <1>3
  <2>4. j = k => Pow(j) = Pow(k)
    OBVIOUS
  <2>5. k <= j => b <= a /\ a + Pow(k) <= b + Pow(j)
    BY <1>2, <2>2, <2>3, <2>4
  <2> QED BY <2>2, <2>5
<1>4. CASE k < j
  <2>1. a + Pow(k) <= b \/ b + Pow(j) <= a \/ (b <= a /\ a + Pow(k) <= b + Pow(j))
    BY <1>1, <1>4, Dyadic
  <2>2. b <= a /\ a + Pow(k) <= b + Pow(j)
    BY <1>1, <1>2, <2>1
  <2> QED BY <1>1, <1>4, <2>2
<1> QED BY <1>1, <1>3, <1>4

-----------------------------------------------------------------------------
(* What a tiling gives.                                                     *)

LEMMA OneBlockOnly ==
  ASSUME Top \in Nat, NEW sz, Tiling(sz), NEW b \in Blocks(sz), NEW c \in Blocks(sz),
         NEW w \in Int, b <= w, w < b + sz[b], c <= w, w < c + sz[c]
  PROVE  b = c
PROOF
<1>1. b \in Nat /\ c \in Nat /\ sz[b] \in Nat /\ sz[c] \in Nat
  BY BlockFacts
<1>2. CASE b < c
  <2>1. b + sz[b] <= c
    BY <1>2 DEF Tiling
  <2> QED BY <1>1, <2>1
<1>3. CASE c < b
  <2>1. c + sz[c] <= b
    BY <1>3 DEF Tiling
  <2> QED BY <1>1, <2>1
<1> QED BY <1>1, <1>2, <1>3

LEMMA WordInOne ==
  ASSUME Top \in Nat, NEW sz, Tiling(sz), NEW w \in Bud!Addr
  PROVE  \E b \in Blocks(sz) : {x \in Blocks(sz) : w \in x..x+sz[x]-1} = {b}
PROOF
<1>1. PICK b \in Blocks(sz) : b <= w /\ w < b + sz[b]
  BY DEF Tiling
<1>2. w \in Int
  BY HeapIs
<1>3. ASSUME NEW x \in Blocks(sz) PROVE w \in x..x+sz[x]-1 <=> x <= w /\ w < x + sz[x]
  BY <1>2, BlockFacts
<1>4. ASSUME NEW x \in Blocks(sz), w \in x..x+sz[x]-1 PROVE x = b
  BY <1>1, <1>2, <1>3, <1>4, OneBlockOnly
<1>5. w \in b..b+sz[b]-1
  BY <1>1, <1>3
<1> QED BY <1>4, <1>5

\* Two buddies
Pair(b, y, k) ==
  \E p : Slot(p, k+1) /\ ((b = p /\ y = p + Pow(k)) \/ (b = p + Pow(k) /\ y = p))

LEMMA PairFacts ==
  ASSUME Top \in Nat, NEW b, NEW y, NEW k \in Nat, Pair(b, y, k)
  PROVE  /\ b # y /\ y = Bud!Buddy(b, Pow(k)) /\ b = Bud!Buddy(y, Pow(k))
         /\ Slot(b, k) /\ Slot(y, k) /\ b \in Bud!Addr /\ y \in Bud!Addr /\ k < Top
         /\ Slot(IF y < b THEN y ELSE b, k+1)
         /\ (IF y < b THEN b ELSE y) = (IF y < b THEN y ELSE b) + Pow(k)
PROOF
<1>1. PICK p : Slot(p, k+1) /\ ((b = p /\ y = p + Pow(k)) \/ (b = p + Pow(k) /\ y = p))
  BY DEF Pair
<1>2. PICK s \in Nat \ {0} : s = Pow(k)
  BY PowFacts
<1>3. Pow(k+1) = 2 * s
  BY <1>2, PowFacts
<1>4. k + 1 \in 0..Top /\ Aligned(p, k+1) /\ p \in Nat /\ p + Pow(k+1) <= Pow(Top)
  BY <1>1, HeapIs DEF Slot
<1>5. k \in 0..Top /\ k < Top
  BY <1>4
<1>6. /\ Aligned(p, k) /\ Aligned(p + s, k)
      /\ Bud!Buddy(p, s) = p + s /\ Bud!Buddy(p + s, s) = p
  BY <1>2, <1>4, Halves
<1>7. Pow(Top) \in Nat /\ Bud!Addr = 0..Pow(Top)-1 /\ Bud!Order = 0..Top
  BY HeapIs
<1>8. p + s \in Nat /\ p + s # p /\ p < p + s /\ ~(p + s < p)
  BY <1>2, <1>4
<1>9. p + s + s <= Pow(Top) /\ p + s <= Pow(Top)
  BY <1>2, <1>3, <1>4, <1>7
<1>10. Slot(p, k) /\ Slot(p + s, k)
  BY <1>2, <1>4, <1>5, <1>6, <1>7, <1>8, <1>9 DEF Slot
<1>11. p \in Bud!Addr /\ p + s \in Bud!Addr
  BY <1>2, <1>4, <1>7, <1>8, <1>9
<1>12. CASE b = p /\ y = p + s
  <2>1. (IF y < b THEN y ELSE b) = p /\ (IF y < b THEN b ELSE y) = p + s
    BY <1>8, <1>12, Zenon
  <2> QED BY <1>1, <1>2, <1>5, <1>6, <1>8, <1>10, <1>11, <1>12, <2>1, Zenon
<1>13. CASE b = p + s /\ y = p
  <2>1. (IF y < b THEN y ELSE b) = p /\ (IF y < b THEN b ELSE y) = p + s
    BY <1>8, <1>13, Zenon
  <2> QED BY <1>1, <1>2, <1>5, <1>6, <1>8, <1>10, <1>11, <1>13, <2>1, Zenon
<1> QED BY <1>1, <1>2, <1>12, <1>13

\* The buddy of a block begins with a header, and is no larger.
LEMMA BuddyIsBlock ==
  ASSUME Top \in Nat, NEW sz, Tiling(sz), NEW b \in Blocks(sz),
         NEW k \in Nat, IsBlock(sz, b, k), k < Top
  PROVE  /\ Pair(b, Bud!Buddy(b, Pow(k)), k)
         /\ Bud!Buddy(b, Pow(k)) \in Blocks(sz)
         /\ sz[Bud!Buddy(b, Pow(k))] <= Pow(k)
PROOF
<1>1. PICK s \in Nat \ {0} : s = Pow(k)
  BY PowFacts
<1>2. Pow(k+1) = 2 * s
  BY <1>1, PowFacts
<1>3. PICK p : Aligned(p, k+1) /\ (b = p \/ b = p + s)
  <2>1. Aligned(b, k)
    BY DEF IsBlock
  <2> QED BY <1>1, <2>1, HasParent
<1>4. p \in Nat
  BY <1>3, AlignedFacts
<1>5. b \in Bud!Addr /\ sz[b] = s
  BY <1>1, BlockFacts DEF IsBlock
<1>6. Slot(p, k+1)
  <2>1. Bud!Addr = 0..Pow(Top)-1 /\ Bud!Order = 0..Top
    BY HeapIs
  <2>2. p \in Bud!Addr
    <3>1. PICK t \in Nat : t = Pow(Top)
      BY HeapIs
    <3>2. b \in 0..t-1 /\ p <= b
      BY <1>3, <1>4, <1>5, <2>1, <3>1
    <3> QED BY <1>4, <2>1, <3>1, <3>2
  <2>3. k + 1 \in Bud!Order
    BY <2>1
  <2> QED BY <1>3, <2>2, <2>3, InHeap
<1>7. PICK y : y = Bud!Buddy(b, s)
  OBVIOUS
<1>8. (b = p /\ y = p + s) \/ (b = p + s /\ y = p)
  BY <1>1, <1>3, <1>7, Halves
<1>9. Pair(b, y, k)
  BY <1>1, <1>6, <1>8 DEF Pair
<1>10. Slot(y, k) /\ y \in Bud!Addr /\ y \in Nat
  BY <1>9, PairFacts DEF Slot
<1>11. PICK c \in Blocks(sz) : c <= y /\ y < c + sz[c]
  BY <1>10 DEF Tiling
<1>12. PICK j : j \in Nat /\ IsBlock(sz, c, j)
  BY BlockFacts
<1>13. c \in Nat /\ sz[c] = Pow(j) /\ Pow(j) \in Nat
  BY <1>12, BlockFacts, PowFacts DEF IsBlock
<1>14. y < y + s /\ p <= y /\ y < p + 2 * s /\ b \in Nat /\ p <= b /\ b < p + 2 * s
  BY <1>1, <1>4, <1>8
<1>15. CASE j <= k
  <2>1. y <= c
    BY <1>1, <1>10, <1>11, <1>12, <1>14, <1>15, BlockOfSlot
  <2>2. c = y
    BY <1>10, <1>11, <1>13, <2>1
  <2>3. Pow(j) <= Pow(k)
    BY <1>12, <1>15, PowGrows
  <2> QED BY <1>1, <1>7, <1>9, <1>11, <1>13, <2>2, <2>3
<1>16. CASE k < j
  <2>1. k + 1 <= j
    BY <1>12, <1>16
  <2>2. c <= p /\ p + Pow(k+1) <= c + Pow(j)
    BY <1>2, <1>6, <1>10, <1>11, <1>12, <1>14, <2>1, BlockOfSlot
  <2>3. c <= b /\ b < c + sz[c]
    BY <1>1, <1>2, <1>4, <1>13, <1>14, <2>2
  <2>4. b <= b /\ b < b + sz[b]
    BY <1>1, <1>5, <1>14
  <2>5. b = c
    BY <1>11, <1>14, <2>3, <2>4, OneBlockOnly
  <2>6. Pow(j) = Pow(k)
    BY <1>1, <1>5, <1>13, <2>5
  <2> QED BY <1>12, <1>16, <2>6, PowGrows
<1> QED BY <1>12, <1>15, <1>16

-----------------------------------------------------------------------------
(* malloc() finds room if there is any.                                     *)

\* Of two buddies one at most is in F.
NoPair(sz, F) == \A k \in Nat : \A b, y \in F : Pair(b, y, k) => ~(sz[b] = Pow(k) /\ sz[y] = Pow(k))

\* No block that is not in F has a word of the slot.
RunFree(sz, F, a, k) ==
  \A b \in Blocks(sz) \ F : b + sz[b] <= a \/ a + Pow(k) <= b

LEMMA RunInOne ==
  ASSUME Top \in Nat, NEW sz, Tiling(sz), NEW F \in SUBSET Blocks(sz), NoPair(sz, F),
         NEW k0 \in Nat, NEW a0, Slot(a0, k0), RunFree(sz, F, a0, k0)
  PROVE  \E b \in F : b <= a0 /\ a0 + Pow(k0) <= b + sz[b]
PROOF
<1> DEFINE Inside(a, k) == \E b \in F : b <= a /\ a + Pow(k) <= b + sz[b]
           Bad == {k \in Nat : \E a : Slot(a, k) /\ RunFree(sz, F, a, k) /\ ~Inside(a, k)}
<1>1. CASE Bad # {}
  <2>1. PICK k \in Bad : \A m \in Bad : k <= m
    BY <1>1, LeastOfSome
  <2>2. PICK a : Slot(a, k) /\ RunFree(sz, F, a, k) /\ ~Inside(a, k)
    BY <2>1
  <2>3. k \in Nat /\ k \in 0..Top /\ a \in Nat /\ Aligned(a, k) /\ a + Pow(k) <= Pow(Top)
        /\ Pow(Top) \in Nat /\ Bud!Addr = 0..Pow(Top)-1
    BY <2>2, HeapIs DEF Slot
  <2>4. Pow(k) \in Nat /\ Pow(k) > 0
    BY <2>3, PowFacts
  <2>5. a \in Bud!Addr
    BY <2>3, <2>4
  <2>6. PICK c \in Blocks(sz) : c <= a /\ a < c + sz[c]
    BY <2>5 DEF Tiling
  <2>7. PICK j : j \in Nat /\ IsBlock(sz, c, j)
    BY BlockFacts
  <2>8. c \in Nat /\ sz[c] = Pow(j) /\ Pow(j) \in Nat /\ Pow(j) > 0
    BY <2>7, BlockFacts, PowFacts DEF IsBlock
  <2>9. c \in F
    <3>1. ~(c + sz[c] <= a) /\ ~(a + Pow(k) <= c)
      BY <2>3, <2>4, <2>6, <2>8
    <3> QED BY <2>2, <2>6, <3>1 DEF RunFree
  <2>10. a <= a /\ a < a + Pow(k)
    BY <2>3, <2>4
  <2>11. j < k
    <3>1. CASE k <= j
      <4>1. c <= a /\ a + Pow(k) <= c + Pow(j)
        BY <2>2, <2>3, <2>6, <2>7, <2>10, <3>1, BlockOfSlot
      <4> QED BY <2>2, <2>8, <2>9, <4>1
    <3> QED BY <2>3, <2>7, <3>1
  <2>12. k - 1 \in Nat /\ k - 1 + 1 = k
    BY <2>3, <2>7, <2>11
  <2>13. PICK i \in Nat : i = k - 1
    BY <2>12
  <2>14. k = i + 1 /\ i < Top
    BY <2>3, <2>12, <2>13
  <2>15. PICK s \in Nat \ {0} : s = Pow(i)
    BY PowFacts
  <2>16. Pow(k) = 2 * s
    BY <2>14, <2>15, PowFacts
  <2>17. Pair(a, a + s, i)
    BY <2>2, <2>14, <2>15 DEF Pair
  <2>18. Slot(a, i) /\ Slot(a + s, i)
    BY <2>17, PairFacts
  <2>19. RunFree(sz, F, a, i) /\ RunFree(sz, F, a + s, i)
    <3>1. ASSUME NEW b \in Blocks(sz) \ F
          PROVE  (b + sz[b] <= a \/ a + Pow(i) <= b) /\ (b + sz[b] <= a + s \/ a + s + Pow(i) <= b)
      <4>1. b + sz[b] <= a \/ a + Pow(k) <= b
        BY <2>2 DEF RunFree
      <4>2. b \in Nat /\ sz[b] \in Nat
        BY BlockFacts
      <4>3. PICK e \in Nat : e = b + sz[b]
        BY <4>2
      <4>4. e <= a \/ a + 2 * s <= b
        BY <2>16, <4>1, <4>3
      <4>5. (e <= a \/ a + s <= b) /\ (e <= a + s \/ a + s + s <= b)
        BY <2>3, <4>2, <4>3, <4>4
      <4> QED BY <2>15, <4>3, <4>5
    <3> QED BY <3>1 DEF RunFree
  <2>20. i \notin Bad
    BY <2>1, <2>3, <2>13, <2>14
  <2>21. Inside(a, i) /\ Inside(a + s, i)
    BY <2>18, <2>19, <2>20
  <2>22. ASSUME NEW x \in Nat, NEW b \in F, b <= x, x + Pow(i) <= b + sz[b],
                x = a \/ x = a + s
         PROVE  b = x /\ sz[b] = Pow(i)
    <3>1. PICK m : m \in Nat /\ IsBlock(sz, b, m)
      BY BlockFacts
    <3>2. b \in Nat /\ b \in Blocks(sz) /\ sz[b] = Pow(m) /\ Pow(m) \in Nat
      BY <3>1, BlockFacts, PowFacts DEF IsBlock
    <3>3. b <= x /\ x < b + sz[b] /\ a <= x /\ x < a + Pow(k)
      <4>1. PICK e \in Nat : e = b + sz[b]
        BY <3>2
      <4>2. x + s <= e /\ a + 2 * s = a + Pow(k)
        BY <2>15, <2>16, <2>22, <4>1
      <4>3. x < e /\ a <= x /\ x < a + 2 * s
        BY <2>3, <2>22, <4>2
      <4> QED BY <2>22, <4>1, <4>2, <4>3
    <3>4. m < k
      <4>1. CASE k <= m
        <5>1. b <= a /\ a + Pow(k) <= b + Pow(m)
          BY <2>2, <2>3, <3>1, <3>2, <3>3, <4>1, BlockOfSlot
        <5> QED BY <2>2, <2>22, <3>2, <5>1
      <4> QED BY <2>3, <3>1, <4>1
    <3>5. m <= i
      BY <2>14, <3>1, <3>4
    <3>6. Pow(m) <= Pow(i)
      BY <3>1, <3>5, PowGrows
    <3> QED BY <2>15, <2>22, <3>2, <3>6
  <2>23. a \in Nat /\ a + s \in Nat
    BY <2>3
  <2>24. a \in F /\ sz[a] = Pow(i) /\ a + s \in F /\ sz[a + s] = Pow(i)
    <3>1. PICK b \in F : b <= a /\ a + Pow(i) <= b + sz[b]
      BY <2>21
    <3>2. PICK d \in F : d <= a + s /\ a + s + Pow(i) <= d + sz[d]
      BY <2>21
    <3>3. b = a /\ sz[b] = Pow(i)
      BY <2>22, <2>23, <3>1
    <3>4. d = a + s /\ sz[d] = Pow(i)
      BY <2>22, <2>23, <3>2
    <3> QED BY <3>3, <3>4
  <2> QED BY <2>17, <2>24 DEF NoPair
<1>2. CASE Bad = {}
  BY <1>2
<1> QED BY <1>1, <1>2

-----------------------------------------------------------------------------
(* A free list: the blocks of S, linked from front on in the order of their  *)
(* ranks, the highest first.                                                *)

IsTop(S, rk, x) == (S = {} /\ x = Bud!Null) \/ (x \in S /\ \A y \in S : rk[y] <= rk[x])

Below(S, rk, b) == {x \in S : rk[x] < rk[b]}

Linked(S, rk, front, nx) ==
  /\ S \subseteq Bud!Addr
  /\ \A x \in S : rk[x] \in Nat
  /\ \A x, y \in S : rk[x] = rk[y] => x = y
  /\ IsTop(S, rk, front)
  /\ \A b \in S : IsTop(Below(S, rk, b), rk, nx[b])

\* What next leads to
LEMMA NextIs ==
  ASSUME NEW S, NEW rk, NEW front, NEW nx, Linked(S, rk, front, nx), NEW b \in S
  PROVE  \/ nx[b] = Bud!Null /\ \A y \in S : ~(rk[y] < rk[b])
         \/ /\ nx[b] \in S /\ rk[nx[b]] < rk[b]
            /\ \A y \in S : rk[y] < rk[b] => rk[y] <= rk[nx[b]]
PROOF
  BY DEF Linked, IsTop, Below

\* Every block but the first has one before it, and only one.
LEMMA BeforeIs ==
  ASSUME Top \in Nat, NEW S, NEW rk, NEW front, NEW nx, Linked(S, rk, front, nx),
         NEW x \in S, x # front
  PROVE  \E p \in S : /\ rk[x] < rk[p] /\ \A y \in S : nx[y] = x <=> y = p
PROOF
<1> DEFINE Above == {rk[y] : y \in {z \in S : rk[x] < rk[z]}}
<1>1. /\ \A y \in S : rk[y] \in Nat
      /\ \A y, z \in S : rk[y] = rk[z] => y = z
  BY DEF Linked
<1>2. front \in S /\ rk[x] <= rk[front]
  BY DEF Linked, IsTop
<1>3. rk[x] < rk[front]
  BY <1>1, <1>2
<1>4. Above # {} /\ Above \in SUBSET Nat
  BY <1>1, <1>2, <1>3
<1>5. PICK n \in Above : \A m \in Above : n <= m
  BY <1>4, LeastOfSome
<1>6. PICK p \in S : rk[x] < rk[p] /\ n = rk[p]
  BY <1>5
<1>7. nx[p] = x
  <2>1. /\ nx[p] \in S /\ rk[nx[p]] < rk[p] /\ rk[x] <= rk[nx[p]]
    BY <1>6, NextIs
  <2>2. ~(rk[x] < rk[nx[p]])
    <3>1. CASE rk[x] < rk[nx[p]]
      <4>1. rk[nx[p]] \in Above
        BY <2>1, <3>1
      <4>2. n <= rk[nx[p]]
        BY <1>5, <4>1
      <4> QED BY <1>1, <1>6, <2>1, <4>2
    <3> QED BY <3>1
  <2>3. rk[x] = rk[nx[p]]
    BY <1>1, <2>1, <2>2
  <2> QED BY <1>1, <2>1, <2>3
<1>8. ASSUME NEW y \in S, nx[y] = x PROVE y = p
  <2>1. rk[x] < rk[y] /\ \A z \in S : rk[z] < rk[y] => rk[z] <= rk[x]
    <3>1. x # Bud!Null
      BY HeapIs DEF Linked
    <3> QED BY <1>8, <3>1, NextIs
  <2>2. \A z \in S : rk[z] < rk[p] => rk[z] <= rk[x]
    <3>1. x # Bud!Null
      BY HeapIs DEF Linked
    <3> QED BY <1>7, <3>1, NextIs
  <2>3. ~(rk[y] < rk[p]) /\ ~(rk[p] < rk[y])
    BY <1>1, <1>6, <2>1, <2>2
  <2> QED BY <1>1, <2>3
<1> QED BY <1>6, <1>7, <1>8

\* A block taken off
LEMMA LessOne ==
  ASSUME Top \in Nat, NEW S, NEW rk, NEW front, NEW nx, Linked(S, rk, front, nx),
         NEW x \in S, NEW head2, NEW nx2,
         head2 = IF front = x THEN nx[x] ELSE front,
         \A b \in S : b # x => nx2[b] = IF nx[b] = x THEN nx[x] ELSE nx[b]
  PROVE  Linked(S \ {x}, rk, head2, nx2)
PROOF
<1>1. /\ S \subseteq Bud!Addr /\ \A y \in S : rk[y] \in Nat
      /\ \A y, z \in S : rk[y] = rk[z] => y = z
      /\ IsTop(S, rk, front)
  BY DEF Linked
<1>2. \A y \in S : rk[y] < rk[x] \/ rk[x] < rk[y] \/ y = x
  BY <1>1
<1>3. IsTop(S \ {x}, rk, head2)
  <2>1. CASE front = x
    <3>1. \A y \in S : rk[y] <= rk[x]
      BY <1>1, <2>1 DEF IsTop
    <3>2. \A y \in S \ {x} : rk[y] < rk[x]
      BY <1>1, <1>2, <3>1
    <3>3. Below(S, rk, x) = S \ {x}
      BY <1>1, <3>2 DEF Below
    <3>4. IsTop(Below(S, rk, x), rk, nx[x])
      BY DEF Linked
    <3> QED BY <2>1, <3>3, <3>4, Zenon
  <2>2. CASE front # x
    BY <1>1, <2>2 DEF IsTop
  <2> QED BY <2>1, <2>2
<1>4. ASSUME NEW b \in S \ {x} PROVE IsTop(Below(S \ {x}, rk, b), rk, nx2[b])
  <2>1. IsTop(Below(S, rk, b), rk, nx[b])
    BY DEF Linked
  <2>2. Below(S \ {x}, rk, b) = Below(S, rk, b) \ {x}
    BY DEF Below
  <2>3. CASE nx[b] = x
    <3>1. x # Bud!Null
      BY <1>1, HeapIs
    <3>2. rk[x] < rk[b] /\ \A y \in S : rk[y] < rk[b] => rk[y] <= rk[x]
      BY <2>3, <3>1, NextIs
    <3>3. \A y \in S \ {x} : rk[y] < rk[b] <=> rk[y] < rk[x]
      BY <1>1, <1>2, <3>2
    <3>4. Below(S \ {x}, rk, b) = Below(S, rk, x)
      BY <1>1, <3>3 DEF Below
    <3>5. IsTop(Below(S, rk, x), rk, nx[x])
      BY DEF Linked
    <3>6. nx2[b] = nx[x]
      BY <2>3
    <3> QED BY <3>4, <3>5, <3>6, Zenon
  <2>4. CASE nx[b] # x
    <3>1. nx2[b] = nx[b]
      BY <2>4
    <3>2. IsTop(Below(S, rk, b) \ {x}, rk, nx[b])
      BY <2>1, <2>4 DEF IsTop
    <3> QED BY <2>2, <3>1, <3>2, Zenon
  <2> QED BY <2>3, <2>4
<1> QED BY <1>1, <1>3, <1>4 DEF Linked

\* A block put first
LEMMA OneMore ==
  ASSUME Top \in Nat, NEW S, NEW rk, NEW front, NEW nx, Linked(S, rk, front, nx),
         NEW x \in Bud!Addr, x \notin S, NEW n \in Nat, \A y \in S : rk[y] < n,
         NEW rk2, rk2[x] = n, \A y \in S : rk2[y] = rk[y],
         NEW nx2, nx2[x] = front, \A y \in S : nx2[y] = nx[y]
  PROVE  Linked(S \cup {x}, rk2, x, nx2)
PROOF
<1>1. /\ S \subseteq Bud!Addr /\ \A y \in S : rk[y] \in Nat
      /\ \A y, z \in S : rk[y] = rk[z] => y = z
      /\ IsTop(S, rk, front)
  BY DEF Linked
<1>2. \A y \in S \cup {x} : rk2[y] \in Nat
  BY <1>1
<1>3. \A y, z \in S \cup {x} : rk2[y] = rk2[z] => y = z
  BY <1>1
<1>4. IsTop(S \cup {x}, rk2, x)
  BY <1>1 DEF IsTop
<1>5. Below(S \cup {x}, rk2, x) = S
  BY <1>1 DEF Below
<1>6. IsTop(S, rk2, front)
  BY <1>1 DEF IsTop
<1>7. ASSUME NEW b \in S PROVE IsTop(Below(S \cup {x}, rk2, b), rk2, nx2[b])
  <2>1. Below(S \cup {x}, rk2, b) = Below(S, rk, b)
    BY <1>1 DEF Below
  <2>2. IsTop(Below(S, rk, b), rk, nx[b])
    BY DEF Linked
  <2>3. IsTop(Below(S, rk, b), rk2, nx[b])
    BY <2>2 DEF IsTop, Below
  <2>4. nx2[b] = nx[b]
    OBVIOUS
  <2> QED BY <2>1, <2>3, <2>4, Zenon
<1>8. \A b \in S \cup {x} : IsTop(Below(S \cup {x}, rk2, b), rk2, nx2[b])
  <2>1. nx2[x] = front
    OBVIOUS
  <2>2. IsTop(Below(S \cup {x}, rk2, x), rk2, nx2[x])
    BY <1>5, <1>6, <2>1, Zenon
  <2> QED BY <1>7, <2>2, Zenon
<1> QED BY <1>1, <1>2, <1>3, <1>4, <1>8 DEF Linked

\* The links of other blocks do not matter.
LEMMA SameLinks ==
  ASSUME NEW S, NEW rk, NEW front, NEW nx, Linked(S, rk, front, nx),
         NEW rk2, \A y \in S : rk2[y] = rk[y], NEW nx2, \A y \in S : nx2[y] = nx[y]
  PROVE  Linked(S, rk2, front, nx2)
PROOF
<1>1. /\ S \subseteq Bud!Addr /\ \A y \in S : rk[y] \in Nat
      /\ \A y, z \in S : rk[y] = rk[z] => y = z
      /\ IsTop(S, rk, front)
  BY DEF Linked
<1>2. IsTop(S, rk2, front)
  BY <1>1 DEF IsTop
<1>3. ASSUME NEW b \in S PROVE IsTop(Below(S, rk2, b), rk2, nx2[b])
  <2>1. Below(S, rk2, b) = Below(S, rk, b)
    BY <1>1 DEF Below
  <2>2. IsTop(Below(S, rk, b), rk, nx[b])
    BY DEF Linked
  <2>3. IsTop(Below(S, rk, b), rk2, nx[b])
    BY <2>2 DEF IsTop, Below
  <2>4. nx2[b] = nx[b]
    OBVIOUS
  <2> QED BY <2>1, <2>3, <2>4, Zenon
<1> QED BY <1>1, <1>2, <1>3 DEF Linked

-----------------------------------------------------------------------------
(* The blocks that are met on a list are those of S.                        *)

Links(S, nx) == {nx[b] : b \in S \ {Bud!Null}}

IsMet(f, nx, first, n) == f = [i \in 0..n |-> IF i = 0 THEN {first} ELSE Links(f[i-1], nx)]

LEMMA MetExists ==
  ASSUME NEW nx, NEW first, NEW n \in Nat
  PROVE  \E f : IsMet(f, nx, first, n)
PROOF
<1> DEFINE Bad == {m \in Nat : ~\E f : IsMet(f, nx, first, m)}
<1>1. CASE Bad # {}
  <2>1. PICK m \in Bad : \A k \in Bad : m <= k
    BY <1>1, LeastOfSome
  <2>2. m # 0
    <3>1. PICK f : f = [i \in 0..0 |-> {first}]
      OBVIOUS
    <3>2. IsMet(f, nx, first, 0)
      BY <3>1 DEF IsMet
    <3> QED BY <2>1, <3>2
  <2>3. m - 1 \in Nat /\ m - 1 \notin Bad
    BY <2>1, <2>2
  <2>4. PICK g : IsMet(g, nx, first, m - 1)
    BY <2>3
  <2>5. \A i \in 0..m-1 : g[i] = IF i = 0 THEN {first} ELSE Links(g[i-1], nx)
    BY <2>4 DEF IsMet
  <2>6. PICK f : f = [i \in 0..m |-> IF i = m THEN Links(g[m-1], nx) ELSE g[i]]
    OBVIOUS
  <2>7. \A i \in 0..m : f[i] = IF i = 0 THEN {first} ELSE Links(f[i-1], nx)
    <3>1. ASSUME NEW i \in 0..m PROVE f[i] = IF i = 0 THEN {first} ELSE Links(f[i-1], nx)
      <4>1. CASE i = m
        <5>1. i # 0 /\ f[i] = Links(g[i-1], nx)
          BY <2>2, <2>6, <4>1
        <5>2. i - 1 \in 0..m /\ i - 1 # m
          BY <2>3, <4>1
        <5>3. f[i-1] = g[i-1]
          BY <2>6, <5>2
        <5> QED BY <5>1, <5>3, Zenon
      <4>2. CASE i # m
        <5>1. i \in 0..m-1
          BY <2>1, <4>2
        <5>2. f[i] = g[i]
          BY <2>6, <4>2
        <5>3. CASE i = 0
          BY <2>5, <5>1, <5>2, <5>3
        <5>4. CASE i # 0
          <6>1. i - 1 \in 0..m /\ i - 1 # m
            BY <5>1, <5>4
          <6>2. f[i-1] = g[i-1]
            BY <2>6, <6>1
          <6>3. g[i] = Links(g[i-1], nx)
            BY <2>5, <5>1, <5>4
          <6> QED BY <5>2, <5>4, <6>2, <6>3, Zenon
        <5> QED BY <5>3, <5>4
      <4> QED BY <4>1, <4>2
    <3> QED BY <3>1
  <2>8. IsMet(f, nx, first, m)
    BY <2>6, <2>7 DEF IsMet
  <2> QED BY <2>1, <2>8
<1>2. CASE Bad = {}
  BY <1>2
<1> QED BY <1>1, <1>2

\* The blocks before y in a list
Ahead(S, rk, y) == {z \in S : rk[y] < rk[z]}

LEMMA OnListIs ==
  ASSUME Top \in Nat, NEW S, NEW rk, NEW h, NEW first, Linked(S, rk, first, h.next)
  PROVE  Bud!OnListFrom(h, first) = S
PROOF
<1>1. PICK nx, n : nx = h.next /\ n = Bud!HeapSize
  OBVIOUS
<1>2. n \in Nat /\ n > 0 /\ Bud!Addr = 0..n-1 /\ Bud!Null \notin Bud!Addr
  BY <1>1, HeapIs
<1>3. PICK met : IsMet(met, nx, first, n) /\ Bud!OnListFrom(h, first) = (UNION {met[i] : i \in 0..n}) \ {Bud!Null}
  <2> DEFINE e == CHOOSE f : IsMet(f, h.next, first, Bud!HeapSize)
  <2>1. Bud!OnListFrom(h, first) = (UNION {e[i] : i \in 0..Bud!HeapSize}) \ {Bud!Null}
    BY Zenon DEF Bud!OnListFrom, IsMet, Links
  <2>2. \E f : IsMet(f, h.next, first, Bud!HeapSize)
    BY <1>1, <1>2, MetExists
  <2>3. IsMet(e, h.next, first, Bud!HeapSize)
    BY <2>2, Zenon
  <2>4. PICK f : f = e
    OBVIOUS
  <2>5. Bud!OnListFrom(h, first) = (UNION {f[i] : i \in 0..Bud!HeapSize}) \ {Bud!Null}
    BY <2>1, <2>4, Zenon
  <2>6. IsMet(f, h.next, first, Bud!HeapSize)
    BY <2>3, <2>4, Zenon
  <2>7. Bud!OnListFrom(h, first) = (UNION {f[i] : i \in 0..n}) \ {Bud!Null}
    BY <1>1, <2>5
  <2> QED BY <1>1, <2>6, <2>7
<1>4. /\ met[0] = {first}
      /\ \A i \in 1..n : met[i] = Links(met[i-1], nx)
  <2>1. PICK m : m = met
    OBVIOUS
  <2>2. m = [i \in 0..n |-> IF i = 0 THEN {first} ELSE Links(m[i-1], nx)]
    BY <1>3, <2>1 DEF IsMet
  <2>3. 0 \in 0..n /\ \A i \in 1..n : i \in 0..n /\ i # 0
    BY <1>2
  <2>4. m[0] = {first} /\ \A i \in 1..n : m[i] = Links(m[i-1], nx)
    BY <2>2, <2>3
  <2> QED BY <2>1, <2>4
<1>5. /\ S \subseteq Bud!Addr /\ \A y \in S : rk[y] \in Nat
      /\ \A y, z \in S : rk[y] = rk[z] => y = z
      /\ IsTop(S, rk, first)
  BY <1>1 DEF Linked
<1>6. IsFiniteSet(Bud!Addr) /\ Cardinality(Bud!Addr) = n
  <2>1. 0 \in Int /\ n - 1 \in Int /\ ~(0 > n - 1) /\ (n - 1) - 0 + 1 = n
    BY <1>2
  <2>2. IsFiniteSet(0..n-1) /\ Cardinality(0..n-1) = (n - 1) - 0 + 1
    BY <2>1, FS_Interval, Zenon
  <2> QED BY <1>2, <2>1, <2>2
<1> DEFINE Fine(i) == \A y \in met[i] : \/ y = Bud!Null
                                        \/ y \in S /\ Cardinality(Ahead(S, rk, y)) = i
           Bad == {i \in Nat : i <= n /\ ~Fine(i)}
<1>7. \A i \in 0..n : Fine(i)
  <2>1. CASE Bad # {}
    <3>1. PICK i \in Bad : \A j \in Bad : i <= j
      BY <2>1, LeastOfSome
    <3>2. CASE i = 0
      <4>1. CASE first \in S
        <5>1. \A z \in S : rk[z] <= rk[first]
          BY <1>5 DEF IsTop
        <5>2. Ahead(S, rk, first) = {}
          BY <1>5, <4>1, <5>1 DEF Ahead
        <5>3. Cardinality({}) = 0
          BY FS_EmptySet
        <5> QED BY <1>4, <3>1, <3>2, <4>1, <5>2, <5>3
      <4>2. CASE first = Bud!Null
        BY <1>4, <3>1, <3>2, <4>2
      <4> QED BY <1>5, <4>1, <4>2 DEF IsTop
    <3>3. CASE i # 0
      <4>1. i - 1 \in Nat /\ i - 1 <= n /\ i - 1 \notin Bad /\ i \in 1..n
        BY <1>2, <3>1, <3>3
      <4>2. Fine(i - 1)
        BY <4>1
      <4>3. ASSUME NEW y \in met[i], y # Bud!Null
            PROVE  y \in S /\ Cardinality(Ahead(S, rk, y)) = i
        <5>1. PICK b \in met[i-1] : b # Bud!Null /\ y = nx[b]
          BY <1>4, <4>1, <4>3 DEF Links
        <5>2. b \in S /\ Cardinality(Ahead(S, rk, b)) = i - 1
          BY <4>2, <5>1
        <5>3. /\ y \in S /\ rk[y] < rk[b]
              /\ \A z \in S : rk[z] < rk[b] => rk[z] <= rk[y]
          BY <1>1, <4>3, <5>1, <5>2, NextIs
        <5>4. \A z \in S : rk[y] < rk[z] <=> (rk[b] < rk[z] \/ z = b)
          BY <1>5, <5>2, <5>3
        <5>5. Ahead(S, rk, y) = Ahead(S, rk, b) \cup {b}
          BY <5>2, <5>4 DEF Ahead
        <5>6. b \notin Ahead(S, rk, b) /\ Ahead(S, rk, b) \subseteq Bud!Addr
          BY <1>5, <5>2 DEF Ahead
        <5>7. IsFiniteSet(Ahead(S, rk, b))
          BY <1>6, <5>6, FS_Subset
        <5>8. Cardinality(Ahead(S, rk, b) \cup {b}) = Cardinality(Ahead(S, rk, b)) + 1
          BY <5>6, <5>7, FS_AddElement
        <5> QED BY <4>1, <5>2, <5>3, <5>5, <5>8
      <4> QED BY <3>1, <4>3
    <3> QED BY <3>2, <3>3
  <2>2. CASE Bad = {}
    <3>1. \A i \in 0..n : i \in Nat /\ i <= n
      BY <1>2
    <3> QED BY <2>2, <3>1
  <2> QED BY <2>1, <2>2
<1> DEFINE Missed == {x \in S : \A i \in 0..n : x \notin met[i]}
<1>8. Missed = {}
  <2> SUFFICES ASSUME Missed # {} PROVE FALSE
    OBVIOUS
  <2>1. first \in S
    BY <1>5 DEF IsTop
  <2> DEFINE Depth == {rk[first] - rk[x] : x \in Missed}
  <2>2. Depth # {} /\ Depth \in SUBSET Nat
    <3>1. ASSUME NEW x \in S PROVE rk[first] - rk[x] \in Nat
      <4>1. rk[x] <= rk[first]
        BY <1>5, <2>1 DEF IsTop
      <4> QED BY <1>5, <2>1, <4>1
    <3> QED BY <3>1
  <2>3. PICK d \in Depth : \A e \in Depth : d <= e
    BY <2>2, LeastOfSome
  <2>4. PICK x \in Missed : d = rk[first] - rk[x]
    BY <2>3
  <2>5. x \in S /\ x # first
    <3>1. 0 \in 0..n /\ first \in met[0]
      BY <1>2, <1>4
    <3> QED BY <2>4, <3>1
  <2>6. PICK p \in S : rk[x] < rk[p] /\ nx[p] = x
    BY <1>1, <2>5, BeforeIs
  <2>7. p \notin Missed
    <3>1. CASE p \in Missed
      <4>1. d <= rk[first] - rk[p]
        BY <2>3, <3>1
      <4> QED BY <1>5, <2>1, <2>4, <2>5, <2>6, <4>1
    <3> QED BY <3>1
  <2>8. PICK i \in 0..n : p \in met[i]
    BY <2>6, <2>7
  <2>9. p # Bud!Null
    BY <1>2, <1>5, <2>6
  <2>10. Cardinality(Ahead(S, rk, p)) = i
    BY <1>7, <2>8, <2>9
  <2>11. i < n
    <3>1. Ahead(S, rk, p) \subseteq Bud!Addr \ {p} /\ p \in Bud!Addr
      BY <1>5, <2>6 DEF Ahead
    <3>2. /\ IsFiniteSet(Bud!Addr \ {p}) /\ Cardinality(Bud!Addr \ {p}) = n - 1
      BY <1>6, <3>1, FS_RemoveElement
    <3>3. Cardinality(Ahead(S, rk, p)) <= n - 1
      BY <3>1, <3>2, FS_Subset
    <3> QED BY <1>2, <2>10, <3>3
  <2>12. i + 1 \in 1..n /\ i + 1 \in 0..n /\ (i + 1) - 1 = i
    BY <1>2, <2>8, <2>11
  <2>13. x \in met[i + 1]
    <3>1. met[i + 1] = Links(met[i], nx)
      BY <1>4, <2>12
    <3> QED BY <2>6, <2>8, <2>9, <3>1 DEF Links
  <2> QED BY <2>4, <2>12, <2>13
<1>9. (UNION {met[i] : i \in 0..n}) \ {Bud!Null} = S
  <2>1. ASSUME NEW i \in 0..n, NEW y \in met[i], y # Bud!Null PROVE y \in S
    BY <1>7, <2>1
  <2>2. ASSUME NEW x \in S PROVE x # Bud!Null /\ \E i \in 0..n : x \in met[i]
    BY <1>2, <1>5, <1>8
  <2> HIDE DEF Missed
  <2> QED BY <2>1, <2>2
<1> QED BY <1>3, <1>9

-----------------------------------------------------------------------------
(* Free lists, whatever the ranks.                                          *)

IsList(S, front, nx) == \E rk : Linked(S, rk, front, nx)

LEMMA ListFacts ==
  ASSUME NEW S, NEW front, NEW nx, IsList(S, front, nx)
  PROVE  /\ S \subseteq Bud!Addr
         /\ S = {} => front = Bud!Null
         /\ S # {} => front \in S
PROOF
  BY DEF IsList, Linked, IsTop

LEMMA ListNil ==
  ASSUME NEW nx
  PROVE  IsList({}, Bud!Null, nx)
PROOF
  BY DEF IsList, Linked, IsTop

LEMMA ListOne ==
  ASSUME NEW x \in Bud!Addr, NEW nx, nx[x] = Bud!Null
  PROVE  IsList({x}, x, nx)
PROOF
<1>1. PICK rk : rk = [a \in Bud!Addr |-> 0]
  OBVIOUS
<1>2. rk[x] = 0
  BY <1>1
<1>3. Below({x}, rk, x) = {}
  BY <1>2 DEF Below
<1>4. Linked({x}, rk, x, nx)
  BY <1>2, <1>3 DEF Linked, IsTop
<1> QED BY <1>4, Zenon DEF IsList

LEMMA ListSame ==
  ASSUME NEW S, NEW front, NEW nx, IsList(S, front, nx), NEW nx2, \A y \in S : nx2[y] = nx[y]
  PROVE  IsList(S, front, nx2)
PROOF
<1>1. PICK rk : Linked(S, rk, front, nx)
  BY DEF IsList
<1>2. Linked(S, rk, front, nx2)
  BY <1>1, SameLinks
<1> QED BY <1>2, Zenon DEF IsList

LEMMA ListPush ==
  ASSUME Top \in Nat, NEW S, NEW front, NEW nx, IsList(S, front, nx),
         NEW x \in Bud!Addr, x \notin S,
         NEW nx2, nx2[x] = front, \A y \in S : nx2[y] = nx[y]
  PROVE  IsList(S \cup {x}, x, nx2)
PROOF
<1>1. PICK rk : Linked(S, rk, front, nx)
  BY DEF IsList
<1>2. \E n \in Nat : \A y \in S : rk[y] < n
  <2>1. CASE S = {}
    BY <2>1
  <2>2. CASE S # {}
    <3>1. front \in S /\ \A y \in S : rk[y] <= rk[front] /\ rk[y] \in Nat
      BY <1>1, <2>2 DEF Linked, IsTop
    <3>2. PICK m \in Nat : m = rk[front]
      BY <3>1
    <3>3. m + 1 \in Nat /\ \A y \in S : rk[y] < m + 1
      BY <3>1, <3>2
    <3> QED BY <3>3
  <2> QED BY <2>1, <2>2
<1>3. PICK n \in Nat : \A y \in S : rk[y] < n
  BY <1>2
<1>4. PICK rk2 : rk2 = [a \in Bud!Addr |-> IF a = x THEN n ELSE rk[a]]
  OBVIOUS
<1>5. rk2[x] = n /\ \A y \in S : rk2[y] = rk[y]
  BY <1>1, <1>4 DEF Linked
<1>6. Linked(S \cup {x}, rk2, x, nx2)
  BY <1>1, <1>3, <1>5, OneMore
<1> QED BY <1>6, Zenon DEF IsList

LEMMA ListPop ==
  ASSUME Top \in Nat, NEW S, NEW x, NEW nx, IsList(S, x, nx), x \in S
  PROVE  IsList(S \ {x}, nx[x], nx)
PROOF
<1>1. PICK rk : Linked(S, rk, x, nx)
  BY DEF IsList
<1>2. \A y \in S : rk[y] <= rk[x] /\ rk[y] \in Nat
  BY <1>1 DEF Linked, IsTop
<1>3. ASSUME NEW b \in S, nx[b] = x PROVE FALSE
  <2>1. rk[x] < rk[b]
    <3>1. x # Bud!Null
      BY <1>1, HeapIs DEF Linked
    <3> QED BY <1>1, <1>3, <3>1, NextIs
  <2> QED BY <1>2, <2>1
<1>4. \A b \in S : b # x => nx[b] = IF nx[b] = x THEN nx[x] ELSE nx[b]
  BY <1>3
<1>5. nx[x] = IF x = x THEN nx[x] ELSE x
  OBVIOUS
<1>6. Linked(S \ {x}, rk, nx[x], nx)
  BY <1>1, <1>4, <1>5, LessOne
<1> QED BY <1>6, Zenon DEF IsList

-----------------------------------------------------------------------------
(* removeFromFreeList().                                                    *)

HeapTypes(h) ==
  /\ h.freeList \in [Bud!Order -> Bud!Addr \cup {Bud!Null}]
  /\ h.next \in [Bud!Addr -> Bud!Addr \cup {Bud!Null}]
  /\ h.size \in [Bud!Addr -> Nat]
  /\ h.isFree \in [Bud!Addr -> BOOLEAN]

\* What comes of h when x is taken off the list of order o, which has the
\* blocks of S, and when it was not on it
Taken(h, x, o, S, g) ==
  /\ HeapTypes(g) /\ g.size = h.size /\ g.block = h.block
  /\ \A a \in Bud!Addr : g.isFree[a] <=> (a # x /\ h.isFree[a])
  /\ \A k \in Bud!Order : k # o => g.freeList[k] = h.freeList[k]
  /\ \A a \in Bud!Addr : a \notin S /\ a # x => g.next[a] = h.next[a]
  /\ IsList(S \ {x}, g.freeList[o], g.next)
  /\ (x \notin S \/ S = {x}) => g.next[x] = Bud!Null

LEMMA RemoveIs ==
  ASSUME Top \in Nat, NEW h, HeapTypes(h), NEW o \in Bud!Order, NEW x \in Bud!Addr,
         NEW S, IsList(S, h.freeList[o], h.next)
  PROVE  Taken(h, x, o, S, Bud!RemoveFromFreeList(h, x, o))
PROOF
<1>0. PICK rk : Linked(S, rk, h.freeList[o], h.next)
  BY DEF IsList
<1>1. PICK fl, nx, fr : fl = h.freeList /\ nx = h.next /\ fr = h.isFree
  OBVIOUS
<1>2. PICK before : before = {p \in S : nx[p] = x}
  OBVIOUS
<1>3. PICK fl2, nx2, fr2 :
        /\ fl2 = [fl EXCEPT ![o] = IF @ = x THEN nx[x] ELSE @]
        /\ nx2 = IF fl[o] = x THEN nx
                 ELSE [a \in Bud!Addr |-> IF a \in before THEN nx[x]
                                        ELSE IF a = x THEN Bud!Null ELSE nx[a]]
        /\ fr2 = [fr EXCEPT ![x] = FALSE]
  OBVIOUS
<1>4. PICK g : g = Bud!RemoveFromFreeList(h, x, o)
  OBVIOUS
<1>5. g = Bud!Heap(fl2, nx2, h.size, fr2, h.block)
  <2>1. Bud!OnListFrom(h, h.freeList[o]) = S
    BY <1>0, OnListIs
  <2>2. g = Bud!Heap([h.freeList EXCEPT ![o] = IF @ = x THEN h.next[x] ELSE @],
                   IF h.freeList[o] = x THEN h.next
                   ELSE [a \in Bud!Addr |->
                           IF a \in {p \in Bud!OnListFrom(h, h.freeList[o]) : h.next[p] = x}
                           THEN h.next[x] ELSE IF a = x THEN Bud!Null ELSE h.next[a]],
                   h.size, [h.isFree EXCEPT ![x] = FALSE], h.block)
    BY <1>4, Zenon DEF Bud!RemoveFromFreeList
  <2>3. {p \in Bud!OnListFrom(h, h.freeList[o]) : h.next[p] = x} = before
    BY <1>1, <1>2, <2>1
  <2>4. [h.freeList EXCEPT ![o] = IF @ = x THEN h.next[x] ELSE @] = fl2
    BY <1>1, <1>3
  <2>5. [h.isFree EXCEPT ![x] = FALSE] = fr2
    BY <1>1, <1>3
  <2>6. (IF h.freeList[o] = x THEN h.next
         ELSE [a \in Bud!Addr |->
                 IF a \in {p \in Bud!OnListFrom(h, h.freeList[o]) : h.next[p] = x}
                 THEN h.next[x] ELSE IF a = x THEN Bud!Null ELSE h.next[a]]) = nx2
    BY <1>1, <1>3, <2>3
  <2> QED BY <2>2, <2>4, <2>5, <2>6, Zenon
<1>6. /\ g.freeList = fl2 /\ g.next = nx2 /\ g.size = h.size /\ g.isFree = fr2
      /\ g.block = h.block
  BY <1>5 DEF Bud!Heap
<1>7. /\ fl \in [Bud!Order -> Bud!Addr \cup {Bud!Null}]
      /\ nx \in [Bud!Addr -> Bud!Addr \cup {Bud!Null}]
      /\ fr \in [Bud!Addr -> BOOLEAN] /\ h.size \in [Bud!Addr -> Nat]
  BY <1>1 DEF HeapTypes
<1>8. /\ fl2 \in [Bud!Order -> Bud!Addr \cup {Bud!Null}]
      /\ fl2[o] = IF fl[o] = x THEN nx[x] ELSE fl[o]
      /\ \A k \in Bud!Order : k # o => fl2[k] = fl[k]
  BY <1>3, <1>7
<1>9. /\ fr2 \in [Bud!Addr -> BOOLEAN]
      /\ \A a \in Bud!Addr : fr2[a] <=> (a # x /\ fr[a])
  BY <1>3, <1>7
<1>10. /\ nx2 \in [Bud!Addr -> Bud!Addr \cup {Bud!Null}]
       /\ \A a \in Bud!Addr : nx2[a] = IF fl[o] = x THEN nx[a]
                                     ELSE IF a \in before THEN nx[x]
                                     ELSE IF a = x THEN Bud!Null ELSE nx[a]
  BY <1>3, <1>7
<1>11. Linked(S, rk, fl[o], nx) /\ S \subseteq Bud!Addr /\ Bud!Null \notin Bud!Addr
  BY <1>0, <1>1, HeapIs DEF Linked
<1>12. HeapTypes(g)
  BY <1>6, <1>7, <1>8, <1>9, <1>10 DEF HeapTypes
<1>13. \A a \in Bud!Addr : a \notin S /\ a # x => nx2[a] = nx[a]
  BY <1>2, <1>10
<1>14. /\ Linked(S \ {x}, rk, fl2[o], nx2)
       /\ (x \notin S \/ S = {x}) => nx2[x] = Bud!Null
  <2>1. CASE x \in S /\ fl[o] = x
    <3>1. \A y \in S : rk[y] <= rk[x] /\ rk[y] \in Nat
      BY <1>11, <2>1 DEF Linked, IsTop
    <3>2. ASSUME NEW b \in S, nx[b] = x PROVE FALSE
      <4>1. rk[x] < rk[b]
        BY <1>11, <3>2, NextIs
      <4> QED BY <2>1, <3>1, <4>1
    <3>3. \A b \in S : b # x => nx2[b] = IF nx[b] = x THEN nx[x] ELSE nx[b]
      BY <1>10, <1>11, <2>1, <3>2
    <3>4. Linked(S \ {x}, rk, fl2[o], nx2)
      <4>1. fl2[o] = IF fl[o] = x THEN nx[x] ELSE fl[o]
        BY <1>8
      <4>2. Linked(S, rk, fl[o], nx) /\ x \in S
        BY <1>11, <2>1
      <4> QED BY <3>3, <4>1, <4>2, LessOne, Zenon
    <3>5. S = {x} => nx[x] = Bud!Null
      <4>1. nx[x] = Bud!Null \/ (nx[x] \in S /\ rk[nx[x]] < rk[x])
        BY <1>11, <2>1, NextIs
      <4>2. S = {x} => ~(nx[x] \in S /\ rk[nx[x]] < rk[x])
        BY <2>1, <3>1
      <4> QED BY <4>1, <4>2
    <3> QED BY <1>10, <2>1, <3>4, <3>5
  <2>2. CASE x \in S /\ fl[o] # x
    <3>1. PICK p \in S : rk[x] < rk[p] /\ \A y \in S : nx[y] = x <=> y = p
      BY <1>11, <2>2, BeforeIs
    <3>2. before = {p}
      BY <1>2, <3>1
    <3>3. \A b \in S : b # x => nx2[b] = IF nx[b] = x THEN nx[x] ELSE nx[b]
      BY <1>10, <1>11, <2>2, <3>1, <3>2
    <3>4. Linked(S \ {x}, rk, fl2[o], nx2)
      <4>1. fl2[o] = IF fl[o] = x THEN nx[x] ELSE fl[o]
        BY <1>8
      <4>2. Linked(S, rk, fl[o], nx) /\ x \in S
        BY <1>11, <2>2
      <4> QED BY <3>3, <4>1, <4>2, LessOne, Zenon
    <3>5. S # {x}
      <4>1. rk[x] \in Nat
        BY <1>11, <2>2 DEF Linked
      <4> QED BY <3>1, <4>1
    <3> QED BY <2>2, <3>4, <3>5
  <2>3. CASE x \notin S
    <3>1. fl[o] # x
      BY <1>11, <2>3 DEF Linked, IsTop
    <3>2. \A y \in S : nx[y] # x
      BY <1>11, <2>3, NextIs
    <3>3. before = {}
      BY <1>2, <3>2
    <3>4. \A y \in S : nx2[y] = nx[y]
      BY <1>10, <1>11, <2>3, <3>1, <3>3
    <3>5. Linked(S, rk, fl[o], nx2)
      BY <1>11, <3>4, SameLinks
    <3>6. S \ {x} = S /\ fl2[o] = fl[o]
      BY <1>8, <2>3, <3>1
    <3>7. nx2[x] = Bud!Null
      BY <1>10, <3>1, <3>3
    <3> QED BY <3>5, <3>6, <3>7
  <2> QED BY <2>1, <2>2, <2>3
<1>15. IsList(S \ {x}, g.freeList[o], g.next)
  BY <1>6, <1>14, Zenon DEF IsList
<1> QED BY <1>1, <1>4, <1>6, <1>8, <1>9, <1>12, <1>13, <1>14, <1>15, Zenon DEF Taken

-----------------------------------------------------------------------------
(* Two buddies joined, in a tiling.                                         *)

LEMMA WholeIs ==
  ASSUME Top \in Nat, NEW sz, Tiling(sz), NEW b \in Blocks(sz), sz[b] = Pow(Top)
  PROVE  b = 0 /\ Blocks(sz) = {0}
PROOF
<1>1. PICK k \in Nat : sz[b] = Pow(k) /\ b \in Nat /\ b + Pow(k) <= Pow(Top)
  BY BlockFacts DEF IsBlock, Slot
<1>2. k = Top
  BY <1>1, PowGrows
<1>3. b = 0
  BY <1>1, <1>2, HeapIs
<1>4. ASSUME NEW c \in Blocks(sz) PROVE c = 0
  <2>1. c \in 0..Pow(Top)-1
    BY HeapIs DEF Blocks
  <2>2. 0 < c => 0 + Pow(Top) <= c
    BY <1>3 DEF Tiling
  <2> QED BY <2>1, <2>2, HeapIs
<1> QED BY <1>3, <1>4

LEMMA JoinedTiling ==
  ASSUME Top \in Nat, NEW sz \in [Bud!Addr -> Nat], Tiling(sz),
         NEW k \in Nat, NEW p, Slot(p, k+1), NEW q, q = p + Pow(k),
         sz[p] = Pow(k), sz[q] = Pow(k),
         NEW sz2 \in [Bud!Addr -> Nat], sz2[p] = 2 * Pow(k), sz2[q] = 0,
         \A a \in Bud!Addr : a # p /\ a # q => sz2[a] = sz[a]
  PROVE  /\ Tiling(sz2) /\ IsBlock(sz2, p, k+1)
         /\ p \in Blocks(sz2) /\ Blocks(sz2) = Blocks(sz) \ {q}
PROOF
<1>1. PICK s \in Nat : s = Pow(k) /\ s > 0 /\ Pow(k+1) = 2 * s
  BY PowFacts
<1>2. /\ p \in Nat /\ q = p + s /\ p + 2 * s <= Pow(Top) /\ k+1 \in Bud!Order /\ Aligned(p, k+1)
      /\ sz[p] = s /\ sz[q] = s /\ sz2[p] = 2 * s
  BY <1>1 DEF Slot
<1>3. p \in Bud!Addr /\ q \in Bud!Addr /\ p # q
  BY <1>1, <1>2, HeapIs
<1>4. p \in Blocks(sz) /\ q \in Blocks(sz) /\ p \in Blocks(sz2)
  BY <1>1, <1>2, <1>3 DEF Blocks
<1>5. Blocks(sz2) = Blocks(sz) \ {q}
  <2>1. ASSUME NEW a \in Bud!Addr PROVE sz2[a] > 0 <=> (sz[a] > 0 /\ a # q)
    <3>1. CASE a = p
      BY <1>3, <1>4, <3>1 DEF Blocks
    <3>2. CASE a = q
      BY <3>2
    <3>3. CASE a # p /\ a # q
      <4>1. sz2[a] = sz[a]
        BY <3>3
      <4> QED BY <3>3, <4>1
    <3> QED BY <3>1, <3>2, <3>3
  <2> QED BY <2>1, Zenon DEF Blocks
<1>6. IsBlock(sz2, p, k+1)
  BY <1>1, <1>2 DEF IsBlock
<1>7. ASSUME NEW a \in Bud!Addr PROVE sz2[a] = 0 \/ \E j : IsBlock(sz2, a, j)
  <2>1. CASE a = p
    BY <1>6, <2>1
  <2>2. CASE a = q
    BY <2>2
  <2>3. CASE a # p /\ a # q
    <3>1. sz2[a] = sz[a]
      BY <2>3
    <3>2. sz[a] = 0 \/ \E j : IsBlock(sz, a, j)
      BY DEF Tiling
    <3> QED BY <3>1, <3>2, Zenon DEF IsBlock
  <2> QED BY <2>1, <2>2, <2>3
<1>8. ASSUME NEW b \in Blocks(sz2), NEW c \in Blocks(sz2), b < c  PROVE b + sz2[b] <= c
  <2>1. /\ b \in Blocks(sz) /\ c \in Blocks(sz) /\ b # q /\ c # q
        /\ b \in Nat /\ c \in Nat /\ b \in Bud!Addr
    BY <1>5, HeapIs DEF Blocks
  <2>2. b + sz[b] <= c
    BY <1>8, <2>1 DEF Tiling
  <2>3. CASE b = p
    <3>1. q < c
      BY <1>2, <2>1, <2>2, <2>3
    <3>2. q + sz[q] <= c
      BY <1>4, <2>1, <3>1 DEF Tiling
    <3> QED BY <1>2, <2>1, <2>3, <3>2
  <2>4. CASE b # p
    <3>1. sz2[b] = sz[b]
      BY <2>1, <2>4
    <3> QED BY <2>2, <3>1
  <2> QED BY <2>3, <2>4
<1>9. ASSUME NEW w \in Bud!Addr PROVE \E b \in Blocks(sz2) : b <= w /\ w < b + sz2[b]
  <2>1. PICK b \in Blocks(sz) : b <= w /\ w < b + sz[b]
    BY DEF Tiling
  <2>2. w \in Nat /\ b \in Nat /\ b \in Bud!Addr
    BY HeapIs DEF Blocks
  <2>3. CASE b = q \/ b = p
    <3>1. p <= w /\ w < p + sz2[p]
      BY <1>2, <2>1, <2>2, <2>3
    <3> QED BY <1>4, <3>1
  <2>4. CASE b # q /\ b # p
    <3>1. sz2[b] = sz[b] /\ b \in Blocks(sz2)
      BY <1>5, <2>2, <2>4
    <3> QED BY <2>1, <3>1
  <2> QED BY <2>3, <2>4
<1>10. Tiling(sz2)
  BY <1>7, <1>8, <1>9 DEF Tiling
<1> QED BY <1>4, <1>5, <1>6, <1>10

-----------------------------------------------------------------------------
(* mergeBlock().  On the lists are the free blocks but the one being freed. *)

Free(h) == {c \in Blocks(h.size) : h.isFree[c] /\ c # h.block}
FreeOf(h, j) == {c \in Free(h) : h.size[c] = Pow(j)}

BuddyInv(h) ==
  /\ HeapTypes(h) /\ Tiling(h.size)
  /\ \A j \in Bud!Order : IsList(FreeOf(h, j), h.freeList[j], h.next)
  /\ NoPair(h.size, Free(h))
  /\ h.size[0] = Pow(Top) => h.next[0] = Bud!Null

\* The block that is being freed has order k.
AtOrder(h, k) ==
  h.block \in Blocks(h.size) /\ IsBlock(h.size, h.block, k) /\ h.isFree[h.block]

\* U has the blocks in use, of the sizes sz.
Using(h, U, sz) ==
  /\ U \subseteq Bud!Addr
  /\ \A a \in Bud!Addr : (h.size[a] > 0 /\ ~h.isFree[a]) <=> a \in U
  /\ \A a \in U : h.size[a] = sz[a]

LEMMA FreeOfFacts ==
  ASSUME Top \in Nat, NEW h, BuddyInv(h), NEW j \in Bud!Order, NEW c \in FreeOf(h, j)
  PROVE  /\ c \in Bud!Addr /\ c \in Blocks(h.size) /\ h.isFree[c] /\ c # h.block
         /\ h.size[c] = Pow(j)
         /\ \A i \in Bud!Order : i # j => c \notin FreeOf(h, i)
PROOF
<1>1. /\ c \in Bud!Addr /\ c \in Blocks(h.size) /\ h.isFree[c] /\ c # h.block
      /\ h.size[c] = Pow(j)
  BY DEF FreeOf, Free, Blocks
<1>2. ASSUME NEW i \in Bud!Order, i # j, c \in FreeOf(h, i) PROVE FALSE
  <2>1. h.size[c] = Pow(i)
    BY <1>2 DEF FreeOf
  <2>2. i = j
    <3>1. i \in Nat /\ j \in Nat
      BY HeapIs
    <3>2. Pow(i) = Pow(j)
      BY <1>1, <2>1
    <3> QED BY <3>1, <3>2, PowGrows
  <2> QED BY <1>2, <2>2
<1> QED BY <1>1, <1>2

\* The whole heap in one block
LEMMA MergedWhole ==
  ASSUME Top \in Nat, NEW h, BuddyInv(h), NEW k \in Bud!Order, AtOrder(h, k),
         NEW b, b = h.block, h.size[b] = Pow(Top),
         NEW g, g = Bud!Heap([h.freeList EXCEPT ![k] = b], h.next, h.size, h.isFree, Bud!Null),
         NEW U, NEW sz, Using(h, U, sz)
  PROVE  BuddyInv(g) /\ Using(g, U, sz) /\ g.block = Bud!Null
PROOF
<1>1. PICK fl2 : fl2 = [h.freeList EXCEPT ![k] = b]
  OBVIOUS
<1>2. /\ g.freeList = fl2 /\ g.next = h.next /\ g.size = h.size /\ g.isFree = h.isFree
      /\ g.block = Bud!Null
  BY <1>1 DEF Bud!Heap
<1>3. b \in Blocks(h.size) /\ h.isFree[b] /\ b \in Bud!Addr /\ h.size[b] = Pow(k) /\ Tiling(h.size)
  BY DEF AtOrder, IsBlock, Blocks, BuddyInv
<1>4. b = 0 /\ Blocks(h.size) = {0}
  BY <1>3, WholeIs
<1>5. k = Top
  <2>1. k \in Nat
    BY HeapIs
  <2> QED BY <1>3, <2>1, PowGrows
<1>6. fl2 \in [Bud!Order -> Bud!Addr \cup {Bud!Null}] /\ fl2[k] = 0
      /\ \A j \in Bud!Order : j # k => fl2[j] = h.freeList[j]
  BY <1>1, <1>3, <1>4 DEF BuddyInv, HeapTypes
<1>7. HeapTypes(g)
  BY <1>2, <1>6 DEF BuddyInv, HeapTypes
<1>8. Free(g) = {0}
  BY <1>2, <1>3, <1>4, HeapIs DEF Free
<1>9. ASSUME NEW j \in Bud!Order PROVE IsList(FreeOf(g, j), g.freeList[j], g.next)
  <2>1. CASE j = k
    <3>1. FreeOf(g, j) = {0}
      BY <1>2, <1>3, <1>4, <1>8, <2>1 DEF FreeOf
    <3>2. g.next[0] = Bud!Null /\ 0 \in Bud!Addr
      BY <1>2, <1>4, HeapIs DEF BuddyInv
    <3>3. IsList({0}, 0, g.next)
      BY <3>2, ListOne
    <3> QED BY <1>2, <1>6, <2>1, <3>1, <3>3
  <2>2. CASE j # k
    <3>1. FreeOf(h, j) = {}
      BY <1>4 DEF FreeOf, Free
    <3>2. FreeOf(g, j) = {}
      <4>1. Pow(j) # Pow(Top)
        <5>1. j \in Nat
          BY HeapIs
        <5> QED BY <1>5, <2>2, <5>1, PowGrows
      <4> QED BY <1>2, <1>4, <1>8, <4>1 DEF FreeOf
    <3>3. IsList(FreeOf(h, j), h.freeList[j], h.next)
      BY DEF BuddyInv
    <3> QED BY <1>2, <1>6, <2>2, <3>1, <3>2, <3>3
  <2> QED BY <2>1, <2>2
<1>10. NoPair(g.size, Free(g))
  BY <1>8, PairFacts DEF NoPair
<1>11. BuddyInv(g)
  BY <1>2, <1>3, <1>4, <1>7, <1>9, <1>10 DEF BuddyInv
<1>12. Using(g, U, sz)
  BY <1>2 DEF Using
<1> QED BY <1>2, <1>11, <1>12

\* No free buddy of the same order
LEMMA MergedNot ==
  ASSUME Top \in Nat, NEW h, BuddyInv(h), NEW k \in Bud!Order, AtOrder(h, k),
         NEW b, b = h.block, h.size[b] # Pow(Top),
         NEW s, s = h.size[b], ~Bud!MergesWith(h, b, Bud!Buddy(b, s)),
         NEW g, g = Bud!Heap([h.freeList EXCEPT ![k] = b], [h.next EXCEPT ![b] = h.freeList[k]],
                           h.size, h.isFree, Bud!Null),
         NEW U, NEW sz, Using(h, U, sz)
  PROVE  BuddyInv(g) /\ Using(g, U, sz) /\ g.block = Bud!Null
PROOF
<1>1. PICK fl2, nx2 : /\ fl2 = [h.freeList EXCEPT ![k] = b]
                      /\ nx2 = [h.next EXCEPT ![b] = h.freeList[k]]
  OBVIOUS
<1>2. /\ g.freeList = fl2 /\ g.next = nx2 /\ g.size = h.size /\ g.isFree = h.isFree
      /\ g.block = Bud!Null
  BY <1>1 DEF Bud!Heap
<1>3. b \in Blocks(h.size) /\ h.isFree[b] /\ b \in Bud!Addr /\ h.size[b] = Pow(k) /\ Tiling(h.size)
  BY DEF AtOrder, IsBlock, Blocks, BuddyInv
<1>4. /\ fl2 \in [Bud!Order -> Bud!Addr \cup {Bud!Null}] /\ fl2[k] = b
      /\ \A j \in Bud!Order : j # k => fl2[j] = h.freeList[j]
  BY <1>1, <1>3 DEF BuddyInv, HeapTypes
<1>5. /\ nx2 \in [Bud!Addr -> Bud!Addr \cup {Bud!Null}] /\ nx2[b] = h.freeList[k]
      /\ \A a \in Bud!Addr : a # b => nx2[a] = h.next[a]
  BY <1>1, <1>3 DEF BuddyInv, HeapTypes
<1>6. HeapTypes(g)
  BY <1>2, <1>4, <1>5 DEF BuddyInv, HeapTypes
<1>7. Free(g) = Free(h) \cup {b} /\ b \notin Free(h)
  <2>1. Bud!Null # b
    BY <1>3, HeapIs
  <2> QED BY <1>2, <1>3, <2>1, HeapIs DEF Free, Blocks
<1>8. ASSUME NEW j \in Bud!Order PROVE IsList(FreeOf(g, j), g.freeList[j], g.next)
  <2>1. IsList(FreeOf(h, j), h.freeList[j], h.next) /\ b \notin FreeOf(h, j)
    BY <1>7 DEF BuddyInv, FreeOf
  <2>2. \A y \in FreeOf(h, j) : nx2[y] = h.next[y]
    BY <1>5, <2>1, ListFacts
  <2>3. CASE j = k
    <3>1. FreeOf(g, j) = FreeOf(h, j) \cup {b}
      BY <1>2, <1>3, <1>7, <2>3 DEF FreeOf
    <3>2. nx2[b] = h.freeList[j] /\ fl2[j] = b
      BY <1>4, <1>5, <2>3
    <3>3. IsList(FreeOf(h, j) \cup {b}, b, nx2)
      BY <1>3, <2>1, <2>2, <3>2, ListPush, Zenon
    <3> QED BY <1>2, <3>1, <3>2, <3>3, Zenon
  <2>4. CASE j # k
    <3>1. h.size[b] # Pow(j)
      <4>1. j \in Nat /\ k \in Nat
        BY HeapIs
      <4> QED BY <1>3, <2>4, <4>1, PowGrows
    <3>2. FreeOf(g, j) = FreeOf(h, j)
      BY <1>2, <1>7, <3>1 DEF FreeOf
    <3>3. IsList(FreeOf(h, j), h.freeList[j], nx2)
      BY <2>1, <2>2, ListSame, Zenon
    <3> QED BY <1>2, <1>4, <2>4, <3>2, <3>3
  <2> QED BY <2>3, <2>4
<1>9. NoPair(g.size, Free(g))
  <2> SUFFICES ASSUME NEW j \in Nat, NEW c \in Free(h) \cup {b}, NEW y \in Free(h) \cup {b},
                      Pair(c, y, j), h.size[c] = Pow(j), h.size[y] = Pow(j)
               PROVE  FALSE
    BY <1>2, <1>7 DEF NoPair
  <2>1. c # y /\ y = Bud!Buddy(c, Pow(j)) /\ c = Bud!Buddy(y, Pow(j))
    BY PairFacts
  <2>2. CASE c # b /\ y # b
    BY <2>2 DEF BuddyInv, NoPair
  <2>3. CASE c = b \/ y = b
    <3>1. PICK z \in Free(h) : z = Bud!Buddy(b, Pow(j)) /\ h.size[z] = Pow(j) /\ h.size[b] = Pow(j)
      BY <2>1, <2>3
    <3>2. h.isFree[z]
      BY DEF Free
    <3>3. s = Pow(j)
      BY <1>3, <3>1
    <3> QED BY <1>3, <3>1, <3>2, <3>3 DEF Bud!MergesWith
  <2> QED BY <2>2, <2>3
<1>10. h.size[0] # Pow(Top)
  <2>1. ASSUME h.size[0] = Pow(Top) PROVE FALSE
    <3>1. 0 \in Blocks(h.size)
      BY <2>1, HeapIs DEF Blocks
    <3>2. Blocks(h.size) = {0}
      BY <1>3, <2>1, <3>1, WholeIs
    <3> QED BY <1>3, <2>1, <3>2
  <2> QED BY <2>1
<1>11. BuddyInv(g)
  BY <1>2, <1>3, <1>6, <1>8, <1>9, <1>10 DEF BuddyInv
<1>12. Using(g, U, sz)
  BY <1>2 DEF Using
<1> QED BY <1>2, <1>11, <1>12

Lower(y, b) == IF y < b THEN y ELSE b
Upper(y, b) == IF y < b THEN b ELSE y

\* What comes of h when two buddies of order k are taken off
Off(h, S, k, b, y, g0) ==
  /\ HeapTypes(g0) /\ g0.size = h.size
  /\ \A a \in Bud!Addr : g0.isFree[a] <=> (a # b /\ a # y /\ h.isFree[a])
  /\ \A j \in Bud!Order : j # k => g0.freeList[j] = h.freeList[j]
  /\ \A a \in Bud!Addr : a \notin S /\ a # b /\ a # y => g0.next[a] = h.next[a]
  /\ IsList(S \ {y}, g0.freeList[k], g0.next)
  /\ g0.next[b] = Bud!Null /\ (S = {y} => g0.next[y] = Bud!Null)

\* and joined in left
Joins(h, S, k, b, y, left, right, fl, nx, sz, fr) ==
  /\ fl \in [Bud!Order -> Bud!Addr \cup {Bud!Null}] /\ nx \in [Bud!Addr -> Bud!Addr \cup {Bud!Null}]
  /\ sz \in [Bud!Addr -> Nat] /\ fr \in [Bud!Addr -> BOOLEAN]
  /\ sz[left] = 2 * Pow(k) /\ sz[right] = 0
  /\ \A a \in Bud!Addr : a # left /\ a # right => sz[a] = h.size[a]
  /\ fr[left]
  /\ \A a \in Bud!Addr : a # left => (fr[a] <=> (a # b /\ a # y /\ h.isFree[a]))
  /\ \A j \in Bud!Order : j # k => fl[j] = h.freeList[j]
  /\ \A a \in Bud!Addr : a \notin S /\ a # b /\ a # y => nx[a] = h.next[a]
  /\ IsList(S \ {y}, fl[k], nx)
  /\ S = {y} => nx[left] = Bud!Null

LEMMA OffBoth ==
  ASSUME Top \in Nat, NEW h, BuddyInv(h), NEW k \in Bud!Order, AtOrder(h, k),
         NEW b, b = h.block, h.size[b] # Pow(Top), NEW s, s = h.size[b],
         NEW y, y = Bud!Buddy(b, s), Bud!MergesWith(h, b, y),
         NEW g0, g0 = Bud!RemoveFromFreeList(Bud!RemoveFromFreeList(h, b, k), y, k)
  PROVE  /\ Off(h, FreeOf(h, k), k, b, y, g0) /\ s = Pow(k) /\ h.size[b] = Pow(k)
         /\ b \in Bud!Addr /\ y \in Bud!Addr /\ b # y
         /\ b \notin FreeOf(h, k) /\ y \in FreeOf(h, k) /\ FreeOf(h, k) \subseteq Bud!Addr
PROOF
<1>3. /\ b \in Blocks(h.size) /\ h.isFree[b] /\ b \in Bud!Addr /\ h.size[b] = Pow(k)
      /\ IsBlock(h.size, b, k) /\ Tiling(h.size) /\ HeapTypes(h)
  BY DEF AtOrder, IsBlock, Blocks, BuddyInv
<1>4. k \in Nat /\ k < Top
  <2>1. k # Top
    BY <1>3
  <2> QED BY <2>1, HeapIs
<1>5. Pair(b, y, k) /\ y \in Blocks(h.size)
  BY <1>3, <1>4, BuddyIsBlock
<1>6. b # y /\ y \in Bud!Addr /\ h.isFree[y] /\ h.size[y] = Pow(k)
  <2>1. b # y /\ y \in Bud!Addr
    BY <1>4, <1>5, PairFacts
  <2>2. h.isFree[y] /\ h.size[y] = Pow(k)
    BY <1>3 DEF Bud!MergesWith
  <2> QED BY <2>1, <2>2
<1>0. PICK S : S = FreeOf(h, k)
  OBVIOUS
<1>8. /\ b \notin S /\ y \in S /\ IsList(S, h.freeList[k], h.next) /\ S \subseteq Bud!Addr
      /\ b \notin Free(h)
  <2>1. y \in Free(h)
    BY <1>5, <1>6 DEF Free
  <2>2. b \notin Free(h)
    BY DEF Free
  <2>3. IsList(S, h.freeList[k], h.next)
    BY <1>0 DEF BuddyInv
  <2>4. S \subseteq Bud!Addr
    BY <2>3, ListFacts, Zenon
  <2> QED BY <1>0, <1>6, <2>1, <2>2, <2>3, <2>4 DEF FreeOf
<1>9. PICK h1 : h1 = Bud!RemoveFromFreeList(h, b, k)
  OBVIOUS
<1>10. Taken(h, b, k, S, h1)
  BY <1>3, <1>8, <1>9, RemoveIs
<1>11. IsList(S, h1.freeList[k], h1.next) /\ HeapTypes(h1)
  <2>1. S \ {b} = S
    BY <1>8
  <2> QED BY <1>10, <2>1 DEF Taken
<1>12. Taken(h1, y, k, S, g0)
  BY <1>6, <1>9, <1>11, RemoveIs
<1>13. /\ HeapTypes(g0) /\ g0.size = h.size
       /\ \A a \in Bud!Addr : g0.isFree[a] <=> (a # b /\ a # y /\ h.isFree[a])
       /\ \A j \in Bud!Order : j # k => g0.freeList[j] = h.freeList[j]
       /\ \A a \in Bud!Addr : a \notin S /\ a # b /\ a # y => g0.next[a] = h.next[a]
       /\ IsList(S \ {y}, g0.freeList[k], g0.next)
       /\ g0.next[b] = Bud!Null /\ (S = {y} => g0.next[y] = Bud!Null)
  <2>1. /\ h1.size = h.size
        /\ \A a \in Bud!Addr : h1.isFree[a] <=> (a # b /\ h.isFree[a])
        /\ \A j \in Bud!Order : j # k => h1.freeList[j] = h.freeList[j]
        /\ \A a \in Bud!Addr : a \notin S /\ a # b => h1.next[a] = h.next[a]
        /\ h1.next[b] = Bud!Null
    BY <1>8, <1>10 DEF Taken
  <2>2. /\ HeapTypes(g0) /\ g0.size = h1.size
        /\ \A a \in Bud!Addr : g0.isFree[a] <=> (a # y /\ h1.isFree[a])
        /\ \A j \in Bud!Order : j # k => g0.freeList[j] = h1.freeList[j]
        /\ \A a \in Bud!Addr : a \notin S /\ a # y => g0.next[a] = h1.next[a]
        /\ IsList(S \ {y}, g0.freeList[k], g0.next)
        /\ (S = {y} => g0.next[y] = Bud!Null)
    BY <1>12 DEF Taken
  <2> QED BY <1>3, <1>6, <1>8, <2>1, <2>2
<1>14. Off(h, S, k, b, y, g0)
  BY <1>13, Zenon DEF Off
<1> QED BY <1>0, <1>3, <1>6, <1>8, <1>14, Zenon

LEMMA JoiningIs ==
  ASSUME NEW h, HeapTypes(h), NEW k \in Bud!Order, Pow(k) \in Nat, NEW S, S \subseteq Bud!Addr,
         NEW b \in Bud!Addr, NEW y \in Bud!Addr, b # y, b \notin S, y \in S,
         NEW left, NEW right, (left = b /\ right = y) \/ (left = y /\ right = b),
         NEW g0, Off(h, S, k, b, y, g0), NEW s, s = Pow(k),
         NEW fl2, fl2 = g0.freeList, NEW nx2, nx2 = [g0.next EXCEPT ![right] = Bud!Null],
         NEW sz2, sz2 = [g0.size EXCEPT ![left] = 2 * s, ![right] = 0],
         NEW fr2, fr2 = [g0.isFree EXCEPT ![left] = TRUE]
  PROVE  Joins(h, S, k, b, y, left, right, fl2, nx2, sz2, fr2)
PROOF
<1>1. PICK n0, s0, r0 : n0 = g0.next /\ s0 = g0.size /\ r0 = g0.isFree
  OBVIOUS
<1>2. /\ n0 \in [Bud!Addr -> Bud!Addr \cup {Bud!Null}] /\ s0 \in [Bud!Addr -> Nat]
      /\ r0 \in [Bud!Addr -> BOOLEAN] /\ fl2 \in [Bud!Order -> Bud!Addr \cup {Bud!Null}]
      /\ s0 = h.size
  BY <1>1 DEF Off, HeapTypes
<1>3. left # right /\ left \in Bud!Addr /\ right \in Bud!Addr
  OBVIOUS
<1>4. /\ nx2 \in [Bud!Addr -> Bud!Addr \cup {Bud!Null}] /\ nx2[right] = Bud!Null
      /\ \A a \in Bud!Addr : a # right => nx2[a] = n0[a]
  BY <1>1, <1>2, <1>3
<1>5. /\ sz2 \in [Bud!Addr -> Nat] /\ sz2[left] = 2 * Pow(k) /\ sz2[right] = 0
      /\ \A a \in Bud!Addr : a # left /\ a # right => sz2[a] = h.size[a]
  <2>1. PICK d \in Nat : d = 2 * s
    OBVIOUS
  <2>2. sz2 = [s0 EXCEPT ![left] = d, ![right] = 0]
    BY <1>1, <2>1
  <2>3. /\ sz2 \in [Bud!Addr -> Nat] /\ sz2[left] = d /\ sz2[right] = 0
        /\ \A a \in Bud!Addr : a # left /\ a # right => sz2[a] = s0[a]
    BY <1>2, <1>3, <2>2
  <2> QED BY <1>2, <2>1, <2>3
<1>6. /\ fr2 \in [Bud!Addr -> BOOLEAN] /\ fr2[left]
      /\ \A a \in Bud!Addr : a # left => (fr2[a] <=> (a # b /\ a # y /\ h.isFree[a]))
  <2>1. \A a \in Bud!Addr : r0[a] <=> (a # b /\ a # y /\ h.isFree[a])
    BY <1>1 DEF Off
  <2> QED BY <1>1, <1>2, <1>3, <2>1
<1>7. \A j \in Bud!Order : j # k => fl2[j] = h.freeList[j]
  BY DEF Off
<1>8. /\ \A a \in Bud!Addr : a \notin S /\ a # b /\ a # y => n0[a] = h.next[a]
      /\ IsList(S \ {y}, fl2[k], n0)
      /\ n0[b] = Bud!Null /\ (S = {y} => n0[y] = Bud!Null)
  BY <1>1 DEF Off
<1>9. \A a \in Bud!Addr : a \notin S /\ a # b /\ a # y => nx2[a] = h.next[a]
  BY <1>4, <1>8
<1>10. IsList(S \ {y}, fl2[k], nx2)
  <2>1. \A a \in S \ {y} : nx2[a] = n0[a]
    BY <1>4
  <2>2. PICK T : T = S \ {y}
    OBVIOUS
  <2>3. IsList(T, fl2[k], n0) /\ \A a \in T : nx2[a] = n0[a]
    BY <1>8, <2>1, <2>2
  <2>4. IsList(T, fl2[k], nx2)
    BY <2>3, ListSame, Zenon
  <2> QED BY <2>2, <2>4, Zenon
<1>11. S = {y} => nx2[left] = Bud!Null
  BY <1>3, <1>4, <1>8
<1> QED BY <1>2, <1>4, <1>5, <1>6, <1>7, <1>9, <1>10, <1>11, Zenon DEF Joins

\* Two buddies of order k about to be joined, and the heap g that comes of it
Joining(h, k, b, y, left, right, fl, nx, sz2, fr, g, U, sz) ==
  /\ BuddyInv(h) /\ k \in Bud!Order /\ AtOrder(h, k) /\ b = h.block /\ h.size[b] # Pow(Top)
  /\ y = Bud!Buddy(b, Pow(k)) /\ Bud!MergesWith(h, b, y)
  /\ left = Lower(y, b) /\ right = Upper(y, b)
  /\ Joins(h, FreeOf(h, k), k, b, y, left, right, fl, nx, sz2, fr)
  /\ g = Bud!Heap(fl, nx, sz2, fr, left) /\ Using(h, U, sz)

LEMMA JoinedHeap ==
  ASSUME Top \in Nat, NEW h, NEW k, NEW b, NEW y, NEW left, NEW right,
         NEW fl2, NEW nx2, NEW sz2, NEW fr2, NEW g, NEW U, NEW sz,
         Joining(h, k, b, y, left, right, fl2, nx2, sz2, fr2, g, U, sz)
  PROVE  BuddyInv(g) /\ Using(g, U, sz) /\ k+1 \in Bud!Order /\ AtOrder(g, k+1)
PROOF
<1>0. /\ BuddyInv(h) /\ k \in Bud!Order /\ AtOrder(h, k) /\ b = h.block /\ h.size[b] # Pow(Top)
      /\ y = Bud!Buddy(b, Pow(k)) /\ Bud!MergesWith(h, b, y)
      /\ left = Lower(y, b) /\ right = Upper(y, b)
      /\ Joins(h, FreeOf(h, k), k, b, y, left, right, fl2, nx2, sz2, fr2)
      /\ g = Bud!Heap(fl2, nx2, sz2, fr2, left) /\ Using(h, U, sz)
  BY DEF Joining
<1> USE <1>0
<1>1. /\ g.freeList = fl2 /\ g.size = sz2 /\ g.isFree = fr2 /\ g.next = nx2
      /\ g.block = left
  BY DEF Bud!Heap
<1>2. PICK S : S = FreeOf(h, k)
  OBVIOUS
<1>3. /\ b \in Blocks(h.size) /\ h.isFree[b] /\ b \in Bud!Addr /\ h.size[b] = Pow(k)
      /\ IsBlock(h.size, b, k) /\ Tiling(h.size) /\ HeapTypes(h)
  BY DEF AtOrder, IsBlock, Blocks, BuddyInv
<1>4. k \in Nat /\ k < Top
  <2>1. k # Top
    BY <1>3
  <2> QED BY <2>1, HeapIs
<1>5. Pair(b, y, k) /\ y \in Blocks(h.size)
  BY <1>3, <1>4, BuddyIsBlock
<1>6. /\ b # y /\ y \in Bud!Addr /\ Slot(left, k+1) /\ right = left + Pow(k)
      /\ h.isFree[y] /\ h.size[y] = Pow(k)
  <2>1. /\ b # y /\ y \in Bud!Addr /\ Slot(left, k+1) /\ right = left + Pow(k)
    BY <1>4, <1>5, PairFacts DEF Lower, Upper
  <2>2. h.isFree[y] /\ h.size[y] = Pow(k)
    BY <1>3 DEF Bud!MergesWith
  <2> QED BY <2>1, <2>2
<1>7. (left = b /\ right = y) \/ (left = y /\ right = b)
  BY DEF Lower, Upper
<1>8. /\ b \notin S /\ y \in S /\ IsList(S, h.freeList[k], h.next) /\ S \subseteq Bud!Addr
      /\ b \notin Free(h)
  <2>1. y \in Free(h)
    BY <1>5, <1>6 DEF Free
  <2>2. b \notin Free(h)
    BY DEF Free
  <2>3. IsList(S, h.freeList[k], h.next)
    BY <1>2 DEF BuddyInv
  <2>4. S \subseteq Bud!Addr
    BY <2>3, ListFacts, Zenon
  <2> QED BY <1>2, <1>6, <2>1, <2>2, <2>3, <2>4 DEF FreeOf
<1>13. /\ HeapTypes(g) /\ g.block = left
       /\ \A j \in Bud!Order : j # k => fl2[j] = h.freeList[j]
       /\ \A a \in Bud!Addr : a \notin S /\ a # b /\ a # y => nx2[a] = h.next[a]
       /\ IsList(S \ {y}, fl2[k], nx2)
       /\ S = {y} => nx2[left] = Bud!Null
  BY <1>1, <1>2 DEF Joins, HeapTypes
<1>15. /\ sz2 \in [Bud!Addr -> Nat] /\ sz2[left] = 2 * Pow(k) /\ sz2[right] = 0
       /\ \A a \in Bud!Addr : a # left /\ a # right => sz2[a] = h.size[a]
  BY DEF Joins
<1>16. /\ fr2[left]
       /\ \A a \in Bud!Addr : a # left => (fr2[a] <=> (a # b /\ a # y /\ h.isFree[a]))
  BY DEF Joins
<1>18. /\ Tiling(sz2) /\ IsBlock(sz2, left, k+1)
       /\ left \in Blocks(sz2) /\ Blocks(sz2) = Blocks(h.size) \ {right}
  <2>1. h.size \in [Bud!Addr -> Nat] /\ h.size[left] = Pow(k) /\ h.size[right] = Pow(k)
    BY <1>3, <1>6, <1>7 DEF HeapTypes
  <2> QED BY <1>3, <1>4, <1>6, <1>15, <2>1, JoinedTiling
<1>19. k+1 \in Bud!Order /\ AtOrder(g, k+1)
  <2>1. k+1 \in Bud!Order
    BY <1>18 DEF IsBlock
  <2>2. g.block \in Blocks(g.size) /\ IsBlock(g.size, g.block, k+1)
    BY <1>1, <1>13, <1>18, Zenon
  <2>3. g.isFree[g.block]
    BY <1>1, <1>13, <1>16, Zenon
  <2> QED BY <2>1, <2>2, <2>3, Zenon DEF AtOrder
<1>20. Free(g) = Free(h) \ {y}
  <2>1. ASSUME NEW c PROVE c \in Free(g) <=> c \in Free(h) /\ c # y
    <3>1. c \in Free(g) <=> c \in Blocks(h.size) /\ c # right /\ fr2[c] /\ c # left
      <4>1. c \in Free(g) <=> c \in Blocks(g.size) /\ g.isFree[c] /\ c # g.block
        BY Zenon DEF Free, Blocks
      <4>2. c \in Free(g) <=> c \in Blocks(sz2) /\ fr2[c] /\ c # left
        BY <1>1, <4>1, Zenon
      <4> QED BY <1>18, <4>2
    <3>2. c \in Blocks(h.size) => c \in Bud!Addr
      BY DEF Blocks
    <3>3. c \in Free(h) <=> c \in Blocks(h.size) /\ h.isFree[c] /\ c # b
      BY DEF Free
    <3> QED BY <1>7, <1>16, <3>1, <3>2, <3>3
  <2> QED BY <2>1
<1>21. \A c \in Free(g) : c \in Bud!Addr /\ c # b /\ c # y /\ sz2[c] = h.size[c]
  <2>1. \A c \in Free(g) : c \in Bud!Addr /\ c # b /\ c # y
    BY <1>8, <1>20 DEF Free, Blocks
  <2> QED BY <1>7, <1>15, <2>1
<1>22. ASSUME NEW j \in Bud!Order PROVE FreeOf(g, j) = FreeOf(h, j) \ {y}
  <2>1. FreeOf(g, j) = {c \in Free(g) : sz2[c] = Pow(j)}
    BY <1>1 DEF FreeOf
  <2>2. ASSUME NEW c PROVE c \in FreeOf(g, j) <=> (c \in FreeOf(h, j) /\ c # y)
    <3>1. c \in FreeOf(g, j) <=> (c \in Free(g) /\ sz2[c] = Pow(j))
      BY <2>1
    <3>2. c \in FreeOf(h, j) <=> (c \in Free(h) /\ h.size[c] = Pow(j))
      BY DEF FreeOf
    <3>3. c \in Free(g) <=> (c \in Free(h) /\ c # y)
      BY <1>20
    <3>4. c \in Free(g) => sz2[c] = h.size[c]
      BY <1>21
    <3> QED BY <3>1, <3>2, <3>3, <3>4
  <2> QED BY <2>2
<1>23. ASSUME NEW j \in Bud!Order PROVE IsList(FreeOf(g, j), g.freeList[j], g.next)
  <2>1. CASE j = k
    <3>1. FreeOf(g, j) = S \ {y}
      BY <1>2, <1>22, <2>1
    <3> QED BY <1>1, <1>13, <2>1, <3>1, Zenon
  <2>2. CASE j # k
    <3>1. y \notin FreeOf(h, j) /\ \A a \in FreeOf(h, j) : a \notin S
      <4>1. \A a \in S : a \notin FreeOf(h, j)
        BY <1>2, <2>2, FreeOfFacts
      <4> QED BY <1>8, <4>1
    <3>2. FreeOf(g, j) = FreeOf(h, j)
      <4>1. FreeOf(h, j) \ {y} = FreeOf(h, j)
        BY <3>1
      <4> QED BY <1>22, <4>1, Zenon
    <3>3. \A a \in FreeOf(h, j) : a \in Bud!Addr /\ a # b
      BY FreeOfFacts
    <3>4. \A a \in FreeOf(h, j) : nx2[a] = h.next[a]
      BY <1>13, <1>8, <3>1, <3>3
    <3>5. IsList(FreeOf(h, j), h.freeList[j], h.next)
      BY DEF BuddyInv
    <3>6. IsList(FreeOf(h, j), h.freeList[j], nx2)
      BY <3>4, <3>5, ListSame, Zenon
    <3>7. g.freeList[j] = h.freeList[j]
      BY <1>1, <1>13, <2>2, Zenon
    <3> QED BY <1>1, <3>2, <3>6, <3>7, Zenon
  <2> QED BY <2>1, <2>2
<1>24. NoPair(sz2, Free(g))
  <2>1. NoPair(h.size, Free(h))
    BY DEF BuddyInv
  <2>2. \A c \in Free(g) : c \in Free(h) /\ sz2[c] = h.size[c]
    BY <1>20, <1>21
  <2> QED BY <2>1, <2>2 DEF NoPair
<1>25. sz2[0] = Pow(Top) => nx2[0] = Bud!Null
  <2> SUFFICES ASSUME sz2[0] = Pow(Top) PROVE nx2[0] = Bud!Null
    OBVIOUS
  <2>1. 0 \in Blocks(sz2)
    BY HeapIs DEF Blocks
  <2>2. Blocks(sz2) = {0}
    BY <1>18, <2>1, WholeIs
  <2>3. left = 0 /\ Blocks(h.size) \subseteq {left, right}
    BY <1>18, <2>2
  <2>4. S = {y}
    <3>1. S \subseteq Blocks(h.size)
      BY <1>2 DEF FreeOf, Free
    <3> QED BY <1>7, <1>8, <2>3, <3>1
  <2> QED BY <1>13, <2>3, <2>4
<1>26. BuddyInv(g)
  BY <1>1, <1>13, <1>18, <1>23, <1>24, <1>25 DEF BuddyInv
<1>27. Using(g, U, sz)
  <2>1. b \notin U /\ y \notin U
    BY <1>3, <1>6 DEF Using
  <2>2. ASSUME NEW a \in Bud!Addr PROVE (sz2[a] > 0 /\ ~fr2[a]) <=> a \in U
    <3>1. CASE a = b \/ a = y
      BY <1>7, <1>15, <1>16, <2>1, <3>1
    <3>2. CASE a # b /\ a # y
      <4>1. sz2[a] = h.size[a] /\ (fr2[a] <=> h.isFree[a])
        BY <1>7, <1>15, <1>16, <3>2
      <4>2. (h.size[a] > 0 /\ ~h.isFree[a]) <=> a \in U
        BY DEF Using
      <4> QED BY <4>1, <4>2
    <3> QED BY <3>1, <3>2
  <2>3. ASSUME NEW a \in U PROVE sz2[a] = sz[a]
    BY <1>7, <1>15, <2>1 DEF Using
  <2>4. U \subseteq Bud!Addr
    BY DEF Using
  <2>5. \A a \in Bud!Addr : (g.size[a] > 0 /\ ~g.isFree[a]) <=> a \in U
    BY <1>1, <2>2
  <2>6. \A a \in U : g.size[a] = sz[a]
    BY <1>1, <2>3
  <2> QED BY <2>4, <2>5, <2>6, Zenon DEF Using
<1> QED BY <1>19, <1>26, <1>27

\* h at order k, whatever the stage
Going(h, k, U, sz) ==
  /\ BuddyInv(h) /\ Using(h, U, sz)
  /\ h.block = Bud!Null \/ (k \in Bud!Order /\ AtOrder(h, k))

\* mergeBlock(), its local variables named
MergeIs(h, k, g, b, s, y, g0, left, right) ==
  /\ b = h.block /\ s = h.size[b] /\ y = Bud!Buddy(b, s)
  /\ g0 = Bud!RemoveFromFreeList(Bud!RemoveFromFreeList(h, b, k), y, k)
  /\ left = (IF y < b THEN y ELSE b) /\ right = (IF y < b THEN b ELSE y)
  /\ g = IF b = Bud!Null THEN h
         ELSE IF s = Bud!HeapSize
         THEN Bud!Heap([h.freeList EXCEPT ![k] = b], h.next, h.size, h.isFree, Bud!Null)
         ELSE IF ~Bud!MergesWith(h, b, y)
         THEN Bud!Heap([h.freeList EXCEPT ![k] = b], [h.next EXCEPT ![b] = h.freeList[k]],
                     h.size, h.isFree, Bud!Null)
         ELSE Bud!Heap(g0.freeList, [g0.next EXCEPT ![right] = Bud!Null],
                     [g0.size EXCEPT ![left] = 2 * s, ![right] = 0],
                     [g0.isFree EXCEPT ![left] = TRUE], left)

LEMMA MergeBlockIs ==
  ASSUME NEW h, NEW k
  PROVE  \E b, s, y, g0, left, right : MergeIs(h, k, Bud!MergeBlock(h, k), b, s, y, g0, left, right)
PROOF
<1> DEFINE b == h.block
           s == h.size[b]
           y == Bud!Buddy(b, s)
           g0 == Bud!RemoveFromFreeList(Bud!RemoveFromFreeList(h, b, k), y, k)
           left == IF y < b THEN y ELSE b
           right == IF y < b THEN b ELSE y
<1>1. MergeIs(h, k, Bud!MergeBlock(h, k), b, s, y, g0, left, right)
  BY Zenon DEF Bud!MergeBlock, MergeIs
<1> HIDE DEF b, s, y, g0, left, right
<1> QED BY <1>1, Zenon

LEMMA MergeStep ==
  ASSUME Top \in Nat, NEW h, NEW k \in Bud!Order, NEW U, NEW sz, Going(h, k, U, sz)
  PROVE  Going(Bud!MergeBlock(h, k), k+1, U, sz)
PROOF
<1>0. PICK g : g = Bud!MergeBlock(h, k)
  OBVIOUS
<1>1. PICK b, s, y, g0, left, right : MergeIs(h, k, g, b, s, y, g0, left, right)
  BY <1>0, MergeBlockIs
<1>2. BuddyInv(h) /\ Using(h, U, sz) /\ Bud!HeapSize = Pow(Top)
  BY HeapIs DEF Going
<1>3. b = h.block /\ s = h.size[b] /\ y = Bud!Buddy(b, s)
  BY <1>1 DEF MergeIs
<1>4. CASE b = Bud!Null
  <2>1. g = h
    BY <1>1, <1>4, Zenon DEF MergeIs
  <2> QED BY <1>0, <1>2, <1>3, <1>4, <2>1, Zenon DEF Going
<1>5. CASE b # Bud!Null
  <2>1. AtOrder(h, k)
    BY <1>3, <1>5 DEF Going
  <2>2. CASE s = Pow(Top)
    <3>1. g = Bud!Heap([h.freeList EXCEPT ![k] = b], h.next, h.size, h.isFree, Bud!Null)
      BY <1>1, <1>2, <1>5, <2>2, Zenon DEF MergeIs
    <3>2. h.size[b] = Pow(Top)
      BY <1>3, <2>2
    <3>3. BuddyInv(g) /\ Using(g, U, sz) /\ g.block = Bud!Null
      BY <1>2, <1>3, <2>1, <3>1, <3>2, MergedWhole
    <3> QED BY <1>0, <3>3, Zenon DEF Going
  <2>3. CASE s # Pow(Top) /\ ~Bud!MergesWith(h, b, y)
    <3>1. g = Bud!Heap([h.freeList EXCEPT ![k] = b], [h.next EXCEPT ![b] = h.freeList[k]],
                     h.size, h.isFree, Bud!Null)
      BY <1>1, <1>2, <1>5, <2>3, Zenon DEF MergeIs
    <3>2. h.size[b] # Pow(Top) /\ ~Bud!MergesWith(h, b, Bud!Buddy(b, s))
      BY <1>3, <2>3
    <3>3. BuddyInv(g) /\ Using(g, U, sz) /\ g.block = Bud!Null
      BY <1>2, <1>3, <2>1, <3>1, <3>2, MergedNot
    <3> QED BY <1>0, <3>3, Zenon DEF Going
  <2>4. CASE s # Pow(Top) /\ Bud!MergesWith(h, b, y)
    <3>1. PICK fl2, nx2, sz2, fr2 :
            /\ fl2 = g0.freeList /\ nx2 = [g0.next EXCEPT ![right] = Bud!Null]
            /\ sz2 = [g0.size EXCEPT ![left] = 2 * s, ![right] = 0]
            /\ fr2 = [g0.isFree EXCEPT ![left] = TRUE]
            /\ g = Bud!Heap(fl2, nx2, sz2, fr2, left)
      BY <1>1, <1>2, <1>5, <2>4, Zenon DEF MergeIs
    <3>2. /\ g0 = Bud!RemoveFromFreeList(Bud!RemoveFromFreeList(h, b, k), y, k)
          /\ left = (IF y < b THEN y ELSE b) /\ right = (IF y < b THEN b ELSE y)
      BY <1>1, Zenon DEF MergeIs
    <3>3. h.size[b] # Pow(Top)
      BY <1>3, <2>4
    <3>4. /\ Off(h, FreeOf(h, k), k, b, y, g0) /\ s = Pow(k) /\ h.size[b] = Pow(k)
          /\ b \in Bud!Addr /\ y \in Bud!Addr /\ b # y
          /\ b \notin FreeOf(h, k) /\ y \in FreeOf(h, k) /\ FreeOf(h, k) \subseteq Bud!Addr
      BY <1>2, <1>3, <2>1, <2>4, <3>2, <3>3, OffBoth
    <3>5. HeapTypes(h)
      BY <1>2 DEF BuddyInv
    <3>6. (left = b /\ right = y) \/ (left = y /\ right = b)
      BY <3>2
    <3>7. Pow(k) \in Nat
      <4>1. k \in Nat
        BY HeapIs
      <4> QED BY <4>1, PowFacts
    <3>8. Joins(h, FreeOf(h, k), k, b, y, left, right, fl2, nx2, sz2, fr2)
      BY <3>1, <3>4, <3>5, <3>6, <3>7, JoiningIs
    <3>9. y = Bud!Buddy(b, Pow(k))
      BY <1>3, <3>4
    <3>10. BuddyInv(g) /\ Using(g, U, sz) /\ k+1 \in Bud!Order /\ AtOrder(g, k+1)
      <4>1. g = Bud!Heap(fl2, nx2, sz2, fr2, left)
        BY <3>1
      <4>2. left = Lower(y, b) /\ right = Upper(y, b)
        BY <3>2 DEF Lower, Upper
      <4>3. BuddyInv(h) /\ Using(h, U, sz) /\ b = h.block /\ Bud!MergesWith(h, b, y)
        BY <1>2, <1>3, <2>4
      <4>4. Joining(h, k, b, y, left, right, fl2, nx2, sz2, fr2, g, U, sz)
        BY <2>1, <3>3, <3>8, <3>9, <4>1, <4>2, <4>3, Zenon DEF Joining
      <4> QED BY <4>4, JoinedHeap, Zenon
    <3> QED BY <1>0, <3>10, Zenon DEF Going
  <2> QED BY <2>2, <2>3, <2>4
<1> QED BY <1>4, <1>5

\* The heap at each order on the way
IsMerging(f, o, first, n) ==
  f = [k \in o..n |-> IF k = o THEN first ELSE Bud!MergeBlock(f[k-1], k-1)]

LEMMA MergingExists ==
  ASSUME NEW o \in Nat, NEW first, NEW n \in Nat
  PROVE  \E f : IsMerging(f, o, first, n)
PROOF
<1> DEFINE Bad == {m \in Nat : ~\E f : IsMerging(f, o, first, m)}
<1>1. CASE Bad # {}
  <2>1. PICK m \in Bad : \A k \in Bad : m <= k
    BY <1>1, LeastOfSome
  <2>2. m > o
    <3>1. CASE ~(m > o)
      <4>1. PICK f : f = [k \in o..m |-> first]
        OBVIOUS
      <4>2. \A k \in o..m : k = o
        BY <2>1, <3>1
      <4>3. f = [k \in o..m |-> IF k = o THEN first ELSE Bud!MergeBlock(f[k-1], k-1)]
        BY <4>1, <4>2
      <4> QED BY <2>1, <4>3 DEF IsMerging
    <3> QED BY <3>1
  <2>3. m - 1 \in Nat /\ m - 1 \notin Bad
    BY <2>1, <2>2
  <2>4. PICK g : IsMerging(g, o, first, m - 1)
    BY <2>3
  <2>5. \A k \in o..m-1 : g[k] = IF k = o THEN first ELSE Bud!MergeBlock(g[k-1], k-1)
    BY <2>4 DEF IsMerging
  <2>6. PICK f : f = [k \in o..m |-> IF k = m THEN Bud!MergeBlock(g[m-1], m-1) ELSE g[k]]
    OBVIOUS
  <2>7. \A k \in o..m : f[k] = IF k = o THEN first ELSE Bud!MergeBlock(f[k-1], k-1)
    <3>1. ASSUME NEW k \in o..m
          PROVE  f[k] = IF k = o THEN first ELSE Bud!MergeBlock(f[k-1], k-1)
      <4>1. CASE k = m
        <5>1. k # o /\ f[k] = Bud!MergeBlock(g[k-1], k-1)
          BY <2>2, <2>6, <4>1
        <5>2. k - 1 \in o..m /\ k - 1 # m
          BY <2>1, <2>2, <4>1
        <5>3. f[k-1] = g[k-1]
          BY <2>6, <5>2
        <5> QED BY <5>1, <5>3, Zenon
      <4>2. CASE k # m
        <5>1. k \in o..m-1
          BY <2>1, <4>2
        <5>2. f[k] = g[k]
          BY <2>6, <4>2
        <5>3. CASE k = o
          BY <2>5, <5>1, <5>2, <5>3
        <5>4. CASE k # o
          <6>1. k - 1 \in o..m /\ k - 1 # m
            BY <5>1, <5>4
          <6>2. f[k-1] = g[k-1]
            BY <2>6, <6>1
          <6>3. g[k] = Bud!MergeBlock(g[k-1], k-1)
            BY <2>5, <5>1, <5>4
          <6> QED BY <5>2, <5>4, <6>2, <6>3, Zenon
        <5> QED BY <5>3, <5>4
      <4> QED BY <4>1, <4>2
    <3> QED BY <3>1
  <2>8. IsMerging(f, o, first, m)
    BY <2>6, <2>7 DEF IsMerging
  <2> QED BY <2>1, <2>8
<1>2. CASE Bad = {}
  BY <1>2
<1> QED BY <1>1, <1>2

\* And when it is done
LEMMA MergedAll ==
  ASSUME Top \in Nat, NEW o \in Bud!Order, NEW first, NEW U, NEW sz, Going(first, o, U, sz),
         NEW f, IsMerging(f, o, first, Top+1)
  PROVE  BuddyInv(f[Top+1]) /\ Using(f[Top+1], U, sz) /\ f[Top+1].block = Bud!Null
PROOF
<1>1. o \in Nat /\ o <= Top /\ Bud!Order = 0..Top
  BY HeapIs
<1>2. /\ f[o] = first
      /\ \A k \in o..Top+1 : k # o => f[k] = Bud!MergeBlock(f[k-1], k-1)
  <2>1. PICK m : m = f
    OBVIOUS
  <2>2. m = [k \in o..Top+1 |-> IF k = o THEN first ELSE Bud!MergeBlock(m[k-1], k-1)]
    BY <2>1 DEF IsMerging
  <2>3. o \in o..Top+1
    BY <1>1
  <2> QED BY <2>1, <2>2, <2>3
<1> DEFINE Bad == {k \in Nat : k >= o /\ k <= Top+1 /\ ~Going(f[k], k, U, sz)}
<1>3. CASE Bad # {}
  <2>1. PICK k \in Bad : \A j \in Bad : k <= j
    BY <1>3, LeastOfSome
  <2>2. k # o
    BY <1>2, <2>1
  <2>3. k - 1 \in Nat /\ k - 1 \in Bud!Order /\ k - 1 >= o /\ k - 1 <= Top + 1 /\ k - 1 \notin Bad
        /\ k \in o..Top+1 /\ (k - 1) + 1 = k
    BY <1>1, <2>1, <2>2
  <2>4. Going(f[k-1], k-1, U, sz)
    BY <2>3
  <2>5. f[k] = Bud!MergeBlock(f[k-1], k-1)
    BY <1>2, <2>2, <2>3
  <2>6. Going(f[k], (k-1)+1, U, sz)
    BY <2>3, <2>4, <2>5, MergeStep, Zenon
  <2>7. Going(f[k], k, U, sz)
    BY <2>3, <2>6
  <2> QED BY <2>1, <2>7
<1>4. CASE Bad = {}
  <2>1. Top+1 \in Nat /\ Top+1 >= o /\ Top+1 <= Top+1 /\ Top+1 \notin Bud!Order
    BY <1>1
  <2>2. Going(f[Top+1], Top+1, U, sz)
    BY <1>4, <2>1
  <2> QED BY <2>1, <2>2 DEF Going
<1> QED BY <1>3, <1>4

-----------------------------------------------------------------------------
(* getOrder() and free().                                                   *)

OrderFor(n, o) == o \in Nat /\ o <= n /\ Pow(o) >= n /\ (o = 0 \/ Pow(o-1) < n)

LEMMA GetOrderIs ==
  ASSUME NEW n \in Nat, n > 0
  PROVE  OrderFor(n, Bud!GetOrder(n))
PROOF
<1> DEFINE Large == {o \in Nat : Pow(o) >= n}
<1>1. n \in Large
  BY PowFacts
<1>2. PICK o \in Large : \A k \in Large : o <= k
  BY <1>1, LeastOfSome
<1>3. o \in 0..n /\ Pow(o) >= n
  BY <1>1, <1>2
<1>4. o = 0 \/ Pow(o-1) < n
  <2>1. CASE o # 0
    <3>1. o-1 \in Nat /\ o-1 \notin Large
      BY <1>2, <1>3, <2>1
    <3>2. Pow(o-1) \in Nat
      BY <3>1, PowFacts
    <3> QED BY <3>1, <3>2
  <2> QED BY <2>1
<1> DEFINE Pt(k) == 2^k >= n /\ (k = 0 \/ 2^(k-1) < n)
<1>5. Pt(o)
  BY <1>3, <1>4 DEF Pow
<1>6. Bud!GetOrder(n) = CHOOSE k \in 0..n : Pt(k)
  BY DEF Bud!GetOrder
<1>7. Bud!GetOrder(n) \in 0..n /\ Pt(Bud!GetOrder(n))
  <2> HIDE DEF Pt
  <2> QED BY <1>3, <1>5, <1>6, Zenon
<1>8. PICK k : k = Bud!GetOrder(n)
  OBVIOUS
<1>9. k \in 0..n /\ Pow(k) >= n /\ (k = 0 \/ Pow(k-1) < n)
  BY <1>7, <1>8 DEF Pow
<1> QED BY <1>8, <1>9 DEF OrderFor

LEMMA OrderOfPower ==
  ASSUME NEW k \in Nat
  PROVE  Bud!GetOrder(Pow(k)) = k
PROOF
<1>1. Pow(k) \in Nat /\ Pow(k) > 0
  BY PowFacts
<1>2. PICK o : o = Bud!GetOrder(Pow(k))
  OBVIOUS
<1>3. o \in Nat /\ Pow(o) >= Pow(k) /\ (o = 0 \/ Pow(o-1) < Pow(k))
  BY <1>1, <1>2, GetOrderIs DEF OrderFor
<1>4. CASE o < k
  <2>1. 2 * Pow(o) <= Pow(k) /\ Pow(o) \in Nat /\ Pow(o) > 0
    BY <1>3, <1>4, PowGrows, PowFacts
  <2> QED BY <1>1, <1>3, <2>1
<1>5. CASE o > k
  <2>1. o-1 \in Nat /\ k <= o-1 /\ o # 0
    BY <1>3, <1>5
  <2>2. Pow(k) <= Pow(o-1) /\ Pow(o-1) \in Nat
    BY <2>1, PowGrows, PowFacts
  <2> QED BY <1>1, <1>3, <2>1, <2>2
<1>6. CASE o = k
  BY <1>2, <1>6
<1> QED BY <1>3, <1>4, <1>5, <1>6

\* Only the fields matter.
SameFields(g, h) ==
  g.freeList = h.freeList /\ g.next = h.next /\ g.size = h.size /\ g.isFree = h.isFree

LEMMA SameHeap ==
  ASSUME NEW h, NEW g, SameFields(g, h), BuddyInv(h), Free(g) = Free(h)
  PROVE  BuddyInv(g)
PROOF
<1>1. HeapTypes(g) /\ Tiling(g.size)
  BY Zenon DEF SameFields, BuddyInv, HeapTypes
<1>2. ASSUME NEW j PROVE FreeOf(g, j) = FreeOf(h, j)
  BY Zenon DEF SameFields, FreeOf
<1>3. NoPair(g.size, Free(g))
  BY Zenon DEF SameFields, BuddyInv
<1>4. \A j \in Bud!Order : IsList(FreeOf(g, j), g.freeList[j], g.next)
  BY <1>2, Zenon DEF SameFields, BuddyInv
<1>5. g.size[0] = Pow(Top) => g.next[0] = Bud!Null
  BY Zenon DEF SameFields, BuddyInv
<1> QED BY <1>1, <1>3, <1>4, <1>5, Zenon DEF BuddyInv

HeapNow == Bud!Heap(freeList, link, blockSize, isFree, Bud!Null)

LEMMA NowIs ==
  /\ HeapNow.freeList = freeList /\ HeapNow.next = link /\ HeapNow.size = blockSize
  /\ HeapNow.isFree = isFree /\ HeapNow.block = Bud!Null
PROOF
  BY DEF HeapNow, Bud!Heap

\* Freeing b, its order and the heap at each order on the way
FreeIs(b, o, f, fl, nx, sz, fr) ==
  /\ IsMerging(f, o, Bud!Heap(freeList, link, blockSize, [isFree EXCEPT ![b] = TRUE], b), Top+1)
  /\ fl = f[Top+1].freeList /\ nx = f[Top+1].next
  /\ sz = f[Top+1].size /\ fr = f[Top+1].isFree

LEMMA FreeMerges ==
  ASSUME Top \in Nat, NEW b, NEW o \in Nat, o = Bud!GetOrder(blockSize[b]), Bud!Free(b)
  PROVE  \E f : FreeIs(b, o, f, freeList', link', blockSize', isFree')
PROOF
<1> DEFINE first == Bud!Heap(freeList, link, blockSize, [isFree EXCEPT ![b] = TRUE], b)
           x == Bud!GetOrder(blockSize[b])
           e == CHOOSE f : IsMerging(f, x, first, Top+1)
<1>1. /\ freeList' = e[Top+1].freeList /\ link' = e[Top+1].next
      /\ blockSize' = e[Top+1].size /\ isFree' = e[Top+1].isFree
  BY Zenon DEF Bud!Free, IsMerging
<1>2. \E f : IsMerging(f, o, first, Top+1)
  <2>1. Top+1 \in Nat
    OBVIOUS
  <2> HIDE DEF first
  <2> QED BY <2>1, MergingExists
<1>3. \E f : IsMerging(f, x, first, Top+1)
  <2> HIDE DEF first, x
  <2>1. x = o
    BY DEF x
  <2> QED BY <1>2, <2>1, Zenon
<1>4. IsMerging(e, x, first, Top+1)
  <2> HIDE DEF first, x
  <2> QED BY <1>3, Zenon
<1>5. PICK f : f = e
  OBVIOUS
<1>6. IsMerging(f, o, first, Top+1)
  <2> HIDE DEF first, e
  <2> QED BY <1>4, <1>5, Zenon
<1>7. /\ freeList' = f[Top+1].freeList /\ link' = f[Top+1].next
      /\ blockSize' = f[Top+1].size /\ isFree' = f[Top+1].isFree
  <2> HIDE DEF e
  <2> QED BY <1>1, <1>5, Zenon
<1>8. FreeIs(b, o, f, freeList', link', blockSize', isFree')
  BY <1>6, <1>7, Zenon DEF FreeIs
<1> QED BY <1>8, Zenon

LEMMA FreeKeeps ==
  ASSUME Top \in Nat, BuddyInv(HeapNow), NEW b \in Bud!InUse, Bud!Free(b)
  PROVE  BuddyInv(HeapNow') /\ Using(HeapNow', Bud!InUse \ {b}, blockSize)
PROOF
<1>1. PICK now : now = HeapNow
  OBVIOUS
<1>2. /\ now.freeList = freeList /\ now.next = link /\ now.size = blockSize
      /\ now.isFree = isFree /\ now.block = Bud!Null /\ BuddyInv(now)
  BY <1>1, NowIs
<1>3. b \in Bud!Addr /\ blockSize[b] > 0 /\ ~isFree[b] /\ b \in Blocks(blockSize)
  BY DEF Bud!InUse, Blocks
<1>4. /\ isFree \in [Bud!Addr -> BOOLEAN] /\ blockSize \in [Bud!Addr -> Nat] /\ Tiling(blockSize)
  BY <1>2 DEF BuddyInv, HeapTypes
<1>5. PICK o \in Bud!Order : o \in Nat /\ IsBlock(blockSize, b, o)
  BY <1>3, <1>4, BlockFacts DEF IsBlock
<1>6. o = Bud!GetOrder(blockSize[b])
  BY <1>5, OrderOfPower DEF IsBlock
<1>7. PICK fr0 : fr0 = [isFree EXCEPT ![b] = TRUE]
  OBVIOUS
<1>8. /\ fr0 \in [Bud!Addr -> BOOLEAN] /\ fr0[b]
      /\ \A a \in Bud!Addr : a # b => fr0[a] = isFree[a]
  BY <1>3, <1>4, <1>7
<1>9. PICK first : first = Bud!Heap(freeList, link, blockSize, fr0, b)
  OBVIOUS
<1>10. /\ first.freeList = freeList /\ first.next = link /\ first.size = blockSize
       /\ first.isFree = fr0 /\ first.block = b
  BY <1>9 DEF Bud!Heap
<1>11. Free(first) = Free(now)
  <2>1. ASSUME NEW c PROVE c \in Free(first) <=> c \in Free(now)
    <3>1. c \in Free(first) <=> c \in Blocks(blockSize) /\ fr0[c] /\ c # b
      BY <1>10 DEF Free
    <3>2. c \in Free(now) <=> c \in Blocks(blockSize) /\ isFree[c] /\ c # Bud!Null
      BY <1>2 DEF Free
    <3>3. c \in Blocks(blockSize) => c \in Bud!Addr /\ c # Bud!Null
      BY HeapIs DEF Blocks
    <3> QED BY <1>3, <1>8, <3>1, <3>2, <3>3
  <2> QED BY <2>1
<1>12. BuddyInv(first)
  <2>1. HeapTypes(first)
    BY <1>2, <1>8, <1>10, Zenon DEF BuddyInv, HeapTypes
  <2>2. \A j \in Bud!Order : IsList(FreeOf(first, j), first.freeList[j], first.next)
    <3>1. ASSUME NEW j \in Bud!Order PROVE FreeOf(first, j) = FreeOf(now, j)
      BY <1>2, <1>10, <1>11, Zenon DEF FreeOf
    <3> QED BY <1>2, <1>10, <3>1, Zenon DEF BuddyInv
  <2> QED BY <1>2, <1>10, <1>11, <2>1, <2>2, Zenon DEF BuddyInv
<1>13. Using(first, Bud!InUse \ {b}, blockSize)
  <2>1. ASSUME NEW a \in Bud!Addr
        PROVE  (blockSize[a] > 0 /\ ~fr0[a]) <=> a \in Bud!InUse \ {b}
    BY <1>8 DEF Bud!InUse
  <2>2. Bud!InUse \ {b} \subseteq Bud!Addr
    BY DEF Bud!InUse
  <2> QED BY <1>10, <2>1, <2>2 DEF Using
<1>14. Going(first, o, Bud!InUse \ {b}, blockSize)
  <2>1. AtOrder(first, o)
    BY <1>3, <1>5, <1>8, <1>10, Zenon DEF AtOrder
  <2> QED BY <1>12, <1>13, <2>1, Zenon DEF Going
<1>15. PICK f : FreeIs(b, o, f, freeList', link', blockSize', isFree')
  BY <1>5, <1>6, FreeMerges
<1>16. PICK h : h = f[Top+1]
  OBVIOUS
<1>17. BuddyInv(h) /\ Using(h, Bud!InUse \ {b}, blockSize) /\ h.block = Bud!Null
  <2>1. IsMerging(f, o, first, Top+1)
    BY <1>7, <1>9, <1>15, Zenon DEF FreeIs
  <2> QED BY <1>14, <1>16, <2>1, MergedAll, Zenon
<1>18. PICK g : g = HeapNow'
  OBVIOUS
<1>19. /\ g.freeList = freeList' /\ g.next = link' /\ g.size = blockSize'
       /\ g.isFree = isFree' /\ g.block = Bud!Null
  BY <1>18 DEF HeapNow, Bud!Heap
<1>20. SameFields(g, h) /\ g.block = h.block
  BY <1>15, <1>16, <1>17, <1>19, Zenon DEF FreeIs, SameFields
<1>21. Free(g) = Free(h)
  BY <1>20, Zenon DEF Free, SameFields
<1>22. BuddyInv(g)
  BY <1>17, <1>20, <1>21, SameHeap
<1>23. Using(g, Bud!InUse \ {b}, blockSize)
  BY <1>17, <1>20, Zenon DEF Using, SameFields
<1> QED BY <1>18, <1>22, <1>23

-----------------------------------------------------------------------------
(* splitBlock(): block b of order m becomes one of order o and one of each  *)
(* order between, k, that begins at b + Pow(k).                             *)

Parts(b, o, m) == {b + Pow(k) : k \in o..m-1}

PartsFacts(sz, b, o, m) ==
  /\ b \in Bud!Addr /\ b \notin Parts(b, o, m)
  /\ \A k \in o..m-1 :
       /\ b + Pow(k) \in Bud!Addr /\ b + Pow(k) \in Parts(b, o, m)
       /\ Aligned(b + Pow(k), k) /\ Bud!Buddy(b + Pow(k), Pow(k)) = b
       /\ b + Pow(k) + Pow(k) <= b + Pow(m)
       /\ sz[b + Pow(k)] = 0
       /\ \A j \in o..m-1 : b + Pow(j) = b + Pow(k) => j = k

LEMMA PartsAre ==
  ASSUME Top \in Nat, NEW sz \in [Bud!Addr -> Nat], Tiling(sz), NEW m \in Bud!Order, NEW o \in Nat,
         NEW b \in Blocks(sz), IsBlock(sz, b, m)
  PROVE  PartsFacts(sz, b, o, m)
PROOF
<1>1. b \in Bud!Addr /\ b \in Nat /\ Slot(b, m) /\ m \in Nat /\ sz[b] = Pow(m) /\ Aligned(b, m)
      /\ b + Pow(m) <= Pow(Top)
  <2>1. b \in Bud!Addr /\ b \in Nat
    BY BlockFacts
  <2>2. Aligned(b, m) /\ sz[b] = Pow(m) /\ m \in Nat
    BY HeapIs DEF IsBlock
  <2>3. Slot(b, m)
    BY <2>1, <2>2, InHeap
  <2> QED BY <2>1, <2>2, <2>3 DEF Slot
<1>2. ASSUME NEW k \in o..m-1
      PROVE  /\ k \in Nat /\ Pow(k) \in Nat /\ Pow(k) > 0 /\ 2 * Pow(k) <= Pow(m)
             /\ Pow(m) \in Nat
             /\ Aligned(b + Pow(k), k) /\ Bud!Buddy(b + Pow(k), Pow(k)) = b
  <2>1. k \in Nat /\ k < m /\ k + 1 <= m /\ k + 1 \in Nat
    BY <1>1
  <2>2. Pow(k) \in Nat /\ Pow(k) > 0 /\ 2 * Pow(k) <= Pow(m) /\ Pow(m) \in Nat
    BY <1>1, <2>1, PowFacts, PowGrows
  <2>3. Aligned(b, k+1)
    BY <1>1, <2>1, AlignedFacts
  <2> QED BY <2>1, <2>2, <2>3, Halves
<1>3. ASSUME NEW k \in o..m-1
      PROVE  /\ b + Pow(k) \in Bud!Addr
             /\ b + Pow(k) + Pow(k) <= b + Pow(m) /\ sz[b + Pow(k)] = 0
  <2>1. PICK p \in Nat : p = Pow(k) /\ p > 0 /\ 2 * p <= Pow(m) /\ Pow(m) \in Nat
    BY <1>2
  <2>2. b + p \in Bud!Addr /\ b + p + p <= b + Pow(m) /\ b + p > b /\ b + p < b + Pow(m)
    BY <1>1, <2>1, HeapIs
  <2>3. PICK a \in Bud!Addr : a = b + p
    BY <2>2
  <2>4. sz[a] = 0
    <3>1. CASE sz[a] # 0
      <4>1. a \in Blocks(sz)
        BY <3>1 DEF Blocks
      <4>2. b + sz[b] <= a
        BY <2>2, <2>3, <4>1 DEF Tiling
      <4> QED BY <1>1, <2>1, <2>2, <2>3, <4>2
    <3> QED BY <3>1
  <2> QED BY <2>1, <2>2, <2>3, <2>4
<1>4. ASSUME NEW k \in o..m-1, NEW j \in o..m-1, b + Pow(j) = b + Pow(k)
      PROVE  j = k
  <2>1. Pow(j) = Pow(k) /\ j \in Nat /\ k \in Nat
    BY <1>1, <1>2, <1>4
  <2> QED BY <2>1, PowGrows
<1>5. b \notin Parts(b, o, m)
  BY <1>1, <1>2 DEF Parts
<1>6. \A k \in o..m-1 : b + Pow(k) \in Parts(b, o, m)
  BY DEF Parts
<1> QED BY <1>1, <1>2, <1>3, <1>4, <1>5, <1>6 DEF PartsFacts

\* The sizes after it
Divided(sz, b, o, m, sz2) ==
  /\ sz2 \in [Bud!Addr -> Nat] /\ sz2[b] = Pow(o)
  /\ \A k \in o..m-1 : sz2[b + Pow(k)] = Pow(k)
  /\ \A a \in Bud!Addr : a # b /\ a \notin Parts(b, o, m) => sz2[a] = sz[a]

LEMMA DividedTiling ==
  ASSUME Top \in Nat, NEW sz \in [Bud!Addr -> Nat], Tiling(sz), NEW m \in Bud!Order,
         NEW o \in Nat, o <= m, NEW b \in Blocks(sz), IsBlock(sz, b, m),
         NEW sz2, Divided(sz, b, o, m, sz2)
  PROVE  /\ Tiling(sz2) /\ IsBlock(sz2, b, o)
         /\ Blocks(sz2) = Blocks(sz) \cup Parts(b, o, m)
PROOF
<1>1. PartsFacts(sz, b, o, m)
  BY PartsAre
<1>2. /\ b \in Bud!Addr /\ b \in Nat /\ b \notin Parts(b, o, m)
      /\ m \in Nat /\ sz[b] = Pow(m) /\ Aligned(b, m)
  BY <1>1, HeapIs DEF PartsFacts, IsBlock
<1>3. /\ Pow(o) \in Nat /\ Pow(o) > 0 /\ Pow(m) \in Nat /\ Pow(o) <= Pow(m)
      /\ \A k \in o..m-1 : k \in Nat /\ Pow(k) \in Nat /\ Pow(k) > 0 /\ Pow(o) <= Pow(k)
  <2>1. Pow(o) \in Nat /\ Pow(o) > 0 /\ Pow(m) \in Nat /\ Pow(o) <= Pow(m)
    BY <1>2, PowFacts, PowGrows
  <2>2. ASSUME NEW k \in o..m-1
        PROVE  k \in Nat /\ Pow(k) \in Nat /\ Pow(k) > 0 /\ Pow(o) <= Pow(k)
    <3>1. k \in Nat /\ o <= k
      BY <1>2
    <3> QED BY <3>1, PowFacts, PowGrows
  <2> QED BY <2>1, <2>2
<1>4. /\ sz2 \in [Bud!Addr -> Nat] /\ sz2[b] = Pow(o)
      /\ \A k \in o..m-1 : sz2[b + Pow(k)] = Pow(k)
      /\ \A a \in Bud!Addr : a # b /\ a \notin Parts(b, o, m) => sz2[a] = sz[a]
  BY DEF Divided
<1>5. \A a \in Parts(b, o, m) :
        \E k \in o..m-1 : a = b + Pow(k)
  BY DEF Parts
<1>6. Blocks(sz2) = Blocks(sz) \cup Parts(b, o, m)
  <2>1. ASSUME NEW a \in Bud!Addr PROVE sz2[a] > 0 <=> (sz[a] > 0 \/ a \in Parts(b, o, m))
    <3>1. CASE a = b
      BY <1>2, <1>3, <1>4, <3>1 DEF Blocks
    <3>2. CASE a \in Parts(b, o, m)
      <4>1. PICK k \in o..m-1 : a = b + Pow(k)
        BY <1>5, <3>2
      <4>2. sz2[a] = Pow(k) /\ Pow(k) > 0
        BY <1>3, <1>4, <4>1
      <4> QED BY <3>2, <4>2
    <3>3. CASE a # b /\ a \notin Parts(b, o, m)
      BY <1>4, <3>3
    <3> QED BY <3>1, <3>2, <3>3
  <2>2. Parts(b, o, m) \subseteq Bud!Addr
    BY <1>1, <1>5 DEF PartsFacts
  <2> QED BY <2>1, <2>2 DEF Blocks
<1>7. IsBlock(sz2, b, o)
  <2>1. Aligned(b, o)
    BY <1>2, AlignedFacts
  <2>2. o \in Bud!Order
    BY HeapIs
  <2> QED BY <1>4, <2>1, <2>2 DEF IsBlock
<1>8. ASSUME NEW a \in Bud!Addr PROVE sz2[a] = 0 \/ \E k : IsBlock(sz2, a, k)
  <2>1. CASE a = b
    BY <1>7, <2>1
  <2>2. CASE a \in Parts(b, o, m)
    <3>1. PICK k \in o..m-1 : a = b + Pow(k)
      BY <1>5, <2>2
    <3>2. k \in Bud!Order /\ Aligned(a, k) /\ sz2[a] = Pow(k)
      BY <1>1, <1>2, <1>4, <3>1, HeapIs DEF PartsFacts
    <3> QED BY <3>2 DEF IsBlock
  <2>3. CASE a # b /\ a \notin Parts(b, o, m)
    <3>1. sz2[a] = sz[a]
      BY <1>4, <2>3
    <3>2. sz[a] = 0 \/ \E k : IsBlock(sz, a, k)
      BY DEF Tiling
    <3> QED BY <3>1, <3>2, Zenon DEF IsBlock
  <2> QED BY <2>1, <2>2, <2>3
<1>9. \A c \in Blocks(sz) : c \in Nat /\ c \notin Parts(b, o, m) /\ sz[c] \in Nat
  <2>1. ASSUME NEW c \in Blocks(sz), c \in Parts(b, o, m) PROVE FALSE
    <3>1. PICK k \in o..m-1 : c = b + Pow(k)
      BY <1>5, <2>1
    <3>2. sz[c] = 0
      BY <1>1, <3>1 DEF PartsFacts
    <3> QED BY <3>2 DEF Blocks
  <2>2. \A c \in Blocks(sz) : c \in Nat /\ sz[c] \in Nat
    BY BlockFacts
  <2> QED BY <2>1, <2>2
<1>10. ASSUME NEW a \in Blocks(sz), NEW c \in Blocks(sz), a < c  PROVE a + sz[a] <= c
  BY <1>10 DEF Tiling
<1>11. ASSUME NEW k \in o..m-1
       PROVE  b + Pow(k) \in Nat /\ b < b + Pow(k) /\ b + Pow(k) + Pow(k) <= b + Pow(m)
              /\ b + Pow(o) <= b + Pow(k)
  BY <1>1, <1>2, <1>3 DEF PartsFacts
<1>12. ASSUME NEW a \in Blocks(sz2), NEW c \in Blocks(sz2), a < c  PROVE a + sz2[a] <= c
  <2>1. CASE a = b
    <3>1. CASE c \in Blocks(sz)
      <4>1. b + Pow(m) <= c /\ c \in Nat
        BY <1>2, <1>9, <1>10, <1>12, <2>1, <3>1
      <4> QED BY <1>2, <1>3, <1>4, <2>1, <4>1
    <3>2. CASE c \in Parts(b, o, m)
      <4>1. PICK k \in o..m-1 : c = b + Pow(k)
        BY <1>5, <3>2
      <4> QED BY <1>4, <1>11, <2>1, <4>1
    <3> QED BY <1>6, <3>1, <3>2
  <2>2. CASE a \in Parts(b, o, m)
    <3>1. PICK j \in o..m-1 : a = b + Pow(j)
      BY <1>5, <2>2
    <3>2. PICK p \in Nat : p = Pow(j) /\ sz2[a] = p
      BY <1>3, <1>4, <3>1
    <3>3. b < a /\ a \in Nat /\ a + p <= b + Pow(m)
      BY <1>11, <3>1, <3>2
    <3>4. CASE c \in Blocks(sz)
      <4>1. c \in Nat /\ b < c
        BY <1>2, <1>9, <1>12, <3>3, <3>4
      <4>2. b + Pow(m) <= c
        BY <1>2, <1>10, <3>4, <4>1
      <4> QED BY <1>2, <1>3, <3>2, <3>3, <4>1, <4>2
    <3>5. CASE c \in Parts(b, o, m)
      <4>1. PICK k \in o..m-1 : c = b + Pow(k)
        BY <1>5, <3>5
      <4>2. PICK q \in Nat : q = Pow(k)
        BY <1>3
      <4>3. j < k
        <5>1. p < q
          BY <1>2, <1>12, <3>1, <3>2, <4>1, <4>2
        <5>2. k <= j => q <= p
          <6>1. k \in Nat /\ j \in Nat
            BY <1>3
          <6> QED BY <3>2, <4>2, <6>1, PowGrows
        <5> QED BY <5>1, <5>2
      <4>4. 2 * p <= q
        <5>1. k \in Nat /\ j \in Nat
          BY <1>3
        <5> QED BY <3>2, <4>2, <4>3, <5>1, PowGrows
      <4> QED BY <1>2, <3>1, <3>2, <4>1, <4>2, <4>4
    <3> QED BY <1>6, <3>4, <3>5
  <2>3. CASE a \in Blocks(sz) /\ a # b
    <3>1. a \in Nat /\ sz2[a] = sz[a] /\ sz[a] \in Nat
      <4>1. a \in Bud!Addr
        BY <2>3 DEF Blocks
      <4> QED BY <1>4, <1>9, <2>3, <4>1
    <3>2. CASE c \in Blocks(sz)
      BY <1>10, <1>12, <2>3, <3>1, <3>2
    <3>3. CASE c \in Parts(b, o, m)
      <4>1. PICK k \in o..m-1 : c = b + Pow(k)
        BY <1>5, <3>3
      <4>2. c < b + Pow(m) /\ b < c /\ c \in Nat
        <5>1. PICK p \in Nat : p = Pow(k) /\ p > 0
          BY <1>3
        <5>2. b + p + p <= b + Pow(m)
          BY <1>11, <5>1
        <5> QED BY <1>2, <1>3, <4>1, <5>1, <5>2
      <4>3. ~(b < a)
        <5>1. CASE b < a
          <6>1. b + Pow(m) <= a
            BY <1>2, <1>10, <2>3, <5>1
          <6> QED BY <1>2, <1>3, <1>12, <3>1, <4>2, <6>1
        <5> QED BY <5>1
      <4>4. a < b
        BY <1>2, <2>3, <3>1, <4>3
      <4>5. a + sz[a] <= b
        BY <1>10, <2>3, <4>4
      <4> QED BY <1>2, <3>1, <4>2, <4>5
    <3> QED BY <1>6, <3>2, <3>3
  <2> QED BY <1>6, <2>1, <2>2, <2>3
<1>13. ASSUME NEW w \in Bud!Addr PROVE \E a \in Blocks(sz2) : a <= w /\ w < a + sz2[a]
  <2>1. PICK a \in Blocks(sz) : a <= w /\ w < a + sz[a]
    BY DEF Tiling
  <2>2. w \in Nat /\ a \in Nat /\ a \in Bud!Addr
    BY HeapIs DEF Blocks
  <2>3. CASE a # b
    <3>1. sz2[a] = sz[a] /\ a \in Blocks(sz2)
      BY <1>4, <1>6, <1>9, <2>2, <2>3
    <3> QED BY <2>1, <3>1
  <2>4. CASE a = b
    <3> DEFINE Above == {k \in Nat : o <= k /\ w < b + Pow(k)}
    <3>1. m \in Above
      BY <1>2, <2>1, <2>4
    <3>2. PICK k \in Above : \A j \in Above : k <= j
      BY <3>1, LeastOfSome
    <3>3. k \in Nat /\ o <= k /\ k <= m /\ w < b + Pow(k)
      BY <3>1, <3>2
    <3>4. CASE k = o
      BY <1>4, <1>6, <2>1, <2>4, <3>3, <3>4
    <3>5. CASE k # o
      <4>1. k-1 \in Nat /\ k-1 \in o..m-1 /\ k-1 \notin Above /\ (k-1)+1 = k
        BY <1>2, <3>2, <3>3, <3>5
      <4>2. PICK i \in o..m-1 : i = k-1 /\ i \in Nat
        BY <4>1
      <4>3. PICK p \in Nat : p = Pow(i) /\ Pow(k) = 2 * p
        BY <4>1, <4>2, PowFacts
      <4>4. b + p <= w /\ w < b + 2 * p
        BY <1>2, <2>2, <3>3, <4>1, <4>2, <4>3
      <4>5. b + p \in Blocks(sz2) /\ sz2[b + p] = p
        BY <1>1, <1>4, <1>6, <4>2, <4>3 DEF PartsFacts
      <4>6. w < b + p + p
        BY <1>2, <2>2, <4>4
      <4> QED BY <4>4, <4>5, <4>6
    <3> QED BY <3>4, <3>5
  <2> QED BY <2>3, <2>4
<1>14. Tiling(sz2)
  BY <1>8, <1>12, <1>13, Zenon DEF Tiling
<1> QED BY <1>6, <1>7, <1>14

-----------------------------------------------------------------------------
(* internalMalloc().                                                        *)

\* The order of the part that begins at a
OrderIn(b, o, m, a) == CHOOSE k \in o..m-1 : a = b + Pow(k)

\* The lists on which it looks
Candidates(fl, fr, o) == {k \in o..Top : fl[k] # Bud!Null /\ fr[fl[k]]}

Splits(fl, nx, sz, fr, o, m, b, fl2, nx2, sz2, fr2) ==
  /\ b = fl[m]
  /\ fl2 = [k \in Bud!Order |-> IF k \in o..m-1 THEN b + Pow(k)
                              ELSE IF k = m THEN nx[b] ELSE fl[k]]
  /\ nx2 = [a \in Bud!Addr |-> IF a \in Parts(b, o, m) THEN fl[OrderIn(b, o, m, a)]
                                                     ELSE nx[a]]
  /\ sz2 = [a \in Bud!Addr |-> IF a \in Parts(b, o, m) THEN Pow(OrderIn(b, o, m, a))
                             ELSE IF a = b THEN Pow(o) ELSE sz[a]]
  /\ fr2 = [a \in Bud!Addr |-> a \in Parts(b, o, m) \/ (fr[a] /\ a # b)]

LEMMA MallocSplits ==
  ASSUME NEW n, Bud!Malloc(n)
  PROVE  \E m, b :
           /\ Candidates(freeList, isFree, Bud!GetOrder(n + 2)) # {}
           /\ m = CHOOSE k \in Candidates(freeList, isFree, Bud!GetOrder(n + 2)) :
                    \A j \in Candidates(freeList, isFree, Bud!GetOrder(n + 2)) : k <= j
           /\ Splits(freeList, link, blockSize, isFree, Bud!GetOrder(n + 2), m, b,
                     freeList', link', blockSize', isFree')
PROOF
<1> DEFINE o == Bud!GetOrder(n + 2)
           C == Candidates(freeList, isFree, o)
           m == CHOOSE k \in C : \A j \in C : k <= j
           b == freeList[m]
<1>1. Bud!Header = 2
  BY DEF Bud!Header
<1>2. Bud!Usable(n) = C
  BY <1>1, Zenon DEF Bud!Usable, Candidates
<1>3. C # {}
  BY <1>2, Zenon DEF Bud!Malloc, Bud!Fits
<1>4. Splits(freeList, link, blockSize, isFree, o, m, b,
             freeList', link', blockSize', isFree')
  BY Zenon DEF Bud!Malloc, Bud!Usable, Bud!Header, Candidates, Splits, Parts, OrderIn, Pow
<1> HIDE DEF b, m
<1>5. m = CHOOSE k \in C : \A j \in C : k <= j
  BY DEF m
<1> QED BY <1>3, <1>4, <1>5, Zenon

\* What the functions are at each order and at each address
SplitFacts(fl, nx, sz, fr, o, m, b, fl2, nx2, sz2, fr2) ==
  /\ fl2 \in [Bud!Order -> Bud!Addr \cup {Bud!Null}] /\ nx2 \in [Bud!Addr -> Bud!Addr \cup {Bud!Null}]
  /\ fr2 \in [Bud!Addr -> BOOLEAN] /\ Divided(sz, b, o, m, sz2)
  /\ \A k \in o..m-1 : fl2[k] = b + Pow(k) /\ nx2[b + Pow(k)] = fl[k] /\ fr2[b + Pow(k)]
  /\ fl2[m] = nx[b] /\ ~fr2[b]
  /\ \A k \in Bud!Order : k # m /\ k \notin o..m-1 => fl2[k] = fl[k]
  /\ \A a \in Bud!Addr : a \notin Parts(b, o, m) => nx2[a] = nx[a]
  /\ \A a \in Bud!Addr : a # b /\ a \notin Parts(b, o, m) => (fr2[a] <=> fr[a])

LEMMA SplitIs ==
  ASSUME Top \in Nat, NEW fl \in [Bud!Order -> Bud!Addr \cup {Bud!Null}],
         NEW nx \in [Bud!Addr -> Bud!Addr \cup {Bud!Null}], NEW sz \in [Bud!Addr -> Nat],
         NEW fr \in [Bud!Addr -> BOOLEAN], NEW m \in Bud!Order, NEW o \in Nat, o <= m,
         NEW b \in Bud!Addr, PartsFacts(sz, b, o, m),
         NEW fl2, NEW nx2, NEW sz2, NEW fr2,
         Splits(fl, nx, sz, fr, o, m, b, fl2, nx2, sz2, fr2)
  PROVE  SplitFacts(fl, nx, sz, fr, o, m, b, fl2, nx2, sz2, fr2)
PROOF
<1>1. PICK Pt : Pt = Parts(b, o, m)
  OBVIOUS
<1>2. /\ b \notin Pt
      /\ \A k \in o..m-1 :
           /\ b + Pow(k) \in Bud!Addr /\ b + Pow(k) \in Pt
           /\ \A j \in o..m-1 : b + Pow(j) = b + Pow(k) => j = k
  BY <1>1, Zenon DEF PartsFacts
<1>3. \A a \in Pt : \E k \in o..m-1 : a = b + Pow(k)
  BY <1>1 DEF Parts
<1>4. PICK in : in = [a \in Bud!Addr |-> OrderIn(b, o, m, a)]
  OBVIOUS
<1>5. /\ \A a \in Bud!Addr : in[a] = OrderIn(b, o, m, a)
      /\ \A k \in o..m-1 : in[b + Pow(k)] = k
  <2>1. \A a \in Bud!Addr : in[a] = OrderIn(b, o, m, a)
    BY <1>4
  <2>2. ASSUME NEW k \in o..m-1 PROVE in[b + Pow(k)] = k
    <3>1. PICK a \in Bud!Addr : a = b + Pow(k) /\ \A j \in o..m-1 : a = b + Pow(j) => j = k
      BY <1>2
    <3>2. OrderIn(b, o, m, a) \in o..m-1 /\ a = b + Pow(OrderIn(b, o, m, a))
      BY <3>1, Zenon DEF OrderIn
    <3>3. in[a] = k
      BY <2>1, <3>1, <3>2
    <3> QED BY <3>1, <3>3
  <2> QED BY <2>1, <2>2
<1>6. /\ m \in Nat /\ m <= Top /\ Bud!Order = 0..Top
      /\ \A k \in o..m-1 : k \in Bud!Order /\ k # m /\ Pow(k) \in Nat
      /\ Pow(o) \in Nat
  <2>1. m \in Nat /\ m <= Top /\ Bud!Order = 0..Top
    BY HeapIs
  <2>2. ASSUME NEW k \in o..m-1 PROVE k \in Bud!Order /\ k # m /\ Pow(k) \in Nat
    <3>1. k \in Nat /\ k \in Bud!Order /\ k # m
      BY <2>1
    <3> QED BY <3>1, PowFacts
  <2> QED BY <2>1, <2>2, PowFacts
<1>7. /\ fl2 = [k \in Bud!Order |-> IF k \in o..m-1 THEN b + Pow(k)
                                  ELSE IF k = m THEN nx[b] ELSE fl[k]]
      /\ nx2 = [a \in Bud!Addr |-> IF a \in Pt THEN fl[OrderIn(b, o, m, a)] ELSE nx[a]]
      /\ sz2 = [a \in Bud!Addr |-> IF a \in Pt THEN Pow(OrderIn(b, o, m, a))
                                 ELSE IF a = b THEN Pow(o) ELSE sz[a]]
      /\ fr2 = [a \in Bud!Addr |-> a \in Pt \/ (fr[a] /\ a # b)]
  BY <1>1, Zenon DEF Splits
<1>8. /\ fl2 \in [Bud!Order -> Bud!Addr \cup {Bud!Null}]
      /\ \A k \in o..m-1 : fl2[k] = b + Pow(k)
      /\ fl2[m] = nx[b]
      /\ \A k \in Bud!Order : k # m /\ k \notin o..m-1 => fl2[k] = fl[k]
  <2>1. \A k \in Bud!Order : fl2[k] = IF k \in o..m-1 THEN b + Pow(k)
                                    ELSE IF k = m THEN nx[b] ELSE fl[k]
    BY <1>7
  <2>2. \A k \in Bud!Order : fl2[k] \in Bud!Addr \cup {Bud!Null}
    BY <1>2, <2>1
  <2>3. fl2 \in [Bud!Order -> Bud!Addr \cup {Bud!Null}]
    BY <1>7, <2>1, <2>2
  <2>4. m \notin o..m-1
    BY <1>6
  <2> QED BY <1>6, <2>1, <2>3, <2>4
<1>9. /\ nx2 \in [Bud!Addr -> Bud!Addr \cup {Bud!Null}]
      /\ \A k \in o..m-1 : nx2[b + Pow(k)] = fl[k]
      /\ \A a \in Bud!Addr : a \notin Pt => nx2[a] = nx[a]
  <2>1. \A a \in Bud!Addr : nx2[a] = IF a \in Pt THEN fl[OrderIn(b, o, m, a)] ELSE nx[a]
    BY <1>7
  <2>2. \A a \in Bud!Addr : a \in Pt => nx2[a] = fl[in[a]]
    BY <1>5, <2>1
  <2>3. \A k \in o..m-1 : nx2[b + Pow(k)] = fl[k]
    BY <1>2, <1>5, <2>2
  <2>4. \A a \in Bud!Addr : nx2[a] \in Bud!Addr \cup {Bud!Null}
    <3>1. ASSUME NEW a \in Bud!Addr, a \in Pt PROVE nx2[a] \in Bud!Addr \cup {Bud!Null}
      <4>1. PICK k \in o..m-1 : a = b + Pow(k)
        BY <1>3, <3>1
      <4>2. nx2[a] = fl[k] /\ k \in Bud!Order
        BY <1>6, <2>3, <4>1
      <4> QED BY <4>2
    <3> QED BY <2>1, <3>1
  <2> QED BY <1>7, <2>1, <2>3, <2>4
<1>10. Divided(sz, b, o, m, sz2)
  <2>1. \A a \in Bud!Addr : sz2[a] = IF a \in Pt THEN Pow(OrderIn(b, o, m, a))
                                   ELSE IF a = b THEN Pow(o) ELSE sz[a]
    BY <1>7
  <2>2. \A a \in Bud!Addr : a \in Pt => sz2[a] = Pow(in[a])
    BY <1>5, <2>1
  <2>3. \A k \in o..m-1 : sz2[b + Pow(k)] = Pow(k)
    BY <1>2, <1>5, <2>2
  <2>4. \A a \in Bud!Addr : sz2[a] \in Nat
    <3>1. ASSUME NEW a \in Bud!Addr, a \in Pt PROVE sz2[a] \in Nat
      <4>1. PICK k \in o..m-1 : a = b + Pow(k)
        BY <1>3, <3>1
      <4> QED BY <1>6, <2>3, <4>1
    <3> QED BY <1>6, <2>1, <3>1
  <2>5. sz2 \in [Bud!Addr -> Nat]
    BY <1>7, <2>4
  <2>6. sz2[b] = Pow(o) /\ \A a \in Bud!Addr : a # b /\ a \notin Pt => sz2[a] = sz[a]
    BY <1>2, <2>1
  <2> QED BY <1>1, <2>3, <2>5, <2>6, Zenon DEF Divided
<1>11. /\ fr2 \in [Bud!Addr -> BOOLEAN]
       /\ \A k \in o..m-1 : fr2[b + Pow(k)]
       /\ ~fr2[b]
       /\ \A a \in Bud!Addr : a # b /\ a \notin Pt => (fr2[a] <=> fr[a])
  <2>1. \A a \in Bud!Addr : fr2[a] <=> (a \in Pt \/ (fr[a] /\ a # b))
    BY <1>7
  <2>2. fr2 \in [Bud!Addr -> BOOLEAN]
    BY <1>7
  <2> QED BY <1>2, <2>1, <2>2
<1>12. /\ \A k \in o..m-1 : fl2[k] = b + Pow(k) /\ nx2[b + Pow(k)] = fl[k] /\ fr2[b + Pow(k)]
  BY <1>8, <1>9, <1>11
<1> QED BY <1>1, <1>8, <1>9, <1>10, <1>11, <1>12, Zenon DEF SplitFacts

LEMMA SplitKeeps ==
  ASSUME Top \in Nat, NEW h, BuddyInv(h), h.block = Bud!Null, NEW o \in Nat,
         NEW m \in Candidates(h.freeList, h.isFree, o),
         \A j \in Candidates(h.freeList, h.isFree, o) : m <= j,
         NEW b, NEW g, g.block = Bud!Null,
         Splits(h.freeList, h.next, h.size, h.isFree, o, m, b,
                g.freeList, g.next, g.size, g.isFree),
         NEW U, Using(h, U, h.size)
  PROVE  /\ BuddyInv(g) /\ b \notin U /\ Using(g, U \cup {b}, g.size)
         /\ \A a \in U : g.size[a] = h.size[a]
         /\ IsBlock(g.size, b, o) /\ b \in Bud!Addr
PROOF
<1>1. PICK fl, nx, sz, fr : /\ fl = h.freeList /\ nx = h.next /\ sz = h.size /\ fr = h.isFree
  OBVIOUS
<1>2. PICK fl2, nx2, sz2, fr2 :
        g.freeList = fl2 /\ g.next = nx2 /\ g.size = sz2 /\ g.isFree = fr2
  OBVIOUS
<1>3. /\ fl \in [Bud!Order -> Bud!Addr \cup {Bud!Null}] /\ nx \in [Bud!Addr -> Bud!Addr \cup {Bud!Null}]
      /\ sz \in [Bud!Addr -> Nat] /\ fr \in [Bud!Addr -> BOOLEAN]
      /\ Tiling(sz) /\ NoPair(sz, Free(h))
      /\ \A j \in Bud!Order : IsList(FreeOf(h, j), fl[j], nx)
      /\ sz[0] = Pow(Top) => nx[0] = Bud!Null
  BY <1>1 DEF BuddyInv, HeapTypes
<1>4. /\ m \in o..Top /\ fl[m] # Bud!Null /\ fr[fl[m]]
      /\ \A j \in o..m-1 : fl[j] = Bud!Null \/ ~fr[fl[j]]
      /\ m \in Nat /\ m \in Bud!Order /\ o <= m
  <2>1. m \in o..Top /\ fl[m] # Bud!Null /\ fr[fl[m]]
    BY <1>1 DEF Candidates
  <2>2. ASSUME NEW j \in o..m-1, fl[j] # Bud!Null, fr[fl[j]] PROVE FALSE
    <3>1. j \in Candidates(h.freeList, h.isFree, o)
      BY <1>1, <2>1, <2>2 DEF Candidates
    <3>2. m <= j
      BY <3>1
    <3> QED BY <2>1, <3>2
  <2> QED BY <2>1, <2>2, HeapIs
<1>5. Splits(fl, nx, sz, fr, o, m, b, fl2, nx2, sz2, fr2) /\ b = fl[m]
  <2>1. Splits(fl, nx, sz, fr, o, m, b, fl2, nx2, sz2, fr2)
    BY <1>1, <1>2, Zenon
  <2> QED BY <2>1, Zenon DEF Splits
<1>6. ASSUME NEW j \in Bud!Order, NEW c \in FreeOf(h, j)
      PROVE  c \in Bud!Addr /\ c \in Blocks(sz) /\ fr[c] /\ sz[c] = Pow(j)
  BY <1>1, <1>6, FreeOfFacts
<1>7. b \in FreeOf(h, m) /\ b \in Bud!Addr /\ b \in Blocks(sz) /\ fr[b] /\ sz[b] = Pow(m)
  <2>1. FreeOf(h, m) # {}
    BY <1>3, <1>4, ListFacts
  <2>2. b \in FreeOf(h, m)
    BY <1>3, <1>4, <1>5, <2>1, ListFacts
  <2> QED BY <1>4, <1>6, <2>2
<1>8. ASSUME NEW j \in o..m-1 PROVE FreeOf(h, j) = {} /\ fl[j] = Bud!Null /\ j \in Bud!Order /\ j \in Nat
  <2>1. j \in Bud!Order /\ j \in Nat
    BY <1>4, HeapIs
  <2>2. FreeOf(h, j) = {}
    <3>1. ASSUME FreeOf(h, j) # {} PROVE FALSE
      <4>1. fl[j] \in FreeOf(h, j)
        BY <1>3, <2>1, <3>1, ListFacts
      <4>2. fl[j] \in Bud!Addr /\ fr[fl[j]]
        BY <1>6, <2>1, <4>1
      <4> QED BY <1>4, <4>2, HeapIs
    <3> QED BY <3>1
  <2> QED BY <1>3, <2>1, <2>2, ListFacts
<1>9. IsBlock(sz, b, m)
  <2>1. PICK k \in Nat : IsBlock(sz, b, k)
    BY <1>3, <1>7, BlockFacts
  <2>2. Pow(k) = Pow(m)
    BY <1>7, <2>1 DEF IsBlock
  <2>3. k = m
    BY <1>4, <2>1, <2>2, PowGrows
  <2> QED BY <2>1, <2>3
<1>10. PartsFacts(sz, b, o, m)
  BY <1>3, <1>4, <1>7, <1>9, PartsAre
<1>11. SplitFacts(fl, nx, sz, fr, o, m, b, fl2, nx2, sz2, fr2)
  BY <1>3, <1>4, <1>5, <1>7, <1>10, SplitIs, Zenon
<1>12. PICK Pt : Pt = Parts(b, o, m)
  OBVIOUS
<1>13. /\ fl2 \in [Bud!Order -> Bud!Addr \cup {Bud!Null}] /\ nx2 \in [Bud!Addr -> Bud!Addr \cup {Bud!Null}]
       /\ fr2 \in [Bud!Addr -> BOOLEAN] /\ Divided(sz, b, o, m, sz2)
       /\ \A k \in o..m-1 : fl2[k] = b + Pow(k) /\ nx2[b + Pow(k)] = fl[k] /\ fr2[b + Pow(k)]
       /\ fl2[m] = nx[b] /\ ~fr2[b]
       /\ \A k \in Bud!Order : k # m /\ k \notin o..m-1 => fl2[k] = fl[k]
       /\ \A a \in Bud!Addr : a \notin Pt => nx2[a] = nx[a]
       /\ \A a \in Bud!Addr : a # b /\ a \notin Pt => (fr2[a] <=> fr[a])
  BY <1>11, <1>12, Zenon DEF SplitFacts
<1>14. /\ sz2 \in [Bud!Addr -> Nat] /\ sz2[b] = Pow(o)
       /\ \A k \in o..m-1 : sz2[b + Pow(k)] = Pow(k)
       /\ \A a \in Bud!Addr : a # b /\ a \notin Pt => sz2[a] = sz[a]
  BY <1>12, <1>13, Zenon DEF Divided
<1>15. Tiling(sz2) /\ IsBlock(sz2, b, o) /\ Blocks(sz2) = Blocks(sz) \cup Pt
  <2>1. Divided(sz, b, o, m, sz2) /\ sz \in [Bud!Addr -> Nat] /\ Tiling(sz)
    BY <1>3, <1>13
  <2>2. b \in Blocks(sz) /\ m \in Bud!Order /\ o <= m
    BY <1>4, <1>7
  <2>3. /\ Tiling(sz2) /\ IsBlock(sz2, b, o)
        /\ Blocks(sz2) = Blocks(sz) \cup Parts(b, o, m)
    BY <1>9, <2>1, <2>2, DividedTiling
  <2> QED BY <1>12, <2>3, Zenon
<1>16. /\ b \notin Pt
       /\ \A k \in o..m-1 : b + Pow(k) \in Bud!Addr /\ b + Pow(k) \in Pt
                            /\ Bud!Buddy(b + Pow(k), Pow(k)) = b /\ sz[b + Pow(k)] = 0
       /\ \A a \in Pt : \E k \in o..m-1 : a = b + Pow(k)
  <2>1. \A a \in Pt : \E k \in o..m-1 : a = b + Pow(k)
    BY <1>12 DEF Parts
  <2> QED BY <1>10, <1>12, <2>1, Zenon DEF PartsFacts
<1>17. \A c \in Blocks(sz) : c \in Bud!Addr /\ c \notin Pt /\ c # Bud!Null
  <2>1. ASSUME NEW c \in Blocks(sz), c \in Pt PROVE FALSE
    <3>1. PICK k \in o..m-1 : c = b + Pow(k)
      BY <1>16, <2>1
    <3>2. sz[c] = 0
      BY <1>16, <3>1
    <3> QED BY <3>2 DEF Blocks
  <2> QED BY <2>1, HeapIs DEF Blocks
<1>18. Free(g) = (Free(h) \ {b}) \cup Pt
  <2>1. ASSUME NEW c PROVE c \in Free(g) <=> ((c \in Free(h) /\ c # b) \/ c \in Pt)
    <3>1. c \in Free(g) <=> (c \in Blocks(sz2) /\ fr2[c] /\ c # Bud!Null)
      BY <1>2, Zenon DEF Free
    <3>2. c \in Free(h) <=> (c \in Blocks(sz) /\ fr[c] /\ c # Bud!Null)
      BY <1>1, Zenon DEF Free
    <3>3. CASE c \in Pt
      <4>1. PICK k \in o..m-1 : c = b + Pow(k)
        BY <1>16, <3>3
      <4>2. fr2[c] /\ c \in Bud!Addr
        BY <1>13, <1>16, <4>1
      <4>3. c # Bud!Null
        BY <4>2, HeapIs
      <4> QED BY <1>15, <3>1, <3>3, <4>2, <4>3
    <3>4. CASE c \notin Pt
      <4>1. c \in Blocks(sz2) <=> c \in Blocks(sz)
        BY <1>15, <3>4
      <4>2. CASE c \in Blocks(sz)
        <5>1. c \in Bud!Addr /\ c # Bud!Null
          BY <1>17, <4>2
        <5>2. c # b => (fr2[c] <=> fr[c])
          BY <1>13, <3>4, <5>1
        <5> QED BY <1>13, <3>1, <3>2, <3>4, <4>1, <4>2, <5>2
      <4>3. CASE c \notin Blocks(sz)
        BY <3>1, <3>2, <3>4, <4>1, <4>3
      <4> QED BY <4>2, <4>3
    <3> QED BY <3>3, <3>4
  <2> QED BY <2>1
<1>19. \A c \in Free(h) : c \in Bud!Addr /\ c \notin Pt /\ c \in Blocks(sz)
  <2>1. \A c \in Free(h) : c \in Blocks(sz)
    BY <1>1 DEF Free
  <2> QED BY <1>17, <2>1
<1>20. ASSUME NEW j \in Bud!Order, NEW c \in Free(h), c # b
       PROVE  sz2[c] = sz[c] /\ (c \in FreeOf(h, j) <=> sz[c] = Pow(j))
  <2>1. sz2[c] = sz[c]
    BY <1>14, <1>19, <1>20
  <2>2. c \in FreeOf(h, j) <=> sz[c] = Pow(j)
    BY <1>1, Zenon DEF FreeOf
  <2> QED BY <2>1, <2>2
<1>21. ASSUME NEW j \in Bud!Order
       PROVE  \A c : c \in FreeOf(g, j) <=> ((c \in FreeOf(h, j) /\ c # b)
                                            \/ (c = b + Pow(j) /\ j \in o..m-1))
  <2> SUFFICES ASSUME NEW c
               PROVE  c \in FreeOf(g, j) <=> ((c \in FreeOf(h, j) /\ c # b)
                                             \/ (c = b + Pow(j) /\ j \in o..m-1))
    OBVIOUS
  <2>1. c \in FreeOf(g, j) <=> (c \in Free(g) /\ sz2[c] = Pow(j))
    BY <1>2, Zenon DEF FreeOf
  <2>2. CASE c \in Pt
    <3>1. PICK k \in o..m-1 : c = b + Pow(k)
      BY <1>16, <2>2
    <3>2. sz2[c] = Pow(k) /\ c \in Free(g)
      BY <1>14, <1>18, <2>2, <3>1
    <3>3. Pow(k) = Pow(j) <=> k = j
      <4>1. k \in Nat /\ j \in Nat
        BY <1>8, HeapIs
      <4> QED BY <4>1, PowGrows
    <3>4. c \notin FreeOf(h, j)
      BY <1>19, <2>2 DEF FreeOf
    <3>5. (c = b + Pow(j) /\ j \in o..m-1) <=> k = j
      <4>1. ASSUME c = b + Pow(j), j \in o..m-1 PROVE k = j
        <5>1. sz2[c] = Pow(j)
          BY <1>14, <4>1
        <5> QED BY <3>2, <3>3, <5>1
      <4> QED BY <3>1, <4>1
    <3> QED BY <2>1, <3>2, <3>3, <3>4, <3>5
  <2>3. CASE c \notin Pt
    <3>1. c \in Free(g) <=> (c \in Free(h) /\ c # b)
      BY <1>18, <2>3
    <3>2. ~(c = b + Pow(j) /\ j \in o..m-1)
      BY <1>16, <2>3
    <3>3. c \in FreeOf(h, j) => c \in Free(h)
      BY DEF FreeOf
    <3> QED BY <1>20, <2>1, <3>1, <3>2, <3>3
  <2> QED BY <2>2, <2>3
<1>22. ASSUME NEW j \in Bud!Order PROVE IsList(FreeOf(g, j), g.freeList[j], g.next)
  <2>1. ASSUME NEW c \in FreeOf(h, j) PROVE nx2[c] = nx[c]
    BY <1>6, <1>13, <1>17
  <2>2. IsList(FreeOf(h, j), fl[j], nx)
    BY <1>3
  <2>3. CASE j \in o..m-1
    <3>1. PICK a \in Bud!Addr : a = b + Pow(j)
      BY <1>16, <2>3
    <3>2. FreeOf(g, j) = {a}
      BY <1>8, <1>21, <2>3, <3>1
    <3>3. nx2[a] = Bud!Null /\ fl2[j] = a
      BY <1>8, <1>13, <2>3, <3>1
    <3>4. IsList({a}, a, nx2)
      BY <3>3, ListOne
    <3> QED BY <1>2, <3>2, <3>3, <3>4, Zenon
  <2>4. CASE j = m
    <3>1. j \notin o..m-1
      BY <1>4, <2>4
    <3>2. FreeOf(g, j) = FreeOf(h, j) \ {b}
      BY <1>21, <3>1
    <3>3. IsList(FreeOf(h, j), b, nx) /\ b \in FreeOf(h, j)
      BY <1>5, <1>7, <2>2, <2>4
    <3>4. IsList(FreeOf(h, j) \ {b}, nx[b], nx)
      BY <3>3, ListPop, Zenon
    <3>5. IsList(FreeOf(h, j) \ {b}, nx[b], nx2)
      <4>1. PICK T : T = FreeOf(h, j) \ {b}
        OBVIOUS
      <4>2. IsList(T, nx[b], nx) /\ \A c \in T : nx2[c] = nx[c]
        BY <2>1, <3>4, <4>1
      <4>3. IsList(T, nx[b], nx2)
        BY <4>2, ListSame, Zenon
      <4> QED BY <4>1, <4>3, Zenon
    <3>6. fl2[j] = nx[b]
      BY <1>13, <2>4
    <3> QED BY <1>2, <3>2, <3>5, <3>6, Zenon
  <2>5. CASE j # m /\ j \notin o..m-1
    <3>1. b \notin FreeOf(h, j)
      BY <1>4, <1>7, <2>5, FreeOfFacts
    <3>2. FreeOf(g, j) = FreeOf(h, j)
      BY <1>21, <2>5, <3>1
    <3>3. IsList(FreeOf(h, j), fl[j], nx2)
      BY <2>1, <2>2, ListSame, Zenon
    <3>4. fl2[j] = fl[j]
      BY <1>13, <2>5
    <3> QED BY <1>2, <3>2, <3>3, <3>4, Zenon
  <2> QED BY <2>3, <2>4, <2>5
<1>23. NoPair(sz2, Free(g))
  <2> SUFFICES ASSUME NEW j \in Nat, NEW c \in Free(g), NEW y \in Free(g), Pair(c, y, j),
                      sz2[c] = Pow(j), sz2[y] = Pow(j)
               PROVE  FALSE
    BY Zenon DEF NoPair
  <2>1. c # y /\ y = Bud!Buddy(c, Pow(j)) /\ c = Bud!Buddy(y, Pow(j))
    BY PairFacts
  <2>2. ASSUME NEW a \in Pt, sz2[a] = Pow(j) PROVE Bud!Buddy(a, Pow(j)) = b
    <3>1. PICK k \in o..m-1 : a = b + Pow(k)
      BY <1>16
    <3>2. Pow(k) = Pow(j)
      BY <1>14, <2>2, <3>1
    <3> QED BY <1>16, <3>1, <3>2
  <2>3. b \notin Free(g)
    BY <1>16, <1>18
  <2>4. c \notin Pt /\ y \notin Pt
    BY <2>1, <2>2, <2>3
  <2>5. c \in Free(h) /\ y \in Free(h) /\ c # b /\ y # b
    BY <1>18, <2>4
  <2>6. sz[c] = Pow(j) /\ sz[y] = Pow(j)
    BY <1>14, <1>19, <2>4, <2>5
  <2> QED BY <1>3, <2>5, <2>6, Zenon DEF NoPair
<1>24. sz2[0] = Pow(Top) => nx2[0] = Bud!Null
  <2> SUFFICES ASSUME sz2[0] = Pow(Top) PROVE nx2[0] = Bud!Null
    OBVIOUS
  <2>1. 0 \in Bud!Addr /\ 0 \in Blocks(sz2)
    BY HeapIs DEF Blocks
  <2>2. Blocks(sz2) = {0}
    BY <1>15, <2>1, WholeIs
  <2>3. b = 0
    BY <1>7, <1>15, <2>2
  <2>4. o = Top
    BY <1>14, <2>3, PowGrows
  <2>5. m = Top
    BY <1>4, <2>4
  <2> QED BY <1>3, <1>7, <1>13, <1>16, <2>1, <2>3, <2>5
<1>25. BuddyInv(g)
  <2>1. HeapTypes(g)
    BY <1>2, <1>13, <1>14, Zenon DEF HeapTypes
  <2>2. Tiling(g.size) /\ NoPair(g.size, Free(g)) /\ (g.size[0] = Pow(Top) => g.next[0] = Bud!Null)
    BY <1>2, <1>15, <1>23, <1>24, Zenon
  <2> QED BY <1>22, <2>1, <2>2, Zenon DEF BuddyInv
<1>26. /\ U \subseteq Bud!Addr /\ \A a \in Bud!Addr : (sz[a] > 0 /\ ~fr[a]) <=> a \in U
  BY <1>1 DEF Using
<1>27. b \notin U /\ \A a \in U : a # b /\ a \notin Pt
  <2>1. b \notin U
    BY <1>7, <1>26
  <2>2. ASSUME NEW a \in U, a \in Pt PROVE FALSE
    <3>1. PICK k \in o..m-1 : a = b + Pow(k)
      BY <1>16, <2>2
    <3>2. sz[a] = 0 /\ a \in Bud!Addr
      BY <1>16, <3>1
    <3> QED BY <1>26, <3>2
  <2> QED BY <2>1, <2>2
<1>28. Using(g, U \cup {b}, g.size)
  <2>1. ASSUME NEW a \in Bud!Addr PROVE (sz2[a] > 0 /\ ~fr2[a]) <=> a \in U \cup {b}
    <3>1. CASE a = b
      <4>1. sz2[b] > 0
        BY <1>14, PowFacts
      <4> QED BY <1>13, <3>1, <4>1
    <3>2. CASE a \in Pt
      <4>1. fr2[a]
        BY <1>18, <3>2, <1>2 DEF Free
      <4> QED BY <1>16, <1>27, <3>2, <4>1
    <3>3. CASE a # b /\ a \notin Pt
      <4>1. sz2[a] = sz[a] /\ (fr2[a] <=> fr[a])
        BY <1>13, <1>14, <3>3
      <4>2. (sz[a] > 0 /\ ~fr[a]) <=> a \in U
        BY <1>26
      <4> QED BY <3>3, <4>1, <4>2
    <3> QED BY <3>1, <3>2, <3>3
  <2>2. \A a \in Bud!Addr : (g.size[a] > 0 /\ ~g.isFree[a]) <=> a \in U \cup {b}
    BY <1>2, <2>1
  <2>3. U \cup {b} \subseteq Bud!Addr
    BY <1>7, <1>26
  <2> QED BY <2>2, <2>3, Zenon DEF Using
<1>29. \A a \in U : g.size[a] = h.size[a]
  BY <1>1, <1>2, <1>14, <1>26, <1>27
<1>30. IsBlock(g.size, b, o)
  BY <1>2, <1>15, Zenon
<1> QED BY <1>7, <1>25, <1>27, <1>28, <1>29, <1>30

-----------------------------------------------------------------------------
(* The heap between two calls.                                              *)

LEMMA Multiple ==
  ASSUME NEW a \in Nat, NEW s \in Nat, s > 0, a % s = 0
  PROVE  \E q \in Nat : a = q * s
PROOF
<1>1. PICK q : q = a \div s
  OBVIOUS
<1>2. q \in Int /\ a = s * q + (a % s)
  BY <1>1
<1>3. a = q * s
  BY <1>2
<1>4. q >= 0
  BY <1>1
<1> QED BY <1>2, <1>3, <1>4

LEMMA MallocKeeps ==
  ASSUME Top \in Nat, BuddyInv(HeapNow), NEW n \in Nat, n > 0, Bud!Malloc(n)
  PROVE  /\ BuddyInv(HeapNow')
         /\ \E b : /\ b \notin Bud!InUse /\ b \in Bud!Addr
                   /\ Using(HeapNow', Bud!InUse \cup {b}, blockSize')
                   /\ \A a \in Bud!InUse : blockSize'[a] = blockSize[a]
                   /\ b + blockSize'[b] <= Bud!HeapSize /\ blockSize'[b] >= n + 2
PROOF
<1>1. PICK o : o = Bud!GetOrder(n + 2)
  OBVIOUS
<1>2. o \in Nat /\ Pow(o) >= n + 2
  BY <1>1, GetOrderIs DEF OrderFor
<1>3. PICK C : C = Candidates(freeList, isFree, o)
  OBVIOUS
<1>4. PICK m, b :
        /\ C # {} /\ m = CHOOSE k \in C : \A j \in C : k <= j
        /\ Splits(freeList, link, blockSize, isFree, o, m, b,
                  freeList', link', blockSize', isFree')
  BY <1>1, <1>3, MallocSplits
<1>5. m \in C /\ \A j \in C : m <= j
  <2>1. C \in SUBSET Nat
    BY <1>2, <1>3 DEF Candidates
  <2>2. \E k \in C : \A j \in C : k <= j
    BY <1>4, <2>1, LeastOfSome
  <2> QED BY <1>4, <2>2, Zenon
<1>6. PICK h, g : h = HeapNow /\ g = HeapNow'
  OBVIOUS
<1>7. /\ h.freeList = freeList /\ h.next = link /\ h.size = blockSize
      /\ h.isFree = isFree /\ h.block = Bud!Null /\ BuddyInv(h)
  BY <1>6, NowIs
<1>8. /\ g.freeList = freeList' /\ g.next = link' /\ g.size = blockSize'
      /\ g.isFree = isFree' /\ g.block = Bud!Null
  BY <1>6 DEF HeapNow, Bud!Heap
<1>9. Using(h, Bud!InUse, h.size)
  BY <1>7 DEF Using, Bud!InUse
<1>10. /\ m \in Candidates(h.freeList, h.isFree, o)
       /\ \A j \in Candidates(h.freeList, h.isFree, o) : m <= j
       /\ Splits(h.freeList, h.next, h.size, h.isFree, o, m, b,
                 g.freeList, g.next, g.size, g.isFree)
  BY <1>3, <1>4, <1>5, <1>7, <1>8, Zenon
<1>11. /\ BuddyInv(g) /\ b \notin Bud!InUse /\ Using(g, Bud!InUse \cup {b}, g.size)
       /\ \A a \in Bud!InUse : g.size[a] = h.size[a]
       /\ IsBlock(g.size, b, o) /\ b \in Bud!Addr
  BY <1>2, <1>7, <1>8, <1>9, <1>10, SplitKeeps
<1>12. b + blockSize'[b] <= Bud!HeapSize /\ blockSize'[b] >= n + 2
  <2>1. blockSize'[b] = Pow(o) /\ Slot(b, o)
    BY <1>8, <1>11, InHeap DEF IsBlock
  <2> QED BY <1>2, <2>1, HeapIs DEF Slot
<1> QED BY <1>6, <1>7, <1>8, <1>11, <1>12, Zenon

LEMMA HeapBegins ==
  ASSUME Top \in Nat, Bud!Init
  PROVE  BuddyInv(HeapNow) /\ Bud!InUse = {}
PROOF
<1>1. PICK h : h = HeapNow
  OBVIOUS
<1>2. /\ h.freeList = freeList /\ h.next = link /\ h.size = blockSize
      /\ h.isFree = isFree /\ h.block = Bud!Null
  BY <1>1, NowIs
<1>3. /\ freeList = [o \in Bud!Order |-> IF o = Top THEN 0 ELSE Bud!Null]
      /\ link = [a \in Bud!Addr |-> Bud!Null]
      /\ blockSize = [a \in Bud!Addr |-> IF a = 0 THEN Bud!HeapSize ELSE 0]
      /\ isFree = [a \in Bud!Addr |-> a = 0]
  BY DEF Bud!Init
<1>4. HeapTypes(h)
  BY <1>2, <1>3, HeapIs DEF HeapTypes
<1>5. /\ blockSize[0] = Pow(Top) /\ isFree[0] /\ link[0] = Bud!Null
      /\ \A a \in Bud!Addr : a # 0 => blockSize[a] = 0
  BY <1>3, HeapIs
<1>6. Blocks(blockSize) = {0} /\ IsBlock(blockSize, 0, Top)
  <2>1. Blocks(blockSize) = {0}
    BY <1>5, HeapIs DEF Blocks
  <2>2. IsBlock(blockSize, 0, Top)
    BY <1>5, HeapIs DEF IsBlock
  <2> QED BY <2>1, <2>2
<1>7. Tiling(blockSize)
  <2>1. \A a \in Bud!Addr : blockSize[a] = 0 \/ \E k : IsBlock(blockSize, a, k)
    BY <1>5, <1>6
  <2>2. \A w \in Bud!Addr : 0 <= w /\ w < 0 + blockSize[0]
    BY <1>5, HeapIs
  <2> QED BY <1>6, <2>1, <2>2 DEF Tiling
<1>8. Free(h) = {0}
  BY <1>2, <1>5, <1>6, HeapIs DEF Free
<1>9. ASSUME NEW j \in Bud!Order PROVE IsList(FreeOf(h, j), h.freeList[j], h.next)
  <2>1. CASE j = Top
    <3>1. FreeOf(h, j) = {0} /\ h.freeList[j] = 0
      BY <1>2, <1>3, <1>5, <1>8, <2>1 DEF FreeOf
    <3>2. h.next[0] = Bud!Null /\ 0 \in Bud!Addr
      BY <1>2, <1>5, HeapIs
    <3> QED BY <3>1, <3>2, ListOne
  <2>2. CASE j # Top
    <3>1. Pow(j) # Pow(Top)
      <4>1. j \in Nat
        BY HeapIs
      <4> QED BY <2>2, <4>1, PowGrows
    <3>2. FreeOf(h, j) = {} /\ h.freeList[j] = Bud!Null
      BY <1>2, <1>3, <1>5, <1>8, <2>2, <3>1 DEF FreeOf
    <3> QED BY <3>2, ListNil
  <2> QED BY <2>1, <2>2
<1>10. NoPair(h.size, Free(h))
  BY <1>8, PairFacts DEF NoPair
<1>11. BuddyInv(h)
  BY <1>2, <1>4, <1>5, <1>7, <1>9, <1>10 DEF BuddyInv
<1>12. Bud!InUse = {}
  BY <1>5 DEF Bud!InUse
<1> QED BY <1>1, <1>11, <1>12

-----------------------------------------------------------------------------
(* What follows.                                                            *)

\* The free blocks, of an order and all
FreeNow == {b \in Blocks(blockSize) : isFree[b]}
FreeNowOf(o) == {b \in Blocks(blockSize) : isFree[b] /\ blockSize[b] = Pow(o)}

LEMMA NowFacts ==
  ASSUME Top \in Nat, BuddyInv(HeapNow)
  PROVE  /\ Tiling(blockSize) /\ NoPair(blockSize, FreeNow)
         /\ \A o \in Bud!Order : IsList(FreeNowOf(o), freeList[o], link)
         /\ isFree \in [Bud!Addr -> BOOLEAN] /\ blockSize \in [Bud!Addr -> Nat]
PROOF
<1>1. PICK h : h = HeapNow
  OBVIOUS
<1>2. /\ h.freeList = freeList /\ h.next = link /\ h.size = blockSize
      /\ h.isFree = isFree /\ h.block = Bud!Null /\ BuddyInv(h)
  BY <1>1, NowIs
<1>3. Free(h) = FreeNow
  <2>1. \A b \in Blocks(blockSize) : b # Bud!Null
    BY HeapIs DEF Blocks
  <2> QED BY <1>2, <2>1 DEF Free, FreeNow
<1>4. ASSUME NEW o PROVE FreeOf(h, o) = FreeNowOf(o)
  <2>1. FreeOf(h, o) = {c \in FreeNow : blockSize[c] = Pow(o)}
    BY <1>2, <1>3, Zenon DEF FreeOf
  <2> QED BY <2>1 DEF FreeNow, FreeNowOf
<1>5. \A o \in Bud!Order : IsList(FreeNowOf(o), freeList[o], link)
  BY <1>2, <1>4, Zenon DEF BuddyInv
<1>6. Tiling(blockSize) /\ NoPair(blockSize, FreeNow)
  BY <1>2, <1>3, Zenon DEF BuddyInv
<1>7. isFree \in [Bud!Addr -> BOOLEAN] /\ blockSize \in [Bud!Addr -> Nat]
  BY <1>2, Zenon DEF BuddyInv, HeapTypes
<1> QED BY <1>5, <1>6, <1>7

LEMMA ListedAre ==
  ASSUME Top \in Nat, BuddyInv(HeapNow), NEW o \in Bud!Order
  PROVE  Bud!Listed(o) = FreeNowOf(o)
PROOF
<1>1. PICK h, S, first : h = [next |-> link] /\ S = FreeNowOf(o) /\ first = freeList[o]
  OBVIOUS
<1>2. h.next = link
  BY <1>1
<1>3. PICK rk : Linked(S, rk, first, h.next)
  BY <1>1, <1>2, NowFacts DEF IsList
<1>4. Bud!OnListFrom(h, first) = S
  BY <1>3, OnListIs
<1>5. Bud!Listed(o) = Bud!OnListFrom([next |-> link], freeList[o])
  BY Zenon DEF Bud!Listed
<1> QED BY <1>1, <1>4, <1>5, Zenon

LEMMA SameCount == ASSUME NEW S PROVE Bud!Cardinality(S) = Cardinality(S)
PROOF
BY DEF Bud!Cardinality, Cardinality

LEMMA BuddyIsSound ==
  ASSUME Top \in Nat, BuddyInv(HeapNow)
  PROVE  Bud!Sound
PROOF
<1>1. /\ Tiling(blockSize) /\ NoPair(blockSize, FreeNow)
      /\ isFree \in [Bud!Addr -> BOOLEAN] /\ blockSize \in [Bud!Addr -> Nat]
  BY NowFacts
<1>2. Bud!Headers = Blocks(blockSize)
  BY DEF Bud!Headers, Blocks
<1>3. ASSUME NEW w \in Bud!Addr PROVE Cardinality({b \in Bud!Headers : w \in Bud!Words(b)}) = 1
  <2>1. {b \in Bud!Headers : w \in Bud!Words(b)}
          = {x \in Blocks(blockSize) : w \in x..x+blockSize[x]-1}
    BY <1>2 DEF Bud!Words
  <2>2. PICK b : {x \in Blocks(blockSize) : w \in x..x+blockSize[x]-1} = {b}
    BY <1>1, WordInOne
  <2>3. Cardinality({b}) = 1
    BY FS_Singleton
  <2> QED BY <2>1, <2>2, <2>3
<1>4. ASSUME NEW o \in Bud!Order
      PROVE  Bud!Listed(o) = {b \in Bud!Headers : isFree[b] /\ blockSize[b] = 2^o}
  <2>1. Bud!Listed(o) = {b \in Blocks(blockSize) : isFree[b] /\ blockSize[b] = 2^o}
    BY ListedAre, Zenon DEF FreeNowOf, Pow
  <2> QED BY <1>2, <2>1, Zenon
<1>5. ASSUME NEW w PROVE w \in Bud!Unused <=> \E b \in FreeNow : w \in Bud!Words(b)
  <2>1. w \in Bud!Unused <=> \E o \in Bud!Order : \E b \in FreeNowOf(o) : w \in Bud!Words(b)
    <3>1. w \in Bud!Unused <=> \E o \in Bud!Order : \E b \in Bud!Listed(o) : w \in Bud!Words(b)
      BY DEF Bud!Unused
    <3> QED BY <3>1, ListedAre
  <2>2. ASSUME NEW b \in FreeNow PROVE \E o \in Bud!Order : b \in FreeNowOf(o)
    <3>1. b \in Blocks(blockSize) /\ isFree[b]
      BY DEF FreeNow
    <3>2. PICK o : IsBlock(blockSize, b, o)
      BY <1>1, <3>1, BlockFacts
    <3> QED BY <3>1, <3>2 DEF IsBlock, FreeNowOf
  <2>3. \A o \in Bud!Order : FreeNowOf(o) \subseteq FreeNow
    BY DEF FreeNowOf, FreeNow
  <2> QED BY <2>1, <2>2, <2>3
<1>6. ASSUME NEW b \in Blocks(blockSize), NEW w
      PROVE  w \in Bud!Words(b) <=> w \in Int /\ b <= w /\ w < b + blockSize[b]
  <2>1. b \in Nat /\ blockSize[b] \in Nat
    BY <1>1, BlockFacts
  <2> QED BY <2>1 DEF Bud!Words
<1>7. \A b : b \in Bud!InUse <=> b \in Blocks(blockSize) /\ b \notin FreeNow
  BY DEF Bud!InUse, Blocks, FreeNow
<1>8. Bud!Unused = Bud!Addr \ UNION {Bud!Words(b) : b \in Bud!InUse}
  <2>1. ASSUME NEW w \in Bud!Unused PROVE w \in Bud!Addr /\ \A b \in Bud!InUse : w \notin Bud!Words(b)
    <3>1. PICK b \in FreeNow : w \in Bud!Words(b)
      BY <1>5, <2>1
    <3>2. b \in Blocks(blockSize)
      BY DEF FreeNow
    <3>3. w \in Int /\ b <= w /\ w < b + blockSize[b] /\ b \in Nat
      BY <1>1, <1>6, <3>1, <3>2, BlockFacts
    <3>4. w \in Bud!Addr
      <4>1. PICK k : IsBlock(blockSize, b, k) /\ Slot(b, k)
        BY <1>1, <3>2, BlockFacts
      <4>2. b + blockSize[b] <= Pow(Top)
        BY <4>1 DEF IsBlock, Slot
      <4>3. blockSize[b] \in Nat
        BY <1>1, <3>2, BlockFacts
      <4> QED BY <3>3, <4>2, <4>3, HeapIs
    <3>5. ASSUME NEW c \in Bud!InUse, w \in Bud!Words(c) PROVE FALSE
      <4>1. c \in Blocks(blockSize) /\ c \notin FreeNow
        BY <1>7
      <4>2. c <= w /\ w < c + blockSize[c]
        BY <1>6, <3>5, <4>1
      <4>3. b = c
        BY <1>1, <3>2, <3>3, <4>1, <4>2, OneBlockOnly
      <4> QED BY <4>1, <4>3
    <3> QED BY <3>4, <3>5
  <2>2. ASSUME NEW w \in Bud!Addr, \A b \in Bud!InUse : w \notin Bud!Words(b) PROVE w \in Bud!Unused
    <3>1. PICK b \in Blocks(blockSize) : b <= w /\ w < b + blockSize[b]
      BY <1>1 DEF Tiling
    <3>2. w \in Int
      BY HeapIs
    <3>3. w \in Bud!Words(b)
      BY <1>6, <3>1, <3>2
    <3>4. b \in FreeNow
      BY <1>7, <2>2, <3>3
    <3> QED BY <1>5, <3>3, <3>4
  <2>3. ASSUME NEW w PROVE w \in Bud!Unused <=> w \in Bud!Addr /\ \A b \in Bud!InUse : w \notin Bud!Words(b)
    BY <2>1, <2>2
  <2> QED BY <2>3
<1>9. ASSUME NEW b \in Bud!Headers, blockSize[b] < Bud!HeapSize
      PROVE  LET y == Bud!Buddy(b, blockSize[b]) IN
               y \in Bud!Headers /\ ~(isFree[b] /\ isFree[y] /\ blockSize[b] = blockSize[y])
  <2>1. b \in Blocks(blockSize)
    BY <1>2
  <2>2. PICK k \in Nat : IsBlock(blockSize, b, k) /\ k \in Bud!Order /\ blockSize[b] = Pow(k)
    BY <1>1, <2>1, BlockFacts DEF IsBlock
  <2>3. k < Top
    <3>1. k # Top
      BY <1>9, <2>2, HeapIs
    <3> QED BY <2>2, <3>1, HeapIs
  <2>4. PICK y : y = Bud!Buddy(b, Pow(k))
    OBVIOUS
  <2>5. Pair(b, y, k) /\ y \in Blocks(blockSize)
    BY <1>1, <2>1, <2>2, <2>3, <2>4, BuddyIsBlock
  <2>6. ~(isFree[b] /\ isFree[y] /\ blockSize[b] = blockSize[y])
    <3>1. ASSUME isFree[b], isFree[y], blockSize[b] = blockSize[y] PROVE FALSE
      <4>1. b \in FreeNow /\ y \in FreeNow
        BY <2>1, <2>5, <3>1 DEF FreeNow
      <4> QED BY <1>1, <2>2, <2>5, <3>1, <4>1 DEF NoPair
    <3> QED BY <3>1
  <2>7. y = Bud!Buddy(b, blockSize[b])
    BY <2>2, <2>4
  <2> QED BY <1>2, <2>5, <2>6, <2>7, Zenon
<1>10. \A w \in Bud!Addr : Bud!Cardinality({b \in Bud!Headers : w \in Bud!Words(b)}) = 1
  BY <1>3, SameCount
<1>11. \A b \in Bud!Headers : blockSize[b] < Bud!HeapSize =>
         LET y == Bud!Buddy(b, blockSize[b]) IN
           y \in Bud!Headers /\ ~(isFree[b] /\ isFree[y] /\ blockSize[b] = blockSize[y])
  BY <1>9, Zenon
<1> QED BY <1>10, <1>4, <1>8, <1>11, Zenon DEF Bud!Sound

LEMMA HeapFits ==
  ASSUME Top \in Nat, MaxBuddyRequest \in Nat, BuddyInv(HeapNow)
  PROVE  Bud!FitsIfRoom
PROOF
<1>1. ASSUME NEW n \in 1..MaxBuddyRequest, NEW s, s = 2^Bud!GetOrder(n + Bud!Header),
             NEW a \in Bud!Addr, a % s = 0, a + s <= Bud!HeapSize,
             \A b \in Bud!InUse : Bud!Words(b) \cap (a..a+s-1) = {}
      PROVE  Bud!Fits(n)
  <2>1. Bud!Header = 2 /\ n \in Nat /\ n + 2 \in Nat /\ n + 2 > 0
    BY DEF Bud!Header
  <2>2. PICK o : o = Bud!GetOrder(n + Bud!Header)
    OBVIOUS
  <2>3. o \in Nat
    BY <2>1, <2>2, GetOrderIs DEF OrderFor
  <2>4. s = Pow(o)
    BY <1>1, <2>2 DEF Pow
  <2>5. s \in Nat /\ s > 0 /\ a \in Nat
    BY <2>3, <2>4, PowFacts, HeapIs
  <2>6. Aligned(a, o)
    <3>1. PICK q \in Nat : a = q * s
      BY <1>1, <2>5, Multiple
    <3> QED BY <2>4, <3>1 DEF Aligned
  <2>7. o <= Top
    <3>1. CASE Top < o
      <4>1. 2 * Pow(Top) <= s
        BY <2>3, <2>4, <3>1, PowGrows
      <4> QED BY <1>1, <2>5, <4>1, HeapIs
    <3> QED BY <2>3, <3>1
  <2>8. Slot(a, o)
    BY <1>1, <2>3, <2>4, <2>5, <2>6, <2>7, HeapIs DEF Slot
  <2>9. Tiling(blockSize) /\ NoPair(blockSize, FreeNow) /\ FreeNow \in SUBSET Blocks(blockSize)
    BY NowFacts DEF FreeNow
  <2>10. RunFree(blockSize, FreeNow, a, o)
    <3>1. ASSUME NEW b \in Blocks(blockSize) \ FreeNow
          PROVE  b + blockSize[b] <= a \/ a + Pow(o) <= b
      <4>1. b \in Bud!InUse
        BY DEF Bud!InUse, Blocks, FreeNow
      <4>2. PICK z \in Nat : z = blockSize[b] /\ z > 0 /\ b \in Nat
        BY <2>9, BlockFacts
      <4>3. (b..b+z-1) \cap (a..a+s-1) = {}
        BY <1>1, <4>1, <4>2, Zenon DEF Bud!Words
      <4>4. CASE b <= a
        <5>1. a \in a..a+s-1
          BY <2>5
        <5>2. a \notin b..b+z-1
          BY <4>3, <5>1
        <5> QED BY <2>5, <4>2, <4>4, <5>2
      <4>5. CASE a < b
        <5>1. b \in b..b+z-1
          BY <4>2
        <5>2. b \notin a..a+s-1
          BY <4>3, <5>1
        <5> QED BY <2>4, <2>5, <4>2, <4>5, <5>2
      <4> QED BY <2>5, <4>2, <4>4, <4>5
    <3> QED BY <3>1 DEF RunFree
  <2>11. PICK b \in FreeNow : b <= a /\ a + s <= b + blockSize[b]
    BY <2>3, <2>4, <2>8, <2>9, <2>10, RunInOne
  <2>12. PICK k \in Nat : IsBlock(blockSize, b, k) /\ k \in Bud!Order /\ blockSize[b] = Pow(k)
                          /\ b \in Nat
    BY <2>9, <2>11, BlockFacts DEF IsBlock
  <2>13. k \in o..Top
    <3>1. CASE k < o
      <4>1. 2 * Pow(k) <= s /\ Pow(k) \in Nat /\ Pow(k) > 0
        BY <2>3, <2>4, <2>12, <3>1, PowGrows, PowFacts
      <4> QED BY <2>5, <2>11, <2>12, <4>1
    <3> QED BY <2>3, <2>12, <3>1, HeapIs
  <2>14. b \in FreeNowOf(k)
    BY <2>11, <2>12 DEF FreeNow, FreeNowOf
  <2>15. freeList[k] \in FreeNowOf(k)
    BY <2>12, <2>14, NowFacts, ListFacts
  <2>16. freeList[k] # Bud!Null /\ isFree[freeList[k]]
    BY <2>15, HeapIs DEF FreeNowOf, Blocks
  <2> QED BY <2>2, <2>13, <2>16 DEF Bud!Fits, Bud!Usable
<1> QED BY <1>1 DEF Bud!FitsIfRoom

LEMMA BuddyKeeps ==
  ASSUME Top \in Nat, MaxBuddyRequest \in Nat, BuddyInv(HeapNow), Bud!Next
  PROVE  BuddyInv(HeapNow')
PROOF
<1>1. ASSUME NEW n \in 1..MaxBuddyRequest, Bud!Malloc(n) PROVE BuddyInv(HeapNow')
  <2>1. n \in Nat /\ n > 0
    OBVIOUS
  <2> QED BY <1>1, <2>1, MallocKeeps
<1>2. ASSUME NEW b \in Bud!InUse, Bud!Free(b) PROVE BuddyInv(HeapNow')
  BY <1>2, FreeKeeps
<1> QED BY <1>1, <1>2, Zenon DEF Bud!Next

-----------------------------------------------------------------------------
(* What is handed out, and taken back, as sets of words                     *)

\* A block for n words within the first top words
Gives(old, new, n, top) ==
  \E r \in new \ old :
    /\ new = old \cup {r}
    /\ \E a \in 0..top : \E s \in n+2..top-a : r = a..a+s-1
    /\ \A u \in old : u \cap r = {}

Takes(old, new) == \E r \in old : new = old \ {r}

Calls(old, new, most, top) ==
  (\E n \in 1..most : Gives(old, new, n, top)) \/ Takes(old, new)

LEMMA CallsOfMore ==
  ASSUME NEW most \in Nat, NEW top \in Nat, NEW most2 \in Nat, NEW top2 \in Nat,
         most <= most2, top <= top2, NEW old, NEW new, Calls(old, new, most, top)
  PROVE  Calls(old, new, most2, top2)
PROOF
<1>1. ASSUME NEW n \in 1..most, Gives(old, new, n, top) PROVE n \in 1..most2 /\ Gives(old, new, n, top2)
  <2>1. PICK r \in new \ old :
          /\ new = old \cup {r}
          /\ \E a \in 0..top : \E s \in n+2..top-a : r = a..a+s-1
          /\ \A u \in old : u \cap r = {}
    BY <1>1, Zenon DEF Gives
  <2>2. PICK a \in 0..top : \E s \in n+2..top-a : r = a..a+s-1
    BY <2>1
  <2>3. a \in 0..top2 /\ \E s \in n+2..top2-a : r = a..a+s-1
    BY <2>2
  <2>4. Gives(old, new, n, top2)
    BY <2>1, <2>3, Zenon DEF Gives
  <2> QED BY <2>4
<1> QED BY <1>1, Zenon DEF Calls

\* The blocks of U with sizes sz
Runs(U, sz) == {b..b+sz[b]-1 : b \in U}

\* Blocks that do not overlap
Separate(U, sz) ==
  \A b, c \in U : b \in b..b+sz[b]-1 /\ (b # c => (b..b+sz[b]-1) \cap (c..c+sz[c]-1) = {})

LEMMA OneGiven ==
  ASSUME NEW n \in Nat, NEW top \in Nat, NEW U, NEW b \in Nat, b \notin U,
         NEW sz, NEW sz2, \A a \in U : sz2[a] = sz[a], Separate(U \cup {b}, sz2),
         sz2[b] \in Nat, sz2[b] >= n + 2, b + sz2[b] <= top
  PROVE  Gives(Runs(U, sz), Runs(U \cup {b}, sz2), n, top)
PROOF
<1> DEFINE Old(x) == x..x+sz[x]-1
           New(x) == x..x+sz2[x]-1
<1>1. Runs(U, sz) = {Old(x) : x \in U} /\ Runs(U \cup {b}, sz2) = {New(x) : x \in U \cup {b}}
  BY DEF Runs
<1>2. b \in New(b) /\ \A x \in U : New(x) \cap New(b) = {}
  BY DEF Separate
<1>3. \A x \in U : Old(x) = New(x)
  OBVIOUS
<1>4. \E a \in 0..top : \E s \in n+2..top-a : New(b) = a..a+s-1
  <2>1. b \in 0..top /\ sz2[b] \in n+2..top-b
    OBVIOUS
  <2> QED BY <2>1
<1> HIDE DEF Old, New
<1>5. PICK r : r = New(b)
  OBVIOUS
<1>6. PICK old, new : old = {Old(x) : x \in U} /\ new = {New(x) : x \in U \cup {b}}
  OBVIOUS
<1>7. r \in new /\ new = old \cup {r} /\ r \notin old /\ \A u \in old : u \cap r = {}
  BY <1>2, <1>3, <1>5, <1>6
<1>8. Gives(old, new, n, top)
  BY <1>4, <1>5, <1>7, Zenon DEF Gives
<1> QED BY <1>1, <1>6, <1>8, Zenon

LEMMA OneTaken ==
  ASSUME NEW U, NEW b \in U, NEW sz, NEW sz2, \A a \in U \ {b} : sz2[a] = sz[a],
         Separate(U, sz)
  PROVE  Takes(Runs(U, sz), Runs(U \ {b}, sz2))
PROOF
<1> DEFINE Old(x) == x..x+sz[x]-1
           New(x) == x..x+sz2[x]-1
<1>1. Runs(U, sz) = {Old(x) : x \in U} /\ Runs(U \ {b}, sz2) = {New(x) : x \in U \ {b}}
  BY DEF Runs
<1>2. \A x \in U : x \in Old(x) /\ (x # b => Old(x) \cap Old(b) = {})
  BY DEF Separate
<1>3. \A x \in U \ {b} : New(x) = Old(x)
  OBVIOUS
<1> HIDE DEF Old, New
<1>4. \A x \in U : x # b => Old(x) # Old(b)
  BY <1>2
<1>5. PICK old, new, r : /\ old = {Old(x) : x \in U} /\ new = {New(x) : x \in U \ {b}}
                         /\ r = Old(b)
  OBVIOUS
<1>6. r \in old /\ new = old \ {r}
  BY <1>3, <1>4, <1>5
<1> QED BY <1>1, <1>5, <1>6, Zenon DEF Takes

LEMMA BlocksSeparate ==
  ASSUME Top \in Nat, NEW sz, Tiling(sz), sz \in [Bud!Addr -> Nat], NEW U, U \subseteq Blocks(sz)
  PROVE  Separate(U, sz) /\ U \subseteq Nat
PROOF
<1>1. ASSUME NEW b \in U
      PROVE  b \in Blocks(sz) /\ b \in Nat /\ sz[b] \in Nat /\ sz[b] > 0
  <2>1. b \in Blocks(sz)
    OBVIOUS
  <2> QED BY <2>1, BlockFacts
<1>2. ASSUME NEW b \in U, NEW c \in U
      PROVE  /\ b \in b..b+sz[b]-1
             /\ b # c => (b..b+sz[b]-1) \cap (c..c+sz[c]-1) = {}
  <2>1. PICK s, t : s = sz[b] /\ t = sz[c]
    OBVIOUS
  <2>2. b \in Nat /\ s \in Nat /\ s > 0 /\ c \in Nat /\ t \in Nat /\ t > 0
    BY <1>1, <2>1
  <2>3. ASSUME NEW w, w \in b..b+s-1, w \in c..c+t-1 PROVE b = c
    <3>1. w \in Int /\ b <= w /\ w < b + s /\ c <= w /\ w < c + t
      BY <2>2, <2>3
    <3>2. b \in Blocks(sz) /\ c \in Blocks(sz)
      BY <1>1
    <3> QED BY <2>1, <3>1, <3>2, OneBlockOnly
  <2>4. b \in b..b+s-1
    BY <2>2
  <2>5. b # c => (b..b+s-1) \cap (c..c+t-1) = {}
    BY <2>3
  <2> QED BY <2>1, <2>4, <2>5
<1> QED BY <1>1, <1>2 DEF Separate

\* The blocks that buddyMM.c has handed out
BuddyHanded == {Bud!Words(b) : b \in Bud!InUse}

LEMMA BuddyHandedIs == BuddyHanded = Runs(Bud!InUse, blockSize)
PROOF
BY DEF BuddyHanded, Runs, Bud!Words

LEMMA BuddyCalls ==
  ASSUME Top \in Nat, MaxBuddyRequest \in Nat, BuddyInv(HeapNow), Bud!Next
  PROVE  Calls(BuddyHanded, BuddyHanded', MaxBuddyRequest, Bud!HeapSize)
PROOF
<1>1. PICK U, sz, U2, sz2, g :
        /\ U = Bud!InUse /\ sz = blockSize /\ U2 = Bud!InUse' /\ sz2 = blockSize' /\ g = HeapNow'
  OBVIOUS
<1>2. BuddyHanded = Runs(U, sz) /\ BuddyHanded' = Runs(U2, sz2)
  <2>1. BuddyHanded' = Runs(Bud!InUse', blockSize')
    BY DEF BuddyHanded, Runs, Bud!Words
  <2> QED BY <1>1, <2>1, BuddyHandedIs
<1>3. BuddyInv(g)
  BY <1>1, BuddyKeeps
<1>4. U2 = {a \in Bud!Addr : sz2[a] > 0 /\ ~isFree'[a]} /\ U \subseteq Bud!Addr
  BY <1>1 DEF Bud!InUse
<1>5. g.size = sz2 /\ g.isFree = isFree'
  BY <1>1 DEF HeapNow, Bud!Heap
<1>6. ASSUME NEW V, NEW s, Using(g, V, s) PROVE U2 = V /\ \A a \in V : sz2[a] = s[a]
  BY <1>4, <1>5, <1>6 DEF Using
<1>7. Separate(U, sz) /\ U \subseteq Nat
  <2>1. Tiling(sz) /\ sz \in [Bud!Addr -> Nat]
    BY <1>1, NowFacts
  <2>2. U \subseteq Blocks(sz)
    BY <1>1 DEF Bud!InUse, Blocks
  <2> QED BY <2>1, <2>2, BlocksSeparate
<1>8. Separate(U2, sz2) /\ \A a \in U2 : sz2[a] \in Nat
  <2>1. Tiling(sz2) /\ sz2 \in [Bud!Addr -> Nat]
    BY <1>3, <1>5 DEF BuddyInv, HeapTypes
  <2>2. U2 \subseteq Blocks(sz2)
    BY <1>4 DEF Blocks
  <2> QED BY <1>4, <2>1, <2>2, BlocksSeparate
<1>9. ASSUME NEW n \in 1..MaxBuddyRequest, Bud!Malloc(n) PROVE Gives(Runs(U, sz), Runs(U2, sz2), n, Bud!HeapSize)
  <2>1. n \in Nat /\ n > 0
    OBVIOUS
  <2>2. PICK b : /\ b \notin U /\ b \in Bud!Addr /\ Using(g, U \cup {b}, sz2)
                 /\ \A a \in U : sz2[a] = sz[a]
                 /\ b + sz2[b] <= Bud!HeapSize /\ sz2[b] >= n + 2
    BY <1>1, <1>9, <2>1, MallocKeeps
  <2>3. U2 = U \cup {b}
    BY <1>6, <2>2
  <2>4. b \in Nat /\ Bud!HeapSize \in Nat
    BY <2>2, HeapIs
  <2>5. sz2[b] \in Nat /\ Separate(U \cup {b}, sz2)
    BY <1>8, <2>3
  <2> QED BY <2>1, <2>2, <2>3, <2>4, <2>5, OneGiven
<1>10. ASSUME NEW b \in Bud!InUse, Bud!Free(b) PROVE Takes(Runs(U, sz), Runs(U2, sz2))
  <2>1. b \in U /\ Using(g, U \ {b}, sz)
    BY <1>1, <1>10, FreeKeeps
  <2>2. U2 = U \ {b} /\ \A a \in U \ {b} : sz2[a] = sz[a]
    BY <1>6, <2>1
  <2> QED BY <1>7, <2>1, <2>2, OneTaken
<1> QED BY <1>2, <1>9, <1>10, Zenon DEF Bud!Next, Calls

-----------------------------------------------------------------------------
(* The library code: the other constants and variables of MCLibrary.        *)

CONSTANTS Element, InitialCapacity, MaxGiven, MaxLength, Width, Name, Size,
          BufferSize, KernelAt, MaxFile, HeapWords, MaxRequest
VARIABLES part, asked, inKernel, cells, length, freed, got, ended, history, returned,
          buddy, nextFree, size, allocated, bytesAvailable, input

Lib == INSTANCE MCLibrary WITH next <- nextFree

\* All that the specification of MCLibrary has
libraryVars == <<part, Lib!arrayVars, Lib!historyVars, Lib!heapVars, input>>

(* The heaps of MCLibrary are the one above and, for freeListMM.c, that of  *)
(* HeapProof.                                                               *)

LEMMA SameBuddySets ==
  /\ Lib!M!B!Null = Bud!Null /\ Lib!M!B!Header = Bud!Header
  /\ Lib!M!B!HeapSize = Bud!HeapSize /\ Lib!M!B!Addr = Bud!Addr /\ Lib!M!B!Order = Bud!Order
  /\ Lib!M!B!InUse = Bud!InUse /\ Lib!M!B!Headers = Bud!Headers
  /\ \A n : Lib!M!B!GetOrder(n) = Bud!GetOrder(n)
  /\ \A b : Lib!M!B!Words(b) = Bud!Words(b)
  /\ \A b, s : Lib!M!B!Buddy(b, s) = Bud!Buddy(b, s)
  /\ \A l, n, s, f, b : Lib!M!B!Heap(l, n, s, f, b) = Bud!Heap(l, n, s, f, b)
PROOF
<1>1. Lib!M!B!Null = Bud!Null /\ Lib!M!B!Header = Bud!Header /\ Lib!M!B!HeapSize = Bud!HeapSize
  BY DEF Lib!M!B!Null, Bud!Null, Lib!M!B!Header, Bud!Header, Lib!M!B!HeapSize, Bud!HeapSize
<1>2. Lib!M!B!Addr = Bud!Addr /\ Lib!M!B!Order = Bud!Order
  BY <1>1, Zenon DEF Lib!M!B!Addr, Bud!Addr, Lib!M!B!Order, Bud!Order
<1>3. Lib!M!B!InUse = Bud!InUse /\ Lib!M!B!Headers = Bud!Headers
  BY <1>2, Zenon DEF Lib!M!B!InUse, Bud!InUse, Lib!M!B!Headers, Bud!Headers
<1>4. \A n : Lib!M!B!GetOrder(n) = Bud!GetOrder(n)
  BY Zenon DEF Lib!M!B!GetOrder, Bud!GetOrder
<1>5. \A b : Lib!M!B!Words(b) = Bud!Words(b)
  BY Zenon DEF Lib!M!B!Words, Bud!Words
<1>6. \A b, s : Lib!M!B!Buddy(b, s) = Bud!Buddy(b, s)
  BY Zenon DEF Lib!M!B!Buddy, Bud!Buddy
<1>7. \A l, n, s, f, b : Lib!M!B!Heap(l, n, s, f, b) = Bud!Heap(l, n, s, f, b)
  BY Zenon DEF Lib!M!B!Heap, Bud!Heap
<1> QED BY <1>1, <1>2, <1>3, <1>4, <1>5, <1>6, <1>7

LEMMA SameLists ==
  /\ \A h, x : Lib!M!B!OnListFrom(h, x) = Bud!OnListFrom(h, x)
  /\ \A o : Lib!M!B!Listed(o) = Bud!Listed(o)
PROOF
<1>1. \A h, x : Lib!M!B!OnListFrom(h, x) = Bud!OnListFrom(h, x)
  BY Zenon DEF Lib!M!B!OnListFrom, Bud!OnListFrom, Lib!M!B!Null, Bud!Null,
       Lib!M!B!HeapSize, Bud!HeapSize
<1> QED BY <1>1, Zenon DEF Lib!M!B!Listed, Bud!Listed

LEMMA SameBuddyFits == \A n : Lib!M!B!Usable(n) = Bud!Usable(n) /\ (Lib!M!B!Fits(n) <=> Bud!Fits(n))
PROOF
<1>1. \A n : Lib!M!B!Usable(n) = Bud!Usable(n)
  BY Zenon DEF Lib!M!B!Usable, Bud!Usable, Lib!M!B!GetOrder, Bud!GetOrder,
       Lib!M!B!Header, Bud!Header, Lib!M!B!Null, Bud!Null
<1> QED BY <1>1, Zenon DEF Lib!M!B!Fits, Bud!Fits

LEMMA SameBuddy == (Lib!M!B!Init => Bud!Init) /\ (Lib!M!B!Next => Bud!Next)
PROOF
<1>1. Lib!M!B!Init => Bud!Init
  BY Zenon DEF Lib!M!B!Init, Bud!Init, Lib!M!B!Null, Bud!Null, Lib!M!B!HeapSize, Bud!HeapSize,
       Lib!M!B!Addr, Bud!Addr, Lib!M!B!Order, Bud!Order
<1>2. ASSUME NEW n, Lib!M!B!Malloc(n) PROVE Bud!Malloc(n)
  BY <1>2, Zenon DEF Lib!M!B!Malloc, Bud!Malloc, Lib!M!B!Fits, Bud!Fits,
       Lib!M!B!Usable, Bud!Usable, Lib!M!B!GetOrder, Bud!GetOrder,
       Lib!M!B!Header, Bud!Header, Lib!M!B!Null, Bud!Null, Lib!M!B!HeapSize, Bud!HeapSize,
       Lib!M!B!Addr, Bud!Addr, Lib!M!B!Order, Bud!Order
<1>3. ASSUME NEW b, Lib!M!B!Free(b) PROVE Bud!Free(b)
  BY <1>3, Zenon DEF Lib!M!B!Free, Bud!Free, Lib!M!B!GetOrder, Bud!GetOrder,
       Lib!M!B!Heap, Bud!Heap, Lib!M!B!MergeBlock, Bud!MergeBlock,
       Lib!M!B!MergesWith, Bud!MergesWith, Lib!M!B!Buddy, Bud!Buddy,
       Lib!M!B!RemoveFromFreeList, Bud!RemoveFromFreeList,
       Lib!M!B!OnListFrom, Bud!OnListFrom, Lib!M!B!Null, Bud!Null,
       Lib!M!B!HeapSize, Bud!HeapSize, Lib!M!B!Addr, Bud!Addr
<1> QED BY <1>1, <1>2, <1>3, SameBuddySets, Zenon DEF Lib!M!B!Next, Bud!Next

LEMMA SameSound == (Bud!Sound => Lib!M!B!Sound) /\ (Bud!FitsIfRoom => Lib!M!B!FitsIfRoom)
PROOF
<1>1. \A S : Lib!M!B!Cardinality(S) = Bud!Cardinality(S)
  BY Zenon DEF Lib!M!B!Cardinality, Bud!Cardinality
<1>2. Lib!M!B!Unused = Bud!Unused
  BY SameBuddySets, SameLists, Zenon DEF Lib!M!B!Unused, Bud!Unused
<1>3. Bud!Sound => Lib!M!B!Sound
  BY <1>1, <1>2, SameBuddySets, SameLists, Zenon DEF Lib!M!B!Sound, Bud!Sound
<1>4. Bud!FitsIfRoom => Lib!M!B!FitsIfRoom
  BY SameBuddySets, SameBuddyFits, Zenon DEF Lib!M!B!FitsIfRoom, Bud!FitsIfRoom
<1> QED BY <1>3, <1>4

ListHeap == INSTANCE HeapProof WITH next <- nextFree

LEMMA SameBegin == Lib!M!F!Init => ListHeap!Init
PROOF
BY Zenon DEF Lib!M!F!Init, ListHeap!Init, Lib!M!F!Block, ListHeap!Block, Lib!M!F!Addr,
       ListHeap!Addr, Lib!M!F!Start, ListHeap!Start, Lib!M!F!End, ListHeap!End,
       Lib!M!F!Null, ListHeap!Null

LEMMA SameFree ==
  ASSUME NEW b, Lib!M!F!Free(b) PROVE ListHeap!Free(b)
PROOF
BY ZenonT(60) DEF Lib!M!F!Free, ListHeap!Free, Lib!M!F!Freeable, ListHeap!Freeable,
       Lib!M!F!Insert, ListHeap!Insert, Lib!M!F!Before, ListHeap!Before,
       Lib!M!F!Adjoins, ListHeap!Adjoins, Lib!M!F!Joined, ListHeap!Joined,
       Lib!M!F!Block, ListHeap!Block, Lib!M!F!Addr, ListHeap!Addr,
       Lib!M!F!Start, ListHeap!Start, Lib!M!F!End, ListHeap!End, Lib!M!F!Null, ListHeap!Null

LEMMA SameMalloc ==
  ASSUME NEW n, Lib!M!F!Malloc(n) PROVE ListHeap!Malloc(n)
PROOF
BY ZenonT(60) DEF Lib!M!F!Malloc, ListHeap!Malloc, Lib!M!F!Fits, ListHeap!Fits,
       Lib!M!F!BeforeFit, ListHeap!BeforeFit, Lib!M!F!TooSmall, ListHeap!TooSmall,
       Lib!M!F!Cut, ListHeap!Cut, Lib!M!F!Charged, ListHeap!Charged,
       Lib!M!F!Header, ListHeap!Header, Lib!M!F!Insert, ListHeap!Insert,
       Lib!M!F!Before, ListHeap!Before, Lib!M!F!Adjoins, ListHeap!Adjoins,
       Lib!M!F!Joined, ListHeap!Joined, Lib!M!F!Block, ListHeap!Block,
       Lib!M!F!Addr, ListHeap!Addr, Lib!M!F!Start, ListHeap!Start,
       Lib!M!F!End, ListHeap!End, Lib!M!F!Null, ListHeap!Null

LEMMA SameNext == Lib!M!F!Next => ListHeap!Next
PROOF
<1>1. Lib!M!F!Addr = ListHeap!Addr
  BY DEF Lib!M!F!Addr, ListHeap!Addr
<1> QED BY <1>1, SameFree, SameMalloc, Zenon DEF Lib!M!F!Next, ListHeap!Next

LEMMA SameSets ==
  /\ Lib!M!F!InUse = ListHeap!InUse /\ Lib!M!F!FreeBlocks = ListHeap!FreeBlocks
  /\ Lib!M!F!Addr = ListHeap!Addr
  /\ \A b : Lib!M!F!Words(b) = ListHeap!Words(b)
PROOF
<1>1. Lib!M!F!InUse = ListHeap!InUse
  BY DEF Lib!M!F!InUse, ListHeap!InUse, Lib!M!F!Addr, ListHeap!Addr
<1>2. Lib!M!F!FreeBlocks = ListHeap!FreeBlocks
  BY DEF Lib!M!F!FreeBlocks, ListHeap!FreeBlocks, Lib!M!F!Addr, ListHeap!Addr,
         Lib!M!F!Start, ListHeap!Start, Lib!M!F!End, ListHeap!End, Lib!M!F!Null, ListHeap!Null
<1>3. Lib!M!F!Addr = ListHeap!Addr
  BY DEF Lib!M!F!Addr, ListHeap!Addr
<1>4. \A b : Lib!M!F!Words(b) = ListHeap!Words(b)
  BY Zenon DEF Lib!M!F!Words, ListHeap!Words
<1> QED BY <1>1, <1>2, <1>3, <1>4

LEMMA SameTiled == ListHeap!Tiled => Lib!M!F!Tiled
PROOF
<1>1. \A S : Lib!M!F!Cardinality(S) = ListHeap!Cardinality(S)
  BY DEF Lib!M!F!Cardinality, ListHeap!Cardinality
<1> QED BY <1>1, SameSets, Zenon DEF Lib!M!F!Tiled, ListHeap!Tiled

LEMMA SameBytes == ListHeap!BytesExact => Lib!M!F!BytesExact
PROOF
<1>1. PICK L : L = ListHeap!FreeBlocks
  OBVIOUS
<1>2. Lib!M!F!FreeBlocks = L
  BY <1>1, SameSets
<1>3. Lib!M!F!MapThenSumSet(LAMBDA b : size[b], L) = ListHeap!MapThenSumSet(LAMBDA b : size[b], L)
  BY DEF Lib!M!F!MapThenSumSet, ListHeap!MapThenSumSet,
         Lib!M!F!MapThenFoldSet, ListHeap!MapThenFoldSet
<1> QED BY <1>1, <1>2, <1>3 DEF Lib!M!F!BytesExact, ListHeap!BytesExact

LEMMA SameFits == ListHeap!FitsIfRoom => Lib!M!F!FitsIfRoom
PROOF
<1>1. ASSUME NEW n, ListHeap!Fits(n) PROVE Lib!M!F!Fits(n)
  BY <1>1, Zenon DEF Lib!M!F!Fits, ListHeap!Fits, Lib!M!F!BeforeFit, ListHeap!BeforeFit,
       Lib!M!F!TooSmall, ListHeap!TooSmall, Lib!M!F!Block, ListHeap!Block,
       Lib!M!F!Addr, ListHeap!Addr, Lib!M!F!Start, ListHeap!Start,
       Lib!M!F!End, ListHeap!End, Lib!M!F!Null, ListHeap!Null
<1>2. Lib!M!F!Header = ListHeap!Header
  BY DEF Lib!M!F!Header, ListHeap!Header
<1> QED BY <1>1, <1>2, SameSets, Zenon DEF Lib!M!F!FitsIfRoom, ListHeap!FitsIfRoom

\* The heap of this build and the one of the other, which stays as it begins
HeapsInv == ListHeap!HeapInv /\ BuddyInv(HeapNow)

LEMMA HeapsBegin ==
  ASSUME HeapWords \in Nat \ {0}, Top \in Nat, Lib!Init
  PROVE  HeapsInv /\ Lib!M!Used = {}
PROOF
<1>1. Lib!M!F!Init /\ Lib!M!B!Init
  BY Zenon DEF Lib!Init, Lib!M!Init
<1>2. ListHeap!Init /\ ListHeap!HeapInv
  BY <1>1, SameBegin, ListHeap!InitInv
<1>3. BuddyInv(HeapNow) /\ Bud!InUse = {}
  BY <1>1, SameBuddy, HeapBegins
<1>4. Lib!M!F!InUse = {}
  <2>1. ListHeap!InUse = {}
    BY <1>2 DEF ListHeap!Init, ListHeap!InUse, ListHeap!Block
  <2> QED BY <2>1, SameSets
<1>5. Lib!M!Used = {}
  BY <1>3, <1>4, SameBuddySets DEF Lib!M!Used
<1> QED BY <1>2, <1>3, <1>5 DEF HeapsInv

\* What a step of the library does to the heaps
LEMMA HeapsStep ==
  ASSUME [Lib!Next]_libraryVars
  PROVE  /\ part' = part
         /\ \/ ListHeap!Next /\ ~buddy /\ buddy' = buddy /\ UNCHANGED Lib!M!buddyVars
            \/ Bud!Next /\ buddy /\ buddy' = buddy /\ UNCHANGED Lib!M!listVars
            \/ UNCHANGED Lib!heapVars
PROOF
<1>1. CASE UNCHANGED libraryVars
  BY <1>1, Zenon DEF libraryVars
<1>2. CASE Lib!Next
  <2>1. part' = part /\ (Lib!M!Next \/ UNCHANGED Lib!heapVars)
    BY <1>2, Zenon DEF Lib!Next
  <2>2. CASE Lib!M!Next
    BY <2>1, <2>2, SameNext, SameBuddy, Zenon DEF Lib!M!Next
  <2> QED BY <2>1, <2>2, Zenon
<1> QED BY <1>1, <1>2

LEMMA HeapsKept ==
  ASSUME HeapWords \in Nat \ {0}, MaxRequest \in Nat, Top \in Nat, MaxBuddyRequest \in Nat,
         HeapsInv, [Lib!Next]_libraryVars
  PROVE  HeapsInv'
PROOF
<1>1. CASE ListHeap!Next /\ UNCHANGED Lib!M!buddyVars
  <2>1. ListHeap!HeapInv'
    BY <1>1, ListHeap!NextInv DEF HeapsInv
  <2>2. freeList' = freeList /\ link' = link /\ blockSize' = blockSize /\ isFree' = isFree
    BY <1>1, Zenon DEF Lib!M!buddyVars
  <2>3. HeapNow' = HeapNow
    BY <2>2, Zenon DEF HeapNow
  <2>4. BuddyInv(HeapNow')
    BY <2>3, Zenon DEF HeapsInv
  <2> QED BY <2>1, <2>4 DEF HeapsInv
<1>2. CASE Bud!Next /\ UNCHANGED Lib!M!listVars
  <2>1. BuddyInv(HeapNow')
    BY <1>2, BuddyKeeps DEF HeapsInv
  <2>2. UNCHANGED ListHeap!vars
    BY <1>2, Zenon DEF Lib!M!listVars, ListHeap!vars
  <2>3. ListHeap!HeapInv'
    BY <2>2, ListHeap!NextInv DEF HeapsInv
  <2> QED BY <2>1, <2>3 DEF HeapsInv
<1>3. CASE UNCHANGED Lib!heapVars
  <2>1. UNCHANGED ListHeap!vars
    BY <1>3, Zenon DEF Lib!heapVars, ListHeap!vars
  <2>2. ListHeap!HeapInv'
    BY <2>1, ListHeap!NextInv DEF HeapsInv
  <2>3. freeList' = freeList /\ link' = link /\ blockSize' = blockSize /\ isFree' = isFree
    BY <1>3, Zenon DEF Lib!heapVars
  <2>4. HeapNow' = HeapNow
    BY <2>3, Zenon DEF HeapNow
  <2>5. BuddyInv(HeapNow')
    BY <2>4, Zenon DEF HeapsInv
  <2> QED BY <2>2, <2>5 DEF HeapsInv
<1> QED BY <1>1, <1>2, <1>3, HeapsStep

LEMMA HeapsAreSound ==
  ASSUME HeapWords \in Nat \ {0}, MaxRequest \in Nat, Top \in Nat, MaxBuddyRequest \in Nat,
         HeapsInv
  PROVE  Lib!HeapSound
PROOF
<1>1. ListHeap!Tiled /\ ListHeap!BytesExact /\ ListHeap!FitsIfRoom
  BY ListHeap!TiledHolds, ListHeap!BytesHold, ListHeap!FitsHolds DEF HeapsInv
<1>2. Bud!Sound /\ Bud!FitsIfRoom
  BY BuddyIsSound, HeapFits DEF HeapsInv
<1> QED BY <1>1, <1>2, SameTiled, SameBytes, SameFits, SameSound, Zenon DEF Lib!HeapSound, Lib!M!HeapSound

\* Either heap, of any size: every word is in one block, the lists agree
\* with the headers, two buddies are never both free, and malloc() fails
\* only for want of a run of free words: freeListMM.c and buddyMM.c.
THEOREM HeapsSound ==
  ASSUME HeapWords \in Nat \ {0}, MaxRequest \in Nat, Top \in Nat, MaxBuddyRequest \in Nat
  PROVE  Lib!Spec => []Lib!HeapSound
PROOF
<1>1. Lib!Init => HeapsInv
  BY HeapsBegin
<1>2. HeapsInv /\ [Lib!Next]_libraryVars => HeapsInv'
  BY HeapsKept
<1>3. HeapsInv => Lib!HeapSound
  BY HeapsAreSound
<1> QED BY <1>1, <1>2, <1>3, PTL DEF Lib!Spec, libraryVars

-----------------------------------------------------------------------------
(* Either heap is an allocator.                                            *)

LEMMA ListCalls ==
  ASSUME HeapWords \in Nat \ {0}, MaxRequest \in Nat, ListHeap!HeapInv, ListHeap!Next
  PROVE  \/ Calls(ListHeap!Handed, ListHeap!Handed', MaxRequest, HeapWords)
         \/ UNCHANGED ListHeap!Handed
PROOF
<1>1. ListHeap!HeapInv'
  BY ListHeap!NextInv
<1>2. [ListHeap!A!Next]_(ListHeap!Handed)
  BY <1>1, ListHeap!ListStep
<1>3. ListHeap!Header = 2
  BY DEF ListHeap!Header
<1>4. PICK old, new : old = ListHeap!Handed /\ new = ListHeap!Handed'
  OBVIOUS
<1>5. ASSUME NEW n \in 1..MaxRequest, ListHeap!A!Malloc(n) PROVE Gives(old, new, n, HeapWords)
  BY <1>3, <1>4, <1>5, Zenon DEF ListHeap!A!Malloc, ListHeap!A!Run, Gives
<1>6. ASSUME NEW r \in old, ListHeap!A!Free(r) PROVE Takes(old, new)
  BY <1>4, <1>6, Zenon DEF ListHeap!A!Free, Takes
<1>7. ListHeap!A!Next => Calls(old, new, MaxRequest, HeapWords)
  BY <1>4, <1>5, <1>6, Zenon DEF ListHeap!A!Next, Calls
<1> QED BY <1>2, <1>4, <1>7, Zenon

\* What MCLibrary has for Allocator's variable and its constants
LibraryHanded == IF part = "heap" THEN Lib!M!Used ELSE {}
Most == IF MaxRequest < MaxBuddyRequest THEN MaxBuddyRequest ELSE MaxRequest
Largest == IF HeapWords < 2^Top THEN 2^Top ELSE HeapWords

LEMMA CallsAllocate ==
  ASSUME Calls(LibraryHanded, LibraryHanded', Most, Largest)
  PROVE  Lib!Allocators!Next
PROOF
<1>1. PICK old, new, most, top : /\ old = LibraryHanded /\ new = LibraryHanded'
                                 /\ most = Most /\ top = Largest
  OBVIOUS
<1>2. /\ old = (IF part = "heap" THEN Lib!M!Used ELSE {})
      /\ new = (IF part = "heap" THEN Lib!M!Used ELSE {})'
      /\ most = (IF MaxRequest < MaxBuddyRequest THEN MaxBuddyRequest ELSE MaxRequest)
      /\ top = (IF HeapWords < 2^Top THEN 2^Top ELSE HeapWords)
  BY <1>1, Zenon DEF LibraryHanded, Most, Largest
<1>3. ASSUME NEW n \in 1..most, Gives(old, new, n, top) PROVE Lib!Allocators!Malloc(n)
  BY <1>2, <1>3, Zenon DEF Gives, Lib!Allocators!Malloc, Lib!Allocators!Run
<1>4. ASSUME NEW r \in old, new = old \ {r} PROVE Lib!Allocators!Free(r)
  BY <1>2, <1>4, Zenon DEF Lib!Allocators!Free
<1>5. Calls(old, new, most, top)
  BY <1>1
<1> QED BY <1>2, <1>3, <1>4, <1>5, Zenon DEF Calls, Takes, Lib!Allocators!Next

LEMMA LargestIs ==
  ASSUME HeapWords \in Nat \ {0}, MaxRequest \in Nat, Top \in Nat, MaxBuddyRequest \in Nat
  PROVE  /\ Most \in Nat /\ MaxRequest <= Most /\ MaxBuddyRequest <= Most
         /\ Largest \in Nat /\ HeapWords <= Largest
         /\ Bud!HeapSize \in Nat /\ Bud!HeapSize <= Largest
PROOF
<1>1. Bud!HeapSize = 2^Top /\ Bud!HeapSize \in Nat
  BY HeapIs DEF Bud!HeapSize
<1>2. PICK t : t = 2^Top
  OBVIOUS
<1> QED BY <1>1, <1>2 DEF Most, Largest

LEMMA UsedIs ==
  /\ ~buddy => Lib!M!Used = ListHeap!Handed
  /\ buddy => Lib!M!Used = BuddyHanded
PROOF
<1>1. ~buddy => Lib!M!Used = {Lib!M!F!Words(b) : b \in Lib!M!F!InUse}
  BY Zenon DEF Lib!M!Used
<1>2. {Lib!M!F!Words(b) : b \in Lib!M!F!InUse} = {ListHeap!Words(b) : b \in ListHeap!InUse}
  BY SameSets
<1>3. buddy => Lib!M!Used = BuddyHanded
  BY SameBuddySets, Zenon DEF Lib!M!Used, BuddyHanded
<1> QED BY <1>1, <1>2, <1>3, Zenon DEF ListHeap!Handed

LEMMA HeapsAllocate ==
  ASSUME HeapWords \in Nat \ {0}, MaxRequest \in Nat, Top \in Nat, MaxBuddyRequest \in Nat,
         HeapsInv, [Lib!Next]_libraryVars
  PROVE  Lib!Allocators!Next \/ UNCHANGED LibraryHanded
PROOF
<1>1. part' = part
  BY HeapsStep
<1>2. CASE part # "heap"
  BY <1>1, <1>2, Zenon DEF LibraryHanded
<1>3. ASSUME part = "heap", NEW most \in Nat, NEW top \in Nat, most <= Most, top <= Largest,
             Calls(Lib!M!Used, Lib!M!Used', most, top)
      PROVE  Lib!Allocators!Next
  <2>1. PICK old, new, m, t : /\ old = Lib!M!Used /\ new = Lib!M!Used'
                              /\ m = Most /\ t = Largest
    OBVIOUS
  <2>2. m \in Nat /\ t \in Nat /\ most <= m /\ top <= t
    BY <1>3, <2>1, LargestIs
  <2>3. Calls(old, new, most, top)
    BY <1>3, <2>1
  <2>4. Calls(old, new, m, t)
    BY <2>2, <2>3, CallsOfMore
  <2>5. LibraryHanded = old /\ LibraryHanded' = new
    BY <1>1, <1>3, <2>1, Zenon DEF LibraryHanded
  <2> QED BY <2>1, <2>4, <2>5, CallsAllocate
<1>4. CASE part = "heap" /\ ListHeap!Next /\ ~buddy /\ buddy' = buddy
  <2>1. ~buddy' => Lib!M!Used' = ListHeap!Handed'
    <3>1. Lib!M!Used' = {Lib!M!F!Words(b) : b \in Lib!M!F!InUse}' \/ buddy'
      BY Zenon DEF Lib!M!Used
    <3>2. (Lib!M!F!InUse = ListHeap!InUse)'
      BY DEF Lib!M!F!InUse, ListHeap!InUse, Lib!M!F!Addr, ListHeap!Addr
    <3>3. ({Lib!M!F!Words(b) : b \in Lib!M!F!InUse} = {ListHeap!Words(b) : b \in ListHeap!InUse})'
      BY <3>2 DEF Lib!M!F!Words, ListHeap!Words
    <3> QED BY <3>1, <3>3 DEF ListHeap!Handed
  <2>2. Lib!M!Used = ListHeap!Handed /\ Lib!M!Used' = ListHeap!Handed'
    BY <1>4, <2>1, UsedIs
  <2>3. \/ Calls(ListHeap!Handed, ListHeap!Handed', MaxRequest, HeapWords)
        \/ UNCHANGED ListHeap!Handed
    BY <1>4, ListCalls DEF HeapsInv
  <2>4. CASE Calls(ListHeap!Handed, ListHeap!Handed', MaxRequest, HeapWords)
    <3>1. Calls(Lib!M!Used, Lib!M!Used', MaxRequest, HeapWords)
      BY <2>2, <2>4, Zenon
    <3>2. MaxRequest <= Most /\ HeapWords <= Largest /\ HeapWords \in Nat
      BY LargestIs
    <3> QED BY <1>3, <1>4, <3>1, <3>2
  <2>5. CASE UNCHANGED ListHeap!Handed
    BY <1>1, <2>2, <2>5, Zenon DEF LibraryHanded
  <2> QED BY <2>3, <2>4, <2>5
<1>5. CASE part = "heap" /\ Bud!Next /\ buddy /\ buddy' = buddy
  <2>1. buddy' => Lib!M!Used' = BuddyHanded'
    BY Zenon DEF Lib!M!Used, BuddyHanded, Lib!M!B!Words, Bud!Words, Lib!M!B!InUse, Bud!InUse,
         Lib!M!B!Addr, Bud!Addr, Lib!M!B!HeapSize, Bud!HeapSize
  <2>2. Lib!M!Used = BuddyHanded /\ Lib!M!Used' = BuddyHanded'
    BY <1>5, <2>1, UsedIs
  <2>3. Calls(BuddyHanded, BuddyHanded', MaxBuddyRequest, Bud!HeapSize)
    BY <1>5, BuddyCalls DEF HeapsInv
  <2>4. Calls(Lib!M!Used, Lib!M!Used', MaxBuddyRequest, Bud!HeapSize)
    BY <2>2, <2>3, Zenon
  <2>5. MaxBuddyRequest <= Most /\ Bud!HeapSize <= Largest /\ Bud!HeapSize \in Nat
    BY LargestIs
  <2> QED BY <1>3, <1>5, <2>4, <2>5
<1>6. CASE UNCHANGED Lib!heapVars
  <2>1. /\ buddy' = buddy /\ size' = size /\ allocated' = allocated
        /\ blockSize' = blockSize /\ isFree' = isFree
    BY <1>6, Zenon DEF Lib!heapVars
  <2>2. Lib!M!Used' = Lib!M!Used
    BY <2>1, Zenon DEF Lib!M!Used, Lib!M!F!InUse, Lib!M!F!Words, Lib!M!B!InUse, Lib!M!B!Words
  <2> QED BY <1>1, <2>2, Zenon DEF LibraryHanded
<1> QED BY <1>2, <1>4, <1>5, <1>6, HeapsStep, Zenon

\* Either heap, of any size, hands out disjoint blocks, as large as asked
\* for, and has back just the one that is freed: freeListMM.c and buddyMM.c
\* implement Allocator, and the client need not know which of them it has.
THEOREM HeapsImplementAllocator ==
  ASSUME HeapWords \in Nat \ {0}, MaxRequest \in Nat, Top \in Nat, MaxBuddyRequest \in Nat
  PROVE  Lib!Spec => Lib!ImplementsAllocator
PROOF
<1>1. Lib!Init => HeapsInv /\ Lib!Allocators!Init
  <2>1. Lib!Init => LibraryHanded = {}
    BY HeapsBegin, Zenon DEF LibraryHanded
  <2>2. LibraryHanded = {} => Lib!Allocators!Init
    BY Zenon DEF LibraryHanded, Lib!Allocators!Init
  <2> QED BY <2>1, <2>2, HeapsBegin
<1>2. HeapsInv /\ [Lib!Next]_libraryVars => HeapsInv'
  BY HeapsKept
<1>3. HeapsInv /\ [Lib!Next]_libraryVars => [Lib!Allocators!Next]_LibraryHanded
  BY HeapsAllocate
<1> QED BY <1>1, <1>2, <1>3, PTL DEF Lib!Spec, Lib!ImplementsAllocator,
           Lib!Allocators!Spec, libraryVars, LibraryHanded

=============================================================================
