------------------------------ MODULE PipeProof ------------------------------
(***************************************************************************)
(* What module Pipe shows of one pipe on an instance, proved for any number *)
(* of processes, any bytes, a ring of any size and calls of any length.     *)
(***************************************************************************)
EXTENDS Pipe, SubsequenceProof

Sem == [value : Nat, queue : Seq(Proc)]
Op == {"none", "read", "write"}

\* Holders, of any record of the calls and states.
Hold(o, opf, st) == {p \in Proc : opf[p] = o /\ st[p] \in {"READY", "EXITED"}}

\* The tokens of a semaphore for o, handed out and not.
Tokens(s, o, opf, st) == s.value + Cardinality(Hold(o, opf, st))

\* Its queue is of processes that wait in a call for o, or were killed there.
QueueSound(s, o, opf, st) ==
  /\ s \in Sem
  /\ IsInjective(s.queue)
  /\ s.value > 0 => s.queue = <<>>
  /\ \A p \in Range(s.queue) :
       st[p] = "W-EXIT" \/ (st[p] = "BLOCKED" /\ opf[p] = o)
  /\ \A p \in Proc : st[p] = "BLOCKED" /\ opf[p] = o => p \in Range(s.queue)

\* Both semaphores of a pipe, in either order.
Sound(s, o, s2, o2, opf, st) ==
  /\ st \in [Proc -> State]
  /\ opf \in [Proc -> Op]
  /\ \A p \in Proc : st[p] = "W-EXIT" => opf[p] = "none"
  /\ \A p \in Proc : st[p] = "BLOCKED" => opf[p] # "none"
  /\ QueueSound(s, o, opf, st)
  /\ QueueSound(s2, o2, opf, st)
  /\ Range(s.queue) \cap Range(s2.queue) = {}

Calling(o, o2) == o \in {"read", "write"} /\ o2 \in {"read", "write"} /\ o # o2

LEMMA Swapped ==
  ASSUME NEW s, NEW o, NEW s2, NEW o2, NEW opf, NEW st, Sound(s, o, s2, o2, opf, st)
  PROVE  Sound(s2, o2, s, o, opf, st)
PROOF
BY DEF Sound

LEMMA HoldFinite ==
  ASSUME NEW o, NEW opf, NEW st
  PROVE  IsFiniteSet(Hold(o, opf, st)) /\ Cardinality(Hold(o, opf, st)) \in Nat
PROOF
<1>1. IsFiniteSet(Proc)
  BY PipeAssumption
<1>2. Hold(o, opf, st) \in SUBSET Proc
  BY DEF Hold
<1>3. IsFiniteSet(Hold(o, opf, st))
  BY <1>1, <1>2, FS_Subset
<1> QED BY <1>3, FS_CardinalityType

\* One holder more, one less.
LEMMA HoldCounts ==
  ASSUME NEW o, NEW opf, NEW st, NEW p
  PROVE  LET H == Hold(o, opf, st) IN
         /\ p \notin H => Cardinality(H \cup {p}) = Cardinality(H) + 1
         /\ p \in H => Cardinality(H \ {p}) = Cardinality(H) - 1
PROOF
<1> DEFINE H == Hold(o, opf, st)
<1>1. IsFiniteSet(H)
  BY HoldFinite
<1> HIDE DEF H
<1>2. p \notin H => Cardinality(H \cup {p}) = Cardinality(H) + 1
  BY <1>1, FS_AddElement
<1>3. p \in H => Cardinality(H \ {p}) = Cardinality(H) - 1
  BY <1>1, FS_RemoveElement
<1> QED BY <1>2, <1>3 DEF H

LEMMA SameToSet == ASSUME NEW q PROVE ToSet(q) = Range(q)
PROOF
BY DEF ToSet, Range

-----------------------------------------------------------------------------
(* The two operations on a semaphore.                                       *)

\* A post takes off the queue all up to the first BLOCKED process.
LEMMA PostShape ==
  ASSUME ~destroyed, NEW s \in Sem, NEW st
  PROVE  LET q == s.queue
             r == PostSemaphore(s, st) IN
         \E n \in 0..Len(q) :
           /\ r.sem.queue = SubSeq(q, n + 1, Len(q))
           /\ r.state = LetGo(st, Range(SubSeq(q, 1, n)))
           /\ \A j \in 1..n-1 : st[q[j]] # "BLOCKED"
           /\ \/ /\ n = Len(q) /\ \A j \in DOMAIN q : st[q[j]] # "BLOCKED"
                 /\ r.sem = [value |-> s.value + 1, queue |-> SubSeq(q, n + 1, Len(q))]
              \/ /\ n \in DOMAIN q /\ st[q[n]] = "BLOCKED"
                 /\ r.sem = [value |-> s.value, queue |-> SubSeq(q, n + 1, Len(q))]
PROOF
<1> DEFINE q == s.queue
           I == {i \in 1..Len(q) : st[q[i]] = "BLOCKED"}
           k == SelectInSeq(q, LAMBDA p : st[p] = "BLOCKED")
           n == IF k = 0 THEN Len(q) ELSE k
           q2 == SubSeq(q, n + 1, Len(q))
           r == PostSemaphore(s, st)
<1>1. q \in Seq(Proc) /\ Len(q) \in Nat /\ DOMAIN q = 1..Len(q)
  BY DEF Sem
<1>2. k = IF I # {} THEN Min(I) ELSE 0
  BY DEF SelectInSeq
<1>3. /\ r.sem = [value |-> IF k = 0 THEN s.value + 1 ELSE s.value,
                  queue |-> SubSeq(q, n + 1, Len(q))]
      /\ r.state = LetGo(st, Range(SubSeq(q, 1, n)))
  BY SameToSet DEF PostSemaphore
<1> HIDE DEF k, r
<1>4. CASE I = {}
  <2>1. k = 0 /\ n = Len(q) /\ \A j \in DOMAIN q : st[q[j]] # "BLOCKED"
    BY <1>1, <1>2, <1>4
  <2>2. n \in 0..Len(q) /\ \A j \in 1..n-1 : st[q[j]] # "BLOCKED"
    BY <1>1, <2>1
  <2>3. r.sem = [value |-> s.value + 1, queue |-> q2]
    BY <1>3, <2>1
  <2> HIDE DEF n, q, q2
  <2>4. r.sem.queue = q2
    BY <2>3
  <2> QED BY <1>3, <2>1, <2>2, <2>3, <2>4 DEF r, q, q2
<1>5. CASE I # {}
  <2>1. I \in SUBSET Nat
    OBVIOUS
  <2>2. k = CHOOSE x \in I : \A y \in I : x <= y
    BY <1>2, <1>5 DEF Min
  <2> HIDE DEF I
  <2>3. k \in I /\ \A y \in I : k <= y
    BY <1>5, <2>1, <2>2, LeastOfSome
  <2> USE DEF I
  <2>4. /\ k \in DOMAIN q /\ st[q[k]] = "BLOCKED" /\ k # 0 /\ n = k /\ n \in 0..Len(q)
        /\ \A j \in 1..n-1 : st[q[j]] # "BLOCKED"
    BY <1>1, <2>3
  <2>5. r.sem = [value |-> s.value, queue |-> q2]
    BY <1>3, <2>4
  <2> HIDE DEF n, q, q2
  <2>6. r.sem.queue = q2
    BY <2>5
  <2>7. n \in DOMAIN q /\ st[q[n]] = "BLOCKED"
    BY <2>4
  <2> QED BY <1>3, <2>4, <2>5, <2>6, <2>7 DEF r, q, q2
<1> QED BY <1>4, <1>5

\* It hands out one token more, to a waiter or to the semaphore, and does
\* nothing to whoever the other semaphore concerns.
LEMMA PostSound ==
  ASSUME NEW s, NEW o, NEW s2, NEW o2, NEW opf, NEW st, NEW r,
         Calling(o, o2), Sound(s, o, s2, o2, opf, st), r = PostSemaphore(s, st)
  PROVE  /\ Sound(r.sem, o, s2, o2, opf, r.state)
         /\ Hold(o2, opf, r.state) = Hold(o2, opf, st)
         /\ ~destroyed => Tokens(r.sem, o, opf, r.state) = Tokens(s, o, opf, st) + 1
         /\ destroyed => r.sem = s /\ r.state = st
         /\ \A p \in Proc : st[p] \in {"READY", "EXITED"} => r.state[p] = st[p]
PROOF
<1>1. CASE destroyed
  <2>1. r = [sem |-> s, state |-> st]
    BY <1>1 DEF PostSemaphore
  <2>2. r.sem = s /\ r.state = st
    BY <2>1
  <2> QED BY <1>1, <2>2
<1>2. CASE ~destroyed
  <2> DEFINE q == s.queue
  <2>1. s \in Sem /\ q \in Seq(Proc) /\ IsInjective(q) /\ s.value \in Nat
    BY DEF Sound, QueueSound, Sem
  <2>2. PICK n \in 0..Len(q) :
          /\ r.sem.queue = SubSeq(q, n + 1, Len(q))
          /\ r.state = LetGo(st, Range(SubSeq(q, 1, n)))
          /\ \A j \in 1..n-1 : st[q[j]] # "BLOCKED"
          /\ \/ /\ n = Len(q) /\ \A j \in DOMAIN q : st[q[j]] # "BLOCKED"
                /\ r.sem = [value |-> s.value + 1, queue |-> SubSeq(q, n + 1, Len(q))]
             \/ /\ n \in DOMAIN q /\ st[q[n]] = "BLOCKED"
                /\ r.sem = [value |-> s.value, queue |-> SubSeq(q, n + 1, Len(q))]
    BY <1>2, <2>1, PostShape
  <2> DEFINE ds == SubSeq(q, 1, n)
             q2 == SubSeq(q, n + 1, Len(q))
             H == Hold(o, opf, st)
  <2>3. /\ ds \in Seq(Proc) /\ Len(ds) = n /\ \A k \in 1..n : ds[k] = q[k]
        /\ q2 \in Seq(Proc) /\ Len(q2) = Len(q) - n
        /\ Range(q) = Range(ds) \cup Range(q2)
        /\ IsInjective(q2) /\ Range(ds) \cap Range(q2) = {}
    BY <2>1, SplitQueue
  <2>4. n \in Nat /\ Len(q) \in Nat /\ n <= Len(q) /\ DOMAIN q = 1..Len(q) /\ DOMAIN ds = 1..n
    BY <2>1, <2>3
  <2> HIDE DEF q, ds, q2, H
  <2>5. /\ r.state = LetGo(st, Range(ds)) /\ r.sem.queue = q2
        /\ \/ n = Len(q) /\ \A j \in DOMAIN q : st[q[j]] # "BLOCKED"
           \/ n \in DOMAIN q /\ st[q[n]] = "BLOCKED"
        /\ r.sem = [value |-> r.sem.value, queue |-> q2]
        /\ r.sem.value \in Nat
    <3>1. CASE r.sem = [value |-> s.value + 1, queue |-> q2]
      <4>1. r.sem.value = s.value + 1
        BY <3>1
      <4> QED BY <2>1, <2>2, <3>1, <4>1 DEF ds, q2
    <3>2. CASE r.sem = [value |-> s.value, queue |-> q2]
      <4>1. r.sem.value = s.value
        BY <3>2
      <4> QED BY <2>1, <2>2, <3>2, <4>1 DEF ds, q2
    <3> QED BY <2>2, <3>1, <3>2 DEF q2
  <2>6. /\ n = Len(q) /\ (\A j \in DOMAIN q : st[q[j]] # "BLOCKED") => r.sem.value = s.value + 1
        /\ n \in DOMAIN q /\ st[q[n]] = "BLOCKED" => r.sem.value = s.value
    <3>1. \A v : r.sem = [value |-> v, queue |-> q2] => r.sem.value = v
      OBVIOUS
    <3> QED BY <2>2, <3>1 DEF q2
  <2>7. r.sem \in Sem
    BY <2>3, <2>5 DEF Sem
  <2>8. /\ st \in [Proc -> State] /\ opf \in [Proc -> Op]
        /\ \A p \in Proc : st[p] = "W-EXIT" => opf[p] = "none"
        /\ \A p \in Proc : st[p] = "BLOCKED" => opf[p] # "none"
        /\ s.value > 0 => q = <<>>
        /\ \A p \in Range(q) : st[p] = "W-EXIT" \/ (st[p] = "BLOCKED" /\ opf[p] = o)
        /\ \A p \in Proc : st[p] = "BLOCKED" /\ opf[p] = o => p \in Range(q)
        /\ Range(q) \cap Range(s2.queue) = {}
        /\ QueueSound(s2, o2, opf, st)
    BY DEF Sound, QueueSound, q
  <2>9. Range(q) \subseteq Proc
    BY <2>1 DEF Range, q
  <2>10. /\ r.state \in [Proc -> State]
         /\ \A p \in Proc \ Range(ds) : r.state[p] = st[p]
         /\ \A p \in Range(ds) : /\ st[p] = "BLOCKED" => r.state[p] = "READY"
                                 /\ st[p] = "W-EXIT" => r.state[p] = "EXITED"
    <3>1. r.state = [p \in Proc |-> CASE p \in Range(ds) /\ st[p] = "BLOCKED" -> "READY"
                                     [] p \in Range(ds) /\ st[p] = "W-EXIT" -> "EXITED"
                                     [] OTHER -> st[p]]
      BY <2>5 DEF LetGo
    <3>2. \A p \in Proc \ Range(ds) : r.state[p] = st[p]
      BY <3>1
    <3>3. \A p \in Range(ds) : /\ st[p] = "BLOCKED" => r.state[p] = "READY"
                               /\ st[p] = "W-EXIT" => r.state[p] = "EXITED"
      BY <2>3, <2>9, <3>1
    <3>4. \A p \in Range(ds) : st[p] = "BLOCKED" \/ st[p] = "W-EXIT"
      BY <2>3, <2>8
    <3>5. r.state = [p \in Proc |-> r.state[p]]
      BY <3>1
    <3>6. \A p \in Proc : r.state[p] \in State
      BY <2>8, <3>2, <3>3, <3>4 DEF State
    <3> QED BY <3>2, <3>3, <3>5, <3>6
  <2>11. QueueSound(r.sem, o, opf, r.state)
    <3>1. r.sem.value > 0 => q2 = <<>>
      <4>1. CASE n = Len(q)
        BY <2>3, <2>4, <4>1
      <4>2. CASE n \in DOMAIN q /\ st[q[n]] = "BLOCKED"
        <5>1. q # <<>>
          BY <2>4, <4>2
        <5> QED BY <2>1, <2>6, <2>8, <4>2, <5>1
      <4> QED BY <2>5, <4>1, <4>2
    <3>2. \A p \in Range(q2) : r.state[p] = "W-EXIT" \/ (r.state[p] = "BLOCKED" /\ opf[p] = o)
      BY <2>3, <2>8, <2>9, <2>10
    <3>3. \A p \in Proc : r.state[p] = "BLOCKED" /\ opf[p] = o => p \in Range(q2)
      BY <2>3, <2>8, <2>10
    <3> QED BY <2>3, <2>5, <2>7, <3>1, <3>2, <3>3 DEF QueueSound
  <2>12. QueueSound(s2, o2, opf, r.state)
    <3>1. \A p \in Range(s2.queue) : p \in Proc
      BY <2>8 DEF QueueSound, Sem, Range
    <3>2. \A p \in Range(s2.queue) : r.state[p] = st[p]
      BY <2>3, <2>8, <2>10, <3>1
    <3>3. \A p \in Proc : r.state[p] = "BLOCKED" => st[p] = "BLOCKED"
      BY <2>3, <2>8, <2>10
    <3> QED BY <2>8, <3>2, <3>3 DEF QueueSound
  <2>13. \A p \in Proc : /\ r.state[p] = "W-EXIT" => opf[p] = "none"
                         /\ r.state[p] = "BLOCKED" => opf[p] # "none"
    BY <2>3, <2>8, <2>10
  <2>14. Sound(r.sem, o, s2, o2, opf, r.state)
    BY <2>3, <2>5, <2>8, <2>10, <2>11, <2>12, <2>13 DEF Sound
  <2>15. Hold(o2, opf, r.state) = Hold(o2, opf, st)
    <3>1. \A p \in Range(ds) : opf[p] # o2
      BY <2>3, <2>8, <2>9 DEF Calling
    <3> QED BY <2>10, <3>1 DEF Hold
  <2>16. Tokens(r.sem, o, opf, r.state) = Tokens(s, o, opf, st) + 1
    <3>1. CASE n = Len(q) /\ \A j \in DOMAIN q : st[q[j]] # "BLOCKED"
      <4>1. \A p \in Range(ds) : st[p] # "BLOCKED"
        BY <2>3, <3>1 DEF Range
      <4>2. \A p \in Range(ds) : opf[p] # o
        BY <2>3, <2>8, <2>9, <4>1 DEF Calling
      <4>3. Hold(o, opf, r.state) = H
        BY <2>10, <4>2 DEF Hold, H
      <4> QED BY <2>1, <2>6, <3>1, <4>3, HoldFinite DEF Tokens, H
    <3>2. CASE n \in DOMAIN q /\ st[q[n]] = "BLOCKED"
      <4>1. n \in DOMAIN ds /\ ds[n] = q[n] /\ q[n] \in Range(ds) /\ q[n] \in Range(q)
        <5>1. n \in 1..n
          BY <2>4, <3>2
        <5> QED BY <2>3, <2>4, <3>2, <5>1 DEF Range
      <4>2. ASSUME NEW p \in Range(ds), p # q[n] PROVE opf[p] # o
        <5>1. PICK k \in 1..n : p = ds[k]
          BY <2>4 DEF Range
        <5>2. k # n /\ k \in 1..n-1
          BY <2>3, <2>4, <4>2, <5>1
        <5>3. st[p] # "BLOCKED"
          BY <2>2, <2>3, <5>1, <5>2 DEF q
        <5> QED BY <2>3, <2>8, <2>9, <5>3 DEF Calling
      <4>3. q[n] \in Proc /\ opf[q[n]] = o /\ r.state[q[n]] = "READY" /\ q[n] \notin H
        BY <2>8, <2>9, <2>10, <3>2, <4>1 DEF H, Hold
      <4>4. Hold(o, opf, r.state) = H \cup {q[n]}
        <5>1. \A p \in Proc : p \in Hold(o, opf, r.state) <=> p \in H \/ p = q[n]
          BY <2>10, <4>2, <4>3 DEF Hold, H
        <5> QED BY <4>3, <5>1 DEF Hold, H
      <4>5. Cardinality(H \cup {q[n]}) = Cardinality(H) + 1
        BY <4>3, HoldCounts DEF H
      <4> QED BY <2>1, <2>6, <3>2, <4>4, <4>5, HoldFinite DEF Tokens, H
    <3> QED BY <2>5, <3>1, <3>2
  <2>17. \A p \in Proc : st[p] \in {"READY", "EXITED"} => r.state[p] = st[p]
    BY <2>3, <2>8, <2>10
  <2> QED BY <1>2, <2>14, <2>15, <2>16, <2>17
<1> QED BY <1>1, <1>2

\* A wait takes a token away, or a holder.
LEMMA WaitSound ==
  ASSUME NEW s, NEW o, NEW s2, NEW o2, NEW opf, NEW st, NEW p \in Proc, NEW w,
         Calling(o, o2), Sound(s, o, s2, o2, opf, st), opf[p] = o, st[p] = "READY",
         w = WaitSemaphore(s, st, p)
  PROVE  /\ Sound(w.sem, o, s2, o2, opf, w.state)
         /\ Hold(o2, opf, w.state) = Hold(o2, opf, st)
         /\ ~destroyed => Tokens(w.sem, o, opf, w.state) = Tokens(s, o, opf, st) - 1
         /\ destroyed => w.sem = s /\ w.state = st
PROOF
<1> DEFINE H == Hold(o, opf, st)
<1>1. /\ s \in Sem /\ s.value \in Nat /\ s.queue \in Seq(Proc) /\ IsInjective(s.queue)
      /\ s = [value |-> s.value, queue |-> s.queue]
      /\ st \in [Proc -> State]
      /\ \A x \in Range(s.queue) : x \in Proc
      /\ \A x \in Range(s.queue) : st[x] = "W-EXIT" \/ (st[x] = "BLOCKED" /\ opf[x] = o)
  <2>1. s \in Sem
    BY DEF Sound, QueueSound
  <2> QED BY <2>1 DEF Sound, QueueSound, Sem, Range
<1>2. CASE destroyed
  <2>1. w = [sem |-> s, state |-> st]
    BY <1>2 DEF WaitSemaphore
  <2>2. w.sem = s /\ w.state = st
    BY <2>1
  <2> QED BY <1>2, <2>2
<1>3. CASE ~destroyed /\ s.value > 0
  <2> DEFINE t == [s EXCEPT !.value = @ - 1]
  <2>1. w = [sem |-> t, state |-> st]
    BY <1>3 DEF WaitSemaphore
  <2>2. t \in Sem /\ t.value = s.value - 1 /\ t.queue = s.queue
    BY <1>1, <1>3 DEF Sem
  <2> HIDE DEF t
  <2>3. w.sem = t /\ w.state = st
    BY <2>1
  <2>4. s.queue = <<>>
    BY <1>3 DEF Sound, QueueSound
  <2>5. Sound(w.sem, o, s2, o2, opf, w.state)
    BY <2>2, <2>3, <2>4 DEF Sound, QueueSound
  <2>6. Tokens(w.sem, o, opf, w.state) = Tokens(s, o, opf, st) - 1
    <3>1. Cardinality(H) \in Nat
      BY HoldFinite
    <3> HIDE DEF H
    <3> QED BY <1>1, <2>2, <2>3, <3>1 DEF Tokens, H
  <2> QED BY <1>3, <2>3, <2>5, <2>6
<1>4. CASE ~destroyed /\ ~(s.value > 0)
  <2> DEFINE q == Append(s.queue, p)
             t == [s EXCEPT !.queue = q]
             st2 == [st EXCEPT ![p] = "BLOCKED"]
  <2>1. w = [sem |-> t, state |-> st2]
    BY <1>4 DEF WaitSemaphore
  <2>2. p \notin Range(s.queue) /\ s.value = 0
    BY <1>1, <1>4
  <2>3. /\ q \in Seq(Proc)
        /\ DOMAIN q = DOMAIN s.queue \cup {Len(s.queue) + 1}
        /\ Len(s.queue) + 1 \notin DOMAIN s.queue
        /\ \A k \in DOMAIN s.queue : q[k] = s.queue[k]
        /\ q[Len(s.queue) + 1] = p
    BY <1>1
  <2> HIDE DEF q
  <2>4. t \in Sem /\ t.value = 0 /\ t.queue = q
    BY <1>1, <2>2, <2>3 DEF Sem
  <2>5. /\ st2 \in [Proc -> State] /\ st2[p] = "BLOCKED"
        /\ \A x \in Proc \ {p} : st2[x] = st[x]
    BY <1>1 DEF State
  <2> HIDE DEF t, st2
  <2>6. w.sem = t /\ w.state = st2
    BY <2>1
  <2>7. Range(q) = Range(s.queue) \cup {p} /\ IsInjective(q)
    <3>1. Range(q) = Range(s.queue) \cup {p}
      BY <2>3 DEF Range
    <3>2. IsInjective(q)
      BY <1>1, <2>2, <2>3 DEF IsInjective, Range
    <3> QED BY <3>1, <3>2
  <2>8. QueueSound(t, o, opf, st2)
    BY <1>1, <2>2, <2>4, <2>5, <2>7 DEF Sound, QueueSound
  <2>9. p \notin Range(s2.queue) /\ \A x \in Range(s2.queue) : x \in Proc
    BY DEF Sound, QueueSound, Sem, Range
  <2>10. QueueSound(s2, o2, opf, st2)
    BY <2>5, <2>9 DEF Sound, QueueSound, Calling
  <2>11. opf[p] # "none"
    BY DEF Calling
  <2>12. Sound(w.sem, o, s2, o2, opf, w.state)
    BY <2>4, <2>5, <2>6, <2>7, <2>8, <2>9, <2>10, <2>11 DEF Sound
  <2>13. Hold(o2, opf, w.state) = Hold(o2, opf, st)
    BY <2>5, <2>6 DEF Hold, Calling
  <2>14. Hold(o, opf, w.state) = H \ {p} /\ p \in H
    BY <2>5, <2>6 DEF Hold
  <2>15. Cardinality(H \ {p}) = Cardinality(H) - 1
    BY <2>14, HoldCounts
  <2> HIDE DEF H
  <2>16. Cardinality(H) \in Nat
    BY HoldFinite DEF H
  <2>17. Tokens(w.sem, o, opf, w.state) = Tokens(s, o, opf, st) - 1
    BY <2>2, <2>4, <2>6, <2>14, <2>15, <2>16 DEF Tokens, H
  <2> QED BY <1>4, <2>12, <2>13, <2>17
<1> QED BY <1>2, <1>3, <1>4

\* A process that runs enters or leaves a call.
LEMMA CallSound ==
  ASSUME NEW s, NEW o, NEW s2, NEW o2, NEW opf, NEW st, NEW p \in Proc, NEW c \in Op,
         NEW opf2, Sound(s, o, s2, o2, opf, st), st[p] = "READY", opf2 = [opf EXCEPT ![p] = c]
  PROVE  /\ Sound(s, o, s2, o2, opf2, st)
         /\ opf2[p] = c
PROOF
<1>1. /\ opf2 \in [Proc -> Op] /\ opf2[p] = c
      /\ \A x \in Proc \ {p} : opf2[x] = opf[x]
  BY DEF Sound
<1>2. ASSUME NEW t, NEW x, QueueSound(t, x, opf, st) PROVE QueueSound(t, x, opf2, st)
  <2>1. \A y \in Range(t.queue) : y \in Proc /\ y # p
    BY <1>2 DEF QueueSound, Sem, Range
  <2> QED BY <1>1, <1>2, <2>1 DEF QueueSound
<1>3. Sound(s, o, s2, o2, opf2, st)
  BY <1>1, <1>2 DEF Sound
<1> QED BY <1>1, <1>3

-----------------------------------------------------------------------------
(* The invariant.                                                           *)

TypeInv ==
  /\ isStdin \in BOOLEAN /\ destroyed \in BOOLEAN /\ overrun \in BOOLEAN
  /\ buffer \in [0..BufferSize-1 -> Byte]
  /\ writeIdx \in 0..BufferSize-1 /\ readIdx \in 0..BufferSize-1
  /\ unread \in Seq(Byte)
  /\ got \in Byte

\* The place k bytes on from readIdx, for k up to BufferSize.
Ahead(k) == IF readIdx + k < BufferSize THEN readIdx + k ELSE readIdx + k - BufferSize

\* The bytes between the two indices are the unread ones.
Ring ==
  ~destroyed /\ ~overrun =>
    /\ Len(unread) <= BufferSize
    /\ writeIdx = Ahead(Len(unread))
    /\ \A k \in 1..Len(unread) : unread[k] = buffer[Ahead(k - 1)]

SemsSound == Sound(written, "read", empty, "write", op, state)

\* The keyboard alone writes stdin, and nothing destroys it; nobody waits at a
\* destroyed pipe.
Kept ==
  /\ isStdin => ~destroyed /\ \A p \in Proc : op[p] # "write"
  /\ destroyed => written.queue = <<>> /\ empty.queue = <<>>

IInv == TypeInv /\ SemsSound /\ Kept /\ TokensAgree /\ Ring

LEMMA InvMeansSound == IInv => TokensSound
PROOF
<1> SUFFICES ASSUME IInv PROVE WaitsForCause
  BY DEF IInv, TokensSound
<1>1. Range(<<>>) = {}
  BY DEF Range
<1>2. /\ Cardinality(Holders("read")) \in Nat /\ Cardinality(Holders("write")) \in Nat
      /\ Len(unread) \in Nat /\ BufferSize \in Nat
  <2>1. Holders("read") = Hold("read", op, state) /\ Holders("write") = Hold("write", op, state)
    BY DEF Holders, Hold
  <2> QED BY <2>1, HoldFinite, PipeAssumption DEF IInv, TypeInv
<1>3. ASSUME NEW p \in Proc, op[p] = "read", state[p] = "BLOCKED"
      PROVE  Len(unread) = Cardinality(Holders("read"))
  <2>1. p \in Range(written.queue) /\ written.queue # <<>>
    BY <1>1, <1>3 DEF IInv, SemsSound, Sound, QueueSound
  <2>2. ~destroyed /\ written.value = 0
    BY <2>1 DEF IInv, Kept, SemsSound, Sound, QueueSound, Sem
  <2> QED BY <1>2, <2>2 DEF IInv, TokensAgree
<1>4. ASSUME NEW p \in Proc, op[p] = "write", state[p] = "BLOCKED"
      PROVE  Len(unread) + Cardinality(Holders("write")) = BufferSize
  <2>1. p \in Range(empty.queue) /\ empty.queue # <<>> /\ ~isStdin
    BY <1>1, <1>4 DEF IInv, Kept, SemsSound, Sound, QueueSound
  <2>2. ~destroyed /\ empty.value = 0
    BY <2>1 DEF IInv, Kept, SemsSound, Sound, QueueSound, Sem
  <2> QED BY <1>2, <2>1, <2>2 DEF IInv, TokensAgree
<1> QED BY <1>3, <1>4 DEF WaitsForCause

-----------------------------------------------------------------------------
(* The ring.                                                                *)

LEMMA Wrap ==
  ASSUME NEW x \in 0..BufferSize-1
  PROVE  /\ (x + 1) % BufferSize = IF x = BufferSize - 1 THEN 0 ELSE x + 1
         /\ (x + 1) % BufferSize \in 0..BufferSize-1
PROOF
<1>1. BufferSize \in Nat \ {0}
  BY PipeAssumption
<1>2. CASE x = BufferSize - 1
  <2>1. BufferSize % BufferSize = 0
    BY <1>1, SMT
  <2> QED BY <1>1, <1>2, <2>1
<1>3. CASE x # BufferSize - 1
  <2>1. x + 1 \in 0..BufferSize-1
    BY <1>1, <1>3
  <2>2. \A y \in 0..BufferSize-1 : y % BufferSize = y
    BY <1>1, SMT
  <2> QED BY <1>3, <2>1, <2>2
<1> QED BY <1>2, <1>3

\* A byte put where writeIdx is comes last.
LEMMA RingPut ==
  ASSUME TypeInv, Ring, ~destroyed, ~overrun, Len(unread) < BufferSize, NEW b \in Byte,
         Put(b), readIdx' = readIdx
  PROVE  Ring'
PROOF
<1> DEFINE n == Len(unread)
<1>1. /\ BufferSize \in Nat \ {0} /\ n \in Nat /\ readIdx \in 0..BufferSize-1
      /\ writeIdx \in 0..BufferSize-1 /\ unread \in Seq(Byte)
      /\ buffer \in [0..BufferSize-1 -> Byte]
  BY PipeAssumption DEF TypeInv
<1>2. writeIdx = Ahead(n) /\ \A k \in 1..n : unread[k] = buffer[Ahead(k - 1)]
  BY DEF Ring
<1>3. unread' = Append(unread, b) /\ buffer' = [buffer EXCEPT ![writeIdx] = b]
  BY DEF Put
<1>4. writeIdx' = IF writeIdx = BufferSize - 1 THEN 0 ELSE writeIdx + 1
  BY <1>1, Wrap DEF Put
<1>5. /\ Len(unread') = n + 1
      /\ \A k \in 1..n : unread'[k] = unread[k]
      /\ unread'[n + 1] = b
  BY <1>1, <1>3
<1> HIDE DEF n
<1>6. \A k \in 0..BufferSize : Ahead(k)' = Ahead(k)
  BY DEF Ahead
<1>7. writeIdx' = Ahead(n + 1)
  BY <1>1, <1>2, <1>4 DEF Ahead, n
<1>8. buffer'[writeIdx] = b /\ \A j \in 0..BufferSize-1 : j # writeIdx => buffer'[j] = buffer[j]
  BY <1>1, <1>3
<1>9. ASSUME NEW k \in 1..n
      PROVE  Ahead(k - 1) \in 0..BufferSize-1 /\ Ahead(k - 1) # writeIdx
  <2>1. k \in Int /\ 1 <= k /\ k <= n /\ n < BufferSize
    BY <1>1 DEF n
  <2> QED BY <1>1, <1>2, <2>1 DEF Ahead
<1>10. ASSUME NEW k \in 1..n+1 PROVE unread'[k] = buffer'[Ahead(k - 1)]
  <2>1. CASE k = n + 1
    <3>1. k - 1 = n
      BY <1>1, <2>1
    <3> QED BY <1>2, <1>5, <1>8, <2>1, <3>1
  <2>2. CASE k # n + 1
    <3>1. k \in 1..n
      BY <1>1, <2>2
    <3> QED BY <1>2, <1>5, <1>8, <1>9, <3>1
  <2> QED BY <2>1, <2>2
<1>11. \A k \in 1..n+1 : k - 1 \in 0..BufferSize
  BY <1>1 DEF n
<1>12. n + 1 \in 0..BufferSize
  BY <1>1 DEF n
<1>13. \A k \in 1..Len(unread') : unread'[k] = buffer'[Ahead(k - 1)']
  BY <1>5, <1>6, <1>10, <1>11
<1> QED BY <1>5, <1>6, <1>7, <1>12, <1>13 DEF Ring

\* The byte taken from where readIdx is came first.
LEMMA RingGet ==
  ASSUME TypeInv, Ring, ~destroyed, ~overrun, unread # <<>>,
         readIdx' = (readIdx + 1) % BufferSize, unread' = Tail(unread),
         UNCHANGED <<buffer, writeIdx>>
  PROVE  /\ Ring'
         /\ buffer[readIdx] = Head(unread)
         /\ readIdx' = writeIdx => unread' = <<>>
PROOF
<1>0. PICK n \in Nat : n = Len(unread)
  BY DEF TypeInv
<1>1. /\ BufferSize \in Nat \ {0} /\ n \in Nat \ {0} /\ readIdx \in 0..BufferSize-1
      /\ writeIdx \in 0..BufferSize-1 /\ unread \in Seq(Byte)
  BY <1>0, PipeAssumption DEF TypeInv
<1>2. /\ n <= BufferSize
      /\ writeIdx = Ahead(n) /\ \A k \in 1..n : unread[k] = buffer[Ahead(k - 1)]
  BY <1>0 DEF Ring
<1>3. readIdx' = IF readIdx = BufferSize - 1 THEN 0 ELSE readIdx + 1
  BY <1>1, Wrap
<1>4. /\ unread' \in Seq(Byte) /\ Len(unread') = n - 1
      /\ \A k \in 1..n-1 : unread'[k] = unread[k + 1]
  BY <1>0, <1>1
<1>5. Head(unread) = unread[1]
  BY <1>1
<1>6. Ahead(0) = readIdx /\ 1 \in 1..n
  BY <1>1 DEF Ahead
<1>7. buffer[readIdx] = Head(unread)
  <2>1. 1 - 1 = 0
    OBVIOUS
  <2> QED BY <1>2, <1>5, <1>6, <2>1
<1>8. ASSUME NEW k \in 0..n-1 PROVE Ahead(k)' = Ahead(k + 1)
  <2>1. k \in Int /\ 0 <= k /\ k + 1 <= BufferSize
    BY <1>1, <1>2
  <2> QED BY <1>1, <1>3, <2>1 DEF Ahead
<1>9. writeIdx' = Ahead(Len(unread))'
  <2>1. n - 1 \in 0..n-1 /\ (n - 1) + 1 = n
    BY <1>1
  <2>2. Ahead(n - 1)' = Ahead(n)
    BY <1>8, <2>1
  <2> QED BY <1>2, <1>4, <2>2 DEF Ahead
<1>10. ASSUME NEW k \in 1..n-1 PROVE unread'[k] = buffer'[Ahead(k - 1)']
  <2>1. k - 1 \in 0..n-1 /\ (k - 1) + 1 = k /\ k + 1 \in 1..n /\ (k + 1) - 1 = k
    BY <1>1
  <2>2. Ahead(k - 1)' = Ahead(k)
    BY <1>8, <2>1
  <2>3. unread[k + 1] = buffer[Ahead(k)]
    BY <1>2, <2>1
  <2> QED BY <1>4, <2>2, <2>3
<1>11. Ring'
  <2>1. n - 1 <= BufferSize
    BY <1>1, <1>2
  <2> QED BY <1>4, <1>9, <1>10, <2>1 DEF Ring
<1>12. ASSUME readIdx' = writeIdx PROVE unread' = <<>>
  <2>1. n = 1
    BY <1>1, <1>2, <1>3, <1>12 DEF Ahead
  <2> QED BY <1>4, <2>1
<1> QED BY <1>7, <1>11, <1>12

-----------------------------------------------------------------------------
(* The calls.                                                               *)

\* The calls as they are once p is in c.
Called(opf, p, c, opf2) ==
  /\ opf2 \in [Proc -> Op] /\ opf2[p] = c
  /\ \A y \in Proc \ {p} : opf2[y] = opf[y]

\* A semaphore has one holder more, one less, or the same, as p changes its call.
LEMMA CallTokens ==
  ASSUME NEW opf, NEW st, NEW p \in Proc, NEW c, NEW opf2, NEW t \in Sem, NEW x,
         st[p] = "READY", Called(opf, p, c, opf2)
  PROVE  /\ x = c /\ x # opf[p] => Tokens(t, x, opf2, st) = Tokens(t, x, opf, st) + 1
         /\ x # c /\ x = opf[p] => Tokens(t, x, opf2, st) = Tokens(t, x, opf, st) - 1
         /\ x # c /\ x # opf[p] => Tokens(t, x, opf2, st) = Tokens(t, x, opf, st)
PROOF
<1> DEFINE H == Hold(x, opf, st)
<1>1. opf2[p] = c /\ \A y \in Proc \ {p} : opf2[y] = opf[y]
  BY DEF Called
<1>2. Cardinality(H) \in Nat
  BY HoldFinite
<1>3. p \in H <=> x = opf[p]
  BY DEF Hold
<1>4. /\ p \notin H => Cardinality(H \cup {p}) = Cardinality(H) + 1
      /\ p \in H => Cardinality(H \ {p}) = Cardinality(H) - 1
  BY HoldCounts
<1>5. Hold(x, opf2, st) = IF x = c THEN H \cup {p} ELSE H \ {p}
  BY <1>1 DEF Hold
<1>6. (p \in H => H \cup {p} = H) /\ (p \notin H => H \ {p} = H)
  OBVIOUS
<1>7. t.value \in Nat
  BY DEF Sem
<1> HIDE DEF H
<1>8. Tokens(t, x, opf, st) = t.value + Cardinality(H)
  BY DEF Tokens, H
<1>9. Tokens(t, x, opf2, st) = t.value + Cardinality(Hold(x, opf2, st))
  BY DEF Tokens
<1>10. CASE x = c /\ x # opf[p]
  <2>1. Cardinality(Hold(x, opf2, st)) = Cardinality(H) + 1
    BY <1>3, <1>4, <1>5, <1>10
  <2> QED BY <1>2, <1>7, <1>8, <1>9, <1>10, <2>1
<1>11. CASE x # c /\ x = opf[p]
  <2>1. Cardinality(Hold(x, opf2, st)) = Cardinality(H) - 1
    BY <1>3, <1>4, <1>5, <1>11
  <2> QED BY <1>2, <1>7, <1>8, <1>9, <1>11, <2>1
<1>12. CASE x # c /\ x # opf[p]
  <2>1. Hold(x, opf2, st) = H
    BY <1>3, <1>5, <1>6, <1>12
  <2> QED BY <1>8, <1>9, <1>12, <2>1
<1> QED BY <1>10, <1>11, <1>12

\* The next wait of a loop, or the return from the call: the token that p held
\* is gone.
Turn(p, o, s, st, s3, op3, st3) ==
  \/ LET w == WaitSemaphore(s, st, p) IN
       s3 = w.sem /\ st3 = w.state /\ op3 = op
  \/ s3 = s /\ st3 = st /\ op3 = [op EXCEPT ![p] = "none"]

LEMMA TurnSound ==
  ASSUME NEW s, NEW o, NEW s2, NEW o2, NEW st, NEW p \in Proc,
         NEW s3, NEW op3, NEW st3,
         Calling(o, o2), Sound(s, o, s2, o2, op, st), op[p] = o, st[p] = "READY",
         Turn(p, o, s, st, s3, op3, st3)
  PROVE  /\ Sound(s3, o, s2, o2, op3, st3)
         /\ \A q \in Proc : op3[q] \in {op[q], "none"}
         /\ destroyed => s3 = s
         /\ ~destroyed => /\ Tokens(s3, o, op3, st3) = Tokens(s, o, op, st) - 1
                          /\ Tokens(s2, o2, op3, st3) = Tokens(s2, o2, op, st)
PROOF
<1>1. op \in [Proc -> Op] /\ s \in Sem /\ s2 \in Sem
  BY DEF Sound, QueueSound
<1>2. CASE LET w == WaitSemaphore(s, st, p) IN
             s3 = w.sem /\ st3 = w.state /\ op3 = op
  <2> DEFINE w == WaitSemaphore(s, st, p)
  <2>0. s3 = w.sem /\ st3 = w.state /\ op3 = op
    BY <1>2
  <2>1. /\ Sound(s3, o, s2, o2, op, st3)
        /\ Hold(o2, op, st3) = Hold(o2, op, st)
        /\ ~destroyed => Tokens(s3, o, op, st3) = Tokens(s, o, op, st) - 1
        /\ destroyed => s3 = s /\ st3 = st
    BY <2>0, WaitSound
  <2> HIDE DEF w
  <2> QED BY <2>0, <2>1 DEF Tokens
<1>3. CASE s3 = s /\ st3 = st /\ op3 = [op EXCEPT ![p] = "none"]
  <2>1. Sound(s3, o, s2, o2, op3, st3)
    BY <1>3, CallSound DEF Op
  <2>2. \A q \in Proc : op3[q] \in {op[q], "none"}
    BY <1>1, <1>3
  <2>3. /\ Tokens(s, o, op3, st) = Tokens(s, o, op, st) - 1
        /\ Tokens(s2, o2, op3, st) = Tokens(s2, o2, op, st)
    <3>1. o # "none" /\ o2 # "none" /\ o2 # o
      BY DEF Calling
    <3>2. Called(op, p, "none", op3)
      BY <1>1, <1>3 DEF Called, Op
    <3>3. Tokens(s, o, op3, st) = Tokens(s, o, op, st) - 1
      BY <1>1, <3>1, <3>2, CallTokens
    <3>4. Tokens(s2, o2, op3, st) = Tokens(s2, o2, op, st)
      BY <1>1, <3>1, <3>2, CallTokens
    <3> QED BY <3>3, <3>4
  <2> QED BY <1>3, <2>1, <2>2, <2>3
<1> QED BY <1>2, <1>3 DEF Turn

\* What TokensAgree says, of the semaphores as they are.
LEMMA AgreeTokens ==
  TokensAgree <=>
    (~destroyed =>
       /\ Tokens(written, "read", op, state) = Len(unread)
       /\ ~isStdin => Tokens(empty, "write", op, state) + Len(unread) = BufferSize)
PROOF
<1>1. \A o : Holders(o) = Hold(o, op, state)
  BY DEF Holders, Hold
<1> QED BY <1>1 DEF TokensAgree, Tokens

LEMMA AgreeTokensNext ==
  ASSUME ~destroyed' =>
           /\ Tokens(written', "read", op', state') = Len(unread')
           /\ ~isStdin' => Tokens(empty', "write", op', state') + Len(unread') = BufferSize
  PROVE  TokensAgree'
PROOF
<1>1. \A o : Holders(o)' = Hold(o, op', state')
  BY DEF Holders, Hold
<1>2. /\ Cardinality(Holders("read")') = Cardinality(Hold("read", op', state'))
      /\ Cardinality(Holders("write")') = Cardinality(Hold("write", op', state'))
  BY <1>1
<1> QED BY <1>2 DEF TokensAgree, Tokens

\* The parts of the invariant that a step establishes.
LEMMA FromParts ==
  ASSUME TypeInv', SemsSound', Kept', Ring',
         ~destroyed' =>
           /\ Tokens(written', "read", op', state') = Len(unread')
           /\ ~isStdin' => Tokens(empty', "write", op', state') + Len(unread') = BufferSize
  PROVE  IInv'
PROOF
BY AgreeTokensNext DEF IInv

LEMMA TokensAreInt ==
  ASSUME NEW t \in Sem, NEW o, NEW opf, NEW st PROVE Tokens(t, o, opf, st) \in Nat
PROOF
BY HoldFinite DEF Tokens, Sem

\* What IInv says of the pipe before a step.
LEMMA Parts ==
  ASSUME IInv
  PROVE  /\ TypeInv /\ Kept /\ Ring
         /\ Sound(written, "read", empty, "write", op, state)
         /\ Sound(empty, "write", written, "read", op, state)
         /\ Calling("read", "write") /\ Calling("write", "read")
         /\ written \in Sem /\ empty \in Sem /\ op \in [Proc -> Op]
         /\ Len(unread) \in Nat
         /\ ~destroyed =>
              /\ Tokens(written, "read", op, state) = Len(unread)
              /\ ~isStdin => Tokens(empty, "write", op, state) + Len(unread) = BufferSize
PROOF
<1>1. TypeInv /\ Kept /\ Ring /\ TokensAgree /\ SemsSound
  BY DEF IInv
<1>2. Sound(empty, "write", written, "read", op, state)
  BY <1>1, Swapped DEF SemsSound
<1>3. written \in Sem /\ empty \in Sem /\ op \in [Proc -> Op]
  BY <1>1 DEF SemsSound, Sound, QueueSound
<1>4. Len(unread) \in Nat
  BY <1>1 DEF TypeInv
<1> QED BY <1>1, <1>2, <1>3, <1>4, AgreeTokens DEF SemsSound, Calling

\* The call of a read or a write, o, up to its first wait at the semaphore s.
LEMMA EnterSound ==
  ASSUME NEW s, NEW o, NEW s2, NEW o2, NEW st, NEW p \in Proc, NEW op3, NEW w,
         Calling(o, o2), Sound(s, o, s2, o2, op, st),
         st[p] = "READY", op[p] = "none", ~destroyed,
         Called(op, p, o, op3), w = WaitSemaphore(s, st, p)
  PROVE  /\ Sound(w.sem, o, s2, o2, op3, w.state)
         /\ Tokens(w.sem, o, op3, w.state) = Tokens(s, o, op, st)
         /\ Tokens(s2, o2, op3, w.state) = Tokens(s2, o2, op, st)
PROOF
<1>1. /\ o \in {"read", "write"} /\ o2 \in {"read", "write"} /\ o # o2
      /\ op \in [Proc -> Op] /\ s \in Sem /\ s2 \in Sem
  BY DEF Calling, Sound, QueueSound
<1>2. Sound(s, o, s2, o2, op3, st) /\ op3[p] = o
  <2>1. op3 = [op EXCEPT ![p] = o]
    BY <1>1 DEF Called
  <2> QED BY <1>1, <2>1, CallSound DEF Op
<1>3. /\ Tokens(s, o, op3, st) = Tokens(s, o, op, st) + 1
      /\ Tokens(s2, o2, op3, st) = Tokens(s2, o2, op, st)
  <2>1. o # "none" /\ o2 # "none"
    BY <1>1
  <2>2. Tokens(s, o, op3, st) = Tokens(s, o, op, st) + 1
    BY <1>1, <2>1, CallTokens
  <2>3. Tokens(s2, o2, op3, st) = Tokens(s2, o2, op, st)
    BY <1>1, <2>1, CallTokens
  <2> QED BY <2>2, <2>3
<1>4. /\ Sound(w.sem, o, s2, o2, op3, w.state)
      /\ Hold(o2, op3, w.state) = Hold(o2, op3, st)
      /\ Tokens(w.sem, o, op3, w.state) = Tokens(s, o, op3, st) - 1
  BY <1>2, WaitSound
<1>5. Tokens(s, o, op, st) \in Nat
  BY <1>1, TokensAreInt
<1>6. Tokens(s2, o2, op3, w.state) = Tokens(s2, o2, op3, st)
  BY <1>4 DEF Tokens
<1> QED BY <1>3, <1>4, <1>5, <1>6

LEMMA ReadPipeInv ==
  ASSUME IInv, UNCHANGED isStdin, NEW p \in Proc, NEW n, ReadPipe(p, n) PROVE IInv'
PROOF
<1> DEFINE w == WaitSemaphore(written, state, p)
<1>1. /\ state[p] = "READY" /\ op[p] = "none" /\ ~destroyed
      /\ op' = [op EXCEPT ![p] = "read"]
      /\ written' = w.sem /\ state' = w.state
      /\ UNCHANGED <<pipeVars, empty, history, isStdin>>
  BY DEF ReadPipe, Calls, Found
<1>2. Called(op, p, "read", op')
  BY <1>1, Parts DEF Called, Op
<1>3. /\ Sound(w.sem, "read", empty, "write", op', w.state)
      /\ Tokens(w.sem, "read", op', w.state) = Tokens(written, "read", op, state)
      /\ Tokens(empty, "write", op', w.state) = Tokens(empty, "write", op, state)
  BY <1>1, <1>2, Parts, EnterSound
<1> HIDE DEF w
<1>4. TypeInv' /\ Ring'
  BY <1>1, Parts DEF TypeInv, Ring, Ahead, pipeVars, history
<1>5. Kept'
  BY <1>1, <1>2, Parts DEF Kept, pipeVars, Called
<1>6. SemsSound'
  BY <1>1, <1>3 DEF SemsSound
<1> QED BY <1>1, <1>3, <1>4, <1>5, <1>6, Parts, FromParts DEF pipeVars, history

LEMMA WritePipeInv ==
  ASSUME IInv, UNCHANGED isStdin, NEW p \in Proc, NEW n, WritePipe(p, n) PROVE IInv'
PROOF
<1> DEFINE w == WaitSemaphore(empty, state, p)
<1>1. /\ state[p] = "READY" /\ op[p] = "none" /\ ~destroyed /\ ~isStdin
      /\ op' = [op EXCEPT ![p] = "write"]
      /\ empty' = w.sem /\ state' = w.state
      /\ UNCHANGED <<pipeVars, written, history, isStdin>>
  BY DEF WritePipe, Calls, Found
<1>2. Called(op, p, "write", op')
  BY <1>1, Parts DEF Called, Op
<1>3. /\ Sound(w.sem, "write", written, "read", op', w.state)
      /\ Tokens(w.sem, "write", op', w.state) = Tokens(empty, "write", op, state)
      /\ Tokens(written, "read", op', w.state) = Tokens(written, "read", op, state)
  BY <1>1, <1>2, Parts, EnterSound
<1> HIDE DEF w
<1>4. TypeInv' /\ Ring'
  BY <1>1, Parts DEF TypeInv, Ring, Ahead, pipeVars, history
<1>5. Kept'
  BY <1>1, Parts DEF Kept, pipeVars
<1>6. SemsSound'
  BY <1>1, <1>3, Swapped DEF SemsSound
<1> QED BY <1>1, <1>3, <1>4, <1>5, <1>6, Parts, FromParts DEF pipeVars, history

\* The process that holds a token finds what the token stands for.
LEMMA HoldsOne ==
  ASSUME NEW t \in Sem, NEW o, NEW opf, NEW st, NEW p \in Proc, opf[p] = o, st[p] = "READY"
  PROVE  Tokens(t, o, opf, st) \in Nat \ {0}
PROOF
<1> DEFINE H == Hold(o, opf, st)
<1>1. p \in H
  BY DEF Hold
<1>2. Cardinality(H \ {p}) = Cardinality(H) - 1
  BY <1>1, HoldCounts
<1>3. Cardinality(H \ {p}) \in Nat /\ Cardinality(H) \in Nat
  <2>1. IsFiniteSet(H) /\ Cardinality(H) \in Nat
    BY HoldFinite
  <2> HIDE DEF H
  <2>2. IsFiniteSet(H \ {p})
    BY <2>1, FS_Subset
  <2> QED BY <2>1, <2>2, FS_CardinalityType
<1> HIDE DEF H
<1>4. Cardinality(H) \in Nat \ {0}
  BY <1>2, <1>3
<1> QED BY <1>4 DEF Tokens, H, Sem

\* A post of either semaphore, with nothing said of the process that posts.
LEMMA PostTokens ==
  ASSUME NEW s, NEW o, NEW s2, NEW o2, NEW st, NEW r,
         Calling(o, o2), Sound(s, o, s2, o2, op, st), r = PostSemaphore(s, st)
  PROVE  /\ Sound(s2, o2, r.sem, o, op, r.state)
         /\ Tokens(s2, o2, op, r.state) = Tokens(s2, o2, op, st)
         /\ ~destroyed => Tokens(r.sem, o, op, r.state) = Tokens(s, o, op, st) + 1
         /\ destroyed => r.sem = s /\ r.state = st
         /\ \A p \in Proc : st[p] = "READY" => r.state[p] = "READY"
PROOF
<1>1. /\ Sound(r.sem, o, s2, o2, op, r.state)
      /\ Hold(o2, op, r.state) = Hold(o2, op, st)
      /\ ~destroyed => Tokens(r.sem, o, op, r.state) = Tokens(s, o, op, st) + 1
      /\ destroyed => r.sem = s /\ r.state = st
      /\ \A p \in Proc : st[p] \in {"READY", "EXITED"} => r.state[p] = st[p]
  BY PostSound
<1>2. Sound(s2, o2, r.sem, o, op, r.state)
  BY <1>1, Swapped
<1>3. Tokens(s2, o2, op, r.state) = Tokens(s2, o2, op, st)
  BY <1>1 DEF Tokens
<1> QED BY <1>1, <1>2, <1>3

LEMMA FreesSound ==
  ASSUME IInv, NEW e, e = FreesPlace(state)
  PROVE  /\ Sound(written, "read", e.sem, "write", op, e.state)
         /\ Tokens(written, "read", op, e.state) = Tokens(written, "read", op, state)
         /\ ~destroyed /\ ~isStdin =>
              Tokens(e.sem, "write", op, e.state) = Tokens(empty, "write", op, state) + 1
         /\ destroyed => e.sem = empty
         /\ \A p \in Proc : state[p] = "READY" => e.state[p] = "READY"
PROOF
<1>1. CASE isStdin
  <2>1. e = [sem |-> empty, state |-> state]
    BY <1>1 DEF FreesPlace
  <2>2. e.sem = empty /\ e.state = state
    BY <2>1
  <2> QED BY <1>1, <2>2, Parts
<1>2. CASE ~isStdin
  <2>1. e = PostSemaphore(empty, state)
    BY <1>2 DEF FreesPlace
  <2> QED BY <2>1, Parts, PostTokens
<1> QED BY <1>1, <1>2

\* What a step of readPipe() does, whichever way it goes on.
LEMMA ReadByteTurns ==
  ASSUME IInv, NEW p \in Proc, ReadByte(p), NEW e, e = FreesPlace(state)
  PROVE  /\ op[p] = "read" /\ state[p] = "READY"
         /\ empty' = e.sem
         /\ Turn(p, "read", written, e.state, written', op', state')
PROOF
<1>1. op[p] = "read" /\ state[p] = "READY" /\ empty' = e.sem
  BY DEF ReadByte, Runs
<1>2. CASE left[p] > 1 /\ ~AtEnd
  BY <1>1, <1>2 DEF ReadByte, Turn
<1>3. CASE ~(left[p] > 1 /\ ~AtEnd)
  BY <1>1, <1>3 DEF ReadByte, Turn, Leave
<1> QED BY <1>1, <1>2, <1>3

\* A reader that has its token takes a byte that is there.
LEMMA ReadByteGets ==
  ASSUME IInv, NEW p \in Proc, ReadByte(p), ~destroyed
  PROVE  /\ unread # <<>> /\ unread' = Tail(unread)
         /\ Len(unread') = Len(unread) - 1
PROOF
<1>1. Tokens(written, "read", op, state) \in Nat \ {0}
  BY Parts, HoldsOne DEF ReadByte, Runs
<1>2. Len(unread) \in Nat \ {0} /\ unread \in Seq(Byte)
  BY <1>1, Parts DEF TypeInv
<1> QED BY <1>2 DEF ReadByte

LEMMA ReadByteInv ==
  ASSUME IInv, UNCHANGED isStdin, NEW p \in Proc, ReadByte(p) PROVE IInv'
PROOF
<1> DEFINE e == FreesPlace(state)
<1>1. /\ op[p] = "read" /\ state[p] = "READY" /\ empty' = e.sem
      /\ Turn(p, "read", written, e.state, written', op', state')
  BY ReadByteTurns
<1>2. /\ Sound(written, "read", e.sem, "write", op, e.state)
      /\ Tokens(written, "read", op, e.state) = Tokens(written, "read", op, state)
      /\ ~destroyed /\ ~isStdin =>
           Tokens(e.sem, "write", op, e.state) = Tokens(empty, "write", op, state) + 1
      /\ destroyed => e.sem = empty
      /\ \A q \in Proc : state[q] = "READY" => e.state[q] = "READY"
  BY FreesSound
<1> HIDE DEF e
<1>3. /\ Sound(written', "read", e.sem, "write", op', state')
      /\ \A q \in Proc : op'[q] \in {op[q], "none"}
      /\ destroyed => written' = written
      /\ ~destroyed =>
           /\ Tokens(written', "read", op', state') = Tokens(written, "read", op, e.state) - 1
           /\ Tokens(e.sem, "write", op', state') = Tokens(e.sem, "write", op, e.state)
  <2>1. e.state[p] = "READY" /\ Calling("read", "write")
    BY <1>1, <1>2, Parts
  <2> QED BY <1>1, <1>2, <2>1, TurnSound
<1>4. UNCHANGED <<buffer, writeIdx, destroyed, overrun, isStdin>>
  BY DEF ReadByte
<1>5. got' = buffer[readIdx] /\ readIdx' = (readIdx + 1) % BufferSize
  BY DEF ReadByte
<1>6. TypeInv'
  <2>1. unread' \in Seq(Byte)
    BY Parts DEF ReadByte, TypeInv
  <2> QED BY <1>4, <1>5, <2>1, Parts, Wrap DEF TypeInv
<1>7. Ring'
  <2>1. CASE destroyed \/ overrun
    BY <1>4, <2>1 DEF Ring
  <2>2. CASE ~destroyed /\ ~overrun
    BY <1>4, <1>5, <2>2, Parts, ReadByteGets, RingGet
  <2> QED BY <2>1, <2>2
<1>8. Kept'
  BY <1>1, <1>2, <1>3, <1>4, Parts DEF Kept
<1>9. SemsSound'
  BY <1>1, <1>3 DEF SemsSound
<1>10. ASSUME ~destroyed'
       PROVE  /\ Tokens(written', "read", op', state') = Len(unread')
              /\ ~isStdin' => Tokens(empty', "write", op', state') + Len(unread') = BufferSize
  <2>1. Len(unread') = Len(unread) - 1 /\ ~destroyed
    BY <1>4, <1>10, ReadByteGets
  <2>2. Tokens(empty, "write", op, state) \in Nat
    BY Parts, TokensAreInt
  <2> QED BY <1>1, <1>2, <1>3, <1>4, <2>1, <2>2, Parts
<1> QED BY <1>6, <1>7, <1>8, <1>9, <1>10, FromParts

\* What a step of writePipe() does, whichever way it goes on.
LEMMA WriteByteTurns ==
  ASSUME IInv, NEW p \in Proc, NEW b, WriteByte(p, b), NEW r, r = PostSemaphore(written, state)
  PROVE  /\ op[p] = "write" /\ state[p] = "READY"
         /\ written' = r.sem
         /\ Turn(p, "write", empty, r.state, empty', op', state')
PROOF
<1>1. op[p] = "write" /\ state[p] = "READY" /\ written' = r.sem
  BY DEF WriteByte, Runs
<1>2. CASE left[p] > 1
  BY <1>1, <1>2 DEF WriteByte, WaitForPlace, Turn
<1>3. CASE ~(left[p] > 1)
  BY <1>1, <1>3 DEF WriteByte, Turn, Leave
<1> QED BY <1>1, <1>2, <1>3

\* A writer that has its token finds a free place.
LEMMA WriteByteFits ==
  ASSUME IInv, NEW p \in Proc, NEW b, WriteByte(p, b)
  PROVE  /\ ~isStdin
         /\ ~destroyed => Len(unread) < BufferSize
PROOF
<1>1. ~isStdin
  BY Parts DEF WriteByte, Kept
<1>2. ASSUME ~destroyed PROVE Len(unread) < BufferSize
  <2>1. Tokens(empty, "write", op, state) \in Nat \ {0}
    BY Parts, HoldsOne DEF WriteByte, Runs
  <2>2. Len(unread) \in Nat /\ BufferSize \in Nat
    BY Parts, PipeAssumption
  <2>3. Tokens(empty, "write", op, state) + Len(unread) = BufferSize
    BY <1>1, <1>2, Parts
  <2> QED BY <2>1, <2>2, <2>3
<1> QED BY <1>1, <1>2

\* The types after a byte is put.
LEMMA PutType ==
  ASSUME TypeInv, NEW b \in Byte, Put(b)
  PROVE  /\ buffer' \in [0..BufferSize-1 -> Byte]
         /\ writeIdx' \in 0..BufferSize-1
         /\ unread' \in Seq(Byte)
         /\ ~destroyed => Len(unread') = Len(unread) + 1
PROOF
<1>1. unread \in Seq(Byte)
  BY DEF TypeInv
<1>2. unread' \in Seq(Byte) /\ (~destroyed => Len(unread') = Len(unread) + 1)
  BY <1>1 DEF Put
<1> QED BY <1>2, Wrap DEF Put, TypeInv

LEMMA WriteByteInv ==
  ASSUME IInv, UNCHANGED isStdin, NEW p \in Proc, NEW b \in Byte, WriteByte(p, b) PROVE IInv'
PROOF
<1> DEFINE r == PostSemaphore(written, state)
<1>1. /\ op[p] = "write" /\ state[p] = "READY" /\ written' = r.sem
      /\ Turn(p, "write", empty, r.state, empty', op', state')
  BY WriteByteTurns
<1>2. /\ Sound(empty, "write", r.sem, "read", op, r.state)
      /\ Tokens(empty, "write", op, r.state) = Tokens(empty, "write", op, state)
      /\ ~destroyed => Tokens(r.sem, "read", op, r.state) = Tokens(written, "read", op, state) + 1
      /\ destroyed => r.sem = written
      /\ \A q \in Proc : state[q] = "READY" => r.state[q] = "READY"
  BY Parts, PostTokens
<1> HIDE DEF r
<1>3. /\ Sound(empty', "write", r.sem, "read", op', state')
      /\ \A q \in Proc : op'[q] \in {op[q], "none"}
      /\ destroyed => empty' = empty
      /\ ~destroyed =>
           /\ Tokens(empty', "write", op', state') = Tokens(empty, "write", op, r.state) - 1
           /\ Tokens(r.sem, "read", op', state') = Tokens(r.sem, "read", op, r.state)
  <2>1. r.state[p] = "READY" /\ Calling("write", "read")
    BY <1>1, <1>2, Parts
  <2>2. /\ Sound(empty, "write", r.sem, "read", op, r.state) /\ op[p] = "write"
        /\ Turn(p, "write", empty, r.state, empty', op', state')
    BY <1>1, <1>2
  <2> QED BY <2>1, <2>2, TurnSound
<1>4. UNCHANGED <<readIdx, destroyed, got, overrun, isStdin>> /\ Put(b)
  BY DEF WriteByte
<1>5. ~isStdin /\ (~destroyed => Len(unread) < BufferSize)
  BY WriteByteFits
<1>6. TypeInv' /\ (~destroyed => Len(unread') = Len(unread) + 1)
  BY <1>4, Parts, PutType DEF TypeInv
<1>7. Ring'
  <2>1. CASE destroyed \/ overrun
    BY <1>4, <2>1 DEF Ring
  <2>2. CASE ~destroyed /\ ~overrun
    BY <1>4, <1>5, <2>2, Parts, RingPut
  <2> QED BY <2>1, <2>2
<1>8. Kept'
  BY <1>1, <1>2, <1>3, <1>4, <1>5, Parts DEF Kept
<1>9. SemsSound'
  BY <1>1, <1>3, Swapped DEF SemsSound
<1>10. ASSUME ~destroyed'
       PROVE  /\ Tokens(written', "read", op', state') = Len(unread')
              /\ ~isStdin' => Tokens(empty', "write", op', state') + Len(unread') = BufferSize
  <2>1. Len(unread') = Len(unread) + 1 /\ ~destroyed
    BY <1>4, <1>6, <1>10
  <2>2. Tokens(empty, "write", op, state) \in Nat
    BY Parts, TokensAreInt
  <2> QED BY <1>1, <1>2, <1>3, <1>5, <2>1, <2>2, Parts
<1> QED BY <1>6, <1>7, <1>8, <1>9, <1>10, FromParts

LEMMA WriteStdinInv ==
  ASSUME IInv, UNCHANGED isStdin, NEW b \in Byte, WriteStdin(b) PROVE IInv'
PROOF
<1> DEFINE r == PostSemaphore(written, state)
<1>1. /\ isStdin /\ Put(b)
      /\ overrun' = (overrun \/ Len(unread) >= BufferSize)
      /\ written' = r.sem /\ state' = r.state
      /\ UNCHANGED <<readIdx, destroyed, empty, op, left, kernel, got, isStdin>>
  BY DEF WriteStdin
<1>2. ~destroyed
  BY <1>1, Parts DEF Kept
<1>3. /\ Sound(empty, "write", r.sem, "read", op, r.state)
      /\ Tokens(r.sem, "read", op, r.state) = Tokens(written, "read", op, state) + 1
  BY <1>2, Parts, PostTokens
<1> HIDE DEF r
<1>4. TypeInv' /\ Len(unread') = Len(unread) + 1
  BY <1>1, <1>2, Parts, PutType DEF TypeInv
<1>5. Ring'
  <2>1. CASE overrun'
    BY <2>1 DEF Ring
  <2>2. CASE ~overrun'
    <3>1. ~overrun /\ Len(unread) < BufferSize
      <4>1. ~overrun /\ ~(Len(unread) >= BufferSize)
        BY <1>1, <2>2, Zenon
      <4> QED BY <4>1, Parts, PipeAssumption
    <3> QED BY <1>1, <1>2, <3>1, Parts, RingPut
  <2> QED BY <2>1, <2>2
<1>6. Kept'
  BY <1>1, <1>2, Parts DEF Kept
<1>7. SemsSound'
  BY <1>1, <1>3, Swapped DEF SemsSound
<1>8. Tokens(written', "read", op', state') = Len(unread')
  BY <1>1, <1>2, <1>3, <1>4, Parts
<1> QED BY <1>1, <1>4, <1>5, <1>6, <1>7, <1>8, FromParts

\* A queue is left empty by the destruction of its semaphore.
LEMMA Emptied ==
  ASSUME NEW t \in Sem, NEW t2, t2 = [t EXCEPT !.queue = <<>>]
  PROVE  t2 \in Sem /\ t2.queue = <<>>
PROOF
<1>1. <<>> \in Seq(Proc)
  OBVIOUS
<1> QED BY <1>1 DEF Sem

LEMMA DestroyPipeInv ==
  ASSUME IInv, UNCHANGED isStdin, NEW p \in Proc, DestroyPipe(p) PROVE IInv'
PROOF
<1>1. /\ ~isStdin /\ destroyed' = TRUE /\ state' = LetGo(state, Waiters)
      /\ written' = [written EXCEPT !.queue = <<>>]
      /\ empty' = [empty EXCEPT !.queue = <<>>]
      /\ unread' = <<>>
      /\ UNCHANGED <<buffer, writeIdx, readIdx, op, left, kernel, got, overrun>>
  BY DEF DestroyPipe
<1>2. /\ written' \in Sem /\ written'.queue = <<>>
      /\ empty' \in Sem /\ empty'.queue = <<>>
  BY <1>1, Parts, Emptied
<1>3. Waiters = Range(written.queue) \cup Range(empty.queue)
  BY SameToSet DEF Waiters
<1>4. /\ state \in [Proc -> State] /\ op \in [Proc -> Op]
      /\ \A q \in Proc : state[q] = "W-EXIT" => op[q] = "none"
      /\ \A q \in Proc : state[q] = "BLOCKED" => op[q] # "none" /\ q \in Waiters
  <2>1. ASSUME NEW q \in Proc, state[q] = "BLOCKED" PROVE q \in Waiters
    <3>1. op[q] = "read" \/ op[q] = "write"
      BY <2>1, Parts DEF Sound, Op
    <3> QED BY <1>3, <2>1, <3>1, Parts DEF Sound, QueueSound
  <2> QED BY <2>1, Parts DEF Sound
<1>5. \A q \in Proc : state'[q] = CASE q \in Waiters /\ state[q] = "BLOCKED" -> "READY"
                                     [] q \in Waiters /\ state[q] = "W-EXIT" -> "EXITED"
                                     [] OTHER -> state[q]
  BY <1>1 DEF LetGo
<1>6. \A q \in Proc : /\ state'[q] # "BLOCKED" /\ state'[q] \in State
                      /\ state'[q] = "W-EXIT" => op[q] = "none"
  BY <1>4, <1>5 DEF State
<1>7. state' \in [Proc -> State]
  <2>1. state' = [q \in Proc |-> state'[q]]
    BY <1>1 DEF LetGo
  <2> QED BY <1>6, <2>1
<1>8. Range(<<>>) = {} /\ IsInjective(<<>>)
  BY DEF Range, IsInjective
<1>9. SemsSound'
  BY <1>1, <1>2, <1>4, <1>6, <1>7, <1>8 DEF SemsSound, Sound, QueueSound
<1>10. TypeInv'
  <2>1. <<>> \in Seq(Byte)
    OBVIOUS
  <2> QED BY <1>1, <2>1, Parts DEF TypeInv
<1>11. Kept'
  BY <1>1, <1>2 DEF Kept
<1>12. Ring'
  BY <1>1 DEF Ring
<1> QED BY <1>1, <1>9, <1>10, <1>11, <1>12, FromParts

\* A process that has a token dies with it.
LEMMA KilledReady ==
  ASSUME IInv, NEW p \in Proc, state[p] = "READY", UNCHANGED op,
         state' = [state EXCEPT ![p] = "EXITED"], UNCHANGED <<written, empty>>
  PROVE  /\ SemsSound'
         /\ \A o : Hold(o, op', state') = Hold(o, op, state)
PROOF
<1>1. Sound(written, "read", empty, "write", op, state)
  BY Parts
<1>2. /\ state' \in [Proc -> State] /\ state'[p] = "EXITED"
      /\ \A q \in Proc \ {p} : state'[q] = state[q]
  BY <1>1 DEF Sound, State
<1>3. ASSUME NEW t, NEW o, QueueSound(t, o, op, state) PROVE QueueSound(t, o, op', state')
  <2>1. \A q \in Range(t.queue) : q \in Proc /\ q # p
    BY <1>3 DEF QueueSound, Sem, Range
  <2> QED BY <1>2, <1>3, <2>1 DEF QueueSound
<1>4. Sound(written', "read", empty', "write", op', state')
  BY <1>1, <1>2, <1>3 DEF Sound
<1>5. \A o : Hold(o, op', state') = Hold(o, op, state)
  BY <1>2 DEF Hold
<1> QED BY <1>4, <1>5 DEF SemsSound

\* One that waits stays in the queue, with a call no more.
LEMMA KilledWaiting ==
  ASSUME IInv, NEW p \in Proc, state[p] = "BLOCKED", op' = [op EXCEPT ![p] = "none"],
         state' = [state EXCEPT ![p] = "W-EXIT"], UNCHANGED <<written, empty>>
  PROVE  /\ SemsSound'
         /\ \A o : Hold(o, op', state') = Hold(o, op, state)
PROOF
<1>1. Sound(written, "read", empty, "write", op, state)
  BY Parts
<1>2. /\ state' \in [Proc -> State] /\ state'[p] = "W-EXIT"
      /\ \A q \in Proc \ {p} : state'[q] = state[q]
      /\ op' \in [Proc -> Op] /\ op'[p] = "none"
      /\ \A q \in Proc \ {p} : op'[q] = op[q]
  BY <1>1 DEF Sound, State, Op
<1>3. ASSUME NEW t, NEW o, QueueSound(t, o, op, state) PROVE QueueSound(t, o, op', state')
  <2>1. \A q \in Range(t.queue) : q \in Proc
    BY <1>3 DEF QueueSound, Sem, Range
  <2> QED BY <1>2, <1>3, <2>1 DEF QueueSound
<1>4. Sound(written', "read", empty', "write", op', state')
  BY <1>1, <1>2, <1>3 DEF Sound
<1>5. \A o : Hold(o, op', state') = Hold(o, op, state)
  BY <1>2 DEF Hold
<1> QED BY <1>4, <1>5 DEF SemsSound

LEMMA KillInv ==
  ASSUME IInv, UNCHANGED isStdin, NEW p \in Proc, Kill(p) PROVE IInv'
PROOF
<1>1. UNCHANGED <<pipeVars, written, empty, kernel, history, isStdin>>
  BY DEF Kill
<1>2. /\ SemsSound'
      /\ \A o : Hold(o, op', state') = Hold(o, op, state)
      /\ \A q \in Proc : op'[q] \in {op[q], "none"}
  <2>1. CASE state[p] = "READY" /\ state' = [state EXCEPT ![p] = "EXITED"] /\ UNCHANGED op
    BY <1>1, <2>1, KilledReady
  <2>2. CASE /\ state[p] = "BLOCKED" /\ state' = [state EXCEPT ![p] = "W-EXIT"]
             /\ op' = [op EXCEPT ![p] = "none"]
    <3>1. \A q \in Proc : op'[q] \in {op[q], "none"}
      BY <2>2, Parts
    <3> QED BY <1>1, <2>2, <3>1, KilledWaiting
  <2> QED BY <2>1, <2>2 DEF Kill
<1>3. \A t, o : Tokens(t, o, op', state') = Tokens(t, o, op, state)
  BY <1>2 DEF Tokens
<1>4. TypeInv' /\ Ring'
  BY <1>1, Parts DEF TypeInv, Ring, Ahead, pipeVars, history
<1>5. Kept'
  BY <1>1, <1>2, Parts DEF Kept, pipeVars
<1> QED BY <1>1, <1>2, <1>3, <1>4, <1>5, Parts, FromParts DEF pipeVars, history

LEMMA InitIInv == Init => IInv
PROOF
<1> SUFFICES ASSUME Init PROVE IInv
  OBVIOUS
<1>1. /\ isStdin \in BOOLEAN
      /\ buffer \in [0..BufferSize-1 -> Byte]
      /\ writeIdx = 0 /\ readIdx = 0 /\ destroyed = FALSE
      /\ written = [value |-> 0, queue |-> <<>>]
      /\ empty = [value |-> BufferSize, queue |-> <<>>]
      /\ state = [p \in Proc |-> "READY"] /\ op = [p \in Proc |-> "none"]
      /\ unread = <<>> /\ got \in Byte /\ overrun = FALSE
  BY DEF Init
<1>2. BufferSize \in Nat \ {0}
  BY PipeAssumption
<1>3. <<>> \in Seq(Proc) /\ <<>> \in Seq(Byte) /\ Len(<<>>) = 0
  OBVIOUS
<1>4. TypeInv
  <2>1. 0 \in 0..BufferSize-1
    BY <1>2
  <2>2. unread \in Seq(Byte)
    BY <1>1, <1>3
  <2>3. destroyed \in BOOLEAN /\ overrun \in BOOLEAN
    BY <1>1
  <2> QED BY <1>1, <2>1, <2>2, <2>3 DEF TypeInv
<1>5. Range(<<>>) = {} /\ IsInjective(<<>>)
  BY DEF Range, IsInjective
<1>6. /\ written.value = 0 /\ written.queue = <<>> /\ written \in Sem
      /\ empty.value = BufferSize /\ empty.queue = <<>> /\ empty \in Sem
  BY <1>1, <1>2, <1>3 DEF Sem
<1>7. /\ state \in [Proc -> State] /\ op \in [Proc -> Op]
      /\ \A p \in Proc : state[p] = "READY" /\ op[p] = "none"
  BY <1>1 DEF State, Op
<1>8. SemsSound
  BY <1>5, <1>6, <1>7 DEF SemsSound, Sound, QueueSound
<1>9. Kept
  BY <1>1, <1>7 DEF Kept
<1>10. Ring
  <2>1. Ahead(0) = 0
    BY <1>1, <1>2 DEF Ahead
  <2> QED BY <1>1, <1>2, <1>3, <2>1 DEF Ring
<1>11. TokensAgree
  <2>1. Hold("read", op, state) = {} /\ Hold("write", op, state) = {}
    BY <1>7 DEF Hold
  <2>2. Cardinality({}) = 0
    BY FS_EmptySet
  <2> DEFINE hr == Cardinality(Hold("read", op, state))
             hw == Cardinality(Hold("write", op, state))
  <2>3. hr = 0 /\ hw = 0 /\ Len(unread) = 0
    BY <1>1, <1>3, <2>1, <2>2
  <2>4. /\ Tokens(written, "read", op, state) = written.value + hr
        /\ Tokens(empty, "write", op, state) = empty.value + hw
    BY DEF Tokens
  <2> HIDE DEF hr, hw
  <2>5. Tokens(empty, "write", op, state) + Len(unread) = BufferSize
    BY <1>2, <1>6, <2>3, <2>4
  <2>6. Tokens(written, "read", op, state) = Len(unread)
    BY <1>6, <2>3, <2>4
  <2> QED BY <2>5, <2>6, AgreeTokens
<1> QED BY <1>4, <1>8, <1>9, <1>10, <1>11 DEF IInv

LEMMA NextIInv == IInv /\ [Next]_vars => IInv'
PROOF
<1> SUFFICES ASSUME IInv, [Next]_vars PROVE IInv'
  OBVIOUS
<1>1. CASE UNCHANGED vars
  BY <1>1, AgreeTokens, AgreeTokensNext
     DEF IInv, TypeInv, SemsSound, Kept, Ring, Ahead, vars, pipeVars, history
<1>2. CASE Next
  <2>1. UNCHANGED isStdin
    BY <1>2 DEF Next
  <2>2. ASSUME NEW p \in Proc, GoOn(p) PROVE IInv'
    BY <2>1, <2>2, ReadByteInv, WriteByteInv DEF GoOn
  <2>3. ASSUME NEW p \in Proc, DestroyPipe(p) PROVE IInv'
    BY <2>1, <2>3, DestroyPipeInv
  <2>4. ASSUME NEW p \in Proc, Kill(p) PROVE IInv'
    BY <2>1, <2>4, KillInv
  <2>5. ASSUME NEW p \in Proc, NEW n \in 1..MaxLen, ReadPipe(p, n) PROVE IInv'
    BY <2>1, <2>5, ReadPipeInv
  <2>6. ASSUME NEW p \in Proc, NEW n \in 1..MaxLen, WritePipe(p, n) PROVE IInv'
    BY <2>1, <2>6, WritePipeInv
  <2>7. ASSUME NEW b \in Byte, WriteStdin(b) PROVE IInv'
    BY <2>1, <2>7, WriteStdinInv
  <2> QED BY <1>2, <2>2, <2>3, <2>4, <2>5, <2>6, <2>7 DEF Next
<1> QED BY <1>1, <1>2

LEMMA IInvariance == Spec => []IInv
PROOF
BY InitIInv, NextIInv, PTL DEF Spec

-----------------------------------------------------------------------------
(* The theorems.                                                            *)

(* No byte and no free place is lost or counted twice by the two semaphores *)
(* of pipes.c, whoever is killed or kept waiting, and nobody waits for what *)
(* is not with somebody else.                                               *)
THEOREM TokensAreSound == Spec => []TokensSound
PROOF
<1> QED BY IInvariance, InvMeansSound, PTL

\* The calls that a process leaves by a step are its own.
LEMMA LeavesByReading ==
  ASSUME IInv, [Next]_vars, NEW p \in Proc, op[p] = "read", state[p] = "READY", op'[p] = "none"
  PROVE  ReadByte(p)
PROOF
<1>0. op \in [Proc -> Op]
  BY Parts
<1>1. CASE UNCHANGED vars
  BY <1>1 DEF vars
<1>2. ASSUME NEW q \in Proc, ReadByte(q) PROVE ReadByte(p)
  BY <1>0, <1>2 DEF ReadByte, Leave
<1>3. ASSUME NEW q \in Proc, NEW b, WriteByte(q, b) PROVE FALSE
  BY <1>0, <1>3 DEF WriteByte, Leave
<1>4. ASSUME NEW q \in Proc, DestroyPipe(q) PROVE FALSE
  BY <1>4 DEF DestroyPipe
<1>5. ASSUME NEW q \in Proc, Kill(q) PROVE FALSE
  BY <1>0, <1>5 DEF Kill
<1>6. ASSUME NEW q \in Proc, NEW n, ReadPipe(q, n) PROVE FALSE
  BY <1>0, <1>6 DEF ReadPipe
<1>7. ASSUME NEW q \in Proc, NEW n, WritePipe(q, n) PROVE FALSE
  BY <1>0, <1>7 DEF WritePipe, Calls
<1>8. ASSUME NEW b, WriteStdin(b) PROVE FALSE
  BY <1>8 DEF WriteStdin
<1> QED BY <1>1, <1>2, <1>3, <1>4, <1>5, <1>6, <1>7, <1>8 DEF Next, GoOn

\* readPipe() returns short only with readIdx at writeIdx, and then what it
\* took was all: a ring of BufferSize unread bytes has equal indices too, but
\* not after a byte was taken from it.
LEMMA ShortReadStep ==
  ASSUME IInv, [Next]_vars, NEW p \in Proc, op[p] = "read", state[p] = "READY",
         op'[p] = "none", left[p] > 1, ~destroyed, ~overrun
  PROVE  unread' = <<>>
PROOF
<1>1. ReadByte(p)
  BY LeavesByReading
<1>2. ~(left[p] > 1 /\ ~AtEnd)
  BY <1>1 DEF ReadByte
<1>3. readIdx' = writeIdx
  BY <1>2 DEF AtEnd
<1>4. readIdx' = (readIdx + 1) % BufferSize /\ UNCHANGED <<buffer, writeIdx>>
  BY <1>1 DEF ReadByte
<1> QED BY <1>1, <1>3, <1>4, Parts, ReadByteGets, RingGet

(* A read that returns less than it was asked for has emptied the pipe, as  *)
(* long as the keyboard has not overrun it (pipes.c, readPipe).             *)
THEOREM ShortReadsEmpty == Spec => ShortReadEmpties
PROOF
<1>1. IInv /\ [Next]_vars =>
        [\A p \in Proc :
           /\ op[p] = "read" /\ state[p] = "READY"
           /\ op'[p] = "none" /\ left[p] > 1 /\ ~destroyed /\ ~overrun
           => unread' = <<>>]_vars
  BY ShortReadStep
<1> QED BY <1>1, IInvariance, PTL DEF Spec, ShortReadEmpties

\* A step of the pipe is one of the channel, or none.
LEMMA ChannelStep == IInv /\ [Next]_vars => [C!Next]_C!vars
PROOF
<1> SUFFICES ASSUME IInv, [Next]_vars PROVE [C!Next]_C!vars
  OBVIOUS
<1> DEFINE broken == destroyed \/ overrun
<1>0. destroyed \in BOOLEAN /\ overrun \in BOOLEAN
  BY Parts DEF TypeInv
<1>1. CASE broken'
  BY <1>1 DEF C!Next, C!Break
<1>2. CASE ~broken' /\ UNCHANGED vars
  BY <1>2 DEF C!vars, vars, pipeVars, history
<1>3. ASSUME ~broken', NEW p \in Proc, ReadByte(p) PROVE C!Next
  <2>1. ~destroyed /\ ~overrun /\ UNCHANGED <<destroyed, overrun>>
    BY <1>3 DEF ReadByte
  <2>2. unread # <<>> /\ unread' = Tail(unread)
    BY <1>3, <2>1, ReadByteGets
  <2>3. got' = buffer[readIdx] /\ readIdx' = (readIdx + 1) % BufferSize
        /\ UNCHANGED <<buffer, writeIdx>>
    BY <1>3 DEF ReadByte
  <2>4. got' = Head(unread)
    BY <2>1, <2>2, <2>3, Parts, RingGet
  <2> QED BY <2>1, <2>2, <2>4 DEF C!Next, C!Receive
<1>4. ASSUME ~broken', NEW p \in Proc, NEW b \in Byte, WriteByte(p, b) PROVE C!Next
  <2>1. ~destroyed /\ ~overrun /\ UNCHANGED <<destroyed, overrun, got>>
    BY <1>4 DEF WriteByte
  <2>2. Len(unread) < BufferSize
    BY <1>4, <2>1, WriteByteFits
  <2>3. unread' = Append(unread, b)
    BY <1>4, <2>1 DEF WriteByte, Put
  <2> QED BY <2>1, <2>2, <2>3 DEF C!Next, C!Send
<1>5. ASSUME ~broken', NEW b \in Byte, WriteStdin(b) PROVE C!Next
  <2>1. /\ UNCHANGED <<destroyed, got>> /\ Put(b)
        /\ overrun' = (overrun \/ Len(unread) >= BufferSize)
    BY <1>5 DEF WriteStdin
  <2>2. ~destroyed /\ ~overrun /\ ~(Len(unread) >= BufferSize)
    BY <1>5, <2>1, Zenon
  <2>3. Len(unread) < BufferSize
    BY <2>2, Parts, PipeAssumption
  <2>4. unread' = Append(unread, b)
    BY <2>1, <2>2 DEF Put
  <2>5. broken' = broken
    BY <1>5, <2>2
  <2> QED BY <2>1, <2>2, <2>3, <2>4, <2>5 DEF C!Next, C!Send
<1>6. ASSUME ~broken', NEW p \in Proc, DestroyPipe(p) PROVE FALSE
  BY <1>6 DEF DestroyPipe
<1>7. ASSUME ~broken', NEW p \in Proc,
             Kill(p) \/ \E n \in 1..MaxLen : ReadPipe(p, n) \/ WritePipe(p, n)
      PROVE  UNCHANGED C!vars
  BY <1>7 DEF Kill, ReadPipe, WritePipe, C!vars, pipeVars, history
<1> QED BY <1>1, <1>2, <1>3, <1>4, <1>5, <1>6, <1>7 DEF Next, GoOn

(* The pipe is a bounded channel, first in first out, until it is destroyed *)
(* or a key finds the ring full: the indices of pipes.c and the two counts  *)
(* of tokens keep each byte in its turn, with any number of readers and     *)
(* writers and any of them killed.                                          *)
THEOREM PipeIsChannel == Spec => ImplementsChannel
PROOF
<1>1. Init => C!Init
  BY DEF Init, C!Init
<1> QED BY <1>1, ChannelStep, IInvariance, PTL DEF Spec, ImplementsChannel, C!Spec
=============================================================================
