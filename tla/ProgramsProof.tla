---------------------------- MODULE ProgramsProof -----------------------------
(***************************************************************************)
(* What the runs show of the programs, proved for any number of processes, *)
(* of rounds, of clients and of sounds, and for a heap of any size.        *)
(***************************************************************************)
EXTENDS MCPrograms, SubsequenceProof

-----------------------------------------------------------------------------
(* testSem.                                                                 *)

Place == {"round", "read", "write", "leave"}

SemTypes ==
  /\ worker \in [S!Worker -> [at : Place, aux : Int, left : 0..Rounds]]
  /\ sem \in [value : {0, 1}, queue : Seq(S!Worker)]
  /\ globalForSemTest \in Int
  /\ \A w \in S!Worker : worker[w].at # "round" => worker[w].left > 0

\* Between its wait, and that over, and its post.
Inside(w) == worker[w].at # "round" /\ w \notin Range(sem.queue)

\* One at most is, and knows the variable as it is.
OneInside ==
  /\ \A v, w \in S!Worker : Inside(v) /\ Inside(w) => v = w
  /\ sem.value = 1 => sem.queue = <<>> /\ \A w \in S!Worker : ~Inside(w)
  /\ \A w \in Range(sem.queue) : worker[w].at = "read"
  /\ \A w \in S!Worker : worker[w].at = "write" => worker[w].aux = globalForSemTest

\* The rounds in which w has not written yet, and those of several.
Todo(w) == IF worker[w].at = "leave" THEN worker[w].left - 1 ELSE worker[w].left
Rest(W) == {x \in W \X (1..Rounds) : x[2] <= Todo(x[1])}

Decs == 1..Pairs
Incs == Pairs+1..2*Pairs

\* What is missing from the sum is still to come.
SumAgrees ==
  globalForSemTest + Cardinality(Rest(Incs)) = Expected + Cardinality(Rest(Decs))

SemInv == useSem => SemTypes /\ OneInside /\ SumAgrees

LEMMA WorkersHalves ==
  /\ Pairs \in Nat \ {0} /\ Rounds \in Nat \ {0} /\ Expected \in Int
  /\ S!Worker = Decs \cup Incs /\ Decs \cap Incs = {}
  /\ \A w \in Decs : S!inc(w) = -1
  /\ \A w \in Incs : S!inc(w) = 1
PROOF
<1>1. Pairs \in Nat \ {0} /\ Rounds \in Nat \ {0} /\ Expected \in Int
  BY ProgramsAssumption
<1> QED BY <1>1 DEF S!Worker, S!inc, Decs, Incs

LEMMA RestFinite ==
  ASSUME NEW W \in SUBSET S!Worker
  PROVE  IsFiniteSet(Rest(W)) /\ Cardinality(Rest(W)) \in Nat
PROOF
<1>1. IsFiniteSet(S!Worker) /\ IsFiniteSet(1..Rounds)
  <2>1. 1 \in Int /\ 2*Pairs \in Int /\ Rounds \in Int
    BY WorkersHalves
  <2> QED BY <2>1, FS_Interval DEF S!Worker
<1>2. IsFiniteSet(W)
  BY <1>1, FS_Subset
<1>3. IsFiniteSet(W \X (1..Rounds))
  BY <1>1, <1>2, FS_Product
<1>4. Rest(W) \in SUBSET (W \X (1..Rounds))
  BY DEF Rest
<1>5. IsFiniteSet(Rest(W))
  BY <1>3, <1>4, FS_Subset
<1> QED BY <1>5, FS_CardinalityType

LEMMA RestSame ==
  ASSUME NEW W \in SUBSET S!Worker, \A w \in W : Todo(w)' = Todo(w)
  PROVE  Cardinality(Rest(W))' = Cardinality(Rest(W))
PROOF
<1>1. Rest(W)' = Rest(W)
  BY DEF Rest
<1> QED BY <1>1

\* A write takes the last of the rounds of w off those to come.
LEMMA RestLess ==
  ASSUME NEW W \in SUBSET S!Worker, NEW w \in W, Todo(w) \in 1..Rounds, Todo(w)' = Todo(w) - 1,
         \A v \in W \ {w} : Todo(v)' = Todo(v)
  PROVE  Cardinality(Rest(W))' = Cardinality(Rest(W)) - 1
PROOF
<1> DEFINE x == <<w, Todo(w)>>
<1>1. x \in Rest(W)
  <2>1. x[1] = w /\ x[2] = Todo(w) /\ Todo(w) <= Todo(w)
    OBVIOUS
  <2>2. x \in W \X (1..Rounds)
    OBVIOUS
  <2> QED BY <2>1, <2>2 DEF Rest
<1>2. Rest(W)' = Rest(W) \ {x}
  <2>1. ASSUME NEW y \in W \X (1..Rounds)
        PROVE  y[2] <= Todo(y[1])' <=> y[2] <= Todo(y[1]) /\ y # x
    <3>1. y[1] \in W /\ y[2] \in 1..Rounds /\ y = <<y[1], y[2]>>
      OBVIOUS
    <3>2. CASE y[1] = w
      <4>1. y # x <=> y[2] # Todo(w)
        BY <3>1, <3>2
      <4>2. Todo(y[1])' = Todo(w) - 1 /\ Todo(y[1]) = Todo(w)
        BY <3>2
      <4> HIDE DEF x
      <4> QED BY <3>1, <4>1, <4>2
    <3>3. CASE y[1] # w
      <4>1. y # x
        BY <3>3
      <4>2. Todo(y[1])' = Todo(y[1])
        BY <3>1, <3>3
      <4> QED BY <4>1, <4>2
    <3> QED BY <3>2, <3>3
  <2> HIDE DEF x
  <2> QED BY <2>1 DEF Rest
<1>3. IsFiniteSet(Rest(W))
  BY RestFinite
<1>4. Cardinality(Rest(W) \ {x}) = Cardinality(Rest(W)) - 1
  BY <1>1, <1>3, FS_RemoveElement
<1> QED BY <1>2, <1>4

\* A step of w, which leaves it at `there' with those of its variables.
Moves(w, there, aux, left) ==
  /\ worker' \in [S!Worker -> [at : Place, aux : Int, left : 0..Rounds]]
  /\ worker'[w].at = there /\ worker'[w].aux = aux /\ worker'[w].left = left
  /\ \A v \in S!Worker \ {w} : worker'[v] = worker[v]

LEMMA WorkerMoves ==
  ASSUME SemTypes, NEW w \in S!Worker, NEW there \in Place, NEW aux \in Int,
         NEW left \in 0..Rounds,
         worker' = [worker EXCEPT ![w] = [at |-> there, aux |-> aux, left |-> left]]
  PROVE  Moves(w, there, aux, left)
PROOF
<1>1. [at |-> there, aux |-> aux, left |-> left] \in [at : Place, aux : Int, left : 0..Rounds]
  OBVIOUS
<1>2. worker \in [S!Worker -> [at : Place, aux : Int, left : 0..Rounds]]
  BY DEF SemTypes
<1>3. worker'[w] = [at |-> there, aux |-> aux, left |-> left]
  BY <1>2
<1> QED BY <1>1, <1>2, <1>3 DEF Moves

\* The operations on its semaphore.
LEMMA SemWaited ==
  ASSUME NEW w \in S!Worker, NEW s, NEW r,
         s \in [value : {0, 1}, queue : Seq(S!Worker)], r = S!Waited(s, w)
  PROVE  /\ r \in [value : {0, 1}, queue : Seq(S!Worker)]
         /\ s.value = 1 => r.value = 0 /\ r.queue = s.queue
         /\ s.value = 0 => r.value = 0 /\ r.queue = Append(s.queue, w)
PROOF
<1>1. Append(s.queue, w) \in Seq(S!Worker) /\ s.queue \in Seq(S!Worker) /\ s.value \in {0, 1}
  OBVIOUS
<1> DEFINE q == Append(s.queue, w)
<1> HIDE DEF q
<1>2. CASE s.value = 1
  <2>1. r = [s EXCEPT !.value = 0]
    BY <1>2 DEF S!Waited
  <2> QED BY <1>1, <1>2, <2>1
<1>3. CASE s.value = 0
  <2>1. r = [s EXCEPT !.queue = q]
    BY <1>3 DEF S!Waited, q
  <2>2. r.value = 0 /\ r.queue = q /\ r \in [value : {0, 1}, queue : Seq(S!Worker)]
    BY <1>1, <1>3, <2>1 DEF q
  <2> QED BY <1>3, <2>2 DEF q
<1> QED BY <1>1, <1>2, <1>3

LEMMA SemPosted ==
  ASSUME NEW s, NEW r, s \in [value : {0, 1}, queue : Seq(S!Worker)], r = S!Posted(s)
  PROVE  /\ r.queue \in Seq(S!Worker)
         /\ s.queue # <<>> => r.value = s.value /\ r.queue = Tail(s.queue)
         /\ s.queue = <<>> => r.value = s.value + 1 /\ r.queue = <<>>
         /\ r = [value |-> r.value, queue |-> r.queue]
PROOF
<1>1. s.queue \in Seq(S!Worker) /\ s.value \in {0, 1} /\ s.value # -1
  OBVIOUS
<1>2. s # S!Destroyed
  BY <1>1 DEF S!Destroyed, S!NewSem
<1>3. CASE s.queue # <<>>
  <2> DEFINE q == Tail(s.queue)
  <2>1. q \in Seq(S!Worker)
    BY <1>1, <1>3
  <2> HIDE DEF q
  <2>2. r = [s EXCEPT !.queue = q]
    BY <1>2, <1>3 DEF S!Posted, q
  <2>3. r.value = s.value /\ r.queue = q /\ r = [value |-> r.value, queue |-> r.queue]
    BY <1>1, <2>2
  <2> QED BY <1>3, <2>1, <2>3 DEF q
<1>4. CASE s.queue = <<>>
  <2>1. r = [s EXCEPT !.value = s.value + 1]
    BY <1>2, <1>4 DEF S!Posted
  <2>2. r.value = s.value + 1 /\ r.queue = s.queue /\ r = [value |-> r.value, queue |-> r.queue]
    BY <1>1, <2>1
  <2> QED BY <1>1, <1>4, <2>2
<1> QED BY <1>3, <1>4

LEMMA EnterInv ==
  ASSUME SemTypes, OneInside, SumAgrees, useSem, NEW w \in S!Worker, S!Enter(w)
  PROVE  SemTypes' /\ OneInside' /\ SumAgrees'
PROOF
<1>1. /\ worker[w].at = "round" /\ worker[w].left > 0 /\ w \notin Range(sem.queue)
      /\ sem' = S!Waited(sem, w)
      /\ UNCHANGED globalForSemTest
  BY DEF S!Enter, S!At, S!Range, Range
<1>2. /\ worker[w] \in [at : Place, aux : Int, left : 0..Rounds]
      /\ sem.value \in {0, 1} /\ sem.queue \in Seq(S!Worker)
      /\ sem = [value |-> sem.value, queue |-> sem.queue]
  BY DEF SemTypes
<1>3. Moves(w, "read", worker[w].aux, worker[w].left)
  <2>1. worker' = [worker EXCEPT ![w] = [worker[w] EXCEPT !.at = "read"]]
    BY DEF S!Enter, S!Goto
  <2>2. [worker[w] EXCEPT !.at = "read"]
          = [at |-> "read", aux |-> worker[w].aux, left |-> worker[w].left]
    BY <1>2
  <2> QED BY <1>2, <2>1, <2>2, WorkerMoves DEF Place
<1>4. /\ worker' \in [S!Worker -> [at : Place, aux : Int, left : 0..Rounds]]
      /\ worker'[w].at = "read" /\ worker'[w].left = worker[w].left
      /\ \A v \in S!Worker \ {w} : worker'[v] = worker[v]
  BY <1>3 DEF Moves
<1>5. \A v \in S!Worker : Todo(v)' = Todo(v)
  BY <1>1, <1>4 DEF Todo
<1>6. SumAgrees'
  BY <1>1, <1>5, RestSame, WorkersHalves DEF SumAgrees
<1>7. /\ sem' \in [value : {0, 1}, queue : Seq(S!Worker)]
      /\ sem.value = 1 => sem'.value = 0 /\ sem'.queue = sem.queue
      /\ sem.value = 0 => sem'.value = 0 /\ sem'.queue = Append(sem.queue, w)
  BY <1>1, SemWaited DEF SemTypes
<1>8. SemTypes'
  <2>1. \A v \in S!Worker : worker'[v].at # "round" => worker'[v].left > 0
    BY <1>1, <1>4 DEF SemTypes
  <2> QED BY <1>1, <1>4, <1>7, <2>1 DEF SemTypes
<1>9. /\ \A v \in S!Worker : worker'[v].at = "write" => worker'[v].aux = globalForSemTest'
      /\ \A v \in Range(sem.queue) : v \in S!Worker /\ worker'[v].at = "read"
  <2>1. \A v \in Range(sem.queue) : v \in S!Worker
    BY <1>2 DEF Range
  <2> QED BY <1>1, <1>4, <2>1 DEF OneInside
<1>10. CASE sem.value = 1
  <2>1. \A v \in S!Worker : ~Inside(v)
    BY <1>10 DEF OneInside
  <2>2. \A v \in S!Worker : Inside(v)' => v = w
    BY <1>4, <1>7, <1>10, <2>1 DEF Inside
  <2>3. OneInside'
    BY <1>7, <1>9, <1>10, <2>2 DEF OneInside
  <2> QED BY <1>6, <1>8, <2>3
<1>11. CASE sem.value = 0
  <2>1. Range(sem'.queue) = Range(sem.queue) \cup {w}
    <3>1. sem.queue \in Seq(S!Worker)
      BY <1>2
    <3>2. Range(Append(sem.queue, w)) = Range(sem.queue) \cup {w}
      BY <3>1, RangeAppend
    <3> QED BY <1>7, <1>11, <3>2
  <2>2. \A v \in S!Worker : Inside(v)' => Inside(v)
    BY <1>4, <2>1 DEF Inside
  <2>3. \A v \in Range(sem'.queue) : worker'[v].at = "read"
    BY <1>4, <1>9, <2>1
  <2>4. OneInside'
    BY <1>7, <1>9, <1>11, <2>2, <2>3 DEF OneInside
  <2> QED BY <1>6, <1>8, <2>4
<1> QED BY <1>2, <1>10, <1>11

\* The type and the sum, after a step that writes nothing.
LEMMA SumSame ==
  ASSUME SumAgrees, UNCHANGED globalForSemTest, NEW w \in S!Worker,
         Todo(w)' = Todo(w), \A v \in S!Worker \ {w} : worker'[v] = worker[v]
  PROVE  SumAgrees'
PROOF
<1>1. \A v \in S!Worker : Todo(v)' = Todo(v)
  BY DEF Todo
<1> QED BY <1>1, RestSame, WorkersHalves DEF SumAgrees

LEMMA ReadInv ==
  ASSUME SemTypes, OneInside, SumAgrees, useSem, NEW w \in S!Worker, S!Read(w)
  PROVE  SemTypes' /\ OneInside' /\ SumAgrees'
PROOF
<1>1. /\ worker[w].at = "read" /\ w \notin Range(sem.queue)
      /\ UNCHANGED <<globalForSemTest, sem>>
      /\ worker' = [worker EXCEPT ![w].at = "write", ![w].aux = globalForSemTest]
  BY DEF S!Read, S!At, S!Range, Range
<1>2. /\ worker[w] \in [at : Place, aux : Int, left : 0..Rounds]
      /\ globalForSemTest \in Int /\ worker[w].left > 0
      /\ worker \in [S!Worker -> [at : Place, aux : Int, left : 0..Rounds]]
      /\ sem.queue \in Seq(S!Worker)
  BY <1>1 DEF SemTypes
<1>3. Moves(w, "write", globalForSemTest, worker[w].left)
  <2> DEFINE x == globalForSemTest
             r == [worker[w] EXCEPT !.at = "write"]
  <2>1. r = [at |-> "write", aux |-> worker[w].aux, left |-> worker[w].left]
    BY <1>2
  <2>2. worker' = [worker EXCEPT ![w] = [r EXCEPT !.aux = x]]
    BY <1>1, <1>2
  <2> HIDE DEF r, x
  <2>3. [r EXCEPT !.aux = x] = [at |-> "write", aux |-> x, left |-> worker[w].left]
    BY <2>1
  <2> QED BY <1>2, <2>2, <2>3, WorkerMoves DEF Place, x
<1>4. SumAgrees'
  BY <1>1, <1>3, SumSame DEF Moves, Todo
<1>5. SemTypes'
  BY <1>1, <1>2, <1>3 DEF SemTypes, Moves
<1>6. \A v \in Range(sem.queue) : v \in S!Worker /\ v # w
  BY <1>1, <1>2 DEF Range
<1>7. \A v \in S!Worker : Inside(v)' <=> Inside(v)
  BY <1>1, <1>3 DEF Inside, Moves
<1>8. OneInside'
  BY <1>1, <1>3, <1>6, <1>7 DEF OneInside, Moves
<1> QED BY <1>4, <1>5, <1>8

LEMMA WriteInv ==
  ASSUME SemTypes, OneInside, SumAgrees, useSem, NEW w \in S!Worker, S!Write(w)
  PROVE  SemTypes' /\ OneInside' /\ SumAgrees'
PROOF
<1>1. /\ worker[w].at = "write" /\ w \notin Range(sem.queue)
      /\ globalForSemTest' = worker[w].aux + S!inc(w)
      /\ sem' = sem
      /\ worker' = [worker EXCEPT ![w] = [worker[w] EXCEPT !.at = "leave"]]
  BY DEF S!Write, S!At, S!Goto, S!Range, Range
<1>2. /\ worker[w] \in [at : Place, aux : Int, left : 0..Rounds]
      /\ globalForSemTest \in Int /\ worker[w].left > 0
      /\ worker[w].aux = globalForSemTest
      /\ sem.queue \in Seq(S!Worker)
  BY <1>1 DEF SemTypes, OneInside
<1>3. Moves(w, "leave", worker[w].aux, worker[w].left)
  <2>1. [worker[w] EXCEPT !.at = "leave"]
          = [at |-> "leave", aux |-> worker[w].aux, left |-> worker[w].left]
    BY <1>2
  <2> QED BY <1>1, <1>2, <2>1, WorkerMoves DEF Place
<1>4. /\ Todo(w) \in 1..Rounds /\ Todo(w)' = Todo(w) - 1
      /\ \A v \in S!Worker \ {w} : Todo(v)' = Todo(v)
  <2>1. Todo(w) = worker[w].left
    BY <1>1 DEF Todo
  <2>2. Todo(w)' = worker[w].left - 1
    BY <1>3 DEF Todo, Moves
  <2> QED BY <1>2, <1>3, <2>1, <2>2 DEF Todo, Moves
<1>5. SumAgrees' /\ globalForSemTest' \in Int
  <2> DEFINE ni == Cardinality(Rest(Incs))
             nd == Cardinality(Rest(Decs))
  <2>1. ni \in Nat /\ nd \in Nat /\ globalForSemTest + ni = Expected + nd
    BY RestFinite, WorkersHalves DEF SumAgrees
  <2>2. CASE w \in Decs
    <3>1. nd' = nd - 1
      BY <1>4, <2>2, WorkersHalves, RestLess
    <3>2. ni' = ni
      BY <1>4, <2>2, WorkersHalves, RestSame
    <3>3. globalForSemTest' = globalForSemTest - 1
      BY <1>1, <1>2, <2>2, WorkersHalves
    <3> HIDE DEF ni, nd
    <3>4. globalForSemTest' + ni' = Expected + nd'
      BY <1>2, <2>1, <3>1, <3>2, <3>3, WorkersHalves
    <3> QED BY <1>2, <3>3, <3>4 DEF SumAgrees, ni, nd
  <2>3. CASE w \in Incs
    <3>1. ni' = ni - 1
      BY <1>4, <2>3, WorkersHalves, RestLess
    <3>2. nd' = nd
      BY <1>4, <2>3, WorkersHalves, RestSame
    <3>3. globalForSemTest' = globalForSemTest + 1
      BY <1>1, <1>2, <2>3, WorkersHalves
    <3> HIDE DEF ni, nd
    <3>4. globalForSemTest' + ni' = Expected + nd'
      BY <1>2, <2>1, <3>1, <3>2, <3>3, WorkersHalves
    <3> QED BY <1>2, <3>3, <3>4 DEF SumAgrees, ni, nd
  <2> QED BY <2>2, <2>3, WorkersHalves
<1>6. SemTypes'
  BY <1>1, <1>2, <1>3, <1>5 DEF SemTypes, Moves
<1>7. \A v \in Range(sem.queue) : v \in S!Worker /\ v # w
  BY <1>1, <1>2 DEF Range
<1>8. \A v \in S!Worker : Inside(v)' <=> Inside(v)
  BY <1>1, <1>3 DEF Inside, Moves
<1>9. \A v \in S!Worker \ {w} : worker[v].at # "write"
  <2>1. \A v \in S!Worker : worker[v].at = "write" => Inside(v)
    BY DEF OneInside, Inside
  <2> QED BY <1>1, <2>1 DEF OneInside
<1>10. OneInside'
  BY <1>1, <1>3, <1>7, <1>8, <1>9 DEF OneInside, Moves
<1> QED BY <1>5, <1>6, <1>10

LEMMA LeaveInv ==
  ASSUME SemTypes, OneInside, SumAgrees, useSem, NEW w \in S!Worker, S!Leave(w)
  PROVE  SemTypes' /\ OneInside' /\ SumAgrees'
PROOF
<1>1. /\ worker[w].at = "leave" /\ w \notin Range(sem.queue)
      /\ UNCHANGED globalForSemTest
      /\ sem' = S!Posted(sem)
      /\ worker' = [worker EXCEPT ![w].at = "round", ![w].left = @ - 1]
  BY DEF S!Leave, S!At, S!Range, Range
<1>2. /\ worker[w] \in [at : Place, aux : Int, left : 0..Rounds]
      /\ worker[w].left > 0 /\ worker[w].left - 1 \in 0..Rounds
      /\ worker \in [S!Worker -> [at : Place, aux : Int, left : 0..Rounds]]
      /\ sem.queue \in Seq(S!Worker) /\ sem.value \in {0, 1}
  BY <1>1, WorkersHalves DEF SemTypes
<1>3. Moves(w, "round", worker[w].aux, worker[w].left - 1)
  <2>1. worker' = [worker EXCEPT ![w] = [at |-> "round", aux |-> worker[w].aux,
                                         left |-> worker[w].left - 1]]
    BY <1>1, <1>2
  <2> QED BY <1>2, <2>1, WorkerMoves DEF Place
<1>4. SumAgrees'
  <2>1. Todo(w)' = Todo(w)
    BY <1>1, <1>3 DEF Moves, Todo
  <2> QED BY <1>1, <1>3, <2>1, SumSame DEF Moves
<1>5. Inside(w) /\ sem.value = 0 /\ \A v \in S!Worker : Inside(v) => v = w
  BY <1>1, <1>2 DEF OneInside, Inside
<1>6. /\ sem'.queue \in Seq(S!Worker)
      /\ sem.queue # <<>> => sem'.value = 0 /\ sem'.queue = Tail(sem.queue)
      /\ sem.queue = <<>> => sem'.value = 1 /\ sem'.queue = <<>>
      /\ sem' = [value |-> sem'.value, queue |-> sem'.queue]
  <2>1. sem \in [value : {0, 1}, queue : Seq(S!Worker)]
    BY DEF SemTypes
  <2>2. /\ sem'.queue \in Seq(S!Worker)
        /\ sem.queue # <<>> => sem'.value = sem.value /\ sem'.queue = Tail(sem.queue)
        /\ sem.queue = <<>> => sem'.value = sem.value + 1 /\ sem'.queue = <<>>
        /\ sem' = [value |-> sem'.value, queue |-> sem'.queue]
    BY <1>1, <2>1, SemPosted
  <2>3. sem.value + 1 = 1
    BY <1>5
  <2> QED BY <1>5, <2>2, <2>3
<1>7. SemTypes'
  <2>1. sem' \in [value : {0, 1}, queue : Seq(S!Worker)]
    BY <1>6
  <2> QED BY <1>1, <1>2, <1>3, <2>1 DEF SemTypes, Moves
<1>8. \A v \in Range(sem.queue) : v \in S!Worker /\ v # w
  BY <1>1, <1>2 DEF Range
<1>9. CASE sem.queue # <<>>
  <2>1. /\ Range(sem.queue) = Range(sem'.queue) \cup {Head(sem.queue)}
    BY <1>2, <1>6, <1>9, RangeTail
  <2>2. \A v \in S!Worker : Inside(v)' => v = Head(sem.queue)
    BY <1>1, <1>3, <1>5, <2>1 DEF Inside, Moves
  <2>3. OneInside'
    BY <1>1, <1>3, <1>6, <1>8, <1>9, <2>1, <2>2 DEF OneInside, Moves
  <2> QED BY <1>4, <1>7, <2>3
<1>10. CASE sem.queue = <<>>
  <2>1. Range(<<>>) = {}
    BY DEF Range
  <2>2. \A v \in S!Worker : ~Inside(v)'
    BY <1>1, <1>3, <1>5, <1>6, <1>10 DEF Inside, Moves
  <2>3. OneInside'
    BY <1>1, <1>3, <1>6, <1>10, <2>1, <2>2 DEF OneInside, Moves
  <2> QED BY <1>4, <1>7, <2>3
<1> QED BY <1>9, <1>10

LEMMA SemInvInit == Init => SemInv
PROOF
<1> SUFFICES ASSUME Init, useSem PROVE SemTypes /\ OneInside /\ SumAgrees
  BY DEF SemInv
<1>1. PICK n \in 1..Rounds :
        worker = [w \in S!Worker |-> [at |-> "round", aux |-> 0, left |-> n]]
  BY DEF Init, S!Init
<1>2. /\ \A w \in S!Worker : worker[w] = [at |-> "round", aux |-> 0, left |-> n]
      /\ n \in Nat \ {0} /\ n \in 0..Rounds
  BY <1>1, WorkersHalves
<1>3. \A w \in S!Worker : worker[w].at = "round" /\ worker[w].left = n
  BY <1>2
<1>4. globalForSemTest = Expected /\ Expected \in Int
  BY WorkersHalves DEF Init, S!Init
<1>5. sem.value = 1 /\ sem.queue = <<>> /\ sem \in [value : {0, 1}, queue : Seq(S!Worker)]
  <2>1. sem = [value |-> 1, queue |-> <<>>]
    BY DEF Init, S!Init, S!NewSem, S!InitialValue
  <2>2. <<>> \in Seq(S!Worker)
    OBVIOUS
  <2> QED BY <2>1, <2>2
<1>6. worker \in [S!Worker -> [at : Place, aux : Int, left : 0..Rounds]]
  <2>1. [at |-> "round", aux |-> 0, left |-> n] \in [at : Place, aux : Int, left : 0..Rounds]
    BY <1>2 DEF Place
  <2> QED BY <1>1, <2>1
<1>7. SemTypes
  BY <1>3, <1>4, <1>5, <1>6 DEF SemTypes
<1>8. Range(<<>>) = {}
  BY DEF Range
<1>9. OneInside
  BY <1>3, <1>5, <1>8 DEF OneInside, Inside
<1>10. SumAgrees
  <2>1. ASSUME NEW W \in SUBSET S!Worker PROVE Rest(W) = W \X (1..n)
    <3>1. \A w \in W : Todo(w) = n
      BY <1>3 DEF Todo
    <3>2. Rest(W) = {x \in W \X (1..Rounds) : x[2] <= n}
      BY <3>1 DEF Rest
    <3>3. 1..n \subseteq 1..Rounds /\ \A k \in 1..Rounds : k <= n <=> k \in 1..n
      BY <1>2, WorkersHalves
    <3> QED BY <3>2, <3>3
  <2>2. /\ IsFiniteSet(Decs) /\ Cardinality(Decs) = Pairs
        /\ IsFiniteSet(Incs) /\ Cardinality(Incs) = Pairs
    <3>1. /\ 1 \in Int /\ Pairs \in Int /\ Pairs + 1 \in Int /\ 2*Pairs \in Int
          /\ Pairs - 1 + 1 = Pairs /\ 2*Pairs - (Pairs + 1) + 1 = Pairs
          /\ ~(1 > Pairs) /\ ~(Pairs + 1 > 2*Pairs)
      BY WorkersHalves
    <3>2. /\ IsFiniteSet(Decs)
          /\ Cardinality(Decs) = IF 1 > Pairs THEN 0 ELSE Pairs - 1 + 1
      BY <3>1, FS_Interval DEF Decs
    <3>3. /\ IsFiniteSet(Incs)
          /\ Cardinality(Incs) = IF Pairs + 1 > 2*Pairs THEN 0 ELSE 2*Pairs - (Pairs + 1) + 1
      BY <3>1, FS_Interval DEF Incs
    <3> QED BY <3>1, <3>2, <3>3
  <2>3. IsFiniteSet(1..n)
    <3>1. 1 \in Int /\ n \in Int
      BY <1>2
    <3> QED BY <3>1, FS_Interval
  <2>4. /\ Cardinality(Decs \X (1..n)) = Pairs * Cardinality(1..n)
        /\ Cardinality(Incs \X (1..n)) = Pairs * Cardinality(1..n)
    BY <2>2, <2>3, FS_Product
  <2>5. Rest(Decs) = Decs \X (1..n) /\ Rest(Incs) = Incs \X (1..n)
    BY <2>1, WorkersHalves
  <2>6. Cardinality(Rest(Decs)) = Cardinality(Rest(Incs))
    BY <2>4, <2>5
  <2> QED BY <1>4, <2>6 DEF SumAgrees
<1> QED BY <1>7, <1>9, <1>10

LEMMA SemInvNext == SemInv /\ [Next]_vars => SemInv'
PROOF
<1> SUFFICES ASSUME SemInv, [Next]_vars PROVE SemInv'
  OBVIOUS
<1>1. CASE UNCHANGED semVars
  BY <1>1 DEF semVars, SemInv, SemTypes, OneInside, SumAgrees, Inside, Rest, Todo
<1>2. ASSUME S!Next, useSem, UNCHANGED useSem PROVE SemInv'
  <2>1. SemTypes /\ OneInside /\ SumAgrees
    BY <1>2 DEF SemInv
  <2>2. CASE S!Create
    BY <2>1, <2>2
       DEF S!Create, SemInv, SemTypes, OneInside, SumAgrees, Inside, Rest, Todo
  <2>3. ASSUME NEW w \in S!Worker, S!Enter(w) \/ S!Read(w) \/ S!Write(w) \/ S!Leave(w)
        PROVE  SemInv'
    BY <1>2, <2>1, <2>3, EnterInv, ReadInv, WriteInv, LeaveInv DEF SemInv
  <2> QED BY <1>2, <2>2, <2>3 DEF S!Next
<1>3. S!Next => UNCHANGED useSem
  BY DEF S!Next, S!Create, S!Enter, S!Read, S!Write, S!Leave
<1>4. CASE S!Next
  BY <1>2, <1>3, <1>4 DEF SemInv
<1>5. UNCHANGED semVars \/ S!Next
  BY DEF Next, vars
<1> QED BY <1>1, <1>4, <1>5

\* What is left to come when all have ended is nothing.
LEMMA SemInvMeansKept == SemInv => SumKept
PROOF
<1> SUFFICES ASSUME SemTypes, SumAgrees, S!Ended PROVE globalForSemTest = Expected
  BY DEF SemInv, SumKept, S!SumKept
<1>1. \A w \in S!Worker : worker[w].left = 0 /\ worker[w].at = "round"
  <2>1. \A w \in S!Worker : worker[w].left = 0
    BY DEF S!Ended
  <2> QED BY <2>1 DEF SemTypes
<1>2. \A w \in S!Worker : Todo(w) = 0
  BY <1>1 DEF Todo
<1>3. ASSUME NEW W \in SUBSET S!Worker PROVE Rest(W) = {}
  <2>1. \A k \in 1..Rounds : ~(k <= 0)
    BY WorkersHalves
  <2> QED BY <1>2, <2>1 DEF Rest
<1>4. Rest(Incs) = {} /\ Rest(Decs) = {} /\ Cardinality({}) = 0
  BY <1>3, WorkersHalves, FS_EmptySet
<1>5. globalForSemTest + 0 = Expected + 0
  BY <1>4 DEF SumAgrees
<1> QED BY <1>5, WorkersHalves DEF SemTypes

(* With the semaphore no sum is lost, however many processes yield to each  *)
(* other in the middle of slowInc(), for as many rounds as they like        *)
(* (semTest.c).                                                             *)
THEOREM SumIsKept == Spec => []SumKept
PROOF
BY SemInvInit, SemInvNext, SemInvMeansKept, PTL DEF Spec

-----------------------------------------------------------------------------
(* The speaker.                                                             *)

Where == {"wait", "locked", "taken", "queued", "released", "get", "sleep", "link",
          "recorded", "played", "clear"}
Pcb == [state : {"READY", "BLOCKED", "W-EXIT", "EXITED"}, at : Where]
SoundSem == [value : Nat, locked : BOOLEAN, queued : BOOLEAN]
Sleeper == Clients \cup {K!Speaker}

SoundTypes ==
  /\ sounds \in Seq(Nat) /\ index \in Nat /\ asked \in Nat /\ played \in Seq(Nat)
  /\ soundsSem \in SoundSem /\ speaker \in Pcb
  /\ auxNext \in Sleeper \cup {K!Nobody}
  /\ client \in [Clients -> {"out", "spins", "sleeps", "killed"}]
  /\ sleepers \in Seq(Sleeper) /\ IsInjective(sleepers)

IsReadyAt(there) == speaker.state = "READY" /\ speaker.at \in there

\* The lock and the queue of the semaphore go with the place of the speaker.
QueueAgrees ==
  /\ IsReadyAt({"locked", "taken", "queued"}) => soundsSem.locked
  /\ soundsSem.queued => \/ speaker.at \in {"queued", "released"}
                         \/ speaker.at = "get" /\ speaker.state # "READY"
  /\ \/ IsReadyAt({"queued", "released"})
     \/ speaker.at = "get" /\ speaker.state = "BLOCKED"
     => soundsSem.queued \/ "released" \in disturbed
  /\ speaker.state \in {"BLOCKED", "W-EXIT"} => speaker.at \in {"get", "played"}

\* The list holds those that sleep, and the record in the making its first.
ListAgrees ==
  /\ K!Speaker \in Range(sleepers) =>
       speaker.at = "recorded" \/ (speaker.at = "played" /\ speaker.state # "READY")
  /\ speaker.at # "link" => auxNext = K!Nobody
  /\ IsReadyAt({"link"}) /\ "link" \notin disturbed =>
       auxNext = IF sleepers = <<>> THEN K!Nobody ELSE Head(sleepers)
  /\ \A c \in Clients : c \in Range(sleepers) => client[c] = "sleeps"
  /\ \A c \in Clients : client[c] = "sleeps" /\ c \notin Range(sleepers)
       => "link" \in disturbed

\* The tokens of the sounds: with the semaphore, with the speaker, to be posted.
Held == IF IsReadyAt({"taken", "get"}) THEN 1 ELSE 0
Spinning == {c \in Clients : client[c] = "spins"}
Due == soundsSem.value + Held + Cardinality(Spinning)

\* Sounds are played in order, each token stands for one of them.
SoundsAgree ==
  "clear" \notin disturbed =>
    /\ index <= Len(sounds)
    /\ Len(played) + Len(sounds) = asked + index
    /\ \A k \in 1..Len(sounds) : sounds[k] + Len(sounds) = asked + k
    /\ \A k \in 1..Len(played) : played[k] = k
    /\ IsReadyAt({"clear"}) => index = Len(sounds)
    /\ Due + index <= Len(sounds)

StopsForCause ==
  stopped => K!Killed \/ disturbed \cap {"clear", "link", "recorded"} # {}

SpeakerInv == SoundTypes /\ QueueAgrees /\ ListAgrees /\ SoundsAgree /\ StopsForCause

LEMMA ClientFacts ==
  /\ Clients \subseteq Nat \ {0} /\ IsFiniteSet(Clients)
  /\ K!Speaker \notin Clients /\ K!Nobody \notin Sleeper
PROOF
<1>1. Clients \subseteq Nat \ {0} /\ IsFiniteSet(Clients)
  BY ProgramsAssumption
<1> QED BY <1>1 DEF K!Speaker, K!Nobody, Sleeper

LEMMA SpinningFinite == IsFiniteSet(Spinning) /\ Cardinality(Spinning) \in Nat
PROOF
<1>1. IsFiniteSet(Spinning)
  BY ClientFacts, FS_Subset DEF Spinning
<1> QED BY <1>1, FS_CardinalityType

LEMMA SpeakerInvMeansOnly == SpeakerInv => OnlyWindows
PROOF
<1> SUFFICES ASSUME SpeakerInv PROVE K!OnlyWindows
  BY DEF OnlyWindows
<1>1. K!Range(sleepers) = Range(sleepers)
  BY DEF K!Range, Range
<1>2. ASSUME speaker = [state |-> "BLOCKED", at |-> "get"], ~soundsSem.queued
      PROVE  "released" \in disturbed
  <2>1. speaker.state = "BLOCKED" /\ speaker.at = "get"
    BY <1>2
  <2> QED BY <1>2, <2>1 DEF SpeakerInv, QueueAgrees
<1>3. ASSUME NEW c \in Clients, client[c] = "sleeps", c \notin K!Range(sleepers)
      PROVE  "link" \in disturbed
  BY <1>1, <1>3 DEF SpeakerInv, ListAgrees
<1>4. ASSUME "clear" \notin disturbed PROVE played = [k \in DOMAIN played |-> k]
  <2>1. played \in Seq(Nat) /\ DOMAIN played = 1..Len(played)
    BY DEF SpeakerInv, SoundTypes
  <2>2. \A k \in DOMAIN played : played[k] = k
    BY <1>4, <2>1 DEF SpeakerInv, SoundsAgree
  <2>3. played = [k \in DOMAIN played |-> played[k]]
    BY <2>1
  <2> QED BY <2>2, <2>3
<1>5. stopped => K!Killed \/ disturbed \cap {"clear", "link", "recorded"} # {}
  BY DEF SpeakerInv, StopsForCause
<1> QED BY <1>2, <1>3, <1>4, <1>5 DEF K!OnlyWindows

LEMMA SpeakerInvInit == Init => SpeakerInv
PROOF
<1> SUFFICES ASSUME Init PROVE SpeakerInv
  OBVIOUS
<1>1. /\ sounds = <<>> /\ index = 0
      /\ soundsSem = [value |-> 0, locked |-> FALSE, queued |-> FALSE]
      /\ speaker = [state |-> "READY", at |-> "wait"]
      /\ auxNext = K!Nobody
      /\ client = [c \in Clients |-> "out"]
      /\ sleepers = <<>> /\ stopped = FALSE
      /\ asked = 0 /\ played = <<>> /\ disturbed = {}
  BY DEF Init, K!Init
<1>2. /\ <<>> \in Seq(Nat) /\ <<>> \in Seq(Sleeper) /\ Len(<<>>) = 0
      /\ Range(<<>>) = {} /\ IsInjective(<<>>)
  BY DEF Range, IsInjective
<1>3. /\ soundsSem \in SoundSem /\ soundsSem.value = 0 /\ ~soundsSem.queued
      /\ speaker \in Pcb /\ speaker.state = "READY" /\ speaker.at = "wait"
  BY <1>1 DEF SoundSem, Pcb, Where
<1>4. \A c \in Clients : client[c] = "out"
  BY <1>1
<1>5. SoundTypes
  <2>1. client \in [Clients -> {"out", "spins", "sleeps", "killed"}]
    BY <1>1
  <2> QED BY <1>1, <1>2, <1>3, <2>1 DEF SoundTypes
<1>6. QueueAgrees
  BY <1>3 DEF QueueAgrees, IsReadyAt
<1>7. ListAgrees
  BY <1>1, <1>2, <1>3, <1>4 DEF ListAgrees, IsReadyAt
<1>8. SoundsAgree
  <2>1. Spinning = {} /\ Held = 0 /\ Cardinality({}) = 0
    BY <1>3, <1>4, FS_EmptySet DEF Spinning, Held, IsReadyAt
  <2>2. Due = 0
    BY <1>3, <2>1 DEF Due
  <2>3. Len(sounds) = 0 /\ Len(played) = 0
    BY <1>1, <1>2
  <2> QED BY <1>1, <1>3, <2>2, <2>3 DEF SoundsAgree, IsReadyAt
<1>9. StopsForCause
  BY <1>1 DEF StopsForCause
<1> QED BY <1>5, <1>6, <1>7, <1>8, <1>9 DEF SpeakerInv

LEMMA DueIs ==
  ASSUME soundsSem \in SoundSem
  PROVE  /\ Due \in Nat /\ Held \in {0, 1} /\ soundsSem.value \in Nat
         /\ Due = soundsSem.value + Held + Cardinality(Spinning)
PROOF
<1>1. Held \in {0, 1}
  BY DEF Held
<1>2. soundsSem.value \in Nat
  BY DEF SoundSem
<1> QED BY <1>1, <1>2, SpinningFinite DEF Due

LEMMA DueNext ==
  ASSUME soundsSem' \in SoundSem
  PROVE  /\ Due' \in Nat /\ Held' \in {0, 1} /\ soundsSem'.value \in Nat
         /\ Cardinality(Spinning)' \in Nat
         /\ Due' = soundsSem'.value + Held' + Cardinality(Spinning)'
PROOF
<1>1. IsFiniteSet(Spinning')
  BY ClientFacts, FS_Subset DEF Spinning
<1>2. Cardinality(Spinning)' \in Nat
  BY <1>1, FS_CardinalityType
<1>3. Held' \in {0, 1}
  BY DEF Held
<1>4. soundsSem'.value \in Nat
  BY DEF SoundSem
<1> QED BY <1>2, <1>3, <1>4 DEF Due

LEMMA Went ==
  ASSUME SoundTypes, NEW there \in Where, K!Goto(there)
  PROVE  speaker' \in Pcb /\ speaker'.state = speaker.state /\ speaker'.at = there
PROOF
<1>1. speaker \in Pcb /\ speaker' = [speaker EXCEPT !.at = there]
  BY DEF SoundTypes, K!Goto
<1> QED BY <1>1 DEF Pcb

\* A step that leaves the sounds alone and makes no tokens.
LEMMA SoundsKept ==
  ASSUME SoundTypes, SoundsAgree, UNCHANGED <<sounds, index, asked, played>>,
         disturbed \subseteq disturbed', soundsSem' \in SoundSem,
         Due' <= Due,
         IsReadyAt({"clear"})' => IsReadyAt({"clear"}) \/ index = Len(sounds)
  PROVE  SoundsAgree'
PROOF
<1>1. Due \in Nat /\ Due' \in Nat /\ index \in Nat /\ Len(sounds) \in Nat
  BY DueIs, DueNext DEF SoundTypes
<1>2. CASE "clear" \in disturbed'
  BY <1>2 DEF SoundsAgree
<1>3. CASE "clear" \notin disturbed
  <2>1. Due' + index <= Len(sounds)
    BY <1>1, <1>3 DEF SoundsAgree
  <2> QED BY <1>3, <2>1 DEF SoundsAgree
<1> QED BY <1>2, <1>3

\* Only the speaker's place and state, and the semaphore, change.
SpeakerMoves ==
  UNCHANGED <<sounds, index, asked, played, client, disturbed, auxNext, sleepers, stopped>>

LEMMA EnterRegionInv ==
  ASSUME SpeakerInv, K!EnterRegion, UNCHANGED <<client, asked, disturbed>>
  PROVE  SpeakerInv'
PROOF
<1>1. /\ speaker.state = "READY" /\ speaker.at = "wait"
      /\ K!Goto("locked")
      /\ soundsSem' = [soundsSem EXCEPT !.locked = TRUE]
      /\ SpeakerMoves
  BY DEF K!EnterRegion, K!At, SpeakerMoves
<1>2. SoundTypes /\ QueueAgrees /\ ListAgrees /\ SoundsAgree /\ StopsForCause
  BY DEF SpeakerInv
<1>3. speaker' \in Pcb /\ speaker'.state = "READY" /\ speaker'.at = "locked"
  BY <1>1, <1>2, Went DEF Where
<1>4. /\ soundsSem' \in SoundSem /\ soundsSem'.locked
      /\ soundsSem'.value = soundsSem.value /\ soundsSem'.queued = soundsSem.queued
  BY <1>1, <1>2 DEF SoundTypes, SoundSem
<1>5. SoundTypes'
  BY <1>1, <1>2, <1>3, <1>4 DEF SoundTypes, SpeakerMoves
<1>6. QueueAgrees'
  BY <1>1, <1>2, <1>3, <1>4 DEF QueueAgrees, IsReadyAt, SpeakerMoves
<1>7. ListAgrees'
  BY <1>1, <1>2, <1>3 DEF ListAgrees, IsReadyAt, SpeakerMoves
<1>8. SoundsAgree'
  <2>1. Held' = Held /\ Spinning' = Spinning
    BY <1>1, <1>3 DEF Held, Spinning, IsReadyAt, SpeakerMoves
  <2>2. Due' = Due
    BY <1>4, <2>1 DEF Due
  <2>3. Due' <= Due /\ ~IsReadyAt({"clear"})'
    BY <1>2, <1>3, <2>2, DueIs DEF SoundTypes, IsReadyAt
  <2> QED BY <1>1, <1>2, <1>4, <2>3, SoundsKept DEF SpeakerMoves
<1>9. StopsForCause'
  BY <1>1, <1>2, <1>3 DEF StopsForCause, SpeakerMoves, K!EnterRegion, K!At
<1> QED BY <1>5, <1>6, <1>7, <1>8, <1>9 DEF SpeakerInv

LEMMA TestValueInv ==
  ASSUME SpeakerInv, K!TestValue, UNCHANGED <<client, asked, disturbed>>
  PROVE  SpeakerInv'
PROOF
<1>1. /\ speaker.state = "READY" /\ speaker.at = "locked" /\ ~stopped
      /\ IF soundsSem.value > 0
         THEN soundsSem' = [soundsSem EXCEPT !.value = @ - 1] /\ K!Goto("taken")
         ELSE soundsSem' = [soundsSem EXCEPT !.queued = TRUE] /\ K!Goto("queued")
      /\ SpeakerMoves
  BY DEF K!TestValue, K!At, SpeakerMoves
<1>2. SoundTypes /\ QueueAgrees /\ ListAgrees /\ SoundsAgree /\ StopsForCause
  BY DEF SpeakerInv
<1>3. soundsSem \in SoundSem /\ soundsSem.locked /\ ~soundsSem.queued
  BY <1>1, <1>2 DEF SoundTypes, QueueAgrees, IsReadyAt
<1>4. Spinning' = Spinning /\ Held = 0
  BY <1>1 DEF Spinning, SpeakerMoves, Held, IsReadyAt
<1>5. CASE soundsSem.value > 0
  <2>1. speaker' \in Pcb /\ speaker'.state = "READY" /\ speaker'.at = "taken"
    BY <1>1, <1>2, <1>5, Went DEF Where
  <2>2. /\ soundsSem' \in SoundSem /\ soundsSem'.locked /\ ~soundsSem'.queued
        /\ soundsSem'.value = soundsSem.value - 1
    BY <1>1, <1>3, <1>5 DEF SoundSem
  <2>3. Held' = 1
    BY <2>1 DEF Held, IsReadyAt
  <2>4. Due' <= Due
    BY <1>3, <1>4, <2>2, <2>3, SpinningFinite, DueIs, DueNext
  <2>5. QueueAgrees' /\ ListAgrees'
    BY <1>1, <1>2, <2>1, <2>2 DEF QueueAgrees, ListAgrees, IsReadyAt, SpeakerMoves
  <2>6. SoundsAgree'
    BY <1>1, <1>2, <2>1, <2>2, <2>4, SoundsKept DEF SpeakerMoves, IsReadyAt
  <2>7. SoundTypes'
    BY <1>1, <1>2, <2>1, <2>2 DEF SoundTypes, SpeakerMoves
  <2> QED BY <1>1, <2>5, <2>6, <2>7 DEF SpeakerInv, StopsForCause, SpeakerMoves
<1>6. CASE ~(soundsSem.value > 0)
  <2>1. speaker' \in Pcb /\ speaker'.state = "READY" /\ speaker'.at = "queued"
    BY <1>1, <1>2, <1>6, Went DEF Where
  <2>2. /\ soundsSem' \in SoundSem /\ soundsSem'.locked /\ soundsSem'.queued
        /\ soundsSem'.value = soundsSem.value
    BY <1>1, <1>3, <1>6 DEF SoundSem
  <2>3. Held' = 0
    BY <2>1 DEF Held, IsReadyAt
  <2>4. Due' <= Due
    BY <1>3, <1>4, <2>2, <2>3, SpinningFinite, DueIs, DueNext
  <2>5. QueueAgrees' /\ ListAgrees'
    BY <1>1, <1>2, <2>1, <2>2 DEF QueueAgrees, ListAgrees, IsReadyAt, SpeakerMoves
  <2>6. SoundsAgree'
    BY <1>1, <1>2, <2>1, <2>2, <2>4, SoundsKept DEF SpeakerMoves, IsReadyAt
  <2>7. SoundTypes'
    BY <1>1, <1>2, <2>1, <2>2 DEF SoundTypes, SpeakerMoves
  <2> QED BY <1>1, <2>5, <2>6, <2>7 DEF SpeakerInv, StopsForCause, SpeakerMoves
<1> QED BY <1>5, <1>6

LEMMA LeaveRegionInv ==
  ASSUME SpeakerInv, K!LeaveRegion, UNCHANGED <<client, asked, disturbed>>
  PROVE  SpeakerInv'
PROOF
<1>1. /\ speaker.state = "READY" /\ ~stopped
      /\ \/ speaker.at = "taken" /\ K!Goto("get")
         \/ speaker.at = "queued" /\ K!Goto("released")
      /\ soundsSem' = [soundsSem EXCEPT !.locked = FALSE]
      /\ SpeakerMoves
  BY DEF K!LeaveRegion, K!At, SpeakerMoves
<1>2. SoundTypes /\ QueueAgrees /\ ListAgrees /\ SoundsAgree /\ StopsForCause
  BY DEF SpeakerInv
<1>3. /\ speaker' \in Pcb /\ speaker'.state = "READY"
      /\ \/ speaker.at = "taken" /\ speaker'.at = "get"
         \/ speaker.at = "queued" /\ speaker'.at = "released"
  BY <1>1, <1>2, Went DEF Where
<1>4. /\ soundsSem' \in SoundSem
      /\ soundsSem'.value = soundsSem.value /\ soundsSem'.queued = soundsSem.queued
  BY <1>1, <1>2 DEF SoundTypes, SoundSem
<1>5. Spinning' = Spinning /\ Held' = Held
  BY <1>1, <1>3 DEF Spinning, SpeakerMoves, Held, IsReadyAt
<1>6. Due' <= Due
  BY <1>2, <1>4, <1>5, SpinningFinite, DueIs, DueNext DEF SoundTypes
<1>7. QueueAgrees' /\ ListAgrees'
  BY <1>1, <1>2, <1>3, <1>4 DEF QueueAgrees, ListAgrees, IsReadyAt, SpeakerMoves
<1>8. SoundsAgree'
  BY <1>1, <1>2, <1>3, <1>4, <1>6, SoundsKept DEF SpeakerMoves, IsReadyAt
<1>9. SoundTypes'
  BY <1>1, <1>2, <1>3, <1>4 DEF SoundTypes, SpeakerMoves
<1> QED BY <1>1, <1>7, <1>8, <1>9 DEF SpeakerInv, StopsForCause, SpeakerMoves

LEMMA BlockSpeakerInv ==
  ASSUME SpeakerInv, K!BlockSpeaker, UNCHANGED <<client, asked, disturbed>>
  PROVE  SpeakerInv'
PROOF
<1>1. /\ speaker.state = "READY" /\ ~stopped
      /\ \/ speaker.at = "released" /\ speaker' = [state |-> "BLOCKED", at |-> "get"]
         \/ speaker.at = "recorded" /\ speaker' = [state |-> "BLOCKED", at |-> "played"]
      /\ soundsSem' = soundsSem
      /\ SpeakerMoves
  BY DEF K!BlockSpeaker, K!BlockAt, K!At, SpeakerMoves
<1>2. SoundTypes /\ QueueAgrees /\ ListAgrees /\ SoundsAgree /\ StopsForCause
  BY DEF SpeakerInv
<1>3. /\ speaker' \in Pcb /\ speaker'.state = "BLOCKED"
      /\ \/ speaker.at = "released" /\ speaker'.at = "get"
         \/ speaker.at = "recorded" /\ speaker'.at = "played"
  BY <1>1 DEF Pcb, Where
<1>4. Spinning' = Spinning /\ Held' = 0 /\ Held = 0 /\ soundsSem' \in SoundSem
  BY <1>1, <1>2, <1>3 DEF Spinning, SpeakerMoves, Held, IsReadyAt, SoundTypes
<1>5. Due' <= Due
  BY <1>1, <1>2, <1>4, SpinningFinite, DueIs, DueNext DEF SoundTypes
<1>6. QueueAgrees' /\ ListAgrees'
  BY <1>1, <1>2, <1>3 DEF QueueAgrees, ListAgrees, IsReadyAt, SpeakerMoves
<1>7. SoundsAgree'
  BY <1>1, <1>2, <1>3, <1>4, <1>5, SoundsKept DEF SpeakerMoves, IsReadyAt
<1>8. SoundTypes'
  BY <1>1, <1>2, <1>3, <1>4 DEF SoundTypes, SpeakerMoves
<1> QED BY <1>1, <1>6, <1>7, <1>8 DEF SpeakerInv, StopsForCause, SpeakerMoves

LEMMA TestLengthInv ==
  ASSUME SpeakerInv, K!TestLength, UNCHANGED <<client, asked, disturbed>>
  PROVE  SpeakerInv'
PROOF
<1>1. /\ speaker.state = "READY" /\ ~stopped /\ speaker.at = "played"
      /\ K!Goto(IF index = Len(sounds) THEN "clear" ELSE "wait")
      /\ soundsSem' = soundsSem
      /\ SpeakerMoves
  BY DEF K!TestLength, K!At, SpeakerMoves
<1>2. SoundTypes /\ QueueAgrees /\ ListAgrees /\ SoundsAgree /\ StopsForCause
  BY DEF SpeakerInv
<1>3. /\ speaker' \in Pcb /\ speaker'.state = "READY"
      /\ speaker'.at = IF index = Len(sounds) THEN "clear" ELSE "wait"
  BY <1>1, <1>2, Went DEF Where
<1>4. Spinning' = Spinning /\ Held' = 0 /\ Held = 0 /\ soundsSem' \in SoundSem
  BY <1>1, <1>2, <1>3 DEF Spinning, SpeakerMoves, Held, IsReadyAt, SoundTypes
<1>5. Due' <= Due
  BY <1>1, <1>2, <1>4, SpinningFinite, DueIs, DueNext DEF SoundTypes
<1>6. QueueAgrees' /\ ListAgrees'
  BY <1>1, <1>2, <1>3 DEF QueueAgrees, ListAgrees, IsReadyAt, SpeakerMoves
<1>7. SoundsAgree'
  BY <1>1, <1>2, <1>3, <1>4, <1>5, SoundsKept DEF SpeakerMoves, IsReadyAt
<1>8. SoundTypes'
  BY <1>1, <1>2, <1>3, <1>4 DEF SoundTypes, SpeakerMoves
<1> QED BY <1>1, <1>6, <1>7, <1>8 DEF SpeakerInv, StopsForCause, SpeakerMoves

LEMMA PrepareRecordInv ==
  ASSUME SpeakerInv, K!PrepareRecord, UNCHANGED <<client, asked, disturbed>>
  PROVE  SpeakerInv'
PROOF
<1>1. /\ speaker.state = "READY" /\ ~stopped /\ speaker.at = "sleep"
      /\ K!Goto("link")
      /\ auxNext' = IF sleepers = <<>> THEN K!Nobody ELSE Head(sleepers)
      /\ UNCHANGED <<soundsSem, sounds, index, asked, played, client, disturbed, sleepers, stopped>>
  BY DEF K!PrepareRecord, K!At
<1>2. SoundTypes /\ QueueAgrees /\ ListAgrees /\ SoundsAgree /\ StopsForCause
  BY DEF SpeakerInv
<1>3. /\ speaker' \in Pcb /\ speaker'.state = "READY" /\ speaker'.at = "link"
  BY <1>1, <1>2, Went DEF Where
<1>4. Spinning' = Spinning /\ Held' = 0 /\ Held = 0 /\ soundsSem' \in SoundSem
  BY <1>1, <1>2, <1>3 DEF Spinning, Held, IsReadyAt, SoundTypes
<1>5. Due' <= Due
  BY <1>1, <1>2, <1>4, SpinningFinite, DueIs, DueNext DEF SoundTypes
<1>6. QueueAgrees' /\ ListAgrees'
  BY <1>1, <1>2, <1>3 DEF QueueAgrees, ListAgrees, IsReadyAt
<1>7. SoundsAgree'
  BY <1>1, <1>2, <1>3, <1>4, <1>5, SoundsKept DEF IsReadyAt
<1>8. SoundTypes'
  <2>1. auxNext' \in Sleeper \cup {K!Nobody}
    BY <1>1, <1>2 DEF SoundTypes
  <2> QED BY <1>1, <1>2, <1>3, <1>4, <2>1 DEF SoundTypes
<1> QED BY <1>1, <1>6, <1>7, <1>8 DEF SpeakerInv, StopsForCause

\* A sound is there for the token that the speaker took.
LEMMA PlaySoundInv ==
  ASSUME SpeakerInv, K!PlaySound, UNCHANGED <<client, asked, disturbed>>
  PROVE  SpeakerInv'
PROOF
<1>1. /\ speaker.state = "READY" /\ ~stopped /\ speaker.at = "get"
      /\ IF index < Len(sounds)
         THEN /\ played' = Append(played, sounds[index + 1])
              /\ K!Goto("played") \/ K!Goto("sleep")
              /\ index' = index + 1
              /\ UNCHANGED stopped
         ELSE stopped' = TRUE /\ UNCHANGED <<index, speaker, played>>
      /\ UNCHANGED <<sounds, asked, soundsSem, auxNext, sleepers, client, disturbed>>
  BY DEF K!PlaySound, K!At
<1>2. SoundTypes /\ QueueAgrees /\ ListAgrees /\ SoundsAgree /\ StopsForCause
  BY DEF SpeakerInv
<1>3. /\ index \in Nat /\ sounds \in Seq(Nat) /\ Len(sounds) \in Nat /\ asked \in Nat
      /\ played \in Seq(Nat) /\ Len(played) \in Nat
      /\ soundsSem \in SoundSem
  BY <1>2 DEF SoundTypes
<1>4. Held = 1 /\ Due \in Nat /\ Due >= 1
  <2>1. Held = 1
    BY <1>1 DEF Held, IsReadyAt
  <2> QED BY <1>3, <2>1, DueIs, SpinningFinite
<1>5. CASE index < Len(sounds)
  <2>1. /\ speaker' \in Pcb /\ speaker'.state = "READY"
        /\ speaker'.at = "played" \/ speaker'.at = "sleep"
    BY <1>1, <1>2, <1>5, Went DEF Where
  <2>2. /\ index' = index + 1 /\ index + 1 \in 1..Len(sounds)
        /\ played' = Append(played, sounds[index + 1])
    BY <1>1, <1>3, <1>5
  <2>3. /\ sounds[index + 1] \in Nat /\ played' \in Seq(Nat) /\ Len(played') = Len(played) + 1
        /\ \A k \in 1..Len(played) : played'[k] = played[k]
        /\ played'[Len(played) + 1] = sounds[index + 1]
    BY <1>3, <2>2
  <2>4. QueueAgrees' /\ ListAgrees'
    BY <1>1, <1>2, <2>1 DEF QueueAgrees, ListAgrees, IsReadyAt
  <2>5. SoundTypes'
    BY <1>1, <1>2, <1>3, <2>1, <2>2, <2>3 DEF SoundTypes
  <2>6. ASSUME "clear" \notin disturbed
        PROVE  SoundsAgree'
    <3>1. /\ Len(played) + Len(sounds) = asked + index
          /\ \A k \in 1..Len(sounds) : sounds[k] + Len(sounds) = asked + k
          /\ \A k \in 1..Len(played) : played[k] = k
          /\ Due + index <= Len(sounds)
      BY <1>2, <2>6 DEF SoundsAgree
    <3>2. sounds[index + 1] + Len(sounds) = asked + (index + 1)
      BY <2>2, <3>1
    <3>3. sounds[index + 1] = Len(played) + 1
      BY <1>3, <2>3, <3>1, <3>2
    <3>4. Len(played') + Len(sounds') = asked' + index'
      BY <1>1, <1>3, <2>2, <2>3, <3>1
    <3>5. ASSUME NEW k \in 1..Len(played') PROVE played'[k] = k
      <4>1. CASE k = Len(played) + 1
        BY <2>3, <3>3, <4>1
      <4>2. CASE k # Len(played) + 1
        <5>1. k \in 1..Len(played)
          BY <1>3, <2>3, <4>2
        <5> QED BY <2>3, <3>1, <5>1
      <4> QED BY <4>1, <4>2
    <3>6. Due' = Due - 1
      <4>1. Held' = 0 /\ Spinning' = Spinning /\ soundsSem' = soundsSem
        BY <1>1, <2>1 DEF Held, IsReadyAt, Spinning
      <4>2. Due = soundsSem.value + Held + Cardinality(Spinning)
        BY DEF Due
      <4>3. Due' = soundsSem.value + 0 + Cardinality(Spinning)
        BY <4>1 DEF Due
      <4>4. Cardinality(Spinning) \in Nat /\ soundsSem.value \in Nat
        BY <1>3, DueIs, SpinningFinite
      <4> QED BY <1>4, <4>2, <4>3, <4>4
    <3>7. Due' + index' <= Len(sounds')
      BY <1>1, <1>3, <1>4, <2>2, <3>1, <3>6
    <3>8. index' <= Len(sounds') /\ ~IsReadyAt({"clear"})'
      BY <1>1, <1>3, <2>1, <2>2 DEF IsReadyAt
    <3> QED BY <1>1, <3>1, <3>4, <3>5, <3>7, <3>8 DEF SoundsAgree
  <2>7. SoundsAgree'
    BY <1>1, <2>6 DEF SoundsAgree
  <2> QED BY <1>1, <1>5, <2>4, <2>5, <2>7 DEF SpeakerInv, StopsForCause
<1>6. CASE ~(index < Len(sounds))
  <2>1. /\ stopped'
        /\ UNCHANGED <<index, speaker, played, sounds, asked, soundsSem, auxNext, sleepers,
                       client, disturbed>>
    BY <1>1, <1>6
  <2>2. "clear" \in disturbed
    BY <1>2, <1>3, <1>4, <1>6 DEF SoundsAgree
  <2>3. SoundTypes' /\ QueueAgrees' /\ ListAgrees'
    BY <1>2, <2>1 DEF SoundTypes, QueueAgrees, ListAgrees, IsReadyAt
  <2> QED BY <2>1, <2>2, <2>3 DEF SpeakerInv, SoundsAgree, StopsForCause
<1> QED BY <1>5, <1>6

\* The list from one of its members on, all of it from the first.
LEMMA FromFacts ==
  ASSUME sleepers \in Seq(Sleeper), IsInjective(sleepers), NEW p \in Range(sleepers)
  PROVE  LET r == SubSeq(sleepers, CHOOSE k \in DOMAIN sleepers : sleepers[k] = p, Len(sleepers)) IN
         /\ r \in Seq(Sleeper) /\ IsInjective(r) /\ Range(r) \subseteq Range(sleepers)
         /\ p = Head(sleepers) => r = sleepers
PROOF
<1> DEFINE k0 == CHOOSE k \in DOMAIN sleepers : sleepers[k] = p
<1>1. k0 \in DOMAIN sleepers /\ sleepers[k0] = p
  BY DEF Range
<1> HIDE DEF k0
<1>2. k0 \in 1..Len(sleepers) /\ Len(sleepers) \in Nat /\ DOMAIN sleepers = 1..Len(sleepers)
  BY <1>1
<1> DEFINE r == SubSeq(sleepers, k0, Len(sleepers))
<1>3. r \in Seq(Sleeper) /\ IsInjective(r) /\ Range(r) \subseteq Range(sleepers)
  <2>1. k0 - 1 \in 0..Len(sleepers) /\ (k0 - 1) + 1 = k0
    BY <1>2
  <2>2. LET q2 == SubSeq(sleepers, (k0 - 1) + 1, Len(sleepers)) IN
        q2 \in Seq(Sleeper) /\ IsInjective(q2) /\ Range(q2) \subseteq Range(sleepers)
    BY <2>1, SplitQueue
  <2> QED BY <2>1, <2>2
<1>4. ASSUME p = Head(sleepers) PROVE r = sleepers
  <2>1. 1 \in DOMAIN sleepers /\ sleepers[1] = p
    BY <1>2, <1>4
  <2>2. k0 = 1
    BY <1>1, <2>1 DEF IsInjective
  <2> QED BY <2>2, SubSeqFull
<1> QED BY <1>3, <1>4 DEF k0

LEMMA LinkRecordInv ==
  ASSUME SpeakerInv, K!LinkRecord, UNCHANGED <<client, asked, disturbed>>
  PROVE  SpeakerInv'
PROOF
<1>1. /\ speaker.state = "READY" /\ ~stopped /\ speaker.at = "link"
      /\ IF auxNext \in Range(sleepers) \cup {K!Nobody}
         THEN /\ sleepers' = <<K!Speaker>> \o K!From(auxNext)
              /\ K!Goto("recorded")
              /\ UNCHANGED stopped
         ELSE stopped' = TRUE /\ UNCHANGED <<speaker, sleepers>>
      /\ auxNext' = K!Nobody
      /\ UNCHANGED <<sounds, index, soundsSem, played, client, asked, disturbed>>
  BY DEF K!LinkRecord, K!At, K!Range, Range
<1>2. SoundTypes /\ QueueAgrees /\ ListAgrees /\ SoundsAgree /\ StopsForCause
  BY DEF SpeakerInv
<1>3. /\ sleepers \in Seq(Sleeper) /\ IsInjective(sleepers)
      /\ K!Speaker \notin Range(sleepers)
      /\ "link" \notin disturbed =>
           auxNext = IF sleepers = <<>> THEN K!Nobody ELSE Head(sleepers)
      /\ soundsSem \in SoundSem /\ speaker \in Pcb
  BY <1>1, <1>2 DEF SoundTypes, ListAgrees, IsReadyAt
<1>4. sleepers # <<>> => Head(sleepers) \in Range(sleepers)
  BY <1>3, RangeTail
<1>5. Spinning' = Spinning /\ Held = 0 /\ soundsSem' = soundsSem
  BY <1>1 DEF Spinning, Held, IsReadyAt
<1>6. CASE auxNext \in Range(sleepers) \cup {K!Nobody}
  <2> DEFINE r == K!From(auxNext)
  <2>1. /\ r \in Seq(Sleeper) /\ IsInjective(r) /\ Range(r) \subseteq Range(sleepers)
        /\ "link" \notin disturbed => r = sleepers
    <3>1. CASE auxNext = K!Nobody
      <4>1. r = <<>>
        BY <3>1 DEF K!From
      <4>2. <<>> \in Seq(Sleeper) /\ Range(<<>>) = {} /\ IsInjective(<<>>)
        BY DEF Range, IsInjective
      <4>3. "link" \notin disturbed => sleepers = <<>>
        <5>1. Head(sleepers) = K!Nobody /\ sleepers # <<>> => FALSE
          BY <1>3, ClientFacts, RangeTail
        <5> QED BY <1>3, <3>1, <5>1
      <4> QED BY <4>1, <4>2, <4>3
    <3>2. CASE auxNext \in Range(sleepers) /\ auxNext # K!Nobody
      <4>1. r = SubSeq(sleepers, CHOOSE k \in DOMAIN sleepers : sleepers[k] = auxNext,
                       Len(sleepers))
        BY <3>2 DEF K!From
      <4>2. "link" \notin disturbed => auxNext = Head(sleepers)
        BY <1>3, <3>2
      <4> QED BY <1>3, <3>2, <4>1, <4>2, FromFacts
    <3> QED BY <1>6, <3>1, <3>2
  <2> HIDE DEF r
  <2>2. /\ sleepers' \in Seq(Sleeper) /\ IsInjective(sleepers')
        /\ Range(sleepers') = Range(r) \cup {K!Speaker}
    <3>1. sleepers' = <<K!Speaker>> \o r /\ K!Speaker \in Sleeper
      BY <1>1, <1>6 DEF r, Sleeper
    <3>2. K!Speaker \notin Range(r)
      BY <1>3, <2>1
    <3> QED BY <2>1, <3>1, <3>2, RangeCons
  <2>3. speaker' \in Pcb /\ speaker'.state = "READY" /\ speaker'.at = "recorded" /\ ~stopped'
    BY <1>1, <1>2, <1>6, Went DEF Where
  <2>4. Due' <= Due
    <3>1. Held' = 0
      BY <2>3 DEF Held, IsReadyAt
    <3> QED BY <1>3, <1>5, <3>1, SpinningFinite, DueIs, DueNext
  <2>5. QueueAgrees'
    BY <1>1, <1>2, <2>3 DEF QueueAgrees, IsReadyAt
  <2>6. ListAgrees'
    BY <1>1, <1>2, <2>1, <2>2, <2>3, ClientFacts DEF ListAgrees, IsReadyAt
  <2>7. SoundsAgree'
    BY <1>1, <1>2, <1>3, <2>3, <2>4, SoundsKept DEF IsReadyAt
  <2>8. SoundTypes'
    BY <1>1, <1>2, <2>2, <2>3 DEF SoundTypes
  <2> QED BY <2>3, <2>5, <2>6, <2>7, <2>8 DEF SpeakerInv, StopsForCause
<1>7. CASE auxNext \notin Range(sleepers) \cup {K!Nobody}
  <2>1. "link" \in disturbed
    BY <1>3, <1>4, <1>7
  <2>2. /\ stopped' /\ auxNext' = K!Nobody
        /\ UNCHANGED <<speaker, sleepers, sounds, index, soundsSem, played, client, asked, disturbed>>
    BY <1>1, <1>7
  <2>3. SoundTypes' /\ QueueAgrees' /\ SoundsAgree'
    BY <1>2, <2>2 DEF SoundTypes, QueueAgrees, SoundsAgree, IsReadyAt, Due, Held, Spinning
  <2>4. ListAgrees'
    BY <1>2, <2>1, <2>2 DEF ListAgrees, IsReadyAt
  <2> QED BY <2>1, <2>2, <2>3, <2>4 DEF SpeakerInv, StopsForCause
<1> QED BY <1>6, <1>7

LEMMA ClearSoundsInv ==
  ASSUME SpeakerInv, K!ClearSounds, UNCHANGED <<client, asked, disturbed>>
  PROVE  SpeakerInv'
PROOF
<1>1. /\ speaker.state = "READY" /\ ~stopped /\ speaker.at = "clear"
      /\ K!Goto("wait")
      /\ sounds' = <<>> /\ index' = 0
      /\ UNCHANGED <<soundsSem, auxNext, sleepers, stopped, played, client, asked, disturbed>>
  BY DEF K!ClearSounds, K!At
<1>2. SoundTypes /\ QueueAgrees /\ ListAgrees /\ SoundsAgree /\ StopsForCause
  BY DEF SpeakerInv
<1>3. speaker' \in Pcb /\ speaker'.state = "READY" /\ speaker'.at = "wait"
  BY <1>1, <1>2, Went DEF Where
<1>4. <<>> \in Seq(Nat) /\ Len(<<>>) = 0
  OBVIOUS
<1>5. SoundTypes'
  BY <1>1, <1>2, <1>3, <1>4 DEF SoundTypes
<1>6. QueueAgrees' /\ ListAgrees'
  BY <1>1, <1>2, <1>3 DEF QueueAgrees, ListAgrees, IsReadyAt
<1>7. ASSUME "clear" \notin disturbed PROVE SoundsAgree'
  <2>1. /\ index = Len(sounds) /\ Len(played) + Len(sounds) = asked + index
        /\ \A k \in 1..Len(played) : played[k] = k
        /\ Due + index <= Len(sounds)
    BY <1>1, <1>2, <1>7 DEF SoundsAgree, IsReadyAt
  <2>2. /\ index \in Nat /\ Len(sounds) \in Nat /\ Len(played) \in Nat /\ asked \in Nat
        /\ soundsSem \in SoundSem
    BY <1>2 DEF SoundTypes
  <2>3. Held' = 0 /\ Held = 0 /\ Spinning' = Spinning /\ soundsSem' = soundsSem
    BY <1>1, <1>3 DEF Held, IsReadyAt, Spinning
  <2>4. Due' = Due /\ Due \in Nat
    BY <2>2, <2>3, DueIs DEF Due
  <2>5. Due' = 0 /\ Len(played) = asked
    BY <2>1, <2>2, <2>4
  <2>6. Due' + 0 <= 0 /\ 0 <= 0 /\ Len(played) + 0 = asked + 0
    BY <2>2, <2>5
  <2> QED BY <1>1, <1>3, <1>4, <2>1, <2>6 DEF SoundsAgree, IsReadyAt
<1>8. SoundsAgree'
  BY <1>1, <1>7 DEF SoundsAgree
<1> QED BY <1>1, <1>5, <1>6, <1>8 DEF SpeakerInv, StopsForCause

-----------------------------------------------------------------------------
(* The programs and the timer, which step at any place of the speaker.      *)

LEMMA DisturbFacts ==
  ASSUME NEW P, K!Disturbs(P)
  PROVE  /\ disturbed \subseteq disturbed'
         /\ speaker.at \in P /\ speaker.state = "READY" => speaker.at \in disturbed'
PROOF
BY DEF K!Disturbs

\* A post wakes the speaker, with the token, or counts it.
LEMMA PostFacts ==
  ASSUME SoundTypes, QueueAgrees, K!Post
  PROVE  /\ soundsSem' \in SoundSem /\ speaker' \in Pcb
         /\ soundsSem'.locked = soundsSem.locked /\ ~soundsSem'.queued
         /\ speaker'.at = speaker.at
         /\ \/ /\ speaker.state = "BLOCKED" /\ speaker.at = "get" /\ speaker'.state = "READY"
               /\ soundsSem'.value = soundsSem.value
            \/ /\ ~(soundsSem.queued /\ speaker.state = "BLOCKED")
               /\ \/ speaker'.state = speaker.state
                  \/ speaker.state = "W-EXIT" /\ speaker'.state = "EXITED"
               /\ soundsSem'.value = soundsSem.value + 1
         /\ soundsSem'.value + Held' = soundsSem.value + Held + 1
         /\ stopped' => K!Killed'
PROOF
<1>1. /\ soundsSem \in SoundSem /\ speaker \in Pcb
      /\ stopped' = (soundsSem.queued /\ speaker.state = "EXITED")
  BY DEF SoundTypes, K!Post
<1> DEFINE s == CASE soundsSem.queued /\ speaker.state = "BLOCKED" -> "READY"
                  [] soundsSem.queued /\ speaker.state = "W-EXIT" -> "EXITED"
                  [] OTHER -> speaker.state
           v == IF soundsSem.queued /\ speaker.state = "BLOCKED"
                THEN soundsSem.value ELSE soundsSem.value + 1
<1>2. speaker' = [speaker EXCEPT !.state = s]
  BY DEF K!Post
<1>3. soundsSem' = [soundsSem EXCEPT !.queued = FALSE, !.value = v]
  BY DEF K!Post
<1>4. s \in {"READY", "BLOCKED", "W-EXIT", "EXITED"} /\ v \in Nat /\ soundsSem.value \in Nat
  BY <1>1 DEF Pcb, SoundSem
<1>5. speaker.state = "BLOCKED" /\ soundsSem.queued => speaker.at = "get"
  BY DEF QueueAgrees
<1>6. /\ \/ soundsSem.queued /\ speaker.state = "BLOCKED" /\ s = "READY" /\ v = soundsSem.value
         \/ /\ ~(soundsSem.queued /\ speaker.state = "BLOCKED")
            /\ s = speaker.state \/ (speaker.state = "W-EXIT" /\ s = "EXITED")
            /\ v = soundsSem.value + 1
  OBVIOUS
<1> HIDE DEF s, v
<1>7. speaker' \in Pcb /\ speaker'.at = speaker.at /\ speaker'.state = s
  BY <1>1, <1>2, <1>4 DEF Pcb
<1>8. /\ soundsSem' \in SoundSem /\ soundsSem'.locked = soundsSem.locked
      /\ soundsSem'.queued = FALSE /\ soundsSem'.value = v
  BY <1>1, <1>3, <1>4 DEF SoundSem
<1>9. soundsSem'.value + Held' = soundsSem.value + Held + 1
  <2>1. CASE soundsSem.queued /\ speaker.state = "BLOCKED"
    <3>1. Held = 0 /\ Held' = 1 /\ v = soundsSem.value
      BY <1>5, <1>6, <1>7, <2>1 DEF Held, IsReadyAt
    <3> QED BY <1>4, <1>8, <3>1
  <2>2. CASE ~(soundsSem.queued /\ speaker.state = "BLOCKED")
    <3>1. Held' = Held /\ v = soundsSem.value + 1 /\ Held \in {0, 1}
      BY <1>6, <1>7, <2>2 DEF Held, IsReadyAt
    <3> QED BY <1>4, <1>8, <3>1
  <2> QED BY <2>1, <2>2
<1>10. stopped' => K!Killed'
  <2>1. stopped' => speaker.state = "EXITED"
    BY <1>1
  <2>2. speaker.state = "EXITED" => speaker'.state = "EXITED"
    BY <1>6, <1>7
  <2> QED BY <2>1, <2>2 DEF K!Killed
<1> QED BY <1>5, <1>6, <1>7, <1>8, <1>9, <1>10

\* After a post nobody is in the queue.
LEMMA PostedAgrees ==
  ASSUME SoundTypes, QueueAgrees, ListAgrees, K!LockFree, K!Post,
         disturbed \subseteq disturbed',
         IsReadyAt({"released"}) => "released" \in disturbed',
         UNCHANGED <<auxNext, sleepers>>,
         \A c \in Clients : client[c] = "sleeps" <=> client'[c] = "sleeps"
  PROVE  QueueAgrees' /\ ListAgrees'
PROOF
<1>1. /\ ~soundsSem.locked /\ ~soundsSem'.queued
      /\ speaker'.at = speaker.at
      /\ \/ speaker.state = "BLOCKED" /\ speaker.at = "get" /\ speaker'.state = "READY"
         \/ /\ ~(soundsSem.queued /\ speaker.state = "BLOCKED")
            /\ \/ speaker'.state = speaker.state
               \/ speaker.state = "W-EXIT" /\ speaker'.state = "EXITED"
  BY PostFacts DEF K!LockFree
<1>2. ~IsReadyAt({"locked", "taken", "queued"})
  BY <1>1 DEF QueueAgrees
<1>3. QueueAgrees'
  BY <1>1, <1>2 DEF QueueAgrees, IsReadyAt
<1>4. ListAgrees'
  BY <1>1 DEF ListAgrees, IsReadyAt
<1> QED BY <1>3, <1>4

\* A sound comes with a token, posted at once or owed by the program that spins.
LEMMA PlaySoundForCertainMsInv ==
  ASSUME SpeakerInv, NEW c \in Clients, K!PlaySoundForCertainMs(c)
  PROVE  SpeakerInv'
PROOF
<1>1. /\ ~stopped /\ client[c] = "out"
      /\ asked' = asked + 1 /\ sounds' = Append(sounds, asked + 1)
      /\ IF K!LockFree
         THEN K!Post /\ UNCHANGED client
         ELSE /\ client' = [client EXCEPT ![c] = "spins"]
              /\ UNCHANGED <<soundsSem, speaker, stopped>>
      /\ K!Disturbs({"clear", "released"})
      /\ UNCHANGED <<index, auxNext, sleepers, played>>
  BY DEF K!PlaySoundForCertainMs
<1>2. SoundTypes /\ QueueAgrees /\ ListAgrees /\ SoundsAgree /\ StopsForCause
  BY DEF SpeakerInv
<1>3. /\ index \in Nat /\ sounds \in Seq(Nat) /\ Len(sounds) \in Nat /\ asked \in Nat
      /\ played \in Seq(Nat) /\ Len(played) \in Nat
      /\ soundsSem \in SoundSem
      /\ client \in [Clients -> {"out", "spins", "sleeps", "killed"}]
  BY <1>2 DEF SoundTypes
<1>4. /\ disturbed \subseteq disturbed'
      /\ IsReadyAt({"clear"}) => "clear" \in disturbed'
      /\ IsReadyAt({"released"}) => "released" \in disturbed'
  BY <1>1, DisturbFacts DEF IsReadyAt
<1>5. /\ asked' \in Nat /\ sounds' \in Seq(Nat) /\ Len(sounds') = Len(sounds) + 1
      /\ \A k \in 1..Len(sounds) : sounds'[k] = sounds[k]
      /\ sounds'[Len(sounds) + 1] = asked + 1
  BY <1>1, <1>3
<1>6. /\ soundsSem' \in SoundSem /\ QueueAgrees' /\ ListAgrees' /\ SoundTypes'
      /\ stopped' => K!Killed'
      /\ Due' = Due + 1
      /\ IsReadyAt({"clear"})' => IsReadyAt({"clear"})
  <2>1. CASE K!LockFree
    <3>1. K!Post /\ client' = client
      BY <1>1, <2>1
    <3>2. /\ soundsSem' \in SoundSem /\ speaker' \in Pcb
          /\ soundsSem'.value + Held' = soundsSem.value + Held + 1
          /\ stopped' => K!Killed'
          /\ speaker'.at = speaker.at
          /\ \/ speaker.at = "get"
             \/ speaker'.state = speaker.state
             \/ speaker'.state = "EXITED"
      BY <1>2, <3>1, PostFacts
    <3>3. QueueAgrees' /\ ListAgrees'
      BY <1>1, <1>2, <1>4, <2>1, <3>1, PostedAgrees
    <3>4. SoundTypes'
      BY <1>1, <1>2, <1>5, <3>1, <3>2 DEF SoundTypes
    <3>5. Due' = Due + 1
      <4>1. Spinning' = Spinning
        BY <3>1 DEF Spinning
      <4>2. /\ Due = soundsSem.value + Held + Cardinality(Spinning)
            /\ Due' = soundsSem'.value + Held' + Cardinality(Spinning)
        BY <4>1 DEF Due
      <4>3. Cardinality(Spinning) \in Nat
        BY SpinningFinite
      <4>4. soundsSem.value \in Nat /\ Held \in Nat
        BY <1>3, DueIs
      <4>5. soundsSem' \in SoundSem
        BY <3>2
      <4>6. soundsSem'.value \in Nat /\ Held' \in Nat
        BY <4>5, DueNext
      <4>7. soundsSem'.value + Held' = soundsSem.value + Held + 1
        BY <3>2
      <4> QED BY <4>2, <4>3, <4>4, <4>6, <4>7
    <3> QED BY <3>2, <3>3, <3>4, <3>5 DEF IsReadyAt
  <2>2. CASE ~K!LockFree
    <3>1. /\ client' = [client EXCEPT ![c] = "spins"]
          /\ UNCHANGED <<soundsSem, speaker, stopped>>
      BY <1>1, <2>2
    <3>2. /\ client' \in [Clients -> {"out", "spins", "sleeps", "killed"}]
          /\ client'[c] = "spins" /\ \A d \in Clients \ {c} : client'[d] = client[d]
      BY <1>3, <3>1
    <3>3. QueueAgrees'
      BY <1>2, <1>4, <3>1 DEF QueueAgrees, IsReadyAt
    <3>4. ListAgrees'
      BY <1>1, <1>2, <1>4, <3>1, <3>2 DEF ListAgrees, IsReadyAt
    <3>5. SoundTypes'
      BY <1>1, <1>2, <1>5, <3>1, <3>2 DEF SoundTypes
    <3>6. Due' = Due + 1
      <4>1. Spinning' = Spinning \cup {c} /\ c \notin Spinning
        BY <1>1, <3>2 DEF Spinning
      <4>2. Cardinality(Spinning') = Cardinality(Spinning) + 1
        BY <4>1, SpinningFinite, FS_AddElement
      <4>3. Held' = Held
        BY <3>1 DEF Held, IsReadyAt
      <4>4. /\ Due = soundsSem.value + Held + Cardinality(Spinning)
            /\ Due' = soundsSem.value + Held + (Cardinality(Spinning) + 1)
        BY <3>1, <4>2, <4>3 DEF Due
      <4>5. Cardinality(Spinning) \in Nat /\ soundsSem.value \in Nat /\ Held \in Nat
        BY <1>3, DueIs, SpinningFinite
      <4> QED BY <4>4, <4>5
    <3>7. soundsSem' \in SoundSem /\ (IsReadyAt({"clear"})' => IsReadyAt({"clear"}))
      BY <1>3, <3>1 DEF IsReadyAt
    <3> QED BY <1>1, <3>1, <3>3, <3>4, <3>5, <3>6, <3>7
  <2> QED BY <2>1, <2>2
<1>7. ASSUME "clear" \notin disturbed' PROVE SoundsAgree'
  <2>1. /\ index <= Len(sounds)
        /\ Len(played) + Len(sounds) = asked + index
        /\ \A k \in 1..Len(sounds) : sounds[k] + Len(sounds) = asked + k
        /\ \A k \in 1..Len(played) : played[k] = k
        /\ Due + index <= Len(sounds)
    BY <1>2, <1>4, <1>7 DEF SoundsAgree
  <2>2. index' <= Len(sounds') /\ Len(played') + Len(sounds') = asked' + index'
    BY <1>1, <1>3, <1>5, <2>1
  <2>3. ASSUME NEW k \in 1..Len(sounds') PROVE sounds'[k] + Len(sounds') = asked' + k
    <3>1. CASE k = Len(sounds) + 1
      <4>1. sounds'[k] = asked + 1
        BY <1>5, <3>1
      <4> QED BY <1>1, <1>3, <1>5, <3>1, <4>1
    <3>2. CASE k # Len(sounds) + 1
      <4>1. k \in 1..Len(sounds)
        BY <1>3, <1>5, <3>2
      <4>2. sounds'[k] = sounds[k] /\ sounds[k] \in Nat
        BY <1>3, <1>5, <4>1
      <4>3. sounds[k] + Len(sounds) = asked + k
        BY <2>1, <4>1
      <4>4. Len(sounds') = Len(sounds) + 1 /\ asked' = asked + 1
        BY <1>1, <1>5
      <4>5. k \in Nat /\ Len(sounds) \in Nat /\ asked \in Nat
        BY <1>3, <4>1
      <4>6. sounds[k] + (Len(sounds) + 1) = (asked + 1) + k
        BY <4>2, <4>3, <4>5
      <4> QED BY <4>2, <4>4, <4>6
    <3> QED BY <3>1, <3>2
  <2>4. Due' + index' <= Len(sounds')
    <3>1. Due \in Nat
      BY <1>3, DueIs
    <3> QED BY <1>1, <1>3, <1>5, <1>6, <2>1, <3>1
  <2>5. ~IsReadyAt({"clear"})'
    BY <1>4, <1>6, <1>7
  <2>6. \A k \in 1..Len(played') : played'[k] = k
    BY <1>1, <2>1
  <2> QED BY <2>2, <2>3, <2>4, <2>5, <2>6 DEF SoundsAgree
<1>8. SoundsAgree'
  BY <1>7 DEF SoundsAgree
<1> QED BY <1>6, <1>8 DEF SpeakerInv, StopsForCause

\* The token that was owed is posted.
LEMMA StopSpinningInv ==
  ASSUME SpeakerInv, NEW c \in Clients, K!StopSpinning(c)
  PROVE  SpeakerInv'
PROOF
<1>1. /\ ~stopped /\ client[c] = "spins" /\ K!LockFree /\ K!Post
      /\ client' = [client EXCEPT ![c] = "out"]
      /\ K!Disturbs({"released"})
      /\ UNCHANGED <<sounds, index, auxNext, sleepers, asked, played>>
  BY DEF K!StopSpinning
<1>2. SoundTypes /\ QueueAgrees /\ ListAgrees /\ SoundsAgree /\ StopsForCause
  BY DEF SpeakerInv
<1>3. /\ soundsSem \in SoundSem
      /\ client \in [Clients -> {"out", "spins", "sleeps", "killed"}]
  BY <1>2 DEF SoundTypes
<1>4. /\ client' \in [Clients -> {"out", "spins", "sleeps", "killed"}]
      /\ client'[c] = "out" /\ \A d \in Clients \ {c} : client'[d] = client[d]
  BY <1>1, <1>3
<1>5. /\ disturbed \subseteq disturbed'
      /\ IsReadyAt({"released"}) => "released" \in disturbed'
  BY <1>1, DisturbFacts DEF IsReadyAt
<1>6. /\ soundsSem' \in SoundSem /\ speaker' \in Pcb
      /\ soundsSem'.value + Held' = soundsSem.value + Held + 1
      /\ stopped' => K!Killed'
      /\ speaker'.at = speaker.at
      /\ \/ speaker.at = "get"
         \/ speaker'.state = speaker.state
         \/ speaker'.state = "EXITED"
  BY <1>1, <1>2, PostFacts
<1>7. QueueAgrees' /\ ListAgrees'
  <2>1. \A d \in Clients : client[d] = "sleeps" <=> client'[d] = "sleeps"
    BY <1>1, <1>4
  <2> QED BY <1>1, <1>2, <1>5, <2>1, PostedAgrees
<1>8. SoundTypes'
  BY <1>1, <1>2, <1>4, <1>6 DEF SoundTypes
<1>9. Due' <= Due
  <2>1. Spinning' = Spinning \ {c} /\ c \in Spinning
    BY <1>1, <1>4 DEF Spinning
  <2>2. Cardinality(Spinning') = Cardinality(Spinning) - 1
    BY <2>1, SpinningFinite, FS_RemoveElement
  <2>3. /\ Due = soundsSem.value + Held + Cardinality(Spinning)
        /\ Due' = soundsSem'.value + Held' + (Cardinality(Spinning) - 1)
    BY <2>2 DEF Due
  <2>4. /\ Cardinality(Spinning) \in Nat /\ soundsSem.value \in Nat /\ Held \in Nat
        /\ soundsSem'.value \in Nat /\ Held' \in Nat
    BY <1>3, <1>6, DueIs, DueNext, SpinningFinite
  <2> QED BY <1>6, <2>3, <2>4
<1>10. SoundsAgree'
  <2>1. IsReadyAt({"clear"})' => IsReadyAt({"clear"})
    BY <1>6 DEF IsReadyAt
  <2> QED BY <1>1, <1>2, <1>5, <1>6, <1>9, <2>1, SoundsKept
<1> QED BY <1>6, <1>7, <1>8, <1>10 DEF SpeakerInv, StopsForCause

\* A program that sleeps is put first in the list.
LEMMA SleepInv ==
  ASSUME SpeakerInv, NEW c \in Clients, K!Sleep(c)
  PROVE  SpeakerInv'
PROOF
<1>1. /\ ~stopped /\ client[c] = "out"
      /\ sleepers' = <<c>> \o sleepers
      /\ client' = [client EXCEPT ![c] = "sleeps"]
      /\ K!Disturbs({"link"})
      /\ UNCHANGED <<sounds, index, soundsSem, speaker, auxNext, stopped, asked, played>>
  BY DEF K!Sleep
<1>2. SoundTypes /\ QueueAgrees /\ ListAgrees /\ SoundsAgree /\ StopsForCause
  BY DEF SpeakerInv
<1>3. /\ soundsSem \in SoundSem /\ sleepers \in Seq(Sleeper) /\ IsInjective(sleepers)
      /\ client \in [Clients -> {"out", "spins", "sleeps", "killed"}]
  BY <1>2 DEF SoundTypes
<1>4. /\ client' \in [Clients -> {"out", "spins", "sleeps", "killed"}]
      /\ client'[c] = "sleeps" /\ \A d \in Clients \ {c} : client'[d] = client[d]
  BY <1>1, <1>3
<1>5. /\ disturbed \subseteq disturbed'
      /\ IsReadyAt({"link"}) => "link" \in disturbed'
  BY <1>1, DisturbFacts DEF IsReadyAt
<1>6. /\ sleepers' \in Seq(Sleeper) /\ IsInjective(sleepers')
      /\ Range(sleepers') = Range(sleepers) \cup {c}
  <2>1. c \notin Range(sleepers)
    BY <1>1, <1>2 DEF ListAgrees
  <2>2. c \in Sleeper
    BY DEF Sleeper
  <2> QED BY <1>1, <1>3, <2>1, <2>2, RangeCons
<1>7. QueueAgrees'
  BY <1>1, <1>2, <1>5 DEF QueueAgrees, IsReadyAt
<1>8. ListAgrees'
  BY <1>1, <1>2, <1>4, <1>5, <1>6, ClientFacts DEF ListAgrees, IsReadyAt
<1>9. SoundTypes'
  BY <1>1, <1>2, <1>4, <1>6 DEF SoundTypes
<1>10. SoundsAgree'
  <2>1. Spinning' = Spinning /\ Held' = Held /\ soundsSem' = soundsSem
    BY <1>1, <1>4 DEF Spinning, Held, IsReadyAt
  <2>2. Due' = Due /\ Due \in Nat
    BY <1>3, <2>1, DueIs DEF Due
  <2>3. Due' <= Due
    BY <2>2
  <2>4. IsReadyAt({"clear"})' => IsReadyAt({"clear"})
    BY <1>1 DEF IsReadyAt
  <2> QED BY <1>1, <1>2, <1>3, <1>5, <2>3, <2>4, SoundsKept
<1> QED BY <1>1, <1>7, <1>8, <1>9, <1>10 DEF SpeakerInv, StopsForCause

\* A killed speaker leaves its place in the queue and in the list to others.
LEMMA KillSpeakerInv ==
  ASSUME SpeakerInv, K!KillSpeaker
  PROVE  SpeakerInv'
PROOF
<1>1. /\ ~stopped /\ speaker.state \in {"READY", "BLOCKED"}
      /\ speaker' = [speaker EXCEPT
                       !.state = IF speaker.state = "BLOCKED" THEN "W-EXIT" ELSE "EXITED"]
      /\ UNCHANGED <<sounds, index, soundsSem, auxNext, client, sleepers, stopped, asked,
                     played, disturbed>>
  BY DEF K!KillSpeaker
<1>2. SoundTypes /\ QueueAgrees /\ ListAgrees /\ SoundsAgree /\ StopsForCause
  BY DEF SpeakerInv
<1>3. speaker \in Pcb /\ soundsSem \in SoundSem
  BY <1>2 DEF SoundTypes
<1>4. /\ speaker' \in Pcb /\ speaker'.at = speaker.at
      /\ speaker.state = "BLOCKED" => speaker'.state = "W-EXIT"
      /\ speaker.state # "BLOCKED" => speaker'.state = "EXITED"
  BY <1>1, <1>3 DEF Pcb
<1>5. QueueAgrees'
  BY <1>1, <1>2, <1>4 DEF QueueAgrees, IsReadyAt
<1>6. ListAgrees'
  BY <1>1, <1>2, <1>4 DEF ListAgrees, IsReadyAt
<1>7. SoundTypes'
  BY <1>1, <1>2, <1>4 DEF SoundTypes
<1>8. SoundsAgree'
  <2>1. Spinning' = Spinning /\ Held' = 0 /\ soundsSem' = soundsSem
    BY <1>1, <1>4 DEF Spinning, Held, IsReadyAt
  <2>2. Due' <= Due
    <3>1. /\ Due = soundsSem.value + Held + Cardinality(Spinning)
          /\ Due' = soundsSem.value + 0 + Cardinality(Spinning)
      BY <2>1 DEF Due
    <3>2. Cardinality(Spinning) \in Nat /\ soundsSem.value \in Nat /\ Held \in Nat
      BY <1>3, DueIs, SpinningFinite
    <3> QED BY <3>1, <3>2
  <2>3. ~IsReadyAt({"clear"})'
    BY <1>4 DEF IsReadyAt
  <2> QED BY <1>1, <1>2, <1>3, <2>2, <2>3, SoundsKept
<1> QED BY <1>1, <1>5, <1>6, <1>7, <1>8 DEF SpeakerInv, StopsForCause

\* The token of a killed program is never posted.
LEMMA KillSpinningInv ==
  ASSUME SpeakerInv, NEW c \in Clients, K!KillSpinning(c)
  PROVE  SpeakerInv'
PROOF
<1>1. /\ ~stopped /\ client[c] = "spins"
      /\ client' = [client EXCEPT ![c] = "killed"]
      /\ UNCHANGED <<sounds, index, soundsSem, speaker, auxNext, sleepers, stopped, asked,
                     played, disturbed>>
  BY DEF K!KillSpinning
<1>2. SoundTypes /\ QueueAgrees /\ ListAgrees /\ SoundsAgree /\ StopsForCause
  BY DEF SpeakerInv
<1>3. /\ soundsSem \in SoundSem
      /\ client \in [Clients -> {"out", "spins", "sleeps", "killed"}]
  BY <1>2 DEF SoundTypes
<1>4. /\ client' \in [Clients -> {"out", "spins", "sleeps", "killed"}]
      /\ client'[c] = "killed" /\ \A d \in Clients \ {c} : client'[d] = client[d]
  BY <1>1, <1>3
<1>5. QueueAgrees'
  BY <1>1, <1>2 DEF QueueAgrees, IsReadyAt
<1>6. ListAgrees'
  BY <1>1, <1>2, <1>4 DEF ListAgrees, IsReadyAt
<1>7. SoundTypes'
  BY <1>1, <1>2, <1>4 DEF SoundTypes
<1>8. SoundsAgree'
  <2>1. Spinning' = Spinning \ {c} /\ c \in Spinning
    BY <1>1, <1>4 DEF Spinning
  <2>2. Cardinality(Spinning') = Cardinality(Spinning) - 1
    BY <2>1, SpinningFinite, FS_RemoveElement
  <2>3. Held' = Held
    BY <1>1 DEF Held, IsReadyAt
  <2>4. /\ Due = soundsSem.value + Held + Cardinality(Spinning)
        /\ Due' = soundsSem.value + Held + (Cardinality(Spinning) - 1)
    BY <1>1, <2>2, <2>3 DEF Due
  <2>5. Cardinality(Spinning) \in Nat /\ soundsSem.value \in Nat /\ Held \in Nat
    BY <1>3, DueIs, SpinningFinite
  <2>6. Due' <= Due
    BY <2>4, <2>5
  <2>7. IsReadyAt({"clear"})' => IsReadyAt({"clear"})
    BY <1>1 DEF IsReadyAt
  <2> QED BY <1>1, <1>2, <1>3, <2>6, <2>7, SoundsKept
<1> QED BY <1>1, <1>5, <1>6, <1>7, <1>8 DEF SpeakerInv, StopsForCause

\* What stays in the list when some are woken, in the order it was.
LEMMA WakenFacts ==
  ASSUME sleepers \in Seq(Sleeper), IsInjective(sleepers), NEW ended,
         NEW r, r = K!AtPlaces(sleepers, {k \in DOMAIN sleepers : sleepers[k] \notin ended})
  PROVE  /\ r \in Seq(Sleeper) /\ IsInjective(r)
         /\ Range(r) = Range(sleepers) \ ended
         /\ sleepers # <<>> /\ Head(sleepers) \notin ended
              => r # <<>> /\ Head(r) = Head(sleepers)
PROOF
<1> DEFINE P == {k \in DOMAIN sleepers : sleepers[k] \notin ended}
<1>1. r = AtPlaces(sleepers, P)
  BY DEF K!AtPlaces, K!Nth, K!Rank, K!Cardinality, AtPlaces, Nth, Rank, Cardinality
<1>2. P \in SUBSET (DOMAIN sleepers) /\ \A k \in P : sleepers[k] \notin ended
  OBVIOUS
<1>3. \A k \in DOMAIN sleepers : sleepers[k] \notin ended => k \in P
  OBVIOUS
<1> HIDE DEF P
<1>4. /\ r \in Seq(Sleeper) /\ Len(r) = Cardinality(P)
      /\ Range(r) = {sleepers[k] : k \in P}
      /\ IsInjective(r)
      /\ \A m, n \in DOMAIN r :
           m < n => \E k, l \in P : k < l /\ r[m] = sleepers[k] /\ r[n] = sleepers[l]
  <2>1. /\ AtPlaces(sleepers, P) \in Seq(Sleeper)
        /\ Len(AtPlaces(sleepers, P)) = Cardinality(P)
        /\ Range(AtPlaces(sleepers, P)) = {sleepers[k] : k \in P}
        /\ IsInjective(sleepers) => IsInjective(AtPlaces(sleepers, P))
        /\ \A m, n \in DOMAIN AtPlaces(sleepers, P) :
             m < n => \E k, l \in P : /\ k < l /\ AtPlaces(sleepers, P)[m] = sleepers[k]
                                      /\ AtPlaces(sleepers, P)[n] = sleepers[l]
    BY <1>2, AtPlacesFacts
  <2>2. /\ r \in Seq(Sleeper) /\ Len(r) = Cardinality(P)
        /\ Range(r) = {sleepers[k] : k \in P}
    BY <1>1, <2>1, Zenon
  <2>3. IsInjective(r)
    BY <1>1, <2>1, Zenon
  <2>4. ASSUME NEW m \in DOMAIN r, NEW n \in DOMAIN r, m < n
        PROVE  \E k, l \in P : k < l /\ r[m] = sleepers[k] /\ r[n] = sleepers[l]
    <3>1. m \in DOMAIN AtPlaces(sleepers, P) /\ n \in DOMAIN AtPlaces(sleepers, P)
      BY <1>1, Zenon
    <3>2. PICK k \in P, l \in P : /\ k < l /\ AtPlaces(sleepers, P)[m] = sleepers[k]
                                /\ AtPlaces(sleepers, P)[n] = sleepers[l]
      BY <2>1, <2>4, <3>1, Zenon
    <3> QED BY <1>1, <3>2, Zenon
  <2> QED BY <2>2, <2>3, <2>4
<1>5. Range(r) = Range(sleepers) \ ended
  <2>1. DOMAIN sleepers = 1..Len(sleepers)
    OBVIOUS
  <2>2. ASSUME NEW x \in Range(sleepers) \ ended PROVE x \in Range(r)
    <3>1. PICK k \in DOMAIN sleepers : sleepers[k] = x
      BY DEF Range
    <3>2. k \in P
      BY <1>3, <3>1
    <3> QED BY <1>4, <3>1, <3>2
  <2>3. ASSUME NEW x \in Range(r) PROVE x \in Range(sleepers) \ ended
    <3>1. PICK k \in P : sleepers[k] = x
      BY <1>4
    <3> QED BY <1>2, <3>1 DEF Range
  <2> QED BY <2>2, <2>3
<1>6. ASSUME sleepers # <<>>, Head(sleepers) \notin ended
      PROVE  r # <<>> /\ Head(r) = Head(sleepers)
  <2>1. /\ 1 \in DOMAIN sleepers /\ Head(sleepers) = sleepers[1]
        /\ \A k \in DOMAIN sleepers : k \in Nat /\ k >= 1
    BY <1>6
  <2>2. Head(sleepers) \in Range(r)
    BY <1>5, <1>6, <2>1 DEF Range
  <2>3. PICK j1 \in DOMAIN r : r[j1] = Head(sleepers)
    BY <2>2 DEF Range
  <2>4. /\ DOMAIN r = 1..Len(r) /\ Len(r) \in Nat /\ 1 \in DOMAIN r /\ j1 \in Nat /\ j1 >= 1
        /\ r # <<>> /\ Head(r) = r[1]
    BY <1>4, <2>3
  <2>5. ASSUME j1 # 1 PROVE FALSE
    <3>1. 1 < j1
      BY <2>4, <2>5
    <3>2. PICK k, l \in P : k < l /\ r[1] = sleepers[k] /\ r[j1] = sleepers[l]
      BY <1>4, <2>3, <2>4, <3>1
    <3>3. k \in DOMAIN sleepers /\ l \in DOMAIN sleepers /\ sleepers[l] = sleepers[1]
      BY <1>2, <2>1, <2>3, <3>2
    <3>4. l = 1
      BY <2>1, <3>3 DEF IsInjective
    <3>5. k \in Nat /\ k >= 1 /\ k < 1
      BY <2>1, <3>2, <3>3, <3>4
    <3> QED BY <3>5
  <2> QED BY <2>3, <2>4, <2>5
<1> QED BY <1>4, <1>5, <1>6

\* Those whose time is over are woken; the record that the speaker is making
\* is of the list no more if it was of one of them.
LEMMA TickInv ==
  ASSUME SpeakerInv, NEW ended \in SUBSET Sleeper, K!Tick(ended)
  PROVE  SpeakerInv'
PROOF
<1> DEFINE stuck == K!Speaker \in Range(sleepers) /\ speaker.state \in {"READY", "EXITED"}
<1>1. /\ ~stopped /\ ended # {} /\ ended \subseteq Range(sleepers)
      /\ K!Speaker \in Range(sleepers) /\ speaker.state = "W-EXIT" => K!Speaker \in ended
      /\ IF stuck
         THEN stopped' = TRUE /\ UNCHANGED <<speaker, client, sleepers>>
         ELSE /\ sleepers' = K!AtPlaces(sleepers,
                               {k \in DOMAIN sleepers : sleepers[k] \notin ended})
              /\ client' = [c \in Clients |-> IF c \in ended THEN "out" ELSE client[c]]
              /\ speaker' = [speaker EXCEPT !.state =
                   IF K!Speaker \notin ended THEN speaker.state
                   ELSE IF speaker.state = "BLOCKED" THEN "READY" ELSE "EXITED"]
              /\ UNCHANGED stopped
      /\ K!Disturbs(IF auxNext \in ended THEN {"link"} ELSE {"recorded"})
      /\ UNCHANGED <<sounds, index, soundsSem, auxNext, asked, played>>
  BY DEF K!Tick, K!Range, Range
<1> HIDE DEF stuck
<1>2. SoundTypes /\ QueueAgrees /\ ListAgrees /\ SoundsAgree /\ StopsForCause
  BY DEF SpeakerInv
<1>3. /\ soundsSem \in SoundSem /\ speaker \in Pcb
      /\ sleepers \in Seq(Sleeper) /\ IsInjective(sleepers)
      /\ client \in [Clients -> {"out", "spins", "sleeps", "killed"}]
  BY <1>2 DEF SoundTypes
<1>4. /\ disturbed \subseteq disturbed'
      /\ auxNext \in ended /\ IsReadyAt({"link"}) => "link" \in disturbed'
      /\ auxNext \notin ended /\ IsReadyAt({"recorded"}) => "recorded" \in disturbed'
  BY <1>1, DisturbFacts DEF IsReadyAt
<1>5. CASE stuck
  <2>1. /\ stopped' /\ K!Speaker \in Range(sleepers)
        /\ UNCHANGED <<speaker, client, sleepers, sounds, index, soundsSem, auxNext, asked, played>>
    BY <1>1, <1>5 DEF stuck
  <2>2. StopsForCause'
    <3>1. CASE speaker.state = "EXITED"
      BY <2>1, <3>1 DEF StopsForCause, K!Killed
    <3>2. CASE speaker.state = "READY"
      <4>1. IsReadyAt({"recorded"}) /\ auxNext = K!Nobody
        BY <1>2, <2>1, <3>2 DEF ListAgrees, IsReadyAt
      <4>2. auxNext \notin ended
        BY <4>1, ClientFacts
      <4> QED BY <1>4, <4>1, <4>2 DEF StopsForCause
    <3> QED BY <1>5, <3>1, <3>2 DEF stuck
  <2>3. SoundTypes' /\ QueueAgrees' /\ ListAgrees'
    BY <1>2, <1>4, <2>1 DEF SoundTypes, QueueAgrees, ListAgrees, IsReadyAt
  <2>4. SoundsAgree'
    BY <1>2, <1>4, <2>1 DEF SoundsAgree, IsReadyAt, Due, Held, Spinning
  <2> QED BY <2>2, <2>3, <2>4 DEF SpeakerInv
<1>6. CASE ~stuck
  <2>1. /\ sleepers' \in Seq(Sleeper) /\ IsInjective(sleepers')
        /\ Range(sleepers') = Range(sleepers) \ ended
        /\ sleepers # <<>> /\ Head(sleepers) \notin ended
             => sleepers' # <<>> /\ Head(sleepers') = Head(sleepers)
    BY <1>1, <1>3, <1>6, WakenFacts
  <2>2. /\ client' \in [Clients -> {"out", "spins", "sleeps", "killed"}]
        /\ \A c \in Clients : client'[c] = IF c \in ended THEN "out" ELSE client[c]
    <3>1. client' = [c \in Clients |-> IF c \in ended THEN "out" ELSE client[c]]
      BY <1>1, <1>6
    <3> QED BY <1>3, <3>1
  <2>3. \A c \in Clients : c \in ended => client[c] = "sleeps"
    BY <1>1, <1>2 DEF ListAgrees
  <2>4. /\ speaker' \in Pcb /\ speaker'.at = speaker.at
        /\ K!Speaker \notin ended => speaker'.state = speaker.state
        /\ K!Speaker \in ended =>
             /\ speaker.at = "played" /\ speaker.state \in {"BLOCKED", "W-EXIT"}
             /\ speaker'.state \in {"READY", "EXITED"}
    <3>1. speaker' = [speaker EXCEPT !.state =
                   IF K!Speaker \notin ended THEN speaker.state
                   ELSE IF speaker.state = "BLOCKED" THEN "READY" ELSE "EXITED"]
      BY <1>1, <1>6
    <3>2. /\ speaker' \in Pcb /\ speaker'.at = speaker.at
          /\ K!Speaker \notin ended => speaker'.state = speaker.state
          /\ K!Speaker \in ended => speaker'.state \in {"READY", "EXITED"}
      BY <1>3, <3>1 DEF Pcb
    <3>3. ASSUME K!Speaker \in ended
          PROVE  speaker.at = "played" /\ speaker.state \in {"BLOCKED", "W-EXIT"}
      <4>1. speaker.state \in {"BLOCKED", "W-EXIT"}
        BY <1>1, <1>3, <1>6, <3>3 DEF stuck, Pcb
      <4>2. speaker.at \in {"get", "played"}
        BY <1>2, <4>1 DEF QueueAgrees
      <4>3. speaker.at \in {"recorded", "played"}
        BY <1>1, <1>2, <3>3 DEF ListAgrees
      <4> QED BY <4>1, <4>2, <4>3
    <3> QED BY <3>2, <3>3
  <2>5. QueueAgrees'
    BY <1>1, <1>2, <1>4, <2>4 DEF QueueAgrees, IsReadyAt
  <2>6. ListAgrees'
    <3>1. K!Speaker \in Range(sleepers') =>
            speaker'.at = "recorded" \/ (speaker'.at = "played" /\ speaker'.state # "READY")
      BY <1>2, <2>1, <2>4 DEF ListAgrees
    <3>2. ASSUME IsReadyAt({"link"})', "link" \notin disturbed'
          PROVE  auxNext' = IF sleepers' = <<>> THEN K!Nobody ELSE Head(sleepers')
      <4>1. IsReadyAt({"link"}) /\ "link" \notin disturbed /\ auxNext \notin ended
        BY <1>4, <2>4, <3>2 DEF IsReadyAt
      <4>2. auxNext = IF sleepers = <<>> THEN K!Nobody ELSE Head(sleepers)
        BY <1>2, <4>1 DEF ListAgrees
      <4>3. sleepers # <<>>
        <5>1. Range(<<>>) = {}
          BY DEF Range
        <5> QED BY <1>1, <5>1
      <4> QED BY <1>1, <2>1, <4>1, <4>2, <4>3
    <3>3. \A c \in Clients : c \in Range(sleepers') => client'[c] = "sleeps"
      BY <1>2, <2>1, <2>2 DEF ListAgrees
    <3>4. \A c \in Clients : client'[c] = "sleeps" /\ c \notin Range(sleepers')
            => "link" \in disturbed'
      BY <1>2, <1>4, <2>1, <2>2 DEF ListAgrees
    <3>5. speaker'.at # "link" => auxNext' = K!Nobody
      BY <1>1, <1>2, <2>4 DEF ListAgrees
    <3> QED BY <3>1, <3>2, <3>3, <3>4, <3>5 DEF ListAgrees
  <2>7. SoundTypes'
    BY <1>1, <1>2, <2>1, <2>2, <2>4 DEF SoundTypes
  <2>8. SoundsAgree'
    <3>1. Spinning' = Spinning
      BY <2>2, <2>3 DEF Spinning
    <3>2. Held' = Held /\ soundsSem' = soundsSem
      BY <1>1, <2>4 DEF Held, IsReadyAt
    <3>3. Due' = Due /\ Due \in Nat
      BY <1>3, <3>1, <3>2, DueIs DEF Due
    <3>4. Due' <= Due
      BY <3>3
    <3>5. IsReadyAt({"clear"})' => IsReadyAt({"clear"})
      BY <2>4 DEF IsReadyAt
    <3> QED BY <1>1, <1>2, <1>3, <1>4, <3>4, <3>5, SoundsKept
  <2>9. StopsForCause'
    BY <1>1, <1>6 DEF StopsForCause
  <2> QED BY <2>5, <2>6, <2>7, <2>8, <2>9 DEF SpeakerInv
<1> QED BY <1>5, <1>6

LEMMA SpeakerInvNext == SpeakerInv /\ [Next]_vars => SpeakerInv'
PROOF
<1> SUFFICES ASSUME SpeakerInv, [Next]_vars PROVE SpeakerInv'
  OBVIOUS
<1>1. CASE UNCHANGED soundVars
  BY <1>1 DEF soundVars, SpeakerInv, SoundTypes, QueueAgrees, ListAgrees, SoundsAgree,
     StopsForCause, IsReadyAt, Due, Held, Spinning, K!Killed, K!Range
<1>2. CASE K!SpeakerProcess
  <2>1. UNCHANGED <<client, asked, disturbed>>
    BY <1>2 DEF K!SpeakerProcess
  <2>2. \/ K!EnterRegion \/ K!TestValue \/ K!LeaveRegion \/ K!BlockSpeaker \/ K!PlaySound
        \/ K!PrepareRecord \/ K!LinkRecord \/ K!TestLength \/ K!ClearSounds
    BY <1>2 DEF K!SpeakerProcess
  <2> QED BY <2>1, <2>2, EnterRegionInv, TestValueInv, LeaveRegionInv, BlockSpeakerInv,
             PlaySoundInv, PrepareRecordInv, LinkRecordInv, TestLengthInv, ClearSoundsInv
<1>3. CASE K!KillSpeaker
  BY <1>3, KillSpeakerInv
<1>4. ASSUME NEW c \in Clients,
             K!PlaySoundForCertainMs(c) \/ K!StopSpinning(c) \/ K!Sleep(c) \/ K!KillSpinning(c)
      PROVE  SpeakerInv'
  BY <1>4, PlaySoundForCertainMsInv, StopSpinningInv, SleepInv, KillSpinningInv
<1>5. ASSUME NEW p \in Sleeper, K!Ticks(p) PROVE SpeakerInv'
  <2>1. PICK ended \in SUBSET Sleeper : K!Tick(ended)
    BY <1>5 DEF K!Ticks, Sleeper
  <2> QED BY <2>1, TickInv
<1>6. K!Next \/ UNCHANGED soundVars
  BY DEF Next, vars
<1> QED BY <1>1, <1>2, <1>3, <1>4, <1>5, <1>6 DEF K!Next, Sleeper

(* The speaker waits with a token there, a program sleeps for ever, a sound *)
(* is left out, or memory is read that is freed, only when somebody stepped *)
(* in at the one place of the speaker for each: whoever preempts it where   *)
(* else, however often, and whatever is played and slept (pcSpeaker.c,      *)
(* semaphores.c, timer.c).                                                  *)
THEOREM OnlyItsWindows == Spec => []OnlyWindows
PROOF
BY SpeakerInvInit, SpeakerInvNext, SpeakerInvMeansOnly, PTL DEF Spec

-----------------------------------------------------------------------------
(* testProcesses and testPriority.                                          *)

ProcState == {"NONE", "READY", "BLK_USER", "EXITED"}
Note == [pid : 0..MaxPid, state : {"RUNNING", "BLOCKED", "KILLED"}]
Slots == 0..(IF tester = "priority" THEN 2 ELSE max_processes - 1)
Phases ==
  IF tester = "processes" THEN {"create", "act", "unblock", "succeeded", "failed"}
  ELSE {"create", "prio", "block", "prioBlocked", "unblock", "kill", "succeeded"}

TestTypes ==
  /\ state \in [T!Pid -> ProcState] /\ nextPid \in 1..MaxPid+1
  /\ \A p \in T!Pid : p >= nextPid => state[p] = "NONE"
  /\ tester \in {"processes", "priority"} /\ max_processes \in 1..MaxProcesses
  /\ p_rqs \in [Slots -> Note] /\ place \in Phases
  /\ rq \in Nat /\ alive \in Nat
  /\ toKill \in Seq(T!Pid) /\ named \subseteq T!Pid /\ told \subseteq T!Pid

\* Nobody brings back who was created and is dead.
Ended(p) == p \in T!Pid /\ p < nextPid /\ state[p] \in T!Dead

\* What testProcesses may note of a process in a state
Right(note, s) ==
  \/ note = "RUNNING" /\ s = "READY"
  \/ note = "BLOCKED" /\ s = "BLK_USER"
  \/ note = "KILLED" /\ s \in T!Dead

\* Each note is of a process of its own; one killed stays so for the user too.
NotesSound ==
  /\ \A k \in Slots : p_rqs[k].pid < nextPid
  /\ \A j, k \in Slots : p_rqs[j].pid = p_rqs[k].pid /\ p_rqs[j].pid # 0 => j = k
  /\ tester = "processes" =>
       \A k \in Slots : p_rqs[k].pid # 0 =>
         /\ p_rqs[k].state = "KILLED" => state[p_rqs[k].pid] \in T!Dead
         /\ p_rqs[k].pid \notin meddled => Right(p_rqs[k].state, state[p_rqs[k].pid])

Alive == {k \in Slots : p_rqs[k].state # "KILLED"}

\* How far testProcesses is, with an uint8_t that is large enough or wraps.
CountsSound ==
  tester = "processes" =>
    IF max_processes < Bytes
    THEN /\ rq <= max_processes
         /\ alive = Cardinality(Alive)
         /\ place = "create" =>
              /\ nextPid = rq + 1
              /\ \A k \in Slots : IF k < rq THEN p_rqs[k].pid # 0
                                  ELSE p_rqs[k] = [pid |-> 0, state |-> "KILLED"]
         /\ place \in {"act", "unblock", "succeeded"} => \A k \in Slots : p_rqs[k].pid # 0
         /\ place = "failed" => meddled # {} \/ nextPid <= max_processes
         /\ place = "succeeded" => alive = 0
    ELSE rq < Bytes /\ place \in {"create", "failed"}

\* testPriority kills whatever its calls before did.
KillsSound ==
  tester = "priority" =>
    /\ rq <= 3
    /\ \A k \in Slots :
         (place = "succeeded" \/ (place = "kill" /\ k < rq)) /\ p_rqs[k].pid # 0
           => state[p_rqs[k].pid] \in T!Dead

\* Those that a kill is done with.
ToldSound ==
  /\ \A p \in told : Ended(p)
  /\ toKill # <<>> => \A p \in named : p \in Range(toKill) \/ Ended(p)

TestersInv == TestTypes /\ NotesSound /\ CountsSound /\ KillsSound /\ ToldSound

LEMMA TestBounds ==
  /\ MaxPid \in Nat /\ Bytes \in Nat \ {0} /\ MaxProcesses \in Nat
  /\ T!Pid \subseteq Nat \ {0} /\ \A p \in Nat : p \in T!Pid <=> (p # 0 /\ p <= MaxPid)
PROOF
BY ProgramsAssumption DEF T!Pid

LEMMA SlotsFinite ==
  ASSUME TestTypes
  PROVE  IsFiniteSet(Slots) /\ IsFiniteSet(Alive) /\ Cardinality(Alive) \in Nat
         /\ \A k \in Slots : k \in Nat
PROOF
<1>1. IsFiniteSet(Slots)
  <2> DEFINE n == IF tester = "priority" THEN 2 ELSE max_processes - 1
  <2>1. n \in Int /\ 0 \in Int
    BY TestBounds DEF TestTypes
  <2> HIDE DEF n
  <2>2. IsFiniteSet(0..n)
    BY <2>1, FS_Interval
  <2> QED BY <2>2 DEF Slots, n
<1>2. IsFiniteSet(Alive)
  BY <1>1, FS_Subset DEF Alive
<1> QED BY <1>1, <1>2, FS_CardinalityType DEF Slots

\* The notes of testProcesses that are about nobody count none; at most all.
LEMMA AliveAtMost ==
  ASSUME TestTypes, tester = "processes"
  PROVE  /\ Slots = 0..max_processes-1 /\ max_processes \in Nat
         /\ Cardinality(Alive) <= max_processes
PROOF
<1>1. Slots = 0..max_processes-1 /\ max_processes \in Nat \ {0}
  BY TestBounds DEF TestTypes, Slots
<1>2. Cardinality(0..max_processes-1) = max_processes /\ IsFiniteSet(0..max_processes-1)
  <2>1. 0 \in Int /\ max_processes - 1 \in Int
    BY <1>1
  <2>2. /\ IsFiniteSet(0..max_processes-1)
        /\ Cardinality(0..max_processes-1) =
             IF 0 > max_processes - 1 THEN 0 ELSE (max_processes - 1) - 0 + 1
    BY <2>1, FS_Interval
  <2> QED BY <1>1, <2>2
<1>3. Alive \subseteq 0..max_processes-1
  BY <1>1 DEF Alive
<1>4. Cardinality(Alive) <= Cardinality(0..max_processes-1)
  BY <1>2, <1>3, FS_Subset
<1> QED BY <1>1, <1>2, <1>4

\* A call changes the process it is about, and that only if it may.
Dies == \A p \in T!Pid : p < nextPid /\ state[p] \in T!Dead => state'[p] \in T!Dead

LEMMA CallFacts ==
  ASSUME TestTypes, NEW p \in Nat, NEW can \in BOOLEAN, NEW s \in {"READY", "BLK_USER", "EXITED"},
         can => p \in T!Pid /\ state[p] # "NONE" /\ (state[p] # "EXITED" \/ s = "EXITED"),
         T!Call(can, p, s)
  PROVE  /\ nextPid' = nextPid /\ state' \in [T!Pid -> ProcState]
         /\ \A q \in T!Pid : q >= nextPid => state'[q] = "NONE"
         /\ \A q \in T!Pid : q # p => state'[q] = state[q]
         /\ can => state'[p] = s /\ p < nextPid
         /\ ~can => state' = state
         /\ Dies
PROOF
<1>1. state \in [T!Pid -> ProcState] /\ nextPid \in Nat
  BY TestBounds DEF TestTypes
<1>2. CASE ~can
  BY <1>2 DEF T!Call, T!table, TestTypes, Dies
<1>3. CASE can
  <2>1. state' = [state EXCEPT ![p] = s] /\ nextPid' = nextPid
    BY <1>3 DEF T!Call, T!SetState
  <2>2. p \in T!Pid /\ s \in ProcState
    BY <1>3 DEF ProcState
  <2>3. state' \in [T!Pid -> ProcState] /\ state'[p] = s
        /\ \A q \in T!Pid : q # p => state'[q] = state[q]
    BY <1>1, <2>1, <2>2
  <2>4. p < nextPid
    BY <1>1, <1>3, <2>2 DEF TestTypes
  <2>5. \A q \in T!Pid : q >= nextPid => state'[q] = "NONE"
    BY <1>1, <2>3, <2>4 DEF TestTypes
  <2>6. state[p] \in T!Dead => s = "EXITED"
    BY <1>3 DEF T!Dead
  <2>7. Dies
    BY <2>3, <2>6 DEF Dies, T!Dead
  <2> QED BY <1>3, <2>1, <2>3, <2>4, <2>5, <2>7
<1> QED BY <1>2, <1>3

LEMMA ToldKept ==
  ASSUME TestTypes, ToldSound, Dies, nextPid' \in Nat, nextPid <= nextPid',
         UNCHANGED <<toKill, named, told>>
  PROVE  ToldSound'
PROOF
<1>1. nextPid \in Nat
  BY TestBounds DEF TestTypes
<1>2. ASSUME NEW p, Ended(p) PROVE Ended(p)'
  <2>1. p \in T!Pid /\ p \in Nat /\ p < nextPid /\ state'[p] \in T!Dead
    BY <1>2, TestBounds DEF Ended, Dies
  <2>2. p < nextPid'
    BY <1>1, <2>1
  <2> QED BY <2>1, <2>2 DEF Ended
<1> QED BY <1>2 DEF ToldSound

LEMMA NotesKept ==
  ASSUME TestTypes, NotesSound, UNCHANGED <<tester, max_processes, p_rqs>>, Dies,
         nextPid' \in Nat, nextPid <= nextPid', meddled \subseteq meddled',
         \A q \in T!Pid : \/ state'[q] = state[q] \/ q \in meddled' \/ tester = "priority"
                          \/ state[q] \in T!Dead /\ state'[q] \in T!Dead
                          \/ q >= nextPid
  PROVE  NotesSound'
PROOF
<1>1. /\ Slots' = Slots /\ nextPid \in Nat /\ tester \in {"processes", "priority"}
      /\ \A k \in Slots : p_rqs[k] \in Note
  BY TestBounds DEF TestTypes, Slots
<1>2. \A k \in Slots : p_rqs'[k].pid < nextPid'
  <2>1. ASSUME NEW k \in Slots PROVE p_rqs[k].pid < nextPid'
    <3>1. p_rqs[k].pid \in Nat /\ p_rqs[k].pid < nextPid
      BY <1>1, TestBounds DEF Note, NotesSound
    <3> QED BY <1>1, <3>1
  <2> QED BY <2>1
<1>3. ASSUME tester = "processes", NEW k \in Slots, p_rqs[k].pid # 0
      PROVE  /\ p_rqs[k].state = "KILLED" => state'[p_rqs[k].pid] \in T!Dead
             /\ p_rqs[k].pid \notin meddled' => Right(p_rqs[k].state, state'[p_rqs[k].pid])
  <2> DEFINE q == p_rqs[k].pid
             note == p_rqs[k].state
  <2>1. q \in T!Pid /\ q \in Nat /\ q < nextPid /\ ~(q >= nextPid)
    BY <1>1, <1>3, TestBounds DEF Note, NotesSound
  <2>2. /\ note = "KILLED" => state[q] \in T!Dead
        /\ q \notin meddled => Right(note, state[q])
    BY <1>3 DEF NotesSound
  <2> HIDE DEF q, note
  <2>3. note = "KILLED" => state'[q] \in T!Dead
    BY <2>1, <2>2 DEF Dies
  <2>4. ASSUME q \notin meddled' PROVE Right(note, state'[q])
    <3>1. Right(note, state[q])
      BY <2>2, <2>4
    <3>2. CASE state'[q] = state[q]
      BY <3>1, <3>2
    <3>3. CASE state[q] \in T!Dead /\ state'[q] \in T!Dead
      BY <3>1, <3>3 DEF Right, T!Dead
    <3> QED BY <1>3, <2>1, <2>4, <3>2, <3>3
  <2> QED BY <2>3, <2>4 DEF q, note
<1>4. \A j, k \in Slots' : p_rqs'[j].pid = p_rqs'[k].pid /\ p_rqs'[j].pid # 0 => j = k
  BY <1>1 DEF NotesSound
<1> QED BY <1>1, <1>2, <1>3, <1>4 DEF NotesSound

\* What the user and the scheduler do
LEMMA OthersInv ==
  ASSUME TestersInv, UNCHANGED <<nextPid, tester, max_processes, place, rq, alive, p_rqs>>,
         state' \in [T!Pid -> ProcState], \A q \in T!Pid : q >= nextPid => state'[q] = "NONE",
         Dies, meddled \subseteq meddled',
         \A q \in T!Pid : \/ state'[q] = state[q] \/ q \in meddled'
                          \/ state[q] \in T!Dead /\ state'[q] \in T!Dead,
         toKill' \in Seq(T!Pid), named' \subseteq T!Pid, told' \subseteq T!Pid, ToldSound'
  PROVE  TestersInv'
PROOF
<1>1. TestTypes /\ NotesSound /\ CountsSound /\ KillsSound /\ ToldSound
  BY DEF TestersInv
<1>2. nextPid \in Nat /\ Slots' = Slots /\ Alive' = Alive
  BY <1>1, TestBounds DEF TestTypes, Slots, Alive
<1>3. TestTypes'
  BY <1>1, <1>2 DEF TestTypes, Phases
<1>4. NotesSound'
  BY <1>1, <1>2, NotesKept
<1>5. CountsSound'
  <2>1. meddled # {} => meddled' # {}
    OBVIOUS
  <2> QED BY <1>1, <1>2, <2>1 DEF CountsSound
<1>6. KillsSound'
  <2>1. ASSUME NEW k \in Slots, p_rqs[k].pid # 0 PROVE p_rqs[k].pid \in T!Pid /\ p_rqs[k].pid < nextPid
    BY <1>1, <2>1, TestBounds DEF TestTypes, Note, NotesSound
  <2> QED BY <1>1, <1>2, <2>1 DEF KillsSound, Dies
<1> QED BY <1>3, <1>4, <1>5, <1>6 DEF TestersInv

LEMMA FreedInv ==
  ASSUME TestersInv, NEW p \in T!Pid, T!Freed(p)
  PROVE  TestersInv'
PROOF
<1>1. TestTypes /\ ToldSound /\ nextPid \in Nat
  BY TestBounds DEF TestersInv, TestTypes
<1>2. /\ state[p] = "EXITED" /\ state' = [state EXCEPT ![p] = "NONE"]
      /\ UNCHANGED <<nextPid, tester, max_processes, place, rq, alive, p_rqs,
                     meddled, toKill, named, told>>
  BY DEF T!Freed, T!SetState, T!testerVars, T!userVars
<1>3. /\ state' \in [T!Pid -> ProcState] /\ state'[p] = "NONE"
      /\ \A q \in T!Pid : q # p => state'[q] = state[q]
  BY <1>1, <1>2 DEF TestTypes, ProcState
<1>4. \A q \in T!Pid : q >= nextPid => state'[q] = "NONE"
  BY <1>1, <1>3 DEF TestTypes
<1>5. Dies
  BY <1>3 DEF Dies, T!Dead
<1>6. \A q \in T!Pid : \/ state'[q] = state[q]
                       \/ state[q] \in T!Dead /\ state'[q] \in T!Dead
  BY <1>2, <1>3 DEF T!Dead
<1>7. ToldSound'
  BY <1>1, <1>2, <1>5, ToldKept
<1>8. toKill' \in Seq(T!Pid) /\ named' \subseteq T!Pid /\ told' \subseteq T!Pid
  BY <1>1, <1>2 DEF TestTypes
<1> QED BY <1>2, <1>3, <1>4, <1>5, <1>6, <1>7, <1>8, OthersInv

LEMMA CallMay ==
  ASSUME TestTypes, NEW p \in Nat
  PROVE  /\ T!CanKill(p) \in BOOLEAN /\ T!CanBlock(p) \in BOOLEAN /\ T!CanUnblock(p) \in BOOLEAN
         /\ T!CanKill(p) => p \in T!Pid /\ state[p] # "NONE"
         /\ T!CanBlock(p) => p \in T!Pid /\ state[p] = "READY"
         /\ T!CanUnblock(p) => p \in T!Pid /\ state[p] = "BLK_USER"
         /\ p \in T!Pid /\ ~T!CanKill(p) => state[p] \in T!Dead
PROOF
BY DEF T!CanKill, T!CanBlock, T!CanUnblock, T!Found, T!Dead, TestTypes

\* A command changes one process, which the user is known to have meddled with.
LEMMA GiveInv ==
  ASSUME TestersInv, NEW p \in T!Pid, T!Give(p),
         \/ T!Call(T!CanBlock(p), p, "BLK_USER") \/ T!Call(T!CanUnblock(p), p, "READY")
         \/ UNCHANGED <<state, nextPid>>
  PROVE  TestersInv'
PROOF
<1>1. TestTypes /\ ToldSound /\ nextPid \in Nat /\ p \in Nat
  BY TestBounds DEF TestersInv, TestTypes
<1>2. /\ meddled' = meddled \cup {p}
      /\ UNCHANGED <<tester, max_processes, place, rq, alive, p_rqs, toKill, named, told>>
  BY DEF T!Give, T!testerVars
<1>3. /\ nextPid' = nextPid /\ state' \in [T!Pid -> ProcState]
      /\ \A q \in T!Pid : q >= nextPid => state'[q] = "NONE"
      /\ \A q \in T!Pid : q # p => state'[q] = state[q]
      /\ Dies
  <2>1. CASE T!Call(T!CanBlock(p), p, "BLK_USER")
    <3>1. /\ T!CanBlock(p) \in BOOLEAN
          /\ T!CanBlock(p) => p \in T!Pid /\ state[p] # "NONE" /\ state[p] # "EXITED"
      BY <1>1, CallMay
    <3> QED BY <1>1, <2>1, <3>1, CallFacts
  <2>2. CASE T!Call(T!CanUnblock(p), p, "READY")
    <3>1. /\ T!CanUnblock(p) \in BOOLEAN
          /\ T!CanUnblock(p) => p \in T!Pid /\ state[p] # "NONE" /\ state[p] # "EXITED"
      BY <1>1, CallMay
    <3> QED BY <1>1, <2>2, <3>1, CallFacts
  <2>3. CASE UNCHANGED <<state, nextPid>>
    BY <1>1, <2>3 DEF TestTypes, Dies
  <2> QED BY <2>1, <2>2, <2>3
<1>4. \A q \in T!Pid : state'[q] = state[q] \/ q \in meddled'
  BY <1>2, <1>3
<1>5. ToldSound'
  BY <1>1, <1>2, <1>3, ToldKept
<1>6. toKill' \in Seq(T!Pid) /\ named' \subseteq T!Pid /\ told' \subseteq T!Pid
  BY <1>1, <1>2 DEF TestTypes
<1> QED BY <1>2, <1>3, <1>4, <1>5, <1>6, OthersInv

LEMMA StartKillInv ==
  ASSUME TestersInv, NEW ps \in Seq(T!Pid), T!StartKill(ps)
  PROVE  TestersInv'
PROOF
<1>1. TestTypes /\ ToldSound
  BY DEF TestersInv
<1>2. /\ toKill' = ps /\ named' = Range(ps)
      /\ UNCHANGED <<state, nextPid, tester, max_processes, place, rq, alive, p_rqs, meddled, told>>
  BY DEF T!StartKill, T!table, T!testerVars, T!Range, Range
<1>3. named' \subseteq T!Pid
  BY <1>2 DEF Range
<1>4. ToldSound'
  BY <1>1, <1>2 DEF ToldSound, Ended
<1>5. Dies /\ state' \in [T!Pid -> ProcState] /\ told' \subseteq T!Pid
      /\ \A q \in T!Pid : q >= nextPid => state'[q] = "NONE"
  BY <1>1, <1>2 DEF TestTypes, Dies
<1> QED BY <1>2, <1>3, <1>4, <1>5, OthersInv

LEMMA KillTurnInv ==
  ASSUME TestersInv, T!commandKill
  PROVE  TestersInv'
PROOF
<1>1. TestTypes /\ ToldSound /\ nextPid \in Nat /\ toKill \in Seq(T!Pid) /\ toKill # <<>>
  BY TestBounds DEF TestersInv, TestTypes, T!commandKill
<1>0. PICK p, rest : p = Head(toKill) /\ rest = Tail(toKill)
  OBVIOUS
<1>2. p \in T!Pid /\ rest \in Seq(T!Pid) /\ Range(toKill) = Range(rest) \cup {p} /\ p \in Nat
  BY <1>0, <1>1, RangeTail, TestBounds
<1>3. /\ T!Call(T!CanKill(p), p, "EXITED")
      /\ toKill' = IF T!CanKill(p) THEN rest ELSE <<>>
      /\ told' = IF T!CanKill(p) /\ rest = <<>> THEN told \cup named ELSE told
      /\ meddled' = meddled \cup {p}
      /\ UNCHANGED <<named, tester, max_processes, place, rq, alive, p_rqs>>
  BY <1>0 DEF T!commandKill, T!testerVars
<1>4. /\ T!CanKill(p) \in BOOLEAN
      /\ T!CanKill(p) => p \in T!Pid /\ state[p] # "NONE"
  BY <1>1, <1>2, CallMay
<1>5. /\ nextPid' = nextPid /\ state' \in [T!Pid -> ProcState]
      /\ \A q \in T!Pid : q >= nextPid => state'[q] = "NONE"
      /\ \A q \in T!Pid : q # p => state'[q] = state[q]
      /\ T!CanKill(p) => state'[p] = "EXITED" /\ p < nextPid
      /\ Dies
  BY <1>1, <1>2, <1>3, <1>4, CallFacts
<1>6. toKill' \in Seq(T!Pid) /\ named' \subseteq T!Pid /\ told' \subseteq T!Pid
  BY <1>1, <1>2, <1>3 DEF TestTypes
<1>7. ToldSound'
  <2>1. \A q : Ended(q) => Ended(q)'
    BY <1>5 DEF Ended, Dies
  <2>2. ASSUME T!CanKill(p) PROVE Ended(p)'
    <3>1. state'[p] = "EXITED" /\ p < nextPid'
      BY <1>5, <2>2
    <3> QED BY <1>2, <3>1 DEF Ended, T!Dead
  <2>3. CASE ~T!CanKill(p)
    BY <1>1, <1>3, <2>1, <2>3 DEF ToldSound
  <2>4. CASE T!CanKill(p)
    <3>1. ASSUME NEW q \in named PROVE q \in Range(rest) \/ Ended(q)'
      <4>1. q \in Range(toKill) \/ Ended(q)
        BY <1>1 DEF ToldSound
      <4> QED BY <1>2, <2>1, <2>2, <2>4, <4>1
    <3>2. Range(<<>>) = {}
      BY DEF Range
    <3>3. \A q \in told' : Ended(q)'
      BY <1>1, <1>3, <2>1, <2>4, <3>1, <3>2 DEF ToldSound
    <3> QED BY <1>3, <2>4, <3>1, <3>3 DEF ToldSound
  <2> QED BY <1>4, <2>3, <2>4
<1>8. \A q \in T!Pid : state'[q] = state[q] \/ q \in meddled'
  BY <1>3, <1>5
<1> QED BY <1>3, <1>5, <1>6, <1>7, <1>8, OthersInv

LEMMA UserInv ==
  ASSUME TestersInv, T!User
  PROVE  TestersInv'
PROOF
<1>1. ASSUME NEW p \in T!Pid, T!commandBlock(p) \/ T!commandUnBlock(p) \/ T!commandNice(p, T!HIGHEST)
      PROVE  TestersInv'
  <2>1. CASE T!commandBlock(p)
    BY <2>1, GiveInv DEF T!commandBlock
  <2>2. CASE T!commandUnBlock(p)
    BY <2>2, GiveInv DEF T!commandUnBlock
  <2>3. CASE T!commandNice(p, T!HIGHEST)
    BY <2>3, GiveInv DEF T!commandNice, T!ChangePriority
  <2> QED BY <1>1, <2>1, <2>2, <2>3
<1>2. ASSUME NEW p \in T!Pid, NEW q \in T!Pid, T!StartKill(<<p>>) \/ T!StartKill(<<p, q>>)
      PROVE  TestersInv'
  <2>1. <<p>> \in Seq(T!Pid) /\ <<p, q>> \in Seq(T!Pid)
    OBVIOUS
  <2> QED BY <1>2, <2>1, StartKillInv
<1> QED BY <1>1, <1>2, KillTurnInv DEF T!User

\* An uint8_t
LEMMA ByteIs ==
  /\ \A n \in 0..Bytes-1 : T!Byte(n) = n
  /\ \A n \in Int : T!Byte(n) \in 0..Bytes-1
PROOF
<1>1. Bytes \in Nat \ {0}
  BY TestBounds
<1>2. \A n \in 0..Bytes-1 : n % Bytes = n
  BY <1>1, SMT
<1>3. \A n \in Int : n % Bytes \in 0..Bytes-1
  BY <1>1, SMT
<1> QED BY <1>2, <1>3 DEF T!Byte

\* The note testProcesses looks at
LEMMA HereFacts ==
  ASSUME TestersInv, tester = "processes", rq < max_processes
  PROVE  /\ rq \in Slots /\ p_rqs[rq] \in Note /\ rq \in Nat /\ max_processes \in Nat
         /\ nextPid \in Nat
         /\ place # "create" => max_processes < Bytes \/ place = "failed"
         /\ max_processes < Bytes => T!Byte(rq + 1) = rq + 1 /\ rq + 1 <= max_processes
         /\ T!Byte(rq + 1) \in Nat /\ T!Byte(rq + 1) < Bytes
PROOF
<1>1. TestTypes /\ CountsSound /\ rq \in Nat /\ max_processes \in Nat /\ nextPid \in Nat
      /\ Bytes \in Nat \ {0}
  BY TestBounds DEF TestersInv, TestTypes
<1>2. rq \in Slots
  BY <1>1 DEF Slots
<1>3. p_rqs[rq] \in Note
  BY <1>1, <1>2 DEF TestTypes
<1>4. T!Byte(rq + 1) \in 0..Bytes-1
  BY <1>1, ByteIs
<1>5. max_processes < Bytes => rq + 1 \in 0..Bytes-1
  BY <1>1
<1>6. max_processes < Bytes => T!Byte(rq + 1) = rq + 1 /\ rq + 1 <= max_processes
  BY <1>1, <1>5, ByteIs
<1>7. place # "create" => max_processes < Bytes \/ place = "failed"
  BY <1>1 DEF CountsSound
<1> QED BY <1>1, <1>2, <1>3, <1>4, <1>6, <1>7

\* It acts on a process, and notes what that is now.
LEMMA NoteInv ==
  ASSUME TestersInv, tester = "processes", place \in {"act", "unblock"}, rq < max_processes,
         NEW p \in T!Pid, p = p_rqs[rq].pid, p_rqs[rq].state # "KILLED",
         NEW note \in {"RUNNING", "BLOCKED", "KILLED"}, NEW s, Right(note, s),
         state' \in [T!Pid -> ProcState], state'[p] = s, nextPid' = nextPid, p < nextPid,
         \A q \in T!Pid : q >= nextPid => state'[q] = "NONE",
         \A q \in T!Pid : q # p => state'[q] = state[q],
         T!Keep(note), T!Stay, T!Mine, Dies,
         alive' = IF note = "KILLED" THEN T!Byte(alive - 1) ELSE alive
  PROVE  TestersInv'
PROOF
<1>1. TestTypes /\ NotesSound /\ CountsSound /\ ToldSound
  BY DEF TestersInv
<1>2. /\ rq \in Slots /\ p_rqs[rq] \in Note /\ rq \in Nat /\ max_processes \in Nat
      /\ nextPid \in Nat /\ max_processes < Bytes /\ T!Byte(rq + 1) = rq + 1
      /\ rq + 1 <= max_processes
  BY HereFacts
<1>3. /\ UNCHANGED <<tester, max_processes, meddled, toKill, named, told, place>>
      /\ rq' = rq + 1 /\ p_rqs' = [p_rqs EXCEPT ![rq].state = note]
      /\ Slots' = Slots
  BY <1>2 DEF T!Mine, T!Stay, T!Keep, T!userVars, Slots
<1>4. /\ p_rqs' \in [Slots -> Note]
      /\ p_rqs'[rq].state = note /\ \A k \in Slots : p_rqs'[k].pid = p_rqs[k].pid
      /\ \A k \in Slots : k # rq => p_rqs'[k] = p_rqs[k]
  BY <1>1, <1>2, <1>3 DEF TestTypes, Note
<1>5. IsFiniteSet(Alive) /\ Cardinality(Alive) \in Nat /\ Cardinality(Alive) <= max_processes
      /\ alive = Cardinality(Alive)
  BY <1>1, <1>2, SlotsFinite, AliveAtMost DEF CountsSound
<1>6. alive' \in Nat /\ alive' = Cardinality(Alive')
  <2>1. CASE note = "KILLED"
    <3>1. rq \in Alive
      BY <1>2 DEF Alive
    <3>2. Alive' = Alive \ {rq}
      BY <1>3, <1>4, <2>1 DEF Alive
    <3>3. Cardinality(Alive') = Cardinality(Alive) - 1 /\ Cardinality(Alive \ {rq}) \in Nat
      BY <1>5, <3>1, <3>2, FS_RemoveElement, FS_CardinalityType
    <3>4. alive - 1 \in 0..Bytes-1
      BY <1>2, <1>5, <3>2, <3>3, TestBounds
    <3>5. T!Byte(alive - 1) = alive - 1
      BY <3>4, ByteIs
    <3> QED BY <1>5, <2>1, <3>3, <3>4, <3>5
  <2>2. CASE note # "KILLED"
    <3>1. Alive' = Alive
      BY <1>3, <1>4, <2>2 DEF Alive
    <3> QED BY <1>5, <2>2, <3>1
  <2> QED BY <2>1, <2>2
<1>7. TestTypes'
  BY <1>1, <1>2, <1>3, <1>4, <1>6 DEF TestTypes, Phases
<1>8. NotesSound'
  <2>1. ASSUME NEW k \in Slots, p_rqs[k].pid # 0
        PROVE  /\ p_rqs'[k].state = "KILLED" => state'[p_rqs[k].pid] \in T!Dead
               /\ p_rqs[k].pid \notin meddled => Right(p_rqs'[k].state, state'[p_rqs[k].pid])
    <3>1. CASE k = rq
      BY <1>4, <3>1 DEF Right
    <3>2. CASE k # rq
      <4>1. p_rqs[k].pid # p /\ p_rqs[k].pid \in T!Pid
        BY <1>1, <1>2, <2>1, <3>2, TestBounds DEF NotesSound, TestTypes, Note
      <4>2. state'[p_rqs[k].pid] = state[p_rqs[k].pid] /\ p_rqs'[k] = p_rqs[k]
        BY <1>4, <3>2, <4>1
      <4> QED BY <1>1, <2>1, <4>2 DEF NotesSound
    <3> QED BY <3>1, <3>2
  <2> QED BY <1>1, <1>3, <1>4, <2>1 DEF NotesSound
<1>9. CountsSound'
  BY <1>1, <1>2, <1>3, <1>4, <1>6 DEF CountsSound
<1>10. ToldSound'
  BY <1>1, <1>2, <1>3, ToldKept
<1>11. KillsSound'
  BY <1>3 DEF KillsSound
<1> QED BY <1>7, <1>8, <1>9, <1>10, <1>11 DEF TestersInv

\* A call fails, because the user was there.
LEMMA FailInv ==
  ASSUME TestersInv, tester = "processes", place \in {"act", "unblock"}, rq < max_processes,
         place' = "failed", UNCHANGED <<state, nextPid, rq, p_rqs, alive>>, T!Mine, meddled # {}
  PROVE  TestersInv'
PROOF
<1>1. TestTypes /\ NotesSound /\ CountsSound /\ ToldSound /\ max_processes < Bytes
  BY HereFacts DEF TestersInv
<1>2. /\ UNCHANGED <<tester, max_processes, meddled, toKill, named, told>>
      /\ Slots' = Slots /\ Alive' = Alive
  BY DEF T!Mine, T!userVars, Slots, Alive
<1>3. TestTypes'
  BY <1>1, <1>2 DEF TestTypes, Phases
<1>4. NotesSound' /\ ToldSound'
  BY <1>1, <1>2 DEF NotesSound, ToldSound, Ended
<1>5. CountsSound'
  BY <1>1, <1>2 DEF CountsSound
<1>6. KillsSound'
  BY <1>2 DEF KillsSound
<1> QED BY <1>3, <1>4, <1>5, <1>6 DEF TestersInv

LEMMA ActInv ==
  ASSUME TestersInv, T!KillOne \/ T!BlockOne \/ T!UnblockOne
  PROVE  TestersInv'
PROOF
<1>1. /\ tester = "processes" /\ place \in {"act", "unblock"} /\ rq < max_processes /\ T!Mine
      /\ p_rqs[rq].state # "KILLED"
  BY DEF T!KillOne, T!BlockOne, T!UnblockOne, T!Here
<1>2. TestTypes /\ NotesSound /\ CountsSound
  BY DEF TestersInv
<1>3. PICK p : p = p_rqs[rq].pid
  OBVIOUS
<1>4. /\ rq \in Slots /\ p_rqs[rq] \in Note /\ max_processes < Bytes
  BY <1>1, HereFacts
<1>5. p \in T!Pid /\ p \in Nat /\ p < nextPid
  BY <1>1, <1>2, <1>3, <1>4, TestBounds DEF CountsSound, NotesSound, Note
<1>6. p \notin meddled => Right(p_rqs[rq].state, state[p])
  BY <1>1, <1>2, <1>3, <1>4, <1>5, TestBounds DEF NotesSound
<1>7. /\ T!CanKill(p) \in BOOLEAN /\ T!CanBlock(p) \in BOOLEAN /\ T!CanUnblock(p) \in BOOLEAN
      /\ T!CanKill(p) => p \in T!Pid /\ state[p] # "NONE"
      /\ T!CanBlock(p) => p \in T!Pid /\ state[p] = "READY"
      /\ T!CanUnblock(p) => p \in T!Pid /\ state[p] = "BLK_USER"
  BY <1>2, <1>5, CallMay
<1>8. ASSUME NEW can \in BOOLEAN, NEW note \in {"RUNNING", "BLOCKED", "KILLED"},
             NEW s \in {"READY", "BLK_USER", "EXITED"}, Right(note, s),
             can => state[p] # "NONE" /\ (state[p] # "EXITED" \/ s = "EXITED"),
             ~can => meddled # {},
             T!Call(can, p, s),
             IF can THEN T!Keep(note) /\ T!Stay ELSE place' = "failed" /\ UNCHANGED <<rq, p_rqs>>,
             alive' = IF can /\ note = "KILLED" THEN T!Byte(alive - 1) ELSE alive
      PROVE  TestersInv'
  <2>1. /\ nextPid' = nextPid /\ state' \in [T!Pid -> ProcState]
        /\ \A q \in T!Pid : q >= nextPid => state'[q] = "NONE"
        /\ \A q \in T!Pid : q # p => state'[q] = state[q]
        /\ can => state'[p] = s /\ p < nextPid
        /\ ~can => state' = state
        /\ Dies
    BY <1>2, <1>5, <1>8, CallFacts
  <2>2. CASE can
    <3>1. T!Keep(note) /\ T!Stay /\ state'[p] = s
          /\ alive' = IF note = "KILLED" THEN T!Byte(alive - 1) ELSE alive
      BY <1>8, <2>1, <2>2
    <3> QED BY <1>1, <1>3, <1>5, <1>8, <2>1, <3>1, NoteInv
  <2>3. CASE ~can
    <3>1. place' = "failed" /\ UNCHANGED <<state, nextPid, rq, p_rqs, alive>> /\ meddled # {}
      BY <1>8, <2>1, <2>3
    <3> QED BY <1>1, <3>1, FailInv
  <2> QED BY <2>2, <2>3
<1>9. CASE T!KillOne
  <2>1. /\ T!Call(T!CanKill(p), p, "EXITED") /\ p_rqs[rq].state \in {"RUNNING", "BLOCKED"}
        /\ IF T!CanKill(p) THEN T!Keep("KILLED") /\ T!Stay
           ELSE place' = "failed" /\ UNCHANGED <<rq, p_rqs>>
        /\ alive' = IF T!CanKill(p) THEN T!Byte(alive - 1) ELSE alive
    BY <1>3, <1>9 DEF T!KillOne, T!Forgotten
  <2>2. ASSUME ~T!CanKill(p) PROVE meddled # {}
    <3>1. ~Right(p_rqs[rq].state, state[p])
      BY <1>5, <2>1, <2>2 DEF Right, T!CanKill, T!Found
    <3> QED BY <1>6, <3>1
  <2>3. Right("KILLED", "EXITED")
    BY DEF Right, T!Dead
  <2>4. alive' = IF T!CanKill(p) /\ "KILLED" = "KILLED" THEN T!Byte(alive - 1) ELSE alive
    BY <2>1
  <2> QED BY <1>7, <1>8, <2>1, <2>2, <2>3, <2>4
<1>10. CASE T!BlockOne
  <2>1. /\ T!Call(T!CanBlock(p), p, "BLK_USER") /\ p_rqs[rq].state = "RUNNING"
        /\ IF T!CanBlock(p) THEN T!Keep("BLOCKED") /\ T!Stay
           ELSE place' = "failed" /\ UNCHANGED <<rq, p_rqs>>
        /\ alive' = alive
    BY <1>3, <1>10 DEF T!BlockOne
  <2>2. ASSUME ~T!CanBlock(p) PROVE meddled # {}
    <3>1. ~Right(p_rqs[rq].state, state[p])
      BY <1>5, <2>1, <2>2 DEF Right, T!CanBlock, T!Found
    <3> QED BY <1>6, <3>1
  <2>3. Right("BLOCKED", "BLK_USER")
    BY DEF Right
  <2>4. alive' = IF T!CanBlock(p) /\ "BLOCKED" = "KILLED" THEN T!Byte(alive - 1) ELSE alive
    BY <2>1
  <2>5. T!CanBlock(p) => state[p] # "NONE" /\ (state[p] # "EXITED" \/ "BLK_USER" = "EXITED")
    BY <1>7
  <2> QED BY <1>7, <1>8, <2>1, <2>2, <2>3, <2>4, <2>5
<1>11. CASE T!UnblockOne
  <2>1. /\ T!Call(T!CanUnblock(p), p, "READY") /\ p_rqs[rq].state = "BLOCKED"
        /\ IF T!CanUnblock(p) THEN T!Keep("RUNNING") /\ T!Stay
           ELSE place' = "failed" /\ UNCHANGED <<rq, p_rqs>>
        /\ alive' = alive
    BY <1>3, <1>11 DEF T!UnblockOne
  <2>2. ASSUME ~T!CanUnblock(p) PROVE meddled # {}
    <3>1. ~Right(p_rqs[rq].state, state[p])
      BY <1>5, <2>1, <2>2 DEF Right, T!CanUnblock, T!Found
    <3> QED BY <1>6, <3>1
  <2>3. Right("RUNNING", "READY")
    BY DEF Right
  <2>4. alive' = IF T!CanUnblock(p) /\ "RUNNING" = "KILLED" THEN T!Byte(alive - 1) ELSE alive
    BY <2>1
  <2>5. T!CanUnblock(p) => state[p] # "NONE" /\ (state[p] # "EXITED" \/ "READY" = "EXITED")
    BY <1>7
  <2> QED BY <1>7, <1>8, <2>1, <2>2, <2>3, <2>4, <2>5
<1> QED BY <1>9, <1>10, <1>11

LEMMA AtMostAll ==
  ASSUME NEW n \in Nat, NEW C \in SUBSET (0..n-1)
  PROVE  IsFiniteSet(C) /\ Cardinality(C) \in Nat /\ Cardinality(C) <= n
PROOF
<1>1. 0 \in Int /\ n - 1 \in Int
  OBVIOUS
<1>2. /\ IsFiniteSet(0..n-1)
      /\ Cardinality(0..n-1) = IF 0 > n - 1 THEN 0 ELSE (n - 1) - 0 + 1
  BY <1>1, FS_Interval
<1>3. Cardinality(0..n-1) = n
  BY <1>2
<1>4. IsFiniteSet(C) /\ Cardinality(C) <= Cardinality(0..n-1)
  BY <1>2, FS_Subset
<1> QED BY <1>3, <1>4, FS_CardinalityType

\* A process is made, and noted.
LEMMA MadeInv ==
  ASSUME TestersInv, tester = "processes", place = "create", rq < max_processes,
         T!Created, p_rqs' = [p_rqs EXCEPT ![rq] = [pid |-> nextPid, state |-> "RUNNING"]],
         alive' = T!Byte(alive + 1), T!Stay, T!Mine
  PROVE  TestersInv'
PROOF
<1>1. TestTypes /\ NotesSound /\ CountsSound /\ ToldSound
  BY DEF TestersInv
<1>2. /\ rq \in Slots /\ p_rqs[rq] \in Note /\ rq \in Nat /\ max_processes \in Nat
      /\ nextPid \in Nat
      /\ max_processes < Bytes => T!Byte(rq + 1) = rq + 1 /\ rq + 1 <= max_processes
      /\ T!Byte(rq + 1) \in Nat /\ T!Byte(rq + 1) < Bytes
  BY <1>1, HereFacts
<1>3. /\ UNCHANGED <<tester, max_processes, meddled, toKill, named, told, place>>
      /\ rq' = T!Byte(rq + 1) /\ Slots' = Slots
      /\ nextPid \in T!Pid /\ nextPid' = nextPid + 1 /\ nextPid <= MaxPid
      /\ state' = [state EXCEPT ![nextPid] = "READY"]
  BY TestBounds DEF T!Mine, T!Stay, T!userVars, Slots, T!Created, T!Pid
<1>4. /\ state' \in [T!Pid -> ProcState] /\ state'[nextPid] = "READY"
      /\ \A q \in T!Pid : q # nextPid => state'[q] = state[q]
  BY <1>1, <1>3 DEF TestTypes, ProcState
<1>5. /\ p_rqs' \in [Slots -> Note]
      /\ p_rqs'[rq].pid = nextPid /\ p_rqs'[rq].state = "RUNNING"
      /\ \A k \in Slots : k # rq => p_rqs'[k] = p_rqs[k]
  <2>1. [pid |-> nextPid, state |-> "RUNNING"] \in Note
    BY <1>2, <1>3, TestBounds DEF Note
  <2> QED BY <1>1, <1>2, <2>1 DEF TestTypes
<1>6. \A q \in T!Pid : q >= nextPid' => state'[q] = "NONE"
  <2>1. \A q \in T!Pid : q >= nextPid + 1 => q >= nextPid /\ q # nextPid
    BY <1>2, TestBounds
  <2> QED BY <1>1, <1>3, <1>4, <2>1 DEF TestTypes
<1>7. Dies
  <2>1. \A q \in T!Pid : q < nextPid => q # nextPid
    BY <1>2, TestBounds
  <2> QED BY <1>4, <2>1 DEF Dies
<1>8. alive' \in Nat
  <2>1. alive + 1 \in Int
    BY <1>1 DEF TestTypes
  <2>2. T!Byte(alive + 1) \in 0..Bytes-1
    BY <2>1, ByteIs
  <2> QED BY <2>2, TestBounds
<1>9. TestTypes'
  BY <1>1, <1>2, <1>3, <1>4, <1>5, <1>6, <1>8, TestBounds DEF TestTypes, Phases
<1>10. \A k \in Slots : p_rqs[k] \in Note /\ p_rqs[k].pid \in Nat /\ p_rqs[k].pid < nextPid
  BY <1>1, TestBounds DEF TestTypes, Note, NotesSound
<1>11. NotesSound'
  <2>1. \A k \in Slots : p_rqs'[k].pid < nextPid'
    <3>1. ASSUME NEW k \in Slots PROVE p_rqs'[k].pid < nextPid'
      <4>1. CASE k = rq
        BY <1>2, <1>3, <1>5, <4>1
      <4>2. CASE k # rq
        BY <1>2, <1>3, <1>5, <1>10, <4>2
      <4> QED BY <4>1, <4>2
    <3> QED BY <3>1
  <2>2. \A j, k \in Slots : p_rqs'[j].pid = p_rqs'[k].pid /\ p_rqs'[j].pid # 0 => j = k
    <3>1. \A k \in Slots : k # rq => p_rqs'[k].pid # nextPid
      BY <1>2, <1>5, <1>10
    <3>2. ASSUME NEW j \in Slots, NEW k \in Slots, j # rq, k # rq,
                 p_rqs'[j].pid = p_rqs'[k].pid, p_rqs'[j].pid # 0
          PROVE  j = k
      BY <1>1, <1>5, <3>2 DEF NotesSound
    <3> QED BY <1>5, <3>1, <3>2
  <2>3. ASSUME NEW k \in Slots, p_rqs'[k].pid # 0
        PROVE  /\ p_rqs'[k].state = "KILLED" => state'[p_rqs'[k].pid] \in T!Dead
               /\ p_rqs'[k].pid \notin meddled => Right(p_rqs'[k].state, state'[p_rqs'[k].pid])
    <3>1. CASE k = rq
      BY <1>4, <1>5, <3>1 DEF Right
    <3>2. CASE k # rq
      <4>1. p_rqs'[k] = p_rqs[k] /\ p_rqs[k].pid # nextPid /\ p_rqs[k].pid \in T!Pid
        BY <1>2, <1>5, <1>10, <2>3, <3>2, TestBounds DEF Note
      <4>2. state'[p_rqs[k].pid] = state[p_rqs[k].pid]
        BY <1>4, <4>1
      <4> QED BY <1>1, <2>3, <4>1, <4>2 DEF NotesSound
    <3> QED BY <3>1, <3>2
  <2> QED BY <1>3, <2>1, <2>2, <2>3 DEF NotesSound
<1>12. CountsSound'
  <2>1. CASE max_processes < Bytes
    <3>1. /\ alive = Cardinality(Alive) /\ nextPid = rq + 1 /\ rq' = rq + 1
          /\ \A k \in Slots : IF k < rq THEN p_rqs[k].pid # 0
                              ELSE p_rqs[k] = [pid |-> 0, state |-> "KILLED"]
      BY <1>1, <1>2, <1>3, <2>1 DEF CountsSound
    <3>2. p_rqs[rq].state = "KILLED"
      BY <1>2, <3>1
    <3>3. rq \notin Alive /\ Alive' = Alive \cup {rq}
      BY <1>2, <1>3, <1>5, <3>2 DEF Alive
    <3>4. Slots = 0..max_processes-1
      BY <1>1, AliveAtMost
    <3>5. Alive \in SUBSET (0..max_processes-1) /\ Alive \cup {rq} \in SUBSET (0..max_processes-1)
      BY <1>2, <3>4 DEF Alive
    <3>6. /\ IsFiniteSet(Alive) /\ Cardinality(Alive) \in Nat
          /\ Cardinality(Alive \cup {rq}) <= max_processes
      BY <1>2, <3>5, AtMostAll
    <3>7. Cardinality(Alive \cup {rq}) = Cardinality(Alive) + 1
      BY <3>3, <3>6, FS_AddElement
    <3>8. alive + 1 \in 0..Bytes-1
      BY <1>2, <2>1, <3>1, <3>6, <3>7, TestBounds
    <3>9. alive' = Cardinality(Alive')
      BY <3>1, <3>3, <3>7, <3>8, ByteIs
    <3>10. \A k \in Slots : IF k < rq' THEN p_rqs'[k].pid # 0
                            ELSE p_rqs'[k] = [pid |-> 0, state |-> "KILLED"]
      <4>1. ASSUME NEW k \in Slots
            PROVE  IF k < rq' THEN p_rqs'[k].pid # 0
                   ELSE p_rqs'[k] = [pid |-> 0, state |-> "KILLED"]
        <5>1. k \in Nat
          BY <1>2, <3>4
        <5>2. CASE k = rq
          BY <1>2, <1>5, <3>1, <5>2
        <5>3. CASE k # rq
          <6>1. p_rqs'[k] = p_rqs[k] /\ (k < rq' <=> k < rq)
            BY <1>2, <1>5, <3>1, <5>1, <5>3
          <6> QED BY <3>1, <6>1
        <5> QED BY <5>2, <5>3
      <4> QED BY <4>1
    <3> QED BY <1>2, <1>3, <2>1, <3>1, <3>9, <3>10 DEF CountsSound
  <2>2. CASE ~(max_processes < Bytes)
    BY <1>2, <1>3, <2>2 DEF CountsSound
  <2> QED BY <2>1, <2>2
<1>13. ToldSound'
  <2>1. nextPid' \in Nat /\ nextPid <= nextPid'
    BY <1>2, <1>3
  <2> QED BY <1>1, <1>3, <1>7, <2>1, ToldKept
<1>14. KillsSound'
  BY <1>3 DEF KillsSound
<1> QED BY <1>9, <1>11, <1>12, <1>13, <1>14 DEF TestersInv

LEMMA CreateOneInv ==
  ASSUME TestersInv, T!CreateOne
  PROVE  TestersInv'
PROOF
<1>1. tester = "processes" /\ place = "create" /\ rq < max_processes /\ T!Mine
  BY DEF T!CreateOne, T!Here
<1>2. CASE place' = "failed" /\ UNCHANGED <<T!table, rq, alive, p_rqs>>
  <2>1. TestTypes /\ NotesSound /\ CountsSound /\ ToldSound
    BY DEF TestersInv
  <2>2. /\ UNCHANGED <<state, nextPid, tester, max_processes, meddled, toKill, named, told,
                       rq, alive, p_rqs>>
        /\ Slots' = Slots /\ Alive' = Alive
    BY <1>1, <1>2 DEF T!Mine, T!userVars, T!table, Slots, Alive
  <2>3. TestTypes'
    BY <1>1, <1>2, <2>1, <2>2 DEF TestTypes, Phases
  <2>4. NotesSound' /\ ToldSound'
    BY <2>1, <2>2 DEF NotesSound, ToldSound, Ended
  <2>5. CountsSound'
    <3>1. max_processes < Bytes => nextPid <= max_processes
      <4>1. rq \in Nat /\ max_processes \in Nat /\ rq + 1 <= max_processes
        BY <1>1, <2>1, TestBounds DEF TestTypes
      <4> QED BY <1>1, <2>1, <4>1 DEF CountsSound
    <3> QED BY <1>1, <1>2, <2>1, <2>2, <3>1 DEF CountsSound
  <2>6. KillsSound'
    BY <1>1, <2>2 DEF KillsSound
  <2> QED BY <2>3, <2>4, <2>5, <2>6 DEF TestersInv
<1>3. CASE ~(place' = "failed" /\ UNCHANGED <<T!table, rq, alive, p_rqs>>)
  <2>1. /\ T!Created /\ p_rqs' = [p_rqs EXCEPT ![rq] = [pid |-> nextPid, state |-> "RUNNING"]]
        /\ alive' = T!Byte(alive + 1) /\ T!Stay
    BY <1>3 DEF T!CreateOne
  <2> QED BY <1>1, <2>1, MadeInv
<1> QED BY <1>2, <1>3

\* testProcesses goes on in its loops, and changes nothing.
LEMMA WalkInv ==
  ASSUME TestersInv, tester = "processes", UNCHANGED <<T!table, alive, p_rqs>>, T!Mine,
         place' \in Phases, rq' \in Nat,
         IF max_processes < Bytes
         THEN /\ rq' <= max_processes /\ place' \in {"act", "unblock", "succeeded"}
              /\ \A k \in Slots : p_rqs[k].pid # 0
              /\ place' = "succeeded" => alive = 0
         ELSE FALSE
  PROVE  TestersInv'
PROOF
<1>1. TestTypes /\ NotesSound /\ CountsSound /\ ToldSound
  BY DEF TestersInv
<1>2. /\ UNCHANGED <<state, nextPid, tester, max_processes, meddled, toKill, named, told,
                     alive, p_rqs>>
      /\ Slots' = Slots /\ Alive' = Alive
  BY DEF T!Mine, T!userVars, T!table, Slots, Alive
<1>3. TestTypes'
  BY <1>1, <1>2 DEF TestTypes, Phases
<1>4. NotesSound' /\ ToldSound'
  BY <1>1, <1>2 DEF NotesSound, ToldSound, Ended
<1>5. CountsSound'
  BY <1>1, <1>2 DEF CountsSound
<1>6. KillsSound'
  BY <1>2 DEF KillsSound
<1> QED BY <1>3, <1>4, <1>5, <1>6 DEF TestersInv

LEMMA SpareInv ==
  ASSUME TestersInv, T!Spare
  PROVE  TestersInv'
PROOF
<1>1. /\ tester = "processes" /\ place \in {"act", "unblock"} /\ rq < max_processes /\ T!Mine
      /\ T!Stay /\ UNCHANGED <<T!table, alive, p_rqs>>
  BY DEF T!Spare, T!Here
<1>2. /\ max_processes < Bytes /\ T!Byte(rq + 1) = rq + 1 /\ rq + 1 <= max_processes
      /\ rq + 1 \in Nat
  BY <1>1, HereFacts
<1>3. TestTypes /\ CountsSound
  BY DEF TestersInv
<1>4. \A k \in Slots : p_rqs[k].pid # 0
  BY <1>1, <1>2, <1>3 DEF CountsSound
<1>5. place' = place /\ rq' = rq + 1 /\ place' \in Phases
  BY <1>1, <1>2 DEF T!Stay, Phases
<1> QED BY <1>1, <1>2, <1>4, <1>5, WalkInv

LEMMA LoopEndsInv ==
  ASSUME TestersInv, T!LoopEnds
  PROVE  TestersInv'
PROOF
<1>1. /\ tester = "processes" /\ rq >= max_processes /\ place \in {"create", "act", "unblock"}
      /\ UNCHANGED <<T!table, alive, p_rqs>> /\ T!Mine
  BY DEF T!LoopEnds
<1>2. TestTypes /\ CountsSound /\ rq \in Nat /\ max_processes \in Nat /\ alive \in Nat
  BY TestBounds DEF TestersInv, TestTypes
<1>3. max_processes < Bytes
  BY <1>1, <1>2, TestBounds DEF CountsSound
<1>4. \A k \in Slots : p_rqs[k].pid # 0
  <2>1. CASE place = "create"
    <3>1. \A k \in Slots : k < rq
      BY <1>1, <1>2, AliveAtMost
    <3> QED BY <1>1, <1>2, <1>3, <2>1, <3>1 DEF CountsSound
  <2>2. CASE place \in {"act", "unblock"}
    BY <1>1, <1>2, <1>3, <2>2 DEF CountsSound
  <2> QED BY <1>1, <2>1, <2>2
<1>5. rq' = 0 /\ place' \in {"act", "unblock", "succeeded"} /\ (place' = "succeeded" => alive = 0)
  <2>1. CASE place = "create"
    BY <2>1 DEF T!LoopEnds, T!Goto
  <2>2. CASE place = "act"
    BY <2>2 DEF T!LoopEnds, T!Goto
  <2>3. CASE place = "unblock"
    BY <1>2, <2>3 DEF T!LoopEnds, T!Goto
  <2> QED BY <1>1, <2>1, <2>2, <2>3
<1>6. place' \in Phases
  BY <1>1, <1>5 DEF Phases
<1> QED BY <1>1, <1>2, <1>3, <1>4, <1>5, <1>6, WalkInv

\* testPriority makes no note but of a process just created.
LEMMA CalledInv ==
  ASSUME TestersInv, tester = "priority", UNCHANGED <<nextPid, alive, p_rqs>>, T!Mine,
         state' \in [T!Pid -> ProcState], \A q \in T!Pid : q >= nextPid => state'[q] = "NONE",
         Dies, place' \in Phases, rq' \in Nat, KillsSound'
  PROVE  TestersInv'
PROOF
<1>1. TestTypes /\ NotesSound /\ ToldSound
  BY DEF TestersInv
<1>2. /\ UNCHANGED <<tester, max_processes, meddled, toKill, named, told>>
      /\ Slots' = Slots /\ nextPid \in Nat
  BY <1>1, TestBounds DEF T!Mine, T!userVars, Slots, TestTypes
<1>3. TestTypes'
  BY <1>1, <1>2 DEF TestTypes, Phases
<1>4. NotesSound'
  BY <1>1, <1>2 DEF NotesSound
<1>5. ToldSound'
  BY <1>1, <1>2, ToldKept
<1>6. CountsSound'
  BY <1>2 DEF CountsSound
<1> QED BY <1>3, <1>4, <1>5, <1>6 DEF TestersInv

LEMMA TestPriorityInv ==
  ASSUME TestersInv, T!TestPriority
  PROVE  TestersInv'
PROOF
<1>1. /\ tester = "priority" /\ place \in Phases \ {"succeeded", "failed"}
      /\ UNCHANGED alive /\ T!Mine
      /\ TestTypes /\ NotesSound /\ ToldSound /\ KillsSound
  BY DEF TestersInv, TestTypes, T!TestPriority
<1>2. /\ place \in {"create", "prio", "block", "prioBlocked", "unblock", "kill"}
      /\ rq \in Nat /\ rq <= 3 /\ Slots = 0..2 /\ nextPid \in Nat
      /\ state \in [T!Pid -> ProcState]
      /\ \A q \in T!Pid : q >= nextPid => state[q] = "NONE"
      /\ UNCHANGED <<tester, max_processes, meddled, toKill, named, told>>
      /\ Slots' = Slots /\ Len(T!prio) = 3
  BY <1>1, TestBounds DEF TestTypes, KillsSound, Slots, Phases, T!Mine, T!userVars, T!prio
<1>3. \A k \in Slots : /\ p_rqs[k] \in Note /\ p_rqs[k].pid \in Nat /\ p_rqs[k].pid < nextPid
                       /\ p_rqs[k].pid # 0 => p_rqs[k].pid \in T!Pid
  BY <1>1, TestBounds DEF TestTypes, Note, NotesSound
<1>4. CASE rq = 3
  <2>1. place' = T!NextPhase[place] /\ rq' = 0 /\ UNCHANGED <<state, nextPid, p_rqs>>
    BY <1>2, <1>4 DEF T!TestPriority, T!Goto, T!table
  <2>2. place' \in Phases /\ (place' = "succeeded" => place = "kill")
    <3>1. CASE place = "create"
      BY <1>1, <2>1, <3>1 DEF T!NextPhase, Phases
    <3>2. CASE place = "prio"
      BY <1>1, <2>1, <3>2 DEF T!NextPhase, Phases
    <3>3. CASE place = "block"
      BY <1>1, <2>1, <3>3 DEF T!NextPhase, Phases
    <3>4. CASE place = "prioBlocked"
      BY <1>1, <2>1, <3>4 DEF T!NextPhase, Phases
    <3>5. CASE place = "unblock"
      BY <1>1, <2>1, <3>5 DEF T!NextPhase, Phases
    <3>6. CASE place = "kill"
      BY <1>1, <2>1, <3>6 DEF T!NextPhase, Phases
    <3> QED BY <1>2, <3>1, <3>2, <3>3, <3>4, <3>5, <3>6
  <2>3. Dies
    BY <2>1 DEF Dies
  <2>4. KillsSound'
    <3>1. \A k \in Slots : k < 3 /\ ~(k < 0)
      BY <1>2
    <3> QED BY <1>1, <1>2, <1>4, <2>1, <2>2, <3>1 DEF KillsSound
  <2> QED BY <1>1, <1>2, <2>1, <2>2, <2>3, <2>4, CalledInv
<1>5. CASE rq # 3
  <2>1. PICK p : p = p_rqs[rq].pid
    OBVIOUS
  <2>2. /\ rq' = rq + 1 /\ place' = place /\ rq \in Slots /\ rq' \in Nat /\ rq' <= 3
        /\ p \in Nat
        /\ \A k \in Slots : k < rq' => k < rq \/ k = rq
    BY <1>2, <1>3, <1>5, <2>1 DEF T!TestPriority
  <2>3. CASE place = "create"
    <3>1. \/ T!Created /\ p_rqs' = [p_rqs EXCEPT ![rq].pid = nextPid]
          \/ UNCHANGED <<T!table, p_rqs>>
      BY <1>2, <1>5, <2>3 DEF T!TestPriority
    <3>2. KillsSound'
      BY <1>2, <2>2, <2>3 DEF KillsSound
    <3>3. CASE T!Created /\ p_rqs' = [p_rqs EXCEPT ![rq].pid = nextPid]
      <4>1. /\ nextPid \in T!Pid /\ nextPid' = nextPid + 1 /\ nextPid <= MaxPid /\ nextPid # 0
            /\ state' = [state EXCEPT ![nextPid] = "READY"]
        BY <3>3, TestBounds DEF T!Created, T!Pid
      <4>2. /\ state' \in [T!Pid -> ProcState]
            /\ \A q \in T!Pid : q # nextPid => state'[q] = state[q]
        BY <1>2, <4>1 DEF ProcState
      <4>3. /\ p_rqs' \in [Slots -> Note] /\ p_rqs'[rq].pid = nextPid
            /\ \A k \in Slots : k # rq => p_rqs'[k] = p_rqs[k]
        <5>1. p_rqs \in [Slots -> Note] /\ rq \in Slots
          BY <1>1, <2>2 DEF TestTypes
        <5>2. p_rqs[rq] \in Note /\ nextPid \in 0..MaxPid
          BY <4>1, <5>1, TestBounds DEF T!Pid
        <5>3. PICK note : note = [p_rqs[rq] EXCEPT !.pid = nextPid]
          OBVIOUS
        <5>4. note \in Note /\ note.pid = nextPid
          BY <5>2, <5>3 DEF Note
        <5>5. p_rqs' = [p_rqs EXCEPT ![rq] = note]
          BY <3>3, <5>3
        <5> QED BY <5>1, <5>4, <5>5
      <4>4. \A q \in T!Pid : q >= nextPid' => state'[q] = "NONE"
        <5>1. \A q \in T!Pid : q >= nextPid + 1 => q >= nextPid /\ q # nextPid
          BY <1>2, TestBounds
        <5> QED BY <1>2, <4>1, <4>2, <5>1
      <4>5. Dies
        <5>1. \A q \in T!Pid : q < nextPid => q # nextPid
          BY <1>2, TestBounds
        <5> QED BY <4>2, <5>1 DEF Dies
      <4>6. TestTypes'
        BY <1>1, <1>2, <2>2, <4>1, <4>2, <4>3, <4>4, TestBounds DEF TestTypes, Phases
      <4>7. NotesSound'
        <5>1. ASSUME NEW k \in Slots PROVE p_rqs'[k].pid < nextPid'
          <6>1. CASE k = rq
            BY <1>2, <4>1, <4>3, <6>1
          <6>2. CASE k # rq
            BY <1>2, <1>3, <4>1, <4>3, <6>2
          <6> QED BY <6>1, <6>2
        <5>2. \A k \in Slots : k # rq => p_rqs'[k].pid # nextPid
          BY <1>2, <1>3, <4>3
        <5>3. ASSUME NEW j \in Slots, NEW k \in Slots, j # rq, k # rq,
                     p_rqs'[j].pid = p_rqs'[k].pid, p_rqs'[j].pid # 0
              PROVE  j = k
          BY <1>1, <4>3, <5>3 DEF NotesSound
        <5>4. \A j, k \in Slots : p_rqs'[j].pid = p_rqs'[k].pid /\ p_rqs'[j].pid # 0 => j = k
          BY <4>3, <5>2, <5>3
        <5> QED BY <1>1, <1>2, <5>1, <5>4 DEF NotesSound
      <4>8. ToldSound'
        <5>1. nextPid' \in Nat /\ nextPid <= nextPid'
          BY <1>2, <4>1
        <5> QED BY <1>1, <1>2, <4>5, <5>1, ToldKept
      <4>9. CountsSound'
        BY <1>1, <1>2 DEF CountsSound
      <4> QED BY <3>2, <4>6, <4>7, <4>8, <4>9 DEF TestersInv
    <3>4. CASE UNCHANGED <<T!table, p_rqs>>
      <4>1. UNCHANGED <<state, nextPid, p_rqs>> /\ Dies
        BY <3>4 DEF T!table, Dies
      <4> QED BY <1>1, <1>2, <2>2, <3>2, <4>1, CalledInv
    <3> QED BY <3>1, <3>3, <3>4
  <2>4. CASE place \in {"prio", "prioBlocked"}
    <3>1. \/ T!ChangePriority(p, T!prio[rq + 1])
          \/ T!ChangePriority(p, T!MEDIUM)
      <4>1. CASE place = "prio"
        BY <1>2, <1>5, <2>1, <4>1 DEF T!TestPriority
      <4>2. CASE place = "prioBlocked"
        BY <1>2, <1>5, <2>1, <4>2 DEF T!TestPriority
      <4> QED BY <2>4, <4>1, <4>2
    <3>2. UNCHANGED <<state, nextPid>> /\ Dies
      BY <3>1 DEF T!ChangePriority, Dies
    <3>3. UNCHANGED p_rqs
      BY <1>2, <1>5, <2>4 DEF T!TestPriority
    <3>4. KillsSound'
      BY <1>2, <2>2, <2>4 DEF KillsSound
    <3> QED BY <1>1, <1>2, <2>2, <3>2, <3>3, <3>4, CalledInv
  <2>5. CASE place \in {"block", "unblock", "kill"}
    <3>1. UNCHANGED p_rqs
      BY <1>2, <1>5, <2>5 DEF T!TestPriority
    <3>2. /\ T!CanKill(p) \in BOOLEAN /\ T!CanBlock(p) \in BOOLEAN /\ T!CanUnblock(p) \in BOOLEAN
          /\ T!CanKill(p) => p \in T!Pid /\ state[p] # "NONE"
          /\ T!CanBlock(p) => p \in T!Pid /\ state[p] = "READY"
          /\ T!CanUnblock(p) => p \in T!Pid /\ state[p] = "BLK_USER"
          /\ p \in T!Pid /\ ~T!CanKill(p) => state[p] \in T!Dead
      BY <1>1, <2>2, CallMay
    <3>3. CASE place = "block"
      <4>1. T!Call(T!CanBlock(p), p, "BLK_USER")
        BY <1>2, <1>5, <2>1, <3>3 DEF T!TestPriority
      <4>2. /\ nextPid' = nextPid /\ state' \in [T!Pid -> ProcState]
            /\ \A q \in T!Pid : q >= nextPid => state'[q] = "NONE"
            /\ Dies
        BY <1>1, <2>2, <3>2, <4>1, CallFacts
      <4>3. KillsSound'
        BY <1>2, <2>2, <3>3 DEF KillsSound
      <4> QED BY <1>1, <1>2, <2>2, <3>1, <4>2, <4>3, CalledInv
    <3>4. CASE place = "unblock"
      <4>1. T!Call(T!CanUnblock(p), p, "READY")
        BY <1>2, <1>5, <2>1, <3>4 DEF T!TestPriority
      <4>2. /\ nextPid' = nextPid /\ state' \in [T!Pid -> ProcState]
            /\ \A q \in T!Pid : q >= nextPid => state'[q] = "NONE"
            /\ Dies
        BY <1>1, <2>2, <3>2, <4>1, CallFacts
      <4>3. KillsSound'
        BY <1>2, <2>2, <3>4 DEF KillsSound
      <4> QED BY <1>1, <1>2, <2>2, <3>1, <4>2, <4>3, CalledInv
    <3>5. CASE place = "kill"
      <4>1. T!Call(T!CanKill(p), p, "EXITED")
        BY <1>2, <1>5, <2>1, <3>5 DEF T!TestPriority
      <4>2. /\ nextPid' = nextPid /\ state' \in [T!Pid -> ProcState]
            /\ \A q \in T!Pid : q >= nextPid => state'[q] = "NONE"
            /\ T!CanKill(p) => state'[p] = "EXITED"
            /\ ~T!CanKill(p) => state' = state
            /\ Dies
        BY <1>1, <2>2, <3>2, <4>1, CallFacts
      <4>3. KillsSound'
        <5>1. ASSUME NEW k \in Slots, k < rq', p_rqs[k].pid # 0
              PROVE  state'[p_rqs[k].pid] \in T!Dead
          <6>1. CASE k < rq
            <7>1. state[p_rqs[k].pid] \in T!Dead
              BY <1>1, <3>5, <5>1, <6>1 DEF KillsSound
            <7> QED BY <1>3, <4>2, <5>1, <7>1 DEF Dies
          <6>2. CASE k = rq
            BY <1>3, <2>1, <3>2, <4>2, <5>1, <6>2 DEF T!Dead
          <6> QED BY <2>2, <5>1, <6>1, <6>2
        <5> QED BY <1>2, <2>2, <3>1, <3>5, <5>1 DEF KillsSound
      <4> QED BY <1>1, <1>2, <2>2, <3>1, <4>2, <4>3, CalledInv
    <3> QED BY <2>5, <3>3, <3>4, <3>5
  <2> QED BY <1>2, <2>3, <2>4, <2>5
<1> QED BY <1>4, <1>5

LEMMA TestersStart ==
  ASSUME T!Init
  PROVE  TestersInv
PROOF
<1>1. /\ state = [p \in T!Pid |-> "NONE"] /\ nextPid = 1
      /\ tester \in {"processes", "priority"} /\ max_processes \in 1..MaxProcesses
      /\ place = "create" /\ rq = 0 /\ alive = 0
      /\ p_rqs = [k \in Slots |-> [pid |-> 0, state |-> "KILLED"]]
      /\ toKill = <<>> /\ named = {} /\ told = {}
  BY DEF T!Init, Slots
<1>2. \A k \in Slots : p_rqs[k].pid = 0 /\ p_rqs[k].state = "KILLED" /\ k \in Int
                       /\ p_rqs[k] = [pid |-> 0, state |-> "KILLED"]
  BY <1>1, TestBounds DEF Slots
<1>3. TestTypes
  <2>1. [pid |-> 0, state |-> "KILLED"] \in Note
    BY TestBounds DEF Note
  <2>2. p_rqs \in [Slots -> Note]
    BY <1>1, <2>1
  <2> QED BY <1>1, <2>2, TestBounds DEF TestTypes, ProcState, Phases
<1>4. NotesSound
  BY <1>1, <1>2 DEF NotesSound
<1>5. CountsSound
  <2>1. Alive = {}
    BY <1>2 DEF Alive
  <2>2. Cardinality(Alive) = 0
    BY <2>1, FS_EmptySet
  <2>3. \A k \in Slots : ~(k < 0)
    BY <1>1, TestBounds DEF Slots
  <2> QED BY <1>1, <1>2, <2>2, <2>3, TestBounds DEF CountsSound
<1>6. KillsSound /\ ToldSound
  BY <1>1 DEF KillsSound, ToldSound
<1> QED BY <1>3, <1>4, <1>5, <1>6 DEF TestersInv

LEMMA TestersRest ==
  ASSUME TestersInv, UNCHANGED processVars
  PROVE  TestersInv'
PROOF
<1>1. /\ UNCHANGED <<state, nextPid, tester, max_processes, place, rq, alive, p_rqs, meddled,
                     toKill, named, told>>
      /\ TestTypes /\ NotesSound /\ CountsSound /\ KillsSound /\ ToldSound
  BY DEF processVars, TestersInv
<1>2. Slots' = Slots /\ Alive' = Alive
  BY <1>1 DEF Slots, Alive
<1>3. TestTypes'
  BY <1>1, <1>2 DEF TestTypes, Phases
<1>4. NotesSound'
  BY <1>1, <1>2 DEF NotesSound
<1>5. CountsSound'
  BY <1>1, <1>2 DEF CountsSound
<1>6. KillsSound' /\ ToldSound'
  BY <1>1, <1>2 DEF KillsSound, ToldSound, Ended
<1> QED BY <1>3, <1>4, <1>5, <1>6 DEF TestersInv

LEMMA TestersStep ==
  ASSUME TestersInv, [Next]_vars
  PROVE  TestersInv'
PROOF
<1>1. CASE T!Next
  <2>1. CASE T!TestProcesses
    BY <2>1, CreateOneInv, ActInv, SpareInv, LoopEndsInv DEF T!TestProcesses
  <2>2. CASE T!TestPriority
    BY <2>2, TestPriorityInv
  <2>3. CASE T!User
    BY <2>3, UserInv
  <2>4. CASE \E p \in T!Pid : T!Freed(p)
    BY <2>4, FreedInv
  <2> QED BY <1>1, <2>1, <2>2, <2>3, <2>4 DEF T!Next
<1>2. CASE ~T!Next
  <2>1. UNCHANGED processVars
    BY <1>2 DEF Next, vars
  <2> QED BY <2>1, TestersRest
<1> QED BY <1>1, <1>2

LEMMA TestersBelief ==
  ASSUME TestersInv
  PROVE  BeliefsHold
PROOF
<1>1. TestTypes /\ NotesSound /\ CountsSound /\ KillsSound /\ ToldSound
  BY DEF TestersInv
<1>2. DOMAIN p_rqs = Slots /\ \A k \in Slots : p_rqs[k] \in Note
  BY <1>1 DEF TestTypes
<1>3. \A k \in Slots : p_rqs[k].state \in {"RUNNING", "BLOCKED", "KILLED"}
  BY <1>2 DEF Note
<1>4. /\ T!Actual["RUNNING"] = {"READY"} /\ T!Actual["BLOCKED"] = {"BLK_USER"}
      /\ T!Actual["KILLED"] = T!Dead
  BY DEF T!Actual
<1>5. \A note \in {"RUNNING", "BLOCKED", "KILLED"} : \A s : Right(note, s) => s \in T!Actual[note]
  BY <1>4 DEF Right
<1>6. T!NotesRight
  <2>1. ASSUME tester = "processes", max_processes < Bytes
        PROVE  /\ \A k \in Slots : p_rqs[k].pid # 0 /\ p_rqs[k].pid \notin meddled =>
                    state[p_rqs[k].pid] \in T!Actual[p_rqs[k].state]
               /\ alive = Cardinality(Alive)
               /\ place = "failed" => meddled # {} \/ nextPid <= max_processes
    <3>1. \A k \in Slots : p_rqs[k].pid # 0 /\ p_rqs[k].pid \notin meddled =>
                             Right(p_rqs[k].state, state[p_rqs[k].pid])
      BY <1>1, <2>1 DEF NotesSound
    <3>2. \A k \in Slots : p_rqs[k].pid # 0 /\ p_rqs[k].pid \notin meddled =>
                             state[p_rqs[k].pid] \in T!Actual[p_rqs[k].state]
      BY <1>3, <1>5, <3>1
    <3> QED BY <1>1, <2>1, <3>2 DEF CountsSound
  <2>2. Alive = {k \in DOMAIN p_rqs : p_rqs[k].state # "KILLED"}
    BY <1>2 DEF Alive
  <2> QED BY <1>2, <2>1, <2>2 DEF T!NotesRight, T!Cardinality, Cardinality
<1>7. T!NothingLeft
  <2>1. ASSUME place = "succeeded", NEW k \in Slots, p_rqs[k].pid # 0
        PROVE  state[p_rqs[k].pid] \in T!Dead
    <3>1. CASE tester = "processes"
      <4>1. max_processes < Bytes
        BY <1>1, <2>1, <3>1 DEF CountsSound
      <4>2. Cardinality(Alive) = 0
        BY <1>1, <2>1, <3>1, <4>1 DEF CountsSound
      <4>3. Alive = {}
        BY <1>1, <4>2, SlotsFinite, FS_EmptySet
      <4>4. p_rqs[k].state = "KILLED"
        BY <4>3 DEF Alive
      <4> QED BY <1>1, <2>1, <3>1, <4>4 DEF NotesSound
    <3>2. CASE tester = "priority"
      BY <1>1, <2>1, <3>2 DEF KillsSound
    <3> QED BY <1>1, <3>1, <3>2 DEF TestTypes
  <2>2. \A p \in told : state[p] \in T!Dead
    BY <1>1 DEF ToldSound, Ended
  <2> QED BY <1>2, <2>1, <2>2 DEF T!NothingLeft
<1> QED BY <1>6, <1>7 DEF BeliefsHold, T!BeliefsHold

\* However many processes testProcesses and testPriority are given, whatever the
\* user does to them meanwhile, and however large an uint8_t is: what a tester
\* notes of a process is so, it fails for the user's doing or want of memory
\* alone, and it ends well only when its processes are dead, as are those that a
\* kill reports killed (testProcesses.c:45-114, testPrio.c:29-71,
\* shellCommands.c:192-204).
THEOREM TestersAreRight == Spec => []BeliefsHold
PROOF
<1>1. Init => TestersInv
  BY TestersStart DEF Init
<1>2. TestersInv /\ [Next]_vars => TestersInv'
  BY TestersStep
<1>3. TestersInv => BeliefsHold
  BY TestersBelief
<1> QED BY <1>1, <1>2, <1>3, PTL DEF Spec

-----------------------------------------------------------------------------
(* testMM.                                                                  *)

H == INSTANCE HeapProof

\* Its heap is the one that HeapProof is about.
LEMMA HeapFacts ==
  /\ HeapWords \in Nat \ {0}
  /\ M!F!Header = 2 /\ H!Header = 2 /\ M!F!Addr = 0..HeapWords-1 /\ H!Addr = 0..HeapWords-1
PROOF
<1>1. HeapWords \in Nat \ {0}
  BY ProgramsAssumption
<1> QED BY <1>1 DEF M!F!Header, H!Header, M!F!Addr, H!Addr

LEMMA SameHeap ==
  /\ M!F!InUse = H!InUse /\ M!F!FreeBlocks = H!FreeBlocks
  /\ M!F!Init <=> H!Init
PROOF
<1>1. M!F!InUse = H!InUse
  BY DEF M!F!InUse, H!InUse, M!F!Addr, H!Addr
<1>2. M!F!FreeBlocks = H!FreeBlocks
  BY DEF M!F!FreeBlocks, H!FreeBlocks, M!F!Addr, H!Addr, M!F!Start, H!Start, M!F!End, H!End,
         M!F!Null, H!Null
<1>3. M!F!Init <=> H!Init
  BY DEF M!F!Init, H!Init, M!F!Block, H!Block, M!F!Addr, H!Addr, M!F!Start, H!Start, M!F!End, H!End,
         M!F!Null, H!Null
<1> QED BY <1>1, <1>2, <1>3

LEMMA SameFree ==
  ASSUME NEW b, M!F!Free(b) PROVE H!Free(b)
PROOF
BY Zenon DEF M!F!Free, H!Free, M!F!Freeable, H!Freeable, M!F!Insert, H!Insert, M!F!Before, H!Before,
       M!F!Adjoins, H!Adjoins, M!F!Joined, H!Joined, M!F!Block, H!Block, M!F!Addr, H!Addr,
       M!F!Start, H!Start, M!F!End, H!End, M!F!Null, H!Null

LEMMA SameMalloc ==
  ASSUME NEW n, M!F!Malloc(n) PROVE H!Malloc(n)
PROOF
BY Zenon DEF M!F!Malloc, H!Malloc, M!F!Fits, H!Fits, M!F!BeforeFit, H!BeforeFit, M!F!TooSmall, H!TooSmall,
       M!F!Cut, H!Cut, M!F!Charged, H!Charged, M!F!Header, H!Header,
       M!F!Insert, H!Insert, M!F!Before, H!Before,
       M!F!Adjoins, H!Adjoins, M!F!Joined, H!Joined, M!F!Block, H!Block, M!F!Addr, H!Addr,
       M!F!Start, H!Start, M!F!End, H!End, M!F!Null, H!Null

\* The requests whose blocks it has not freed yet
Pending == {k \in DOMAIN mm_rqs : phase = "free" => i <= k}

Request == [at : Nat, size : Nat]

MemTypes ==
  /\ max_memory \in Nat /\ total \in Nat /\ total <= max_memory
  /\ mm_rqs \in Seq(Request)
  /\ phase \in {"request", "no memory available", "set", "check", "free"}
  /\ i \in Nat \ {0}
  /\ data \in [0..HeapWords-1 -> Nat]

\* Its blocks are in use until it frees them; no header is within one, and no two overlap,
\* as long as it knows them.
Owned ==
  /\ H!InUse = {mm_rqs[k].at : k \in Pending}
  /\ \A k \in Pending : mm_rqs[k].size + 2 <= size[mm_rqs[k].at]
  /\ \A k \in DOMAIN mm_rqs : mm_rqs[k].at + mm_rqs[k].size + 2 <= HeapWords
  /\ \A k \in DOMAIN mm_rqs, b \in H!OnList \cup H!InUse :
       b <= mm_rqs[k].at \/ mm_rqs[k].at + mm_rqs[k].size + 1 < b
  /\ \A k, l \in DOMAIN mm_rqs : k # l =>
       \/ mm_rqs[k].at + mm_rqs[k].size + 2 <= mm_rqs[l].at
       \/ mm_rqs[l].at + mm_rqs[l].size + 2 <= mm_rqs[k].at

Filled(k) == \A a \in M!Block(mm_rqs[k]) : data[a] = k

DataSound ==
  /\ phase = "set" => \A k \in DOMAIN mm_rqs : k < i => Filled(k)
  /\ phase = "check" => \A k \in DOMAIN mm_rqs : Filled(k)

MemInv == MemTypes /\ H!HeapInv /\ Owned /\ DataSound

LEMMA RqFacts ==
  ASSUME MemTypes
  PROVE  /\ Len(mm_rqs) \in Nat /\ DOMAIN mm_rqs = 1..Len(mm_rqs)
         /\ \A k \in DOMAIN mm_rqs :
              /\ k \in Nat /\ mm_rqs[k].at \in Nat /\ mm_rqs[k].size \in Nat
              /\ M!Block(mm_rqs[k]) = mm_rqs[k].at + 2 .. mm_rqs[k].at + 1 + mm_rqs[k].size
PROOF
<1>1. /\ Len(mm_rqs) \in Nat /\ DOMAIN mm_rqs = 1..Len(mm_rqs)
      /\ \A k \in DOMAIN mm_rqs : k \in Nat /\ mm_rqs[k] \in Request
  <2>1. mm_rqs \in Seq(Request)
    BY DEF MemTypes
  <2>2. \A k \in 1..Len(mm_rqs) : mm_rqs[k] \in Request
    BY <2>1
  <2> QED BY <2>1, <2>2
<1>2. \A k \in DOMAIN mm_rqs : k \in Nat /\ mm_rqs[k].at \in Nat /\ mm_rqs[k].size \in Nat
  BY <1>1 DEF Request
<1>3. ASSUME NEW k \in DOMAIN mm_rqs
      PROVE  M!Block(mm_rqs[k]) = mm_rqs[k].at + 2 .. mm_rqs[k].at + 1 + mm_rqs[k].size
  <2>1. mm_rqs[k].at + 2 + mm_rqs[k].size - 1 = mm_rqs[k].at + 1 + mm_rqs[k].size
    BY <1>2
  <2> QED BY <2>1, HeapFacts DEF M!Block
<1> QED BY <1>1, <1>2, <1>3

\* Blocks with room for their headers
LEMMA RoomFacts ==
  ASSUME NEW sz, NEW B, H!Tiles(sz, B)
  PROVE  /\ \A a \in B : a \in Nat /\ sz[a] \in Nat /\ a + sz[a] <= HeapWords
         /\ \A a, b \in B : b <= a \/ a + sz[a] <= b
PROOF
<1>1. \A a \in B : a \in Nat /\ sz[a] \in Nat /\ a + sz[a] <= HeapWords
  <2> HeapWords \in Nat \ {0}
    BY HeapFacts
  <2> QED BY H!TileFacts
<1>2. \A a, b \in B : a < b => a + sz[a] <= b
  BY DEF H!Tiles
<1> QED BY <1>1, <1>2

LEMMA MemStart == M!Init => MemInv
PROOF
<1> SUFFICES ASSUME M!Init PROVE MemInv
  OBVIOUS
<1>1. /\ max_memory \in Nat /\ mm_rqs = <<>> /\ total = 0 /\ phase = "request" /\ i = 1
      /\ data = [a \in 0..HeapWords-1 |-> 0]
  <2>1. MaxMemory \in Nat
    BY ProgramsAssumption
  <2> QED BY <2>1, HeapFacts DEF M!Init
<1>2. H!Init
  BY SameHeap DEF M!Init
<1>3. H!HeapInv
  BY <1>2, HeapFacts, H!InitInv
<1>4. H!InUse = {}
  BY <1>2, HeapFacts DEF H!InUse, H!Init, H!Block
<1>5. MemTypes
  BY <1>1 DEF MemTypes
<1>6. DOMAIN mm_rqs = {} /\ Pending = {}
  BY <1>1 DEF Pending
<1>7. Owned
  BY <1>4, <1>6 DEF Owned
<1> QED BY <1>1, <1>3, <1>5, <1>7 DEF MemInv, DataSound

LEMMA MemBelief == MemInv => BlocksKept
PROOF
<1> SUFFICES ASSUME MemInv PROVE BlocksKept
  OBVIOUS
<1>1. MemTypes /\ H!HeapInv /\ Owned
  BY DEF MemInv
<1>2. M!F!FreeBlocks = H!OnList /\ M!F!InUse = H!InUse
  <2>1. H!FreeBlocks = H!OnList
    BY <1>1, HeapFacts, H!FreeBlocksAre
  <2> QED BY <2>1, SameHeap
<1>3. phase # "out of bounds" /\ total <= max_memory
  BY <1>1 DEF MemTypes
<1>4. ASSUME NEW k \in DOMAIN mm_rqs, NEW b \in H!OnList \cup H!InUse
      PROVE  M!Block(mm_rqs[k]) \cap (b..b+1) = {}
  <2>1. b \in Nat
    <3>1. b \in 0..HeapWords-1
      BY HeapFacts DEF H!OnList, H!InUse
    <3> QED BY <3>1
  <2>2. b <= mm_rqs[k].at \/ mm_rqs[k].at + mm_rqs[k].size + 1 < b
    BY <1>1 DEF Owned
  <2>3. /\ mm_rqs[k].at \in Nat /\ mm_rqs[k].size \in Nat
        /\ M!Block(mm_rqs[k]) = mm_rqs[k].at + 2 .. mm_rqs[k].at + 1 + mm_rqs[k].size
    BY <1>1, RqFacts
  <2> QED BY <2>1, <2>2, <2>3
<1>5. ASSUME phase = "request", mm_rqs = <<>>
      PROVE  M!F!FreeBlocks = {0} /\ bytesAvailable = HeapWords
  <2>1. H!InUse = {}
    BY <1>1, <1>5 DEF Owned, Pending
  <2>2. H!OnList = {0} /\ bytesAvailable = HeapWords
    BY <1>1, <2>1, HeapFacts, H!WholeHeap
  <2> QED BY <1>2, <2>2
<1>6. \A b : b + M!F!Header - 1 = b + 2 - 1
  BY HeapFacts
<1>7. \A b \in H!OnList \cup H!InUse : b + 2 - 1 = b + 1
  BY HeapFacts DEF H!OnList, H!InUse
<1> QED BY <1>2, <1>3, <1>4, <1>5, <1>6, <1>7 DEF BlocksKept, M!BlocksKept

\* A step that leaves the heap and the requests as they are
LEMMA MemStays ==
  ASSUME MemInv, UNCHANGED M!heap, UNCHANGED <<max_memory, mm_rqs, total>>,
         Pending' = Pending, phase' \in {"request", "no memory available", "set", "check", "free"},
         i' \in Nat \ {0}, data' \in [0..HeapWords-1 -> Nat], DataSound'
  PROVE  MemInv'
PROOF
<1>1. MemTypes /\ H!HeapInv /\ Owned
  BY DEF MemInv
<1>2. UNCHANGED <<next, size, allocated, bytesAvailable>>
  BY DEF M!heap
<1>3. H!HeapInv' /\ H!OnList' = H!OnList /\ H!InUse' = H!InUse
  <2>1. H!OnList' = H!OnList /\ H!InUse' = H!InUse
    BY <1>2 DEF H!OnList, H!InUse
  <2> QED BY <1>1, <1>2, <2>1 DEF H!HeapInv
<1>4. MemTypes'
  BY <1>1 DEF MemTypes
<1>5. Owned'
  BY <1>1, <1>2, <1>3 DEF Owned
<1> QED BY <1>3, <1>4, <1>5 DEF MemInv

LEMMA SetInv == MemInv /\ (M!Requested \/ M!Set \/ M!Check) => MemInv'
PROOF
<1> SUFFICES ASSUME MemInv, M!Requested \/ M!Set \/ M!Check PROVE MemInv'
  OBVIOUS
<1>1. MemTypes /\ Owned /\ DataSound
  BY DEF MemInv
<1>2. /\ Len(mm_rqs) \in Nat /\ DOMAIN mm_rqs = 1..Len(mm_rqs)
      /\ \A k \in DOMAIN mm_rqs :
           /\ k \in Nat /\ mm_rqs[k].at \in Nat /\ mm_rqs[k].size \in Nat
           /\ M!Block(mm_rqs[k]) = mm_rqs[k].at + 2 .. mm_rqs[k].at + 1 + mm_rqs[k].size
  BY <1>1, RqFacts
<1>3. i \in Nat \ {0} /\ data \in [0..HeapWords-1 -> Nat]
  BY <1>1 DEF MemTypes
<1>4. CASE M!Requested
  <2>1. /\ phase = "request" /\ phase' = "set" /\ i' = 1
        /\ UNCHANGED M!heap /\ UNCHANGED <<max_memory, mm_rqs, total, data>>
    BY <1>4 DEF M!Requested, M!Goto
  <2>2. Pending' = Pending
    BY <2>1 DEF Pending
  <2>3. DataSound'
    BY <1>2, <2>1 DEF DataSound
  <2> QED BY <1>3, <2>1, <2>2, <2>3, MemStays
<1>5. CASE M!Set
  <2>1. phase = "set" /\ UNCHANGED M!heap /\ UNCHANGED <<max_memory, mm_rqs, total>>
    BY <1>5 DEF M!Set
  <2>2. CASE i <= Len(mm_rqs)
    <3>1. /\ data' = [a \in DOMAIN data |-> IF a \in M!Block(mm_rqs[i]) THEN i ELSE data[a]]
          /\ i' = i + 1 /\ phase' = phase
      BY <1>5, <2>2 DEF M!Set
    <3>2. data' \in [0..HeapWords-1 -> Nat]
      BY <1>3, <3>1
    <3>3. i \in DOMAIN mm_rqs
      BY <1>2, <1>3, <2>2
    <3>4. ASSUME NEW k \in DOMAIN mm_rqs, NEW a \in M!Block(mm_rqs[k]) PROVE a \in DOMAIN data
      <4>1. mm_rqs[k].at + mm_rqs[k].size + 2 <= HeapWords
        BY <1>1 DEF Owned
      <4>2. PICK p \in Nat, n \in Nat : p = mm_rqs[k].at /\ n = mm_rqs[k].size
        BY <1>2
      <4>3. a \in p+2..p+1+n
        BY <1>2, <4>2
      <4>4. p + n + 2 <= HeapWords
        BY <4>1, <4>2
      <4>5. DOMAIN data = 0..HeapWords-1
        BY <1>3
      <4>6. a \in 0..HeapWords-1
        BY <4>3, <4>4, HeapFacts
      <4> QED BY <4>5, <4>6
    <3>5. ASSUME NEW k \in DOMAIN mm_rqs, k < i' PROVE Filled(k)'
      <4>1. SUFFICES ASSUME NEW a \in M!Block(mm_rqs[k]) PROVE data'[a] = k
        BY <2>1 DEF Filled, M!Block, M!F!Header
      <4>2. CASE k = i
        BY <3>1, <3>4, <4>2
      <4>3. CASE k # i
        <5>1. k < i
          BY <1>2, <1>3, <3>1, <3>5, <4>3
        <5>2. data[a] = k
          BY <1>1, <2>1, <5>1 DEF DataSound, Filled
        <5>3. a \notin M!Block(mm_rqs[i])
          <6>1. \/ mm_rqs[k].at + mm_rqs[k].size + 2 <= mm_rqs[i].at
                \/ mm_rqs[i].at + mm_rqs[i].size + 2 <= mm_rqs[k].at
            BY <1>1, <3>3, <4>3 DEF Owned
          <6>2. PICK p \in Nat, n \in Nat, q \in Nat, m \in Nat :
                  /\ p = mm_rqs[k].at /\ n = mm_rqs[k].size
                  /\ q = mm_rqs[i].at /\ m = mm_rqs[i].size
            BY <1>2, <3>3
          <6>3. a \in p+2..p+1+n /\ M!Block(mm_rqs[i]) = q+2..q+1+m
            BY <1>2, <3>3, <6>2
          <6>4. p + n + 2 <= q \/ q + m + 2 <= p
            BY <6>1, <6>2
          <6> QED BY <6>3, <6>4
        <5> QED BY <3>1, <3>4, <5>2, <5>3
      <4> QED BY <4>2, <4>3
    <3>6. DataSound'
      <4>1. \A k \in DOMAIN mm_rqs' : k < i' => Filled(k)'
        BY <2>1, <3>5
      <4> QED BY <2>1, <3>1, <4>1 DEF DataSound
    <3>7. Pending' = Pending
      BY <2>1, <3>1 DEF Pending
    <3> QED BY <1>3, <2>1, <3>1, <3>2, <3>6, <3>7, MemStays
  <2>3. CASE ~(i <= Len(mm_rqs))
    <3>1. phase' = "check" /\ i' = 1 /\ data' = data
      BY <1>5, <2>3 DEF M!Set, M!Goto
    <3>2. \A k \in DOMAIN mm_rqs : k < i
      BY <1>2, <1>3, <2>3
    <3>3. \A k \in DOMAIN mm_rqs : Filled(k)'
      <4>1. \A k \in DOMAIN mm_rqs : Filled(k)
        BY <1>1, <2>1, <3>2 DEF DataSound
      <4> QED BY <2>1, <3>1, <4>1 DEF Filled, M!Block, M!F!Header
    <3>4. DataSound'
      BY <2>1, <3>1, <3>3 DEF DataSound
    <3>5. Pending' = Pending
      BY <2>1, <3>1 DEF Pending
    <3> QED BY <1>3, <2>1, <3>1, <3>4, <3>5, MemStays
  <2> QED BY <2>2, <2>3
<1>6. CASE M!Check
  <2>1. phase = "check" /\ UNCHANGED M!heap /\ UNCHANGED <<max_memory, mm_rqs, total, data>>
    BY <1>6 DEF M!Check
  <2>2. \A k \in DOMAIN mm_rqs : Filled(k)
    BY <1>1, <2>1 DEF DataSound
  <2>3. CASE i > Len(mm_rqs)
    <3>1. phase' = "free" /\ i' = 1
      BY <1>6, <2>3 DEF M!Check, M!Goto
    <3>2. Pending' = Pending
      <4>1. \A k \in DOMAIN mm_rqs : 1 <= k
        BY <1>2
      <4> QED BY <2>1, <3>1, <4>1 DEF Pending
    <3>3. DataSound'
      BY <3>1 DEF DataSound
    <3> QED BY <1>3, <2>1, <3>1, <3>2, <3>3, MemStays
  <2>4. CASE ~(i > Len(mm_rqs))
    <3>1. i \in DOMAIN mm_rqs
      BY <1>2, <1>3, <2>4
    <3>2. \A a \in M!Block(mm_rqs[i]) : data[a] = i
      BY <2>2, <3>1 DEF Filled
    <3>3. i' = i + 1 /\ phase' = phase
      BY <1>6, <2>4, <3>2 DEF M!Check
    <3>4. \A k \in DOMAIN mm_rqs : Filled(k)'
      BY <2>1, <2>2 DEF Filled, M!Block, M!F!Header
    <3>5. DataSound'
      BY <2>1, <3>3, <3>4 DEF DataSound
    <3>6. Pending' = Pending
      BY <2>1, <3>3 DEF Pending
    <3> QED BY <1>3, <2>1, <3>3, <3>5, <3>6, MemStays
  <2> QED BY <2>3, <2>4
<1> QED BY <1>4, <1>5, <1>6

LEMMA MemFreeInv == MemInv /\ M!Free => MemInv'
PROOF
<1> SUFFICES ASSUME MemInv, M!Free PROVE MemInv'
  OBVIOUS
<1>1. MemTypes /\ H!HeapInv /\ Owned /\ DataSound
  BY DEF MemInv
<1>2. /\ Len(mm_rqs) \in Nat /\ DOMAIN mm_rqs = 1..Len(mm_rqs)
      /\ \A k \in DOMAIN mm_rqs : k \in Nat /\ mm_rqs[k].at \in Nat /\ mm_rqs[k].size \in Nat
  BY <1>1, RqFacts
<1>3. i \in Nat \ {0} /\ data \in [0..HeapWords-1 -> Nat]
  BY <1>1 DEF MemTypes
<1>4. phase = "free" /\ UNCHANGED <<max_memory, data>>
  BY DEF M!Free
<1>5. CASE i <= Len(mm_rqs)
  <2>1. M!F!Free(mm_rqs[i].at) /\ i' = i + 1 /\ UNCHANGED <<phase, mm_rqs, total>>
    BY <1>5 DEF M!Free
  <2>2. i \in DOMAIN mm_rqs /\ i \in Pending
    BY <1>2, <1>3, <1>4, <1>5 DEF Pending
  <2>3. PICK b : b = mm_rqs[i].at
    OBVIOUS
  <2>4. b \in H!InUse /\ b \in H!Addr
    BY <1>1, <2>2, <2>3 DEF Owned, H!InUse
  <2>5. /\ H!HeapInv' /\ H!InUse' = H!InUse \ {b}
        /\ \A x \in H!InUse' : size'[x] = size[x]
        /\ H!OnList' \cup H!InUse' \subseteq H!OnList \cup H!InUse
    <3>1. H!Free(b)
      BY <2>1, <2>3, SameFree
    <3> QED BY <1>1, <2>4, <3>1, HeapFacts, H!FreeInv
  <2>6. Pending' = Pending \ {i}
    <3>1. \A k \in DOMAIN mm_rqs : i + 1 <= k <=> i <= k /\ k # i
      BY <1>2, <1>3
    <3> QED BY <1>4, <2>1, <3>1 DEF Pending
  <2>7. \A k \in Pending : k # i => mm_rqs[k].at # b
    <3>1. ASSUME NEW k \in Pending, k # i, mm_rqs[k].at = b PROVE FALSE
      <4>1. k \in DOMAIN mm_rqs
        BY DEF Pending
      <4>2. \/ mm_rqs[k].at + mm_rqs[k].size + 2 <= mm_rqs[i].at
            \/ mm_rqs[i].at + mm_rqs[i].size + 2 <= mm_rqs[k].at
        BY <1>1, <2>2, <3>1, <4>1 DEF Owned
      <4> QED BY <1>2, <2>2, <2>3, <3>1, <4>1, <4>2
    <3> QED BY <3>1
  <2>8. H!InUse' = {mm_rqs[k].at : k \in Pending'}
    <3>1. H!InUse = {mm_rqs[k].at : k \in Pending}
      BY <1>1 DEF Owned
    <3> QED BY <2>3, <2>5, <2>6, <2>7, <3>1
  <2>9. ASSUME NEW k \in Pending' PROVE mm_rqs[k].size + 2 <= size'[mm_rqs[k].at]
    <3>1. k \in Pending /\ mm_rqs[k].at \in H!InUse'
      BY <2>6, <2>8
    <3>2. mm_rqs[k].size + 2 <= size[mm_rqs[k].at]
      BY <1>1, <3>1 DEF Owned
    <3>3. size'[mm_rqs[k].at] = size[mm_rqs[k].at]
      BY <2>5, <3>1
    <3> QED BY <3>2, <3>3
  <2>10. Owned'
    <3>1. \A k \in DOMAIN mm_rqs, x \in H!OnList' \cup H!InUse' :
            x <= mm_rqs[k].at \/ mm_rqs[k].at + mm_rqs[k].size + 1 < x
      BY <1>1, <2>5 DEF Owned
    <3>2. mm_rqs' = mm_rqs
      BY <2>1
    <3> QED BY <1>1, <2>8, <2>9, <3>1, <3>2 DEF Owned
  <2>11. MemTypes' /\ DataSound'
    BY <1>1, <1>4, <2>1 DEF MemTypes, DataSound
  <2> QED BY <2>5, <2>10, <2>11 DEF MemInv
<1>6. CASE ~(i <= Len(mm_rqs))
  <2>1. /\ phase' = "request" /\ i' = 1 /\ mm_rqs' = <<>> /\ total' = 0 /\ UNCHANGED M!heap
    BY <1>6 DEF M!Free, M!Goto
  <2>2. UNCHANGED <<next, size, allocated, bytesAvailable>>
    BY <2>1 DEF M!heap
  <2>3. H!HeapInv' /\ H!OnList' = H!OnList /\ H!InUse' = H!InUse
    <3>1. H!OnList' = H!OnList /\ H!InUse' = H!InUse
      BY <2>2 DEF H!OnList, H!InUse
    <3> QED BY <1>1, <2>2, <3>1 DEF H!HeapInv
  <2>4. H!InUse = {}
    <3>1. Pending = {}
      BY <1>2, <1>3, <1>4, <1>6 DEF Pending
    <3> QED BY <1>1, <3>1 DEF Owned
  <2>5. DOMAIN mm_rqs' = {} /\ Pending' = {}
    BY <2>1 DEF Pending
  <2>6. Owned'
    BY <2>3, <2>4, <2>5 DEF Owned
  <2>7. MemTypes' /\ DataSound'
    BY <1>1, <1>4, <2>1 DEF MemTypes, DataSound
  <2> QED BY <2>3, <2>6, <2>7 DEF MemInv
<1> QED BY <1>5, <1>6

LEMMA SizesFit ==
  ASSUME max_memory \in Nat, total \in Nat, total < max_memory, NEW n \in M!Sizes
  PROVE  n \in Nat \ {0} /\ total + n <= max_memory
PROOF
<1>1. PICK m \in Nat : m = max_memory - total - 1
  OBVIOUS
<1>2. PICK x \in M!GetUniform(m) : n = x + 1
  BY <1>1 DEF M!Sizes
<1>3. x \in Nat /\ x <= m
  BY <1>2 DEF M!GetUniform
<1> QED BY <1>1, <1>2, <1>3

LEMMA RequestInv == MemInv /\ M!Request => MemInv'
PROOF
<1> SUFFICES ASSUME MemInv, M!Request PROVE MemInv'
  OBVIOUS
<1>1. MemTypes /\ H!HeapInv /\ Owned /\ DataSound
  BY DEF MemInv
<1>2. /\ Len(mm_rqs) \in Nat /\ DOMAIN mm_rqs = 1..Len(mm_rqs)
      /\ \A k \in DOMAIN mm_rqs : k \in Nat /\ mm_rqs[k].at \in Nat /\ mm_rqs[k].size \in Nat
  BY <1>1, RqFacts
<1>3. /\ i \in Nat \ {0} /\ data \in [0..HeapWords-1 -> Nat] /\ mm_rqs \in Seq(Request)
      /\ max_memory \in Nat /\ total \in Nat
  BY <1>1 DEF MemTypes
<1>4. phase = "request" /\ total < max_memory /\ UNCHANGED <<max_memory, i, data>>
  BY DEF M!Request
<1>5. PICK n \in M!Sizes :
       \/ /\ M!F!Malloc(n)
          /\ \E b \in DOMAIN allocated :
               /\ allocated'[b] /\ ~allocated[b]
               /\ mm_rqs' = Append(mm_rqs, [at |-> b, size |-> n])
          /\ total' = total + n
          /\ UNCHANGED phase
       \/ /\ phase' = "no memory available"
          /\ UNCHANGED <<M!heap, mm_rqs, total>>
  BY DEF M!Request
<1>6. n \in Nat \ {0} /\ total + n <= max_memory
  BY <1>3, <1>4, SizesFit
<1>7. CASE phase' = "no memory available" /\ UNCHANGED <<M!heap, mm_rqs, total>>
  <2>1. Pending' = Pending
    BY <1>4, <1>7 DEF Pending
  <2>2. DataSound'
    BY <1>7 DEF DataSound
  <2> QED BY <1>3, <1>4, <1>7, <2>1, <2>2, MemStays
<1>8. CASE /\ M!F!Malloc(n)
           /\ \E b \in DOMAIN allocated :
                /\ allocated'[b] /\ ~allocated[b]
                /\ mm_rqs' = Append(mm_rqs, [at |-> b, size |-> n])
           /\ total' = total + n
           /\ UNCHANGED phase
  <2>1. PICK b \in DOMAIN allocated :
          /\ allocated'[b] /\ ~allocated[b]
          /\ mm_rqs' = Append(mm_rqs, [at |-> b, size |-> n])
    BY <1>8
  <2>2. /\ H!HeapInv'
        /\ \E c \in H!Addr : /\ c \notin H!InUse /\ H!InUse' = H!InUse \cup {c}
                             /\ allocated' = [allocated EXCEPT ![c] = TRUE]
                             /\ size'[c] >= n + H!Header
                             /\ \A x \in H!InUse : size'[x] = size[x]
    <3>1. H!Malloc(n)
      BY <1>8, SameMalloc
    <3> QED BY <1>1, <1>6, <3>1, HeapFacts, H!MallocInv
  <2>3. /\ b \in H!Addr /\ b \notin H!InUse /\ H!InUse' = H!InUse \cup {b}
        /\ n + 2 <= size'[b] /\ \A x \in H!InUse : size'[x] = size[x]
    <3>1. PICK c \in H!Addr : /\ c \notin H!InUse /\ H!InUse' = H!InUse \cup {c}
                              /\ allocated' = [allocated EXCEPT ![c] = TRUE]
                              /\ size'[c] >= n + H!Header
                              /\ \A x \in H!InUse : size'[x] = size[x]
      BY <2>2
    <3>2. b = c
      BY <2>1, <3>1
    <3>3. n + 2 <= size'[c]
      <4>1. H!Header = 2
        BY HeapFacts
      <4>2. size'[c] \in Nat
        <5>1. H!Tiles(size', H!OnList' \cup H!InUse') /\ c \in H!OnList' \cup H!InUse'
          BY <2>2, <3>1 DEF H!HeapInv, H!Heap
        <5> QED BY <5>1, RoomFacts
      <4> QED BY <1>6, <3>1, <4>1, <4>2
    <3> QED BY <3>1, <3>2, <3>3
  <2>4. b \in Nat
    BY <2>3, HeapFacts
  <2> DEFINE L == Len(mm_rqs) + 1
             rqs == mm_rqs'
             B == H!OnList' \cup H!InUse'
  <2>5. /\ rqs \in Seq(Request) /\ DOMAIN rqs = 1..L /\ rqs[L] = [at |-> b, size |-> n]
        /\ \A k \in DOMAIN mm_rqs : rqs[k] = mm_rqs[k]
    <3>1. PICK added \in Request : added = [at |-> b, size |-> n]
      BY <1>6, <2>4 DEF Request
    <3>2. mm_rqs' = Append(mm_rqs, added)
      BY <2>1, <3>1
    <3> QED BY <1>2, <1>3, <3>1, <3>2
  <2>6. /\ L \in DOMAIN rqs /\ rqs[L].at = b /\ rqs[L].size = n
        /\ DOMAIN rqs = DOMAIN mm_rqs \cup {L} /\ L \notin DOMAIN mm_rqs
    BY <1>2, <2>5
  <2>7. H!InUse = {mm_rqs[k].at : k \in DOMAIN mm_rqs} /\ Pending' = DOMAIN rqs
    <3>1. Pending = DOMAIN mm_rqs
      BY <1>4 DEF Pending
    <3>2. Pending' = DOMAIN rqs
      BY <1>4, <1>8 DEF Pending
    <3> QED BY <1>1, <3>1, <3>2 DEF Owned
  <2>8. H!InUse' = {rqs[k].at : k \in DOMAIN rqs}
    <3> HIDE DEF rqs, L
    <3>1. \A k \in DOMAIN mm_rqs : rqs[k].at = mm_rqs[k].at
      BY <2>5
    <3>2. {rqs[k].at : k \in DOMAIN mm_rqs} = H!InUse
      BY <2>7, <3>1
    <3>3. {rqs[k].at : k \in DOMAIN rqs} = {rqs[k].at : k \in DOMAIN mm_rqs} \cup {rqs[L].at}
      BY <2>6
    <3> QED BY <2>3, <2>6, <3>2, <3>3
  <2>9. \A k \in DOMAIN rqs : /\ rqs[k].at \in B /\ rqs[k].at \in Nat /\ rqs[k].size \in Nat
                              /\ rqs[k].size + 2 <= size'[rqs[k].at]
    <3>1. ASSUME NEW k \in DOMAIN mm_rqs
          PROVE  /\ rqs[k].at \in B /\ rqs[k].at \in Nat /\ rqs[k].size \in Nat
                 /\ rqs[k].size + 2 <= size'[rqs[k].at]
      <4>1. rqs[k] = mm_rqs[k] /\ mm_rqs[k].at \in H!InUse
        BY <2>5, <2>7
      <4>2. mm_rqs[k].size + 2 <= size[mm_rqs[k].at]
        BY <1>1, <1>4 DEF Owned, Pending
      <4> QED BY <1>2, <2>3, <4>1, <4>2
    <3>2. b \in B
      BY <2>3
    <3> HIDE DEF rqs, B, L
    <3> QED BY <1>6, <2>3, <2>4, <2>6, <3>1, <3>2
  <2>10. /\ \A a \in B : a \in Nat /\ size'[a] \in Nat /\ a + size'[a] <= HeapWords
         /\ \A a, c \in B : c <= a \/ a + size'[a] <= c
    <3>1. H!Tiles(size', B)
      BY <2>2 DEF H!HeapInv, H!Heap
    <3> HIDE DEF B
    <3> QED BY <3>1, RoomFacts
  <2>11. HeapWords \in Nat
    BY HeapFacts
  <2>12. \A k \in DOMAIN rqs : rqs[k].at + rqs[k].size + 2 <= HeapWords
    <3> HIDE DEF rqs, B
    <3> QED BY <2>9, <2>10, <2>11
  <2>13. \A k \in DOMAIN rqs, x \in B : x <= rqs[k].at \/ rqs[k].at + rqs[k].size + 1 < x
    <3> HIDE DEF rqs, B
    <3> QED BY <2>9, <2>10
  <2>14. \A k, l \in DOMAIN rqs : k # l => rqs[k].at # rqs[l].at
    <3>1. \A k, l \in DOMAIN mm_rqs : k # l => mm_rqs[k].at # mm_rqs[l].at
      <4>1. ASSUME NEW k \in DOMAIN mm_rqs, NEW l \in DOMAIN mm_rqs, k # l,
                   mm_rqs[k].at = mm_rqs[l].at PROVE FALSE
        <5>1. \/ mm_rqs[k].at + mm_rqs[k].size + 2 <= mm_rqs[l].at
              \/ mm_rqs[l].at + mm_rqs[l].size + 2 <= mm_rqs[k].at
          BY <1>1, <4>1 DEF Owned
        <5> QED BY <1>2, <4>1, <5>1
      <4> QED BY <4>1
    <3>2. \A k \in DOMAIN mm_rqs : mm_rqs[k].at # b
      BY <2>3, <2>7
    <3> HIDE DEF rqs, L
    <3> QED BY <2>5, <2>6, <3>1, <3>2
  <2>15. \A k, l \in DOMAIN rqs : k # l =>
           \/ rqs[k].at + rqs[k].size + 2 <= rqs[l].at
           \/ rqs[l].at + rqs[l].size + 2 <= rqs[k].at
    <3> HIDE DEF rqs, B, L
    <3> QED BY <2>9, <2>10, <2>14
  <2>16. Owned'
    BY <2>7, <2>8, <2>9, <2>12, <2>13, <2>15 DEF Owned
  <2>17. MemTypes'
    BY <1>1, <1>3, <1>4, <1>6, <1>8, <2>5 DEF MemTypes
  <2>18. DataSound'
    BY <1>4, <1>8 DEF DataSound
  <2> QED BY <2>2, <2>16, <2>17, <2>18 DEF MemInv
<1> QED BY <1>5, <1>7, <1>8

\* However large the heap, and whatever testMM was given: no block that it
\* fills is changed through another and no header through a block, the total
\* stays in the limit, and each round finds the whole heap free again
\* (testMm.c:20-64 on freeListMM.c).
THEOREM BlocksAreKept == Spec => []BlocksKept
PROOF
<1>1. Init => MemInv
  BY MemStart DEF Init
<1>2. MemInv /\ [Next]_vars => MemInv'
  <2> SUFFICES ASSUME MemInv, [Next]_vars PROVE MemInv'
    OBVIOUS
  <2>1. CASE M!Next
    BY <2>1, RequestInv, SetInv, MemFreeInv DEF M!Next
  <2>2. CASE UNCHANGED memVars
    <3>1. /\ UNCHANGED M!heap /\ UNCHANGED <<max_memory, mm_rqs, total, phase, i, data>>
      BY <2>2 DEF memVars, M!heap
    <3>2. MemTypes /\ DataSound
      BY DEF MemInv
    <3>3. Pending' = Pending /\ DataSound'
      BY <3>1, <3>2 DEF Pending, DataSound, Filled, M!Block, M!F!Header
    <3>4. /\ phase' \in {"request", "no memory available", "set", "check", "free"}
          /\ i' \in Nat \ {0} /\ data' \in [0..HeapWords-1 -> Nat]
      BY <3>1, <3>2 DEF MemTypes
    <3> QED BY <3>1, <3>3, <3>4, MemStays
  <2> QED BY <2>1, <2>2 DEF Next, vars
<1>3. MemInv => BlocksKept
  BY MemBelief
<1> QED BY <1>1, <1>2, <1>3, PTL DEF Spec
=============================================================================
