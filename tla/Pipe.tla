-------------------------------- MODULE Pipe --------------------------------
(***************************************************************************)
(* One pipe of pipes.c: a ring of bytes with a semaphore for the written   *)
(* ones and one for the free places, and the processes in the middle of a  *)
(* call of readPipe() or writePipe().  With isStdin it is stdinPipe, which *)
(* the keyboard interrupt writes without waiting for a free place.         *)
(*                                                                         *)
(* A call blocks only in waitSemaphore() and is otherwise not interrupted: *)
(* `kernel' is the process that the kernel runs between two iterations of  *)
(* its loop.  So nobody ever waits for the semaphore mutex, which is left  *)
(* out.  Processes run in any order, as READY ones.                        *)
(***************************************************************************)
EXTENDS Integers, Sequences, SequencesExt, FiniteSets

CONSTANTS
  Proc,        \* the processes that use the pipe
  Byte,        \* values of a char
  BufferSize,  \* BUFFER_SIZE, 40 in the code
  MaxLen,      \* bound on the argument len
  MaxUnread    \* bound on the keys typed and not read

ASSUME PipeAssumption ==
  /\ IsFiniteSet(Proc)
  /\ BufferSize \in Nat \ {0} /\ MaxLen \in Nat \ {0} /\ MaxUnread \in Nat

VARIABLES
  isStdin,         \* which pipe it is: stdinPipe, or one of pipeInit()
  buffer, writeIdx, readIdx, destroyed,  \* struct Pipe
  written, empty,  \* writtenCountSem, emptyCountSem: a value and a queue
  state,           \* pcb->state: READY for RUNNING and BLK_USER too
  op,              \* the call a process is in, past its wait or queued there
  left,            \* len - pos of that call, 0 outside
  kernel,          \* the process in the kernel, or Nobody
  unread,          \* history: the bytes written and not read
  got,             \* history: the last byte given to a reader
  overrun          \* history: a key was written over an unread one

pipeVars == <<buffer, writeIdx, readIdx, destroyed>>
history == <<unread, got, overrun>>
vars == <<isStdin, pipeVars, written, empty, state, op, left, kernel, history>>

Nobody == "nobody"
State == {"READY", "BLOCKED", "W-EXIT", "EXITED"}

\* A process that may run now.
Runs(p) == state[p] = "READY" /\ kernel \in {Nobody, p}

\* A call is over.
Leave(p) == op' = [op EXCEPT ![p] = "none"] /\ left' = [left EXCEPT ![p] = 0]

\* A process that may make a system call.
Calls(p) == kernel = Nobody /\ state[p] = "READY" /\ op[p] = "none"
-----------------------------------------------------------------------------
(* The semaphores (module Kernel has them whole).  A wait or a post of a    *)
(* destroyed one returns at once.                                           *)

\* waitSemaphore(s) by p: what it leaves of s and of the states.
WaitSemaphore(s, st, p) ==
  IF destroyed THEN [sem |-> s, state |-> st]
  ELSE IF s.value > 0 THEN [sem |-> [s EXCEPT !.value = @ - 1], state |-> st]
  ELSE [sem |-> [s EXCEPT !.queue = Append(@, p)],
        state |-> [st EXCEPT ![p] = "BLOCKED"]]

\* Those of ds readied, or exited if they were killed.
LetGo(st, ds) ==
  [p \in Proc |-> CASE p \in ds /\ st[p] = "BLOCKED" -> "READY"
                    [] p \in ds /\ st[p] = "W-EXIT" -> "EXITED"
                    [] OTHER -> st[p]]

\* The token counted though the head of the queue was readied with it.
PostTwice(s, st) ==
  IF destroyed THEN [sem |-> s, state |-> st]
  ELSE [sem |-> [value |-> s.value + 1,
                 queue |-> IF s.queue = <<>> THEN <<>> ELSE Tail(s.queue)],
        state |-> LetGo(st, IF s.queue = <<>> THEN {} ELSE {Head(s.queue)})]

\* postSemaphore(s): up to the first BLOCKED process of the queue.
PostSemaphore(s, st) ==
  LET k == SelectInSeq(s.queue, LAMBDA p : st[p] = "BLOCKED")
      met == IF k = 0 THEN Len(s.queue) ELSE k
  IN IF destroyed THEN [sem |-> s, state |-> st]
     ELSE [sem |-> [value |-> IF k = 0 THEN s.value + 1 ELSE s.value,
                    queue |-> SubSeq(s.queue, met + 1, Len(s.queue))],
           state |-> LetGo(st, ToSet(SubSeq(s.queue, 1, met)))]

-----------------------------------------------------------------------------
(* readPipe(), readStdin()                                                  *)

\* getPipe()
Found == ~destroyed

\* The call, up to its first wait.
ReadPipe(p, n) ==
  /\ Calls(p)
  /\ Found
  /\ LET w == WaitSemaphore(written, state, p) IN
       /\ written' = w.sem
       /\ state' = w.state
       /\ kernel' = IF w.state[p] = "BLOCKED" THEN Nobody ELSE p
  /\ op' = [op EXCEPT ![p] = "read"]
  /\ left' = [left EXCEPT ![p] = n]
  /\ UNCHANGED <<pipeVars, empty, history>>

\* The comparison with writeIdx made before readIdx moves.
AtEndBefore == readIdx = writeIdx

\* The reader has caught up with the writers.
AtEnd == readIdx' = writeIdx

\* readStdin() does not post emptyCountSem.
FreesPlace(st) ==
  IF isStdin THEN [sem |-> empty, state |-> st] ELSE PostSemaphore(empty, st)

\* The body of the loop, and the next wait if there is one.
ReadByte(p) ==
  /\ Runs(p)
  /\ op[p] = "read"
  /\ got' = buffer[readIdx]
  /\ readIdx' = (readIdx + 1) % BufferSize
  /\ unread' = IF unread = <<>> THEN unread ELSE Tail(unread)
  /\ LET e == FreesPlace(state)
         w == WaitSemaphore(written, e.state, p) IN
       /\ empty' = e.sem
       /\ IF left[p] > 1 /\ ~AtEnd
          THEN /\ written' = w.sem
               /\ state' = w.state
               /\ kernel' = IF w.state[p] = "BLOCKED" THEN Nobody ELSE p
               /\ left' = [left EXCEPT ![p] = @ - 1]
               /\ UNCHANGED op
          ELSE /\ Leave(p)
               /\ state' = e.state
               /\ kernel' = Nobody
               /\ UNCHANGED written
  /\ UNCHANGED <<buffer, writeIdx, destroyed, overrun>>

-----------------------------------------------------------------------------
(* writePipe()                                                              *)

\* The call, up to its first wait.
WritePipe(p, n) ==
  /\ Calls(p)
  /\ Found
  /\ ~isStdin
  /\ LET w == WaitSemaphore(empty, state, p) IN
       /\ empty' = w.sem
       /\ state' = w.state
       /\ kernel' = IF w.state[p] = "BLOCKED" THEN Nobody ELSE p
  /\ op' = [op EXCEPT ![p] = "write"]
  /\ left' = [left EXCEPT ![p] = n]
  /\ UNCHANGED <<pipeVars, written, history>>

\* The wait of the next iteration dropped.
WaitForNoPlace(st, p) == [sem |-> empty, state |-> st]

WaitForPlace(st, p) == WaitSemaphore(empty, st, p)

\* A byte put into the ring.
Put(b) ==
  /\ buffer' = [buffer EXCEPT ![writeIdx] = b]
  /\ writeIdx' = (writeIdx + 1) % BufferSize
  /\ unread' = IF destroyed THEN unread ELSE Append(unread, b)

\* The body of the loop, and the next wait if there is one.
WriteByte(p, b) ==
  /\ Runs(p)
  /\ op[p] = "write"
  /\ Put(b)
  /\ LET r == PostSemaphore(written, state)
         w == WaitForPlace(r.state, p) IN
       /\ written' = r.sem
       /\ IF left[p] > 1
          THEN /\ empty' = w.sem
               /\ state' = w.state
               /\ kernel' = IF w.state[p] = "BLOCKED" THEN Nobody ELSE p
               /\ left' = [left EXCEPT ![p] = @ - 1]
               /\ UNCHANGED op
          ELSE /\ Leave(p)
               /\ state' = r.state
               /\ kernel' = Nobody
               /\ UNCHANGED empty
  /\ UNCHANGED <<readIdx, destroyed, got, overrun>>

\* writeStdin(), called by the keyboard interrupt
WriteStdin(b) ==
  /\ isStdin
  /\ kernel = Nobody
  /\ Len(unread) < MaxUnread
  /\ Put(b)
  /\ overrun' = (overrun \/ Len(unread) >= BufferSize)
  /\ LET r == PostSemaphore(written, state) IN
       written' = r.sem /\ state' = r.state
  /\ UNCHANGED <<readIdx, destroyed, empty, op, left, kernel, got>>

-----------------------------------------------------------------------------
\* The writers forgotten.
WaitingReaders == ToSet(written.queue)

\* Who waits at a semaphore of the pipe.
Waiters == ToSet(written.queue) \cup ToSet(empty.queue)

\* destroyPipe(), with its calls of destroySemaphore().  The memory of the pipe
\* and the ids of its semaphores are taken not to be used again.
DestroyPipe(p) ==
  /\ Calls(p)
  /\ ~isStdin
  /\ Found
  /\ destroyed' = TRUE
  /\ state' = LetGo(state, Waiters)
  /\ written' = [written EXCEPT !.queue = <<>>]
  /\ empty' = [empty EXCEPT !.queue = <<>>]
  /\ unread' = <<>>
  /\ UNCHANGED <<buffer, writeIdx, readIdx, op, left, kernel, got, overrun>>

\* kill(): a process that waits stays in the queue, never to return.
Kill(p) ==
  /\ kernel = Nobody
  /\ \/ /\ state[p] = "READY"
        /\ state' = [state EXCEPT ![p] = "EXITED"]
        /\ UNCHANGED op
     \/ /\ state[p] = "BLOCKED"
        /\ state' = [state EXCEPT ![p] = "W-EXIT"]
        /\ op' = [op EXCEPT ![p] = "none"]
  /\ left' = [left EXCEPT ![p] = 0]
  /\ UNCHANGED <<pipeVars, written, empty, kernel, history>>

-----------------------------------------------------------------------------
\* pipeInit(): the memory of the buffer is not cleared.
Init ==
  /\ isStdin \in BOOLEAN
  /\ buffer \in [0..BufferSize-1 -> Byte]
  /\ writeIdx = 0 /\ readIdx = 0 /\ destroyed = FALSE
  /\ written = [value |-> 0, queue |-> <<>>]
  /\ empty = [value |-> BufferSize, queue |-> <<>>]
  /\ state = [p \in Proc |-> "READY"]
  /\ op = [p \in Proc |-> "none"]
  /\ left = [p \in Proc |-> 0]
  /\ kernel = Nobody
  /\ unread = <<>> /\ got \in Byte /\ overrun = FALSE

GoOn(p) ==
  UNCHANGED isStdin /\ (ReadByte(p) \/ \E b \in Byte : WriteByte(p, b))

Next ==
  /\ UNCHANGED isStdin
  /\ \/ \E p \in Proc : \/ GoOn(p) \/ DestroyPipe(p) \/ Kill(p)
                        \/ \E n \in 1..MaxLen : ReadPipe(p, n) \/ WritePipe(p, n)
     \/ \E b \in Byte : WriteStdin(b)

\* A READY process is given the CPU (ReadyRuns of Processes).
Spec == Init /\ [][Next]_vars /\ \A p \in Proc : WF_vars(GoOn(p))
-----------------------------------------------------------------------------
(* Properties.                                                              *)

\* The processes that hold a token of the semaphore for o: they will go on, or
\* were killed before they could and took it with them.
Holders(o) == {p \in Proc : op[p] = o /\ state[p] \in {"READY", "EXITED"}}

(* Each byte and each free place of the ring is one token: in a semaphore, *)
(* or with a process, dead ones included, that was handed it.              *)
TokensAgree ==
  ~destroyed =>
    /\ written.value + Cardinality(Holders("read")) = Len(unread)
    /\ ~isStdin => empty.value + Cardinality(Holders("write"))
                     + Len(unread) = BufferSize

(* A reader waits only while every unread byte is some other reader's to   *)
(* take, a writer only while every free place is some other writer's; so   *)
(* they all wait for each other only if holders of tokens were killed.     *)
WaitsForCause ==
  /\ (\E p \in Proc : op[p] = "read" /\ state[p] = "BLOCKED") =>
       Len(unread) = Cardinality(Holders("read"))
  /\ (\E p \in Proc : op[p] = "write" /\ state[p] = "BLOCKED") =>
       Len(unread) + Cardinality(Holders("write")) = BufferSize

TokensSound == TokensAgree /\ WaitsForCause

(* A read that returns less than it was asked for has emptied the pipe: the *)
(* indices are not equal because the ring is full (pipes.c:70).             *)
ShortReadEmpties ==
  [][\A p \in Proc :
       /\ op[p] = "read" /\ state[p] = "READY"
       /\ op'[p] = "none" /\ left[p] > 1 /\ ~destroyed /\ ~overrun
       => unread' = <<>>]_vars

(* The pipe is a channel: readers get the bytes in the order written, each *)
(* once, and no more than BufferSize are on the way.  stdin is one until   *)
(* a key finds the ring full.                                              *)
C == INSTANCE Channel WITH chan <- unread, Capacity <- BufferSize,
                           broken <- destroyed \/ overrun
ImplementsChannel == C!Spec

(* A destroyed pipe is left by all who are in it, waiting or not.           *)
DestroyedIsLeft ==
  destroyed ~> \A p \in Proc : op[p] = "none" \/ state[p] = "EXITED"
=============================================================================
