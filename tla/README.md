# Formal model of SO-TP

TLA+ modules, TLC runs and TLAPS proofs about the x86-64 teaching kernel of this
repository (`src/Kernel`), the user programs on it (`src/Userland`), and the packer that
puts them into one image (`src/Toolchain`).

## 1. The system

One CPU, one kernel, processes with a stack and a 64 KiB heap each, one address space
without protection, shared by kernel, processes and the programs' global variables.
`init` (pid 0) is created by hand at boot, the `speaker` (pid 1) by
`initializeSpeaker()`, the shell (pid 2) by `init`, everything else by the shell's
commands.

Every IDT entry is an *interrupt gate* (`interruptions.c:10-19`, `ACS_INT`), and
system calls arrive through `int 0x80`, so kernel code runs with interrupts off: an
entry into the kernel is atomic up to the point where it gives the CPU away with
`contextSwitch()` (`int 0x22`). There are two exceptions, both due to code that spins
or runs in the wrong mode:

* `_enter_region` (`semaphores.asm`) spins with `int 0x22` when a semaphore's lock is
  taken;
* the speaker process is *kernel code with interrupts enabled* (`pcSpeaker.c:33-46`
  calls `waitSemaphore()` and `sleep()` directly), the only preemptible kernel code.

User programs are preempted anywhere, but share only semaphores, pipes, and a few global
variables; their steps in the models are system calls with the code up to the next one.

| Component | State it keeps | Operations | Interacts with | What is hard |
|---|---|---|---|---|
| Process table and scheduler (`scheduler.c`) | circular list of PCBs (`head`, `tail`, `current`, `prev`), per PCB `state`, `priority`, `parentProc`, `waitingForMe`; `processInForeground`, `quantumsLeft`, `pid` | create, exit, kill, waitPid, block/unblock by user, yield, changePriority, blockCurrentProcess, readyProcess, schedule | called by every device; frees memory; Ctrl-C | who may ready, exit or free a blocked process; freeing stacks while running on one; recursive exits; starvation |
| Semaphores (`semaphores.c`) | table of semaphores (value, lock, FIFO of PCBs, name, destroyed) and a stack of free positions | semInit, create/open by name, wait, post, destroy | readies and exits PCBs; `globalMalloc` | killed waiters in the queue, destruction with waiters, reuse of ids |
| Timer and sleep (`timer.c`) | tick counter, list of sleepers with ticks left | incTicks (IRQ 0), sleep | readies and exits PCBs | sleepers that were killed; a sleeper in any other state makes `incTicks` loop |
| Pipes (`pipes.c`) | table of 40-byte rings, each with three semaphores; a stack of free positions | init, read, write, destroy, writeStdin (IRQ 1), readStdin | semaphores, keyboard | several readers and writers, killed and destroyed in the middle; stdin overflow |
| Keyboard (`keyboard.c`, `layouts.h`) | modifier flags, layout | readKeyToBuffer (IRQ 1), get/setLayout | stdin pipe, Ctrl-C kills the foreground process | key presses at any moment, modifiers read later than the keys |
| PC speaker (`pcSpeaker.c`) | queue of sounds with an index, a semaphore | playSound, the speaker process | semaphores, timer | preemption inside the kernel |
| Free-list memory manager (`freeListMM.c`, the default build) | address-ordered list of free blocks, count of free bytes; one for the kernel, one per process | malloc, free | everything | coalescing, accounting, splitting |
| Buddy memory manager (`buddyMM.c`, with `BUDDY`) | a free list per order, headers in the blocks | malloc, free | everything | coalescing by looking at the buddy's header |
| Arrays (`array.c`, twice) | growable vector | push, pop, get, set, concat, remove, copies | tables of semaphores and pipes; command lines | growth when memory runs out, negative indices, who frees an element |
| Video (`videoDriver.c`) | cursor, font size, the screen | print, erase, scroll, setFontSize, clear | the shell's line | ends of rows, scrolling, fonts of one row |
| Shell (`shell.c`, `shellCommands.c`) | command line, history, exit code of the last command | keys, parse, run, pipe two commands | processes, pipes, keyboard, video | order of waits, end-of-file byte, erasing what was printed |
| Command history (`circularHistoryBuffer.c`) | a ring over an array with a reading and a writing index | push or move to front, read previous, next, rest | the shell | two indices that wrap at different limits |
| Philosophers (`phyloTest.c`) | forks and two semaphores, number at the table | eat, add, remove, end | semaphores, kill | deadlock; joining and leaving |
| Test programs (`semTest.c`, `testMm.c`, `testProcesses.c`, `testPrio.c`) | what they believe of semaphores, blocks, processes | one loop each | every part of the kernel; a user who meddles | races, counts in a byte |
| User library (`stdlib.c`) | padding of `printf()` | print and read numbers and strings | every program | the smallest number, fields, variables shared by processes |
| Boot (`kernel.c`, `moduleLoader.c`) and packer (`ModulePacker/main.c`) | the image | write an image, load its modules | each other | counts, copying upwards |
| Clock, registers, system information, drawing | hardware state | reading, drawing | -- | no control state |
| Boot loader | -- | -- | -- | third-party |

What makes each component correct:

* **Process table** -- a blocked process is known to exactly one party that will free
  it; a killed process never runs again and is freed; the stack in use is never freed;
  `waitPid` returns only when the awaited process is dead; no READY process starves; the
  list stays circular and ordered by pid.
* **Semaphores** -- a token is never lost nor invented while the semaphore lives; no
  process is blocked on a semaphore whose value is positive; first come, first served;
  destruction releases every waiter.
* **Timer** -- every sleep ends; a killed sleeper is exited and taken off the list;
  `incTicks` ends.
* **Pipes** -- bytes arrive once, in order; a reader blocks only on an empty pipe, a
  writer only on a full one; two commands joined by one are composed, and the shell
  comes back.
* **Memory managers** -- blocks are disjoint, free ones joined, the count of free bytes
  exact; a request fails only for want of room.
* **Shell, history, arrays, video** -- what is typed, recalled, erased and completed is
  what an editor of lines over the last commands would have, and what the screen shows.
* **Philosophers** -- neighbours never eat together, no one starves, the table can always
  be changed.
* **Test programs** -- what they conclude from the calls they make is so.

## 2. Modules

| Module | Models | Run |
|---|---|---|
| `Processes`, `MCProcesses`, `ProcessesProof` | `scheduler.c` and the effect of the devices on processes | `processes_safety`, `processes_liveness`; proved |
| `PCBList`, `StructuresProof` | the circular list of `scheduler.c` and the loop of `schedule()`, one iteration at a time | `pcblist`; proved |
| `Kernel`, `MCKernel`, `KernelProof` | `semaphores.c`, `timer.c` and the keyboard's post, composed with `Processes` | `kernel_safety`, `kernel_liveness`; proved |
| `Subsequence`, `SubsequenceProof` | the part of a list at some of its places, for `Kernel`, `Speaker` and `Phylo`; facts about it, about sequences and about numbers for all proofs | with those |
| `Pipe`, `Channel`, `PipeProof` | one pipe of `pipes.c`, or stdin; the bounded channel it promises to be | `pipe`; proved |
| `Pipeline`, `MCPipeline` | two commands joined by a pipe, over `Pipe`: `parseCommand()` and the programs of `shellCommands.c` | `pipeline`, `pipeline_code` |
| `FreeListMM`, `BuddyMM`, `Allocator`, `MCHeap`, `HeapProof` | both memory managers; what they promise | `library`; proved (`BuddyMM` and both together in `StructuresProof`) |
| `Keyboard`, `Terminal`, `CommandLine`, `CommandHistory` | `keyboard.c`; `videoDriver.c` for text; what `shell.c` makes of a line; `circularHistoryBuffer.c` | through `Shell`; `CommandHistory` proved (`UserlandProof`) |
| `Shell`, `Editor`, `MCShell` | the loop of `shell.c` between keyboard and screen; the editor it promises to be | `shell` |
| `Arrays`, `Vector`, `Recent`, `Stdlib`, `Image`, `MCLibrary` | both `array.c`; a list; what a history promises; numbers and `printf()` of `stdlib.c`; packer and module loader | `library`; `Arrays` proved (`UserlandProof`) |
| `Phylo`, `Semaphore`, `UserlandProof` | `phyloTest.c`; a semaphore as its users see it | `phylo`; proved |
| `Speaker` | `pcSpeaker.c`, preempted inside `semaphores.c` and `timer.c`, with programs that play sounds and sleep | `programs`; proved (`ProgramsProof`) |
| `SemTest`, `MemTest`, `Testers`, `MCPrograms`, `ProgramsProof` | the test programs, and the commands `kill`, `block`, `unblock`, `nice` | `programs`; proved |

`Processes` is the centre. `PCBList` is below it: the list `Processes` abstracts to an
order on pids, shown to compute `Processes!Schedule`. `Kernel` is above it: the devices
`Processes` abstracts to the set `held`, shown to take only steps of `Processes`. `Pipe`
is above `Kernel`: a client of two semaphores, shown to implement `Channel`; `Pipeline`
is a client of `Pipe`. `Shell` composes `Keyboard`, `CommandLine`, `CommandHistory` and
`Terminal`. `MemTest` runs on `FreeListMM`; `Phylo` and `SemTest` on `Semaphore`, which
rests on what `Kernel` shows of a semaphore (`OneTokenPerPost`, `NoOvertaking`). `Speaker`
stands beside `Kernel`: the one process for which its actions are not atomic.

### `Processes`

The state is the PCB table, indexed by pid (`state`, `priority`, `parent`, `waiters`),
and the scheduler's variables. `slot` is the pid at `pcbList.prev->next`: it is
`current` while a process runs and stays at the last one that ran while the idle
process does (`nextPCB()` restarts from `prev->next` when it comes from idle), so
`current` is the pair `slot`, `idle`. Pids are never reused and `addPCB` appends, so
the circular list *is* the set of allocated pids in cyclic order; the walk of
`schedule()` becomes an order on pids (`Place`) with `slot` last, because
`schedule()` steps past the current node before it looks at anything.

One action is one entry into the kernel, with the call of `schedule()` its handler
makes (`Switch`); nothing the handler does is left to a later action.

| Action | Code |
|---|---|
| `Create`, `CreateFails` | `createProcess()` and its failure for lack of memory |
| `Exit` | `exitCurrentProcess()` |
| `KillBlocked`, `Kill` | `kill()`: the two branches of `exitProcessByPCB()` |
| `WaitPid` | `waitPid()` when it blocks |
| `BlockByUser`, `Unblock`, `Yield`, `ChangePriority` | the functions of those names |
| `Block` | a device recording the current PCB, then `blockCurrentProcess()` |
| `Release` | `postSemaphore()`, `destroySemaphore()`: any sequence of recorded PCBs, also none, in any order, readied or exited |
| `Tick` | IRQ 0: `schedule()`, then `incTicks()` |
| `CtrlC`, `F2` | IRQ 1 |

Exits are recursive in the code: a process that exits exits every W-EXIT process that
waits for it. `ExitSet` is the least set closed under that; `ExitOrder` is the order of
the calls, which only the foreground depends on. `Undefined` takes over once a pointer
the kernel may follow (`fg`, a device's record, `waitingForMe`) leads to a freed PCB;
no property says anything beyond that point, and none of them fails before it.

Abstracted here, and refined in `Kernel`: semaphore queues and the sleep list are one set `held` of recorded PCBs, so
any device may let go of any of them at any time; exit codes (`Pipeline` has those), names, registers and
pipe ids are left out; the speaker's kernel calls are atomic like everyone's; `Speaker` takes them apart.

### `PCBList`

The five fields of `pcbList`, `next` per node, and the static and local variables of
`schedule()`. A node is named by its pid (the list never holds two), the idle node
is `Idle`, outside the list. `ogCurrent # Nil` says that `schedule()` is in its loop;
outside it a process runs, and may create others, change states and priorities. `entry`
is history: the states and the place `schedule()` was called with, for the comparison
with `Processes`.

| Action | Code |
|---|---|
| `AddPCB`, `AddFails` | `addPCB()`, with `prev` moved when it is the tail |
| `Change`, `ChangePriority` | what system calls and interrupts do to the states and priorities of others, any order of them |
| `Continue` | `schedule()` while quantums are left |
| `Enter(s)` | `schedule()` up to its loop, on a current process in state `s` |
| `Elect`, `GoIdle`, `FreeCurrent`, `Advance` | the four branches of the loop, in the order of its tests |

The states that `schedule()` does not tell apart (BLOCKED, W-EXIT, BLK_USER) are one.
`freeCurrentProcess()` does nothing to a list of one node, on which the loop would
never end; `FreeCurrent` has that test as a guard, so that such a state would
violate `LoopEnds` (it is not reachable: the node of `ogCurrent` stays in the list).

### `Kernel`

The process table as in `Processes`, whose actions it uses through
`P == INSTANCE Processes WITH held <- Held`, and the devices' own state: `sems`
(`semArray`: value, destroyed, queue of PCBs, name), `freedPositions`, `sleepers` (the
sleep list from `first` on) and `hung`. Positions start at 1 in the model, at 0 in
the code.

| Action | Code |
|---|---|
| `SemInit`, `CreateSemaphore` | `semInit()`; `createSemaphore()` and `openSemaphore()` when they make a semaphore (when they find one nothing changes) |
| `TakeToken`, `WaitInQueue` | `waitSemaphore()`, its two branches |
| `PostSemaphore` | `postSemaphore()` called by a process |
| `KeyPress` | `postSemaphore()` called by `writeStdin()` in IRQ 1, whoever runs |
| `DestroySemaphore` | `destroySemaphore()`, `destroySemaphoreByName()` |
| `Sleep` | `sleep()` of at least one tick |
| `Tick` | IRQ 0: `schedule()`, then `incTicks()` over the whole list |
| `ProcessStep` | an action of `Processes` that needs no device |

`incTicks()` moves past a sleeper only when that is BLOCKED or W-EXIT; on any other it
loops for ever with interrupts off. `StuckAt` is the first such sleeper; `Tick` serves
those before it and sets `hung`, after which (`Stopped`) nothing happens. What a loop
that unlinks nodes leaves of a list is its part at the places of the others (`AtPlaces` of
`Subsequence`), which unlike `SelectSeq` is not defined by recursion.

Of the semaphores made at boot only `StdinWritten` is kept, because an interrupt posts
it; the others behave like any semaphore a process makes. Left out: the locks (an
entry is atomic, so `_enter_region` finds them free; the preemptible speaker is the
exception, see `Speaker`), the failure of `fifoQueue()` for lack of memory, and
names that are too long.

### `Pipe` and `Channel`

The struct `Pipe` without its mutex: calls are interrupted only where they block, so
`mutex` is always 1 when somebody waits for it. `kernel` is the process that the kernel runs
between two iterations of a loop; while there is one, nobody else takes a step. A
process in a call has `op` and `left` (`len - pos`); it is past the wait of its
iteration, or queued there. `unread`, `got` and `overrun` are history: what was written
and not read, the last byte read, and that a key was written over an unread one. The
variable `isStdin` selects `stdinPipe`, whose reads do not post `emptyCountSem` and which
only the keyboard writes.

| Action | Code |
|---|---|
| `ReadPipe`, `WritePipe` | `readPipe()` or `readStdin()`, `writePipe()` up to the first wait |
| `ReadByte`, `WriteByte` | the body of the loop and the next wait, or the return |
| `WriteStdin` | `writeStdin()` in IRQ 1 |
| `DestroyPipe` | `destroyPipe()` with the destruction of its semaphores |
| `Kill` | `kill()` of a process anywhere in a call |

A process killed after it was handed a token and before it ran is EXITED with its `op`:
the token is gone with it (`Holders`). `WaitsForCause` states what that costs:
readers may then wait while a byte is in the pipe. A second thing the
model shows of the code is that a reader waiting at a pipe that is destroyed returns a
byte that was never written instead of the error that later readers get; `Channel` calls
that broken, and only `DestroyedIsLeft` speaks of it.

### `Pipeline`

Three processes: the shell in `parseCommand()`, and the programs it creates with
`sysCreateProcessWithPipeSwap()`. All that goes through the pipe does so with the actions
of `Pipe` (`INSTANCE Pipe WITH Byte <- {EOF}, ...`), one character at a time, so that each
may block or be killed between two of them. `prog` is what a program has still to print
and the counters of `wc`; `keys` is stdin, here a list, as a run presses fewer keys than
stdin holds. `pc` is where the shell is; `fg`, the process that Ctrl-C kills, follows
`waitPid()` and `exitProcessByPCB()`.

| Action | Code |
|---|---|
| `Create` | `sysCreateProcessWithPipeSwap()`, which may fail unnoticed |
| `Wait`, `WriteEof`, `Destroy` | `sysWaitPid()`, `sysWrite()` of the end of file, `sysDestroyPipe()` |
| `Write`, `ReadKey` | `printChar()` and `getChar()` of the first command |
| `Format` | a `printf()` of either, between two characters |
| `Read`, `PrintNext` | the same of the second |
| `Exit` | `sysExit()` of either |
| `PressKey`, `CtrlC` | IRQ 1 |

A process in `waitPid()` is READY here and goes on once the other is EXITED, which
`WakesWhenAwaitedExits` and `ReadyRuns` allow. The commands are every two of `echo`,
`cat`, `wc` and `filter`, and the writer and reader of `commandTestPipes()`, whose texts
are shorter here. `Output` states what a command makes of its whole input, without a loop;
`OutputComposed` compares the screen with it. `Create` begins where `parseCommand()` has
found both names; how it may not is in `Shell`.

All programs are in one address space, and `printf()` keeps its padding in static variables
(`stdlib.c:111-113`), so printing has state here: `prog` has, in order, each point at which a
`printf()` reads or writes `paddingLen`, and `padding` is whether that is not 0. `Format` is such
a point. A number is printed with `paddingLen` negative between `stdlib.c:136` and `119`; a program
preempted there, or blocked by the full pipe later, makes another's `printf()` take its next
character for a conversion that is to be padded, and print an error (`Spoil`). The run shows it
in `wc ! filter` and in the two programs of `commandTestPipes()`. `OutputComposed` allows it
(`spoiled`) for the pairs in which one prints numbers and the other is in a `printf()` then, and for
no others: with `cat` as either, `echo` or `filter` first, or `wc` twice it cannot happen.

What it shows of the code: the shell does not come back when the second command has ended,
or was never created, and the pipe is full. Then the first command blocks in `writePipe()`
while the shell waits for it, or the shell blocks there itself with the end of file.
`PipelineEnds` says that this and a command waiting for a key are all.

`code` is `waitedProcessExitCode` of the shell, at first that of an earlier command which
failed. Only a `waitPid()` that blocks changes it: of a process already EXITED it returns what
is there (`scheduler.c:327`). `pipeline_code` is a violation, and a finding, of what `shell.c:40` says of `$?`
("Print previous command return code."): both commands succeed, the shell is preempted before
each wait until the command has exited, and `$?` shows the earlier failure.

### `FreeListMM`, `BuddyMM` and `Allocator`

`FreeListMM`: the headers that are in the heap as functions from addresses, `next`, `size`
and the bit `allocated` that the code keeps in `blockSize`, and `bytesAvailable`. An address
counts words of 8 bytes, so the rounding of a request is done and every request is of whole
words; a header takes two. The functions of `freeListMM.c` get the list and the count as
arguments, so the module is the kernel's heap and that of a process alike. A word that
heads no block is data, whatever it once held: its entries are `Null` and 0. `Malloc` is
`internalMalloc()` when it finds a block (`Fits` is when it does), `Free` is
`internalFree()`, `Insert` the two joins of `insertBlockIntoFreeList()`.

`Tiled` is what everything else rests on: each word is in exactly one block. It fails as
soon as a join or a split computes one size wrong, but only some operations later, when
the two blocks meet. Two of the code's decisions look as if they could break
`FitsIfRoom`: malloc() first compares with the *total* of free bytes, and a block keeps
up to four spare words rather than being split. The run shows that neither does (spare
words count as used).

`BuddyMM`: `freeList` per order and the headers `next`, `size`, `isFree`. `Malloc` is the
search for the smallest order with the splits it entails, `Free` the iteration of
`mergeBlock()`, as a function of the order. `Sound` has that the address a free block's buddy
is looked for always begins with a header, on which `mergeBlock()` relies.

`MCHeap` has one variable, `buddy`, for the build; `MCLibrary` runs it and shows both to
implement `Allocator`.

### `Keyboard`, `CommandLine`, `CommandHistory`, `Terminal`, `Shell` and `Editor`

The first four are operators without state. `Keyboard`: the modifiers after a key, the
character a key stands for, what is written to stdin or killed; of the tables of
`layouts.h` there are the keys that `shell.c` tells apart, and letters. `CommandLine`: the
words of a line (`parseCommand()`), the completion, the word that Ctrl-W deletes. A word has
what lies behind it in memory until a terminator is put there (`Unended`, `Ended`); it is compared
with a name, with a word of the history, or copied from it as the string that is read there (`Str`).
`CommandHistory`: a record with the fields of `CircularHistoryBufferADT`. `Terminal`: a grid
of characters and a cursor, with `printNextChar()` and what it calls. A character is a
string; the end of file is one that prints nothing.

`Shell` has the variables of `shell.c`, `keyboard.c` and the screen. A key is written to
stdin when it is pressed; `ReadKey` is a turn of the loop of `shell()`: it takes a
character and asks for the modifiers as they are *then*, as `getKey()` does.

| Action | Code |
|---|---|
| `PressKey`, `PressModifier` | `readKeyToBuffer()` |
| `ReadKey` | a turn of the loop: `Control` with Ctrl held (font, clear, delete word, history), `Typed` without |
| `Enter` | `'\n'`: parse, run (`EnterOne`, `EnterTwo`), push into the history, prompt |
| `Restart` | Ctrl-C at the prompt: `main()` creates the shell again |

A command is one step with any output, any result and any layout; nothing prints in the
background. `ScreenShowsLine` compares the end of the screen with prompt and line, as far
as the screen has room; a screen of a few characters makes the ends of rows and scrolling
happen all the time. `Editor` knows neither keys nor modifiers nor a screen: a line, which
grows and shrinks at its end by characters or a word, a list of the last `Size` different
commands, and a reader of it.

`shell.c:379` says of the words of a command that their terminators are needed *before* the name
is looked up; with a pipe they come after (`shell.c:350-356`). So a pipeline of two commands that
exist may be refused, depending on what is behind their names in memory that is not cleared, and
one command may be taken for another. After a refusal all its words go to the history without a
terminator, and are read on there by recalls and comparisons. `Editor` says what is left: one
command alone is found if it exists and is recalled as it was typed; of more than two joined, the
words of the first and the last are kept, as `shell.c:327-330` forgets those in between; and what is
recalled of a pipeline that was refused has its words, in order, with perhaps more behind each
(`Mentions`).

### `Arrays`, `Vector`, `Recent`, `Stdlib`, `Image` and `MCLibrary`

`Arrays` is both implementations: `inKernel` selects the one that goes on when growth fails
and refuses by returning, or the one that exits its process. `cells` is the memory of the
array, so that a copy past the capacity, or over itself in the wrong direction, is one.
Every public operation that reads or changes the array is an action, with what it frees
(`freed`) and what it hands to the caller (`got`) for the index `asked`. `Vector` has a list. Once
a growth has failed in the kernel, whose array then writes behind its memory (`array.c:52-54`), it
promises nothing.

`Recent` is the promise of `CommandHistory`: the last `Size` different elements in the order
of their last use. Two copies of each name tell an element from an equal one, so that the
one given back to `freeEleFn` must be the old one.

`Stdlib` has `uintToBase()`, `strToInt()`, `satoi()` and `printf()`, read character by
character with the padding in static variables; integers wrap at `Width` bits, a `long` at
twice that. `Image` has the file that the packer writes, and the memory after
`loadModules()`; a word stands for the four bytes of a size.

`MCLibrary` runs these and the heaps one at a time (`part`): nothing runs beside them.

### `Phylo` and `Semaphore`

A philosopher's place in `myPhyloProcess()`, between its system calls, is `pc`; that of
`commandPhylo()` is `mpc`, and `count` the index of its loops. The semaphores are the table
(`change_phylos_sem`), the one for printing, and a fork for each place. `ReadKey` is any key;
`BlockAll`, `FreeAll`, `Start`, `Add`, `Rem` and `End` are the functions of those names, one
call at a time, with their failures (`CanFail`). Thinking and eating are sleeps of any
length. A semaphore of `Semaphore` is a value and a queue, first come, first served; someone
killed is taken out of the queue at once.

`ForksShared` counts, for every fork on the table, its value and the hands it is in. It is
what makes `right_fork()` sound, which computes the other fork twice from a number that may
change in between: whoever changes it holds all tokens of the table first. `NobodyStarves` is
that everyone who is hungry eats, and that whoever seats them gets those tokens.

### `Speaker`

`speaker.at` is the place of the speaker in `speakerProcess()`, `waitSemaphore()` or `sleep()`,
between two instructions that touch what others touch; `auxNext` is the `next` of its sleep
record while the list does not yet begin with it. A call of a program is a step, up to a lock
that is taken, in which case it is in the loop of `_enter_region()`. `disturbed` is a history:
the places of the speaker at which somebody did what matters there.

`OnlyWindows` says what can go wrong, and that each needs a step of
another at one place of the speaker:

| The speaker is | and there comes | so that |
|---|---|---|
| in the queue, not yet blocked (`semaphores.c:113`) | a post | the token is counted, the record dropped, and the speaker blocks for ever |
| between `aux->next = first` and `first = aux` (`timer.c:71`) | another `sleep()`, or the end of the first sleep | that process sleeps for ever, or the list goes on in freed memory |
| on the sleep list, not yet blocked (`timer.c:73`) | a tick | `incTicks()` never ends |
| between `Array_getLen()` and `Array_clear()` (`pcSpeaker.c:42`) | a sound | it is dropped, its token is not, and `Array_get()` returns `NULL` |

Each of the four happens in the run, and a killed speaker aside nothing else goes wrong: a
preemption elsewhere, also with the lock held, only delays (`SoundsPlayed`).

### `SemTest`, `MemTest`, `Testers` and `MCPrograms`

`SemTest`: a process per worker with its local `aux`, which reads the global, yields, and
writes it; they run from the moment they are created. `MemTest`: the loop of `testMM` over
the actions of `FreeListMM`, with what each word of the heap was set to. `Testers`:
`testProcesses` and `testPriority` with the process table as far as they see it, a `uint8_t`
of few values (`Bytes`), and a user who gives commands; what they create loops for ever and
never blocks. A chance or a random size is any.

`NotesRight`, one part of `BeliefsHold`, speaks of arguments below 256 (`Bytes`): from there on
`rq < max_processes` always holds and the first loop of `testProcesses` never ends.
`NothingLeft`, its other part, speaks of whatever the user does. `MCPrograms` runs one program
at a time, or the speaker.

## 3. Runs

| Run | Instance | Shows |
|---|---|---|
| `processes_safety` | pids 0..3, one priority | `OneWaitPlace`, `StackInUse` and three action properties of `Processes`, also proved |
| `processes_liveness` | pids 0..2, priorities 1..2 | `ReadyRuns`, `ExitedFreed` under a timer that keeps interrupting |
| `pcblist` | pids 0..3, priorities 1..2 | four invariants of `PCBList`, that its loop computes `Processes!Schedule`, and that it ends |
| `kernel_safety` | pids 0..2, two semaphores with values up to 1, sleeps of 1 tick, names `""` and `"a"` | `DevicesSound` (a process is recorded once, tokens or waiters, positions freed once), the action properties of `Kernel`, and that it implements `Processes` |
| `kernel_liveness` | pids 0..2, one semaphore, sleeps of up to 2 ticks | `SleepEnds` |
| `pipe` | three processes, a ring of 2 bytes, calls of up to 3 bytes, or stdin with up to 4 unread keys | `TokensSound`, `ShortReadEmpties`, that it implements `Channel` (stdin until the ring is full), and that a destroyed pipe is left |
| `pipeline` | 17 pairs of commands, 2 keys of two characters and the end of file, a ring of 2 bytes | `OutputComposed`, `PipelineEnds` |
| `pipeline_code` | the same with one key | `ReturnsCodeOfSecond`, violated |
| `shell` | 13 keys, Ctrl and a shift, lines up to `k ! ! k`, a history of 2, a screen of 3 by 2 characters, or of one in the larger font | `ScreenShowsLine`, that it implements `Editor` |
| `library` | arrays of up to 4 elements, a history of 3 over 4 names, heaps of 24 words and requests of 1..6 (list) or 16 words and requests of 1..14 (buddies), all 8-bit numbers, images of 1 or 2 modules of up to 4 words | that `Arrays` implements `Vector`, `CommandHistory` `Recent`, and both heaps `Allocator`; `HeapSound`, `NumbersReadBack`, `ModulesLoaded` |
| `phylo` | 2 philosophers at first, up to 4 | `ForksShared`, `NobodyStarves` |
| `programs` | two pairs of workers and two rounds; a heap of 14 words; 3 processes, bytes of three values, two commands; two programs that ask for 3 sounds | `SumKept`, `BlocksKept`, `BeliefsHold`, `OnlyWindows`, `SoundsPlayed` |

Bounds of `Processes`. `MaxPid` bounds the pids ever handed out, so with 3 two processes are created
besides `init` and the speaker: the smallest table with chains of waits (a waits for b
waits for c), siblings waiting for one process, a parent that dies first, freeing in
the middle of the walk, and a current process that is neither first nor last.
Priorities only change `quantumsLeft`, which no safety property reads, so one value is
enough there; the liveness run has two, the smallest number that lets a process keep
the CPU over a tick. `VIEW LiveView` identifies states that differ only in the fields of
dead PCBs, which nothing reads. No symmetry is used: pids are ordered.

Bounds of `PCBList`. Four nodes are the smallest circle in which the node freed has a
predecessor and a successor besides `ogCurrent` and the one elected; two frees in one
walk, a free of the head and of the tail, and additions after idling all occur. The same run
with `MaxPid = 4` (1.7 million states, four minutes) shows nothing else.

Bounds of `Kernel`. With three processes a queue holds two waiters and a third posts,
kills or destroys; two semaphores are enough for a position to be reused while the
other is live; the value 1 tells a token from none, and one of two sleep lengths is
enough where the count is not the question (`kernel_liveness` has both). `MaxValue`
and `MaxSems` only bound what is allocated and posted: the code has no such limits.
The runs of these three check for deadlock too: the timer alone can always step.

Bounds of `Pipe`. Two places and calls of three bytes make every call wrap around and block in
the middle; with three processes two wait at one semaphore while the third reads,
writes, kills or destroys. `MaxUnread` is twice the ring, so a key can overwrite every unread
one. Two byte values tell any two bytes in the ring apart. The run does not check
for deadlock: all processes may be killed, and those left may have nothing to do.

Bounds of `Pipeline`. Commands say more than the two places of the ring, so they block
in the middle of their output and after its end. Two keys make empty input, a word, a vowel,
an end of line, and an end of file before, between and after them. Once a text is spoiled, or
something is left out by Ctrl-C, no second one is (`Unpadded`). The pipeline runs once:
it stops at the prompt, or where somebody waits for a key, so deadlock is not checked.

Bounds of the heaps. 24 words hold up to seven blocks, so a block is freed between two free
ones, between two in use, at either end and next to the end marker; requests of 1..6 words
leave remainders on both sides of the limit for a split, and exact fits. 16 words are five
orders, with blocks from a quarter of the heap to the whole.

Bounds of `Shell`. At most one character is unread (`MaxUnread`), so that a modifier changes
between its press and its read; a shift is held only to type `!`. What is typed or run begins one
of `Lines`, which have one command, two joined, and three of which the middle one is lost; the lines
recalled may be others. On six places they wrap, scroll and fill the screen, in the larger
font each character scrolls. A history of two is full after two commands and is left
by the third. One letter is behind the first and third word of a line (`Behind`): it makes the
name `k`, which does not exist, one that does, and refuses `!`. Two names are ambiguous for the
empty line, and one of them is completed from its beginning. One layout is used: the other only
exchanges characters. An instance with three choices of what is behind the words, a leading space,
and words of three letters showed no error in its first two million states.

Bounds of the library. Four elements and calls of two grow an array of capacity 1 twice, and one
of 3 once; indices go past both ends. A ring of three wraps both indices, and four names are
one more than it holds. Eight bits have the smallest number, whose negation is itself.
The arrays end when freed, and numbers and images have no steps, so deadlock is not checked.

Bounds of `Phylo`. The code begins with five. Two is the least number, at which both neighbours are the same; three is odd,
so that two left-handed ones sit side by side; four is even again. `MaxAmount` is 10 in the
code only to bound an array. `commandPhylo()` may exit, so deadlock is not checked.

Bounds of the programs. Two pairs are those of the code, and two rounds let a worker overtake
another; without the semaphore, when sums are lost, one round is run. Three blocks in 14 words
fail for want of memory and succeed. Three processes and two commands let a user undo what a
tester did before and after it looks, and a byte of three values wraps at the bound. All
programs but `testMM` end, so deadlock is not checked. Two clients of the speaker are one that
steps into a window while another sleeps or spins; three sounds are one after a disturbance
after one before it.

### Fairness

`WF_vars(Intact /\ Tick)` in `Processes`: IRQ 0 is unmasked (`interruptions.c:28`), the
kernel is entered with interrupts off for a bounded time only, and the idle process is
`hlt` in a loop with interrupts on. Nothing is assumed of processes or keys. `Kernel` has
the same, until it hangs. `PCBList` has `WF_vars(Loop)`: a loop inside the kernel, with
interrupts off, goes on.

The others assume weak fairness of each process that is not blocked, which is `ReadyRuns`:
`Pipe` of each process inside a call, as long as no other keeps it from running with
`blockByUser()`; `Pipeline` of the shell and of each program; `Speaker` of the speaker, of a
program that finds the lock free (`MaxSounds` keeps the lock from being taken for ever), and
of the end of a sleep; `Phylo` of each philosopher and of the command, whose semaphores hand
over their tokens in order (`NoOvertaking`) so that weak fairness is enough. Nobody ever has to
press a key.

### What the runs show beyond the properties' texts

`init` never exits (`main.c` loops), so `Exit` excludes pid 0, as `kill()` and Ctrl-C do
in the code. While it boots `init` runs with state READY
(`createUserModuleProcess()` does not go through `schedule()`); `OneRunning` says so.

W-EXIT protects a device's pointer on every path *but* Ctrl-C (`OnlyCtrlCExitsHeld`), which
any user reaches by pressing it twice at the prompt, and if the process was asleep the next
tick never ends (`HangsByCtrlCOnly`: no other path leads there); and the foreground may be
handed to a parent that is already dead, after which `fg` is a dangling pointer (`Undefined`).

## 4. Proofs

`ProcessesProof` proves, for every positive `MaxPid` and every `MaxPriority` in 1..9,

* `TypeCorrect`, `WaitPlaceCorrect`, `StackIsSafe`, `RunningIsCurrent`: the invariants
  `TypeOK`, `OneWaitPlace`, `StackInUse`, `OneRunning`;
* `KilledStaysKilled`, `HeldIsExitedByCtrlCOnly`, `WaitPidIsFaithful`: the action
  properties `DoomedNeverRuns`, `OnlyCtrlCExitsHeld`, `WakesWhenAwaitedExits`.

The assumptions are `PidAssumption` (there is a process besides `init`) and `PriorityAssumption`,
the bound that `changePriority()` checks. `WaitPid` itself has a bound, `WaitersRoom`: ten processes at
most wait for one at a time, as many as `waitingForMe` has room for. The code writes an eleventh
behind the array; a process of this repository waits only for those it has created itself. The inductive invariant `Inv` is the conjunction of the four
invariants with `PidsAreFresh` (a pid not handed out yet has no PCB and nobody refers to
it), without which a new PCB could inherit the waiters or the record of an old one.
`OneWaitPlace` is inductive only together with `OneRunning`: the current process is the
one that starts to wait, and it is in no wait place because it is RUNNING. The lemmas
come in two layers: what `Schedule`, `ExitSet`, `AfterExit` and `Released` do to a state
function, then one lemma per action; the temporal theorems only combine them.

`StructuresProof` proves of the list of the scheduler, under `ListAssumption` (the same),

* `ListTypeCorrect`, `AlwaysCircle`, `AlwaysInStep`, `StackNeverFreed`: the invariants
  `TypeOK`, `Circle`, `PrevInStep`, `StackStays`;
* `AlwaysFound`: the invariant `SearchFinds`, that getPCBByPid() finds what is in the list and
  nothing else;
* `LoopIsSchedule`: the action property `ImplementsSchedule`, by which the atomic operator
  `Schedule` of `Processes` is what the loop over pointers computes.

The argument has two layers. `Ring` states the circle of a set of nodes, a next function, a
head and a tail, without state; `RingAdd` and `RingRemove` are the two operations on it,
resting on `FolInjective` (one predecessor per node), so the action lemmas only
identify the sets. `ListInv` adds to the four invariants that pids not handed out have
no node. For the loop, `WalkedTo` says that the states are those at entry with the
EXITED processes before `current` freed, and that no READY one was met; `NextPlace`, the
fact that no node has its place between a node and its successor, carries it over an
iteration. The walk of getPCBByPid() is a recursive function of its length: `ChainExists` and
`ChainClimbs` (until it meets a pid of the list, the walk from the head climbs towards it, one
pid a step at least) take the least length that would be wrong instead of an induction.

`SubsequenceProof` has what these and the following proofs share. A loop that unlinks nodes from
a list leaves the part of it at the places of the others: `AtPlacesFacts` says that this is a
sequence, has the elements at those places and no other, keeps their order, and has none twice
when the list has not. `LeastOfSome` (among natural numbers there is a least) stands for
induction on a length.

`KernelProof` proves, under `KernelAssumption` (as for `Processes`; a table of any
length, any values and names, sleeps of any length),

* `DevicesAreSound`: the invariant `DevicesSound`, whose parts `TokenMeansNoQueue` and
  `PositionsFreedOnce` are theorems of their own;
* `RefinesProcesses`: `ImplementsProcesses`, that the devices do to processes only what
  `Processes` allows, with `Held` for `held`;
* `TicksEnd`, `PostGivesOneToken`, `FirstComeFirstServed`: the action properties
  `HangsByCtrlCOnly`, `OneTokenPerPost`, `NoOvertaking`.

The argument has two layers. The table of semaphores alone (`Inv`) needs only the types of what
it reads: a post counts a token only when no process in the queue is BLOCKED, in which case it
has emptied the queue (`PostInv`); a reused position is unique because a live one is not on the
stack of freed positions, and that has no position twice (`AddSemInv`, `DestroySemaphoreInv`).
The invariant `IInv` adds `HeldOnce`, the types of the sleep list, and the invariant of
`ProcessesProof`, instantiated with `held <- Held`. Each needs the other: a device's step is a
step of `Processes` only because nobody is recorded twice, and nobody comes to be because the
current process, which is the one recorded, is in no wait place (`OneWaitPlace`, proved of every
step of `Processes`). As every step is one of `Processes`, what `ProcessesProof` shows holds
with the real devices; its refinement is the last theorem, not an assumption of the first.

`PipeProof` proves, under `PipeAssumption` (finitely many processes, any ring, calls of any
length),

* `TokensAreSound` (`TokensSound`), `ShortReadsEmpty` (`ShortReadEmpties`), and `PipeIsChannel`
  (`ImplementsChannel`: every step of the ring is one of the bounded channel, or none).

Its invariant `IInv` says of each semaphore who is in its queue (`SemsSound`, stated once for
both and used with the two swapped), that the tokens with the semaphore, those handed out and
not used, and those lost with a killed process add up to the bytes, or to the places without one
(`TokensAgree`), and that the ring between its two indices, modulo its size, is `unread`
(`Ring`). `PostShape` is the lemma on which it rests: a post takes off the queue all up to the
first BLOCKED process, wherever that is.

`UserlandProof` proves of the philosophers, under `AmountAssumption` (at least two philosophers, `phyloTest.c:7`),

* `ForksAreShared`: the invariant `ForksShared`.

A fork is in one hand only as long as the table does not change under those at it: `RightFork`
is computed modulo the number of seats. `PhyloInv` therefore counts the tokens of the table
(`TokensAgree`): those with the semaphore and those of the seated, at each stage of a change
(`StagesSound`, `Given`). While the command changes the table it has them all, so nobody is
seated (`AtDoor`) and every fork is free; and `ForkSound` holds again for the forks and
neighbours of a table of another size. It is promised until the command has given up for want of
memory (`InPlay`).

`UserlandProof` also proves of `MCLibrary`, for any capacities, any elements, and calls of any
length,

* `ArrayImplementsVector` (`ImplementsVector`). `ArrayInv` says that the cells go from 0 to the
  capacity and hold elements up to the length (`ArrayOk`). What is argued is that growth
  keeps those, that a copy within the array reads no cell it has
  already written (`CopyWithin`), and that a negative index means the same place in both.

and for a history of any positive `Size`,

* `HistoryImplementsRecent` (`ImplementsRecent`). `HistoryInv` says where the writing index and
  the oldest element are in the ring, full or not (`RingOk`), that the reader is not further back
  than there are elements (`ReaderOk`), and that these all differ (`AllDiffer`), so that the
  element a command is like, if any, is the one that is moved to the front.

The long arguments about `BuddyMM`, `Arrays` and `CommandHistory` are about instances of those
modules alone (`Bud`, `Arr`, `Hist`). Short lemmas (`SameBuddy`, `SameArray`, `SameCalls`, ...)
then show that what `MCLibrary` does is what they do.

`HeapProof` proves, for every positive `HeapWords` and requests of any size,

* `HeapIsSound`: the invariants `Tiled`, `BytesExact` and `FitsIfRoom` of `FreeListMM`, the list's
  part of what the run checks as `HeapSound`;
* `ListIsAllocator`: that `FreeListMM` implements `Allocator`, the list's part of
  `ImplementsAllocator`.

The loops over the list are functions defined by themselves, of which the prover knows nothing
until one exists: `WalkExists` builds it from the end of the heap back, and `WalkEnds` says where
it ends, which is all that is used of the two walks (`PlaceOf`, `FitIs`). The free blocks are taken
to be those with a link (`OnList`), and only `FreeBlocksAre` relates them to the blocks met on the
list. `HeapInv` says that these are linked in order (`Linked`), tile the heap with those in use
(`Tiles`), and do not touch (`Apart`), and that the count is that of the words they cover.
`Apart` is not needed for `Tiled`, but without it malloc() could miss room that is there
(`FitsHolds`). `InsertInv` follows the code: link in or join with the block before
(`LinkIn`, `TileJoin`), then join with the block after (`JoinNextInv`); `MallocInv` adds the
unlinking and the split (`Unlink`, `TileSplit`). `BytesExact` takes a sum over the free blocks,
a recursion over their subsets that is treated like the walks (`SumExists`).

`StructuresProof` proves of the heaps of `MCLibrary`, for every positive `HeapWords`, every order
`Top` and requests of any size,

* `HeapsSound` (`HeapSound`) and `HeapsImplementAllocator` (`ImplementsAllocator`), for both
  memory managers; the list's part is `HeapProof`'s.

`BuddyInv` says of a heap, also in the middle of a free(): the blocks begin at multiples of their
size, a power of two, and tile the heap (`Tiling`); for each order, the blocks linked from its
list are the free ones of that order (`IsList`, a ranking that every link descends); no two
buddies are free (`NoPair`); and the block of the whole heap, which mergeBlock() puts on its list
without setting `next`, links to nothing. `BuddyIsBlock` is the reason why getAlignment() may look
where it looks: what is at the buddy's place begins with a header, since aligned blocks of powers
of two never straddle (`Dyadic`). free() is a chain of merges, a function defined by itself over
the orders: it exists (`MergingExists`), each step keeps the invariant or ends (`MergeStep`), and
the least order at which it would not is absurd (`MergedAll`), instead of an induction. malloc()
divides a block into its parts (`DividedTiling`, `SplitKeeps`). `NoPair` is not needed for the
tiling, but without it an aligned run of free words could be in two blocks, and malloc() could
miss it (`RunInOne`, `HeapFits`). Powers of two are taken as a function with the two facts
2^0 = 1 and 2^(n+1) = 2 * 2^n, shown first (`PowTwo`, `PowFacts`).

`ProgramsProof` proves, under `ProgramsAssumption` (positive bounds, finitely many clients),

* `SumIsKept` (`SumKept`). The sum and the rounds still to come add up to what is expected; the
  rounds are counted as a set of pairs (`Rest`), which grows and shrinks by one, so no sum over
  the workers is needed. Only one is between its read and its write (`OneInside`), which the
  tokens of the semaphore give.
* `OnlyItsWindows` (`OnlyWindows`). `SpeakerInv` relates the place of the speaker to the queue
  (`QueueAgrees`) and to the sleep list (`ListAgrees`), and counts for every sound a token: with
  the semaphore, taken by the speaker, or due from a program that spins at the lock
  (`SoundsAgree`, `Due`), each as long as nobody has stepped into the window that spoils it.
* `TestersAreRight` (`BeliefsHold`). `TestersInv` adds to it that notes are of different
  processes, each handed out before (`NotesSound`), how far the loops are (`CountsSound`: the
  count of the living is that of the notes and fits in the byte), that what `testPriority` has
  killed is dead (`KillsSound`), and which arguments of a running `kill` are still to come
  (`ToldSound`). What carries them over the steps of others is that the dead stay dead (`Dies`).
* `BlocksAreKept` (`BlocksKept`), from `HeapInv` and what `HeapProof` says of malloc() and free().
  `Owned` has that the blocks in use are those of the requests still to be freed, and that no
  header is within a block that `testMM` knows, even one it has freed in this round: free()
  only ever takes headers away. `DataSound` has how much is filled.

Checked by TLC only:

* liveness under fairness, which is out of the prover's reach: `ReadyRuns`, `ExitedFreed`,
  `LoopEnds`, `SleepEnds`, `DestroyedIsLeft`, `PipelineEnds`, `SoundsPlayed`, `NobodyStarves`;
* what a recursive definition computes for every input, which needs induction over data:
  `NumbersReadBack`, `ModulesLoaded`, `ScreenShowsLine` and `OutputComposed`;
* that `Shell` implements `Editor`; `ReturnsCodeOfSecond`, which is violated.

`TypeCorrect`, `RunningIsCurrent`, `ListTypeCorrect`, `TokenMeansNoQueue` and
`PositionsFreedOnce` are proved and in no run of their own: they are parts of the inductive
invariants or of `DevicesSound`.

## 5. Not modelled

* **The speaker inside the memory manager.** `Speaker` takes `globalMalloc()` as one step; the
  code runs it with interrupts enabled there, and any process may allocate in between. Nor does
  it grow the array of sounds, which moves it under the pointer to a sound.
* **Memory of the kernel.** A failed creation is one action that changes nothing: what
  `createPCBNode()` leaks or frees wrongly on the way is not followed, nor a queue node that
  cannot be allocated; the memory of a PCB and of a pipe, once freed, is not used again.
* **Exit codes**, except those of the shell's wait in `Pipeline`: `Shell` takes any, and a
  process other than the shell that waits does not look at them.
* **Words of thirty letters** in `Shell`: what is behind a word is then not its own memory, and may
  change. **Wrong output of printf()** is a character in `Pipeline`, whatever it is; that a conversion
  out of step reads the argument of another, and so a string at a wrong address, is not followed.
* **The order of creation** in `testSem` is that of the workers' numbers, not in turn, and none
  fails; the end of file does not end `commandPhylo()`.
* **Wrapped pids** after 2^32 processes, and an eleventh process in `waitPid()` for the same one.
* **64-bit sizes** near the wrap-around, reports of memory use of the list, `stackAlloc()`.
* **Commands that only print or draw** (`help`, `time`, `ps`, `registers`, `colors`, ...),
  commands in the background, and pixels, colours and figures.
* `asciiBitFields.c` is the font's data; `naiveConsole.c`, `circularBuffer.c` and
  `exitCurrentProcessInForeground()` are used by nothing; Pure64 and BMFS are third-party;
  `processes.asm` builds register frames without control state.

## 6. Plan

Done: all modules of section 2, and the proofs of section 4.

1. The speaker inside `globalMalloc()`, over `FreeListMM`.
2. The table of pipes with the reuse of positions.
