------------------------------ MODULE Pipeline ------------------------------
(***************************************************************************)
(* Two commands joined by a pipe: the shell, which makes the pipe and      *)
(* waits for the first and then the second (parseCommand(), shell.c), the  *)
(* two programs (shellCommands.c), and between them the pipe of module     *)
(* Pipe, byte by byte.  commandTestPipes() is such a shell for two         *)
(* programs of its own.  Both names have been looked up, and found: how    *)
(* that may fail is in Shell.                                              *)
(*                                                                         *)
(* A character is a string; what a program says besides is one too where   *)
(* it goes through the pipe.  In waitPid() a process is left READY here:   *)
(* it goes on once the other is EXITED (WakesWhenAwaitedExits).            *)
(*                                                                         *)
(* All programs are in one address space, and the padding of printf() is   *)
(* in statics of stdlib.c: a program may be preempted while they are not   *)
(* as the printf() of another leaves or expects them.                      *)
(***************************************************************************)
EXTENDS Integers, Sequences, SequencesExt, FiniteSets

CONSTANTS
  Text,        \* the characters typed
  MaxTyped,    \* bound on the keys pressed
  BufferSize,  \* BUFFER_SIZE of the pipe
  Argument     \* what echo has to say

Proc == {"shell", "first", "second"}
EOF == "eof"

VARIABLES
  isStdin, buffer, writeIdx, readIdx, destroyed, written, empty,
  state, op, left, kernel, unread, got, overrun,          \* Pipe
  command,  \* the command of each of the two
  prog,     \* its variables: what it has to print, and wc's counters
  padding,  \* whether the static paddingLen is not 0
  pc,       \* where the shell is in parseCommand()
  fg,       \* processInForeground
  code,     \* waitedProcessExitCode of the shell
  cut,      \* those killed, or never created
  keys,     \* the keys in stdin
  asked,    \* whether the first is in the queue of stdin
  typed,    \* history: all keys
  screen,   \* history: what was printed on the screen
  spoiled   \* history: a printf() has seen the padding of another's

P == INSTANCE Pipe WITH Byte <- {EOF}, MaxLen <- BufferSize, MaxUnread <- 0

ring == <<isStdin, buffer, writeIdx, readIdx, destroyed, written, empty, op,
          left, kernel, unread, got, overrun>>
programs == <<command, prog>>
printing == <<padding, spoiled>>
user == <<keys, asked, typed>>
scheduler == <<fg, code>>
vars == <<ring, state, programs, printing, pc, scheduler, cut, user, screen>>

-----------------------------------------------------------------------------
(* The programs.                                                            *)

Vowels == {"a", "e", "i", "o", "u", "A", "E", "I", "O", "U"}
charIsAVocal(c) == c \in Vowels

\* Digits and so on of pipeWriter(), shorter
Words == <<"0", "1", "2", "3", "4">>
Flat(words) == FoldLeft(LAMBDA s, w : s \o <<w, " ">>, <<>>, words) \o <<"\n">>

(* What is still to be printed is a sequence of pairs: how, and a character*)
(* when one is printed.  printf() reads paddingLen before each character   *)
(* and conversion and once more after it, here after the last only.        *)

\* printChar(), printString()
Plain(str) == [i \in DOMAIN str |-> <<"printChar", str[i]>>]

\* A "%d": paddingLen is negative while the digits are subtracted from it.
Subtracted == <<<<"subtract", "">>, <<"padded", "">>>>
Number(digits) == Subtracted \o <<<<"digits", digits>>>>

\* Characters of a format, "%c", and a "%s" of one character
Literal(str) == [i \in DOMAIN str |-> <<"printf", str[i]>>]

Printf(items) == <<<<"start", "">>>> \o items \o <<<<"end", "">>>>

\* A text whose last but one is a number
PrintfNumber(text) ==
  Printf(Literal(SubSeq(text, 1, Len(text) - 2)) \o Number(text[Len(text) - 1])
           \o Literal(<<Last(text)>>))

\* commandEcho()
Echoed(words) ==
  FoldLeft(LAMBDA s, w : s \o Printf(Literal(<<w, " ">>)), <<>>, words)
    \o Plain(<<"\n">>)

\* What a program has to print, and whether it reads on; wc's counters
Program(c) ==
  [out |-> CASE c = "echo" -> Echoed(Argument)
             [] c = "pipeWriter" -> Printf(Literal(<<Head(Words)>>) \o Plain(Tail(Words)))
             [] OTHER -> <<>>,
   reads |-> c \notin {"echo", "pipeWriter"},
   words |-> 0, lines |-> 0, inWord |-> FALSE, lastReadNewLine |-> FALSE]

\* The blanks after a blank counted too
EveryBlankEndsWord(r, c) == c \in {" ", "\n"}

EndsWord(r, c) == r.inWord /\ c \in {" ", "\n"}

\* The loop of commandWordCount()
Count(r, c) ==
  [r EXCEPT !.words = IF EndsWord(r, c) THEN @ + 1 ELSE @,
            !.lines = IF c = "\n" THEN @ + 1 ELSE @,
            !.inWord = c \notin {" ", "\n"},
            !.lastReadNewLine = c = "\n"]

Said(what, n) == <<what, " ", "count:", " ", ToString(n), "\n">>

\* What it prints last
Counted(r) ==
  PrintfNumber(<<"\n">> \o Said("Word", IF r.inWord THEN r.words + 1 ELSE r.words))
    \o PrintfNumber(Said("Line", IF r.lastReadNewLine THEN r.lines ELSE r.lines + 1))

\* What pipeReader() says of a read, of which only the numbers matter here
AboutRead(r) == IF r.out = <<>> THEN Printf(Subtracted) ELSE <<>>

\* A character read by command c: printed at once, in part, or the end.
Took(c, r, char) ==
  IF char = EOF
  THEN [r EXCEPT !.reads = FALSE,
                 !.out = CASE c = "wc" -> Counted(r)
                           [] c = "filter" -> Printf(Literal(<<"\n">>))
                           [] c = "pipeReader" -> @ \o AboutRead(r) \o Plain(<<EOF>>)
                           [] OTHER -> <<>>]
  ELSE [(IF c = "wc" THEN Count(r, char) ELSE r)
          EXCEPT !.out =
            CASE c = "filter" -> IF charIsAVocal(char) THEN @
                                 ELSE Printf(Literal(<<char>>))
              [] c = "pipeReader" -> @ \o AboutRead(r) \o Plain(<<char>>)
              [] OTHER -> Plain(<<char>>)]

Takes(p, char) == prog' = [prog EXCEPT ![p] = Took(command[p], @, char)]

\* How much a read asks for
Asks(p) == IF command[p] = "pipeReader" THEN BufferSize ELSE 1

-----------------------------------------------------------------------------
(* The kernel around them.                                                  *)

Parent == [p \in Proc |-> IF p = "shell" THEN "init" ELSE "shell"]

SUCCESS == 0
KILL_EXIT_CODE == 1
ILLEGAL_ARGUMENT == 5

Ends(p) == state[p] # "EXITED" /\ state'[p] = "EXITED"

\* Whom the shell is in waitPid() for
Awaited == CASE pc = "waiting for first" -> {"first"}
             [] pc = "waiting for second" -> {"second"}
             [] OTHER -> {}

\* exitProcessByPCB(): who exits gives the foreground to its parent, and its
\* exit code to the shell if that waits for it.
AfterExits ==
  /\ fg' = IF fg \in Proc /\ Ends(fg) THEN Parent[fg] ELSE fg
  /\ code' = IF \E p \in Awaited : Ends(p)
             THEN IF Awaited \subseteq cut' THEN KILL_EXIT_CODE ELSE SUCCESS
             ELSE code

Created(p) == \/ p = "shell"
              \/ p = "first" /\ pc # "create first"
              \/ p = "second" /\ pc \notin {"create first", "create second"}

\* p is running user code.
InUserCode(p) == Created(p) /\ P!Calls(p)

\* exitProcessByPCB() of one that is not BLOCKED
ExitOf(p) == state' = [state EXCEPT ![p] = "EXITED"]

-----------------------------------------------------------------------------
(* A program goes on: a character printed, or one read.                     *)

Prints(p) == prog[p].out # <<>>
How(p) == Head(prog[p].out)[1]
Char(p) == Head(prog[p].out)[2]
LeftToPrint(p, items) == prog' = [prog EXCEPT ![p].out = items]

\* What printf() reads, 0; bound: of text that is spoiled already, or not all
\* there after a Ctrl-C, nothing more is told.
Unpadded == ~padding \/ spoiled \/ cut # {}

\* p prints a character, and its printf() sees no padding.
PrintsChar(p) ==
  /\ InUserCode(p) /\ Prints(p)
  /\ \/ How(p) \in {"printChar", "digits"}
     \/ How(p) = "printf" /\ Unpadded

\* After the digits printf() sets paddingLen to 0 once more.
Printed(p) ==
  /\ LeftToPrint(p, Tail(prog[p].out))
  /\ padding' = (padding /\ How(p) # "digits")
  /\ UNCHANGED spoiled

\* printChar() of the first, into the pipe
Write ==
  /\ \/ PrintsChar("first") /\ P!WritePipe("first", 1) /\ UNCHANGED <<prog, printing>>
     \/ P!WriteByte("first", Char("first")) /\ Printed("first")
  /\ UNCHANGED <<isStdin, command, pc, cut, user, screen>>
  /\ AfterExits

\* printChar() of the second
PrintNext ==
  /\ PrintsChar("second")
  /\ Printed("second")
  /\ screen' = Append(screen, Char("second"))
  /\ UNCHANGED <<ring, state, command, pc, scheduler, cut, user>>

\* What printf() does to paddingLen between two characters
SetPadding(p) ==
  /\ \/ How(p) \in {"start", "padded"} /\ padding' = FALSE
     \/ How(p) = "subtract" /\ Unpadded /\ padding' = TRUE
     \/ How(p) = "end" /\ Unpadded /\ UNCHANGED padding
  /\ LeftToPrint(p, Tail(prog[p].out))
  /\ UNCHANGED spoiled

\* What comes after the printf() that p is in
AfterPrintf(items) ==
  SubSeq(items, SelectInSeq(items, LAMBDA x : x[1] = "end") + 1, Len(items))

Garbled == <<"printChar", "?">>

\* A printf() that sees the padding of another prints an error and returns, or
\* prints something else, or again, in the place of what it was at.
Spoil(p) ==
  /\ How(p) \in {"printf", "subtract", "end"} /\ ~Unpadded
  /\ \E rest \in {AfterPrintf(prog[p].out), Tail(prog[p].out)} :
       LeftToPrint(p, <<Garbled>> \o rest)
  /\ padding' = FALSE
  /\ spoiled' = TRUE

\* printf() between two characters
Format(p) ==
  /\ InUserCode(p) /\ Prints(p)
  /\ SetPadding(p) \/ Spoil(p)
  /\ UNCHANGED <<ring, state, command, pc, scheduler, cut, user, screen>>

\* getChar() of the first: readStdin()
ReadKey ==
  /\ InUserCode("first") /\ ~Prints("first") /\ prog["first"].reads
  /\ IF keys # <<>>
     THEN /\ Takes("first", Head(keys))
          /\ keys' = Tail(keys)
          /\ UNCHANGED <<state, asked>>
     ELSE /\ state' = [state EXCEPT !["first"] = "BLOCKED"]
          /\ asked' = TRUE
          /\ UNCHANGED <<prog, keys>>
  /\ UNCHANGED <<ring, command, printing, pc, scheduler, cut, typed, screen>>

\* sysRead() of the second, from the pipe
Read ==
  /\ \/ InUserCode("second") /\ ~Prints("second") /\ prog["second"].reads
        /\ P!ReadPipe("second", Asks("second"))
        /\ UNCHANGED prog
     \/ P!ReadByte("second") /\ Takes("second", got')
  /\ UNCHANGED <<isStdin, command, printing, pc, cut, user, screen>>
  /\ AfterExits

\* sysExit()
Exit(p) ==
  /\ InUserCode(p) /\ ~Prints(p) /\ ~prog[p].reads
  /\ ExitOf(p)
  /\ UNCHANGED <<ring, programs, printing, pc, cut, user, screen>>
  /\ AfterExits

Go(p) == \/ p = "first" /\ (Write \/ ReadKey)
         \/ p = "second" /\ (Read \/ PrintNext)
         \/ Format(p) \/ Exit(p)

-----------------------------------------------------------------------------
(* The shell.                                                               *)

ShellRuns(here, there) == InUserCode("shell") /\ pc = here /\ pc' = there

\* sysCreateProcessWithPipeSwap(), whose failure nobody looks at
Create(p, here, there) ==
  /\ ShellRuns(here, there)
  /\ \/ UNCHANGED <<state, cut>>
     \/ ExitOf(p) /\ cut' = cut \cup {p}
  /\ UNCHANGED <<ring, programs, printing, scheduler, user, screen>>

\* sysWaitPid(): of one that is EXITED it returns at once, with the code that
\* the last wait left.
Wait(p, here, waiting, there) ==
  /\ \/ state[p] = "EXITED" /\ ShellRuns(here, there) /\ UNCHANGED fg
     \/ /\ state[p] # "EXITED" /\ ShellRuns(here, waiting)
        /\ fg' = IF fg = "shell" THEN p ELSE fg
     \/ state[p] = "EXITED" /\ ShellRuns(waiting, there) /\ UNCHANGED fg
  /\ UNCHANGED <<ring, state, programs, printing, code, cut, user, screen>>

\* No end of file, as the pipe is destroyed anyway
NoEof == "wait second"

AfterFirst == "eof"

\* sysWrite() of EOF
WriteEof ==
  /\ \/ ShellRuns("eof", "eof written") /\ P!WritePipe("shell", 1)
     \/ pc = "eof written" /\ pc' = "wait second" /\ P!WriteByte("shell", EOF)
  /\ UNCHANGED <<isStdin, programs, printing, scheduler, cut, user, screen>>

Destroy ==
  /\ ShellRuns("destroy", "prompt")
  /\ P!DestroyPipe("shell")
  /\ UNCHANGED <<isStdin, programs, printing, scheduler, cut, user, screen>>

Shell ==
  \/ Create("first", "create first", "create second")
  \/ Create("second", "create second", "wait first")
  \/ Wait("first", "wait first", "waiting for first", AfterFirst)
  \/ WriteEof
  \/ Wait("second", "wait second", "waiting for second", "destroy")
  \/ Destroy

-----------------------------------------------------------------------------
(* The user.                                                                *)

\* A key: the first, if it waits for one, is readied, or exited if killed.
PressKey(c) ==
  /\ kernel = P!Nobody /\ Len(typed) < MaxTyped
  /\ typed' = Append(typed, c)
  /\ keys' = Append(keys, c)
  /\ asked' = FALSE
  /\ state' = P!LetGo(state, IF asked THEN {"first"} ELSE {})
  /\ UNCHANGED <<ring, programs, printing, pc, cut, screen>>
  /\ AfterExits

\* killCurrentProcessInForeground(): one that is in W-EXIT exits at once.
CtrlC ==
  /\ kernel = P!Nobody
  /\ fg \in Proc /\ state[fg] # "EXITED"
  /\ IF state[fg] = "BLOCKED"
     THEN /\ state' = [state EXCEPT ![fg] = "W-EXIT"]
          /\ op' = [op EXCEPT ![fg] = "none"]
     ELSE ExitOf(fg) /\ UNCHANGED op
  /\ left' = [left EXCEPT ![fg] = 0]
  /\ cut' = cut \cup {fg}
  /\ UNCHANGED <<isStdin, buffer, writeIdx, readIdx, destroyed, written, empty,
                 kernel, unread, got, overrun, programs, printing, pc, user,
                 screen>>
  /\ AfterExits

-----------------------------------------------------------------------------
Joined ==
  {f \in [{"first", "second"} -> {"echo", "cat", "wc", "filter"}] : TRUE}
    \cup {[first |-> "pipeWriter", second |-> "pipeReader"]}

\* pipeInit() done, neither process created; an earlier command failed.
Init ==
  /\ P!Init /\ ~isStdin
  /\ command \in Joined
  /\ prog = [p \in {"first", "second"} |-> Program(command[p])]
  /\ pc = "create first" /\ fg = "shell" /\ code = ILLEGAL_ARGUMENT
  /\ cut = {} /\ padding = FALSE /\ spoiled = FALSE
  /\ keys = <<>> /\ asked = FALSE /\ typed = <<>> /\ screen = <<>>

Next ==
  \/ Shell \/ Go("first") \/ Go("second")
  \/ CtrlC \/ \E c \in Text \cup {EOF} : PressKey(c)

\* A READY process runs (ReadyRuns); nobody has to press a key.
Spec == Init /\ [][Next]_vars
             /\ WF_vars(Shell) /\ WF_vars(Go("first")) /\ WF_vars(Go("second"))
-----------------------------------------------------------------------------
(* Properties.                                                              *)

UpToEof(s) ==
  IF \E i \in DOMAIN s : s[i] = EOF
  THEN SubSeq(s, 1, SelectInSeq(s, LAMBDA c : c = EOF) - 1) ELSE s

\* What each command promises of its whole input
IsWordStart(s, i) == s[i] \notin {" ", "\n"} /\ (i = 1 \/ s[i-1] \in {" ", "\n"})
Lines(s) == Cardinality({i \in DOMAIN s : s[i] = "\n"})
              + (IF s = <<>> \/ Last(s) # "\n" THEN 1 ELSE 0)
Output(c, s) ==
  CASE c = "echo" -> Flat(Argument)
    [] c = "cat" -> s
    [] c = "filter" -> SelectSeq(s, LAMBDA x : x \notin Vowels) \o <<"\n">>
    [] c = "wc" -> s \o <<"\n">>
                     \o Said("Word", Cardinality({i \in DOMAIN s : IsWordStart(s, i)}))
                     \o Said("Line", Lines(s))
    [] c = "pipeWriter" -> Words
    [] c = "pipeReader" -> s \o <<EOF>>

(* A pipeline is the composition of its commands: through a pipe smaller   *)
(* than what goes through it, and whoever runs first, all the first prints *)
(* gets to the second, in order, and nothing more.  Only where one prints  *)
(* numbers while the other is in a printf() too may a text be spoiled.     *)
OutputComposed ==
  pc = "prompt" /\ cut = {} =>
    \/ screen = Output(command["second"], Output(command["first"], UpToEof(typed)))
    \/ /\ spoiled
       /\ \/ command["first"] = "wc" /\ command["second"] \in {"echo", "filter"}
          \/ command["second"] = "pipeReader"

(* The shell comes back, also from Ctrl-C, unless the first command waits  *)
(* for a key, or the second has ended and left the pipe full: waitPid() of *)
(* the first (shell.c:369) then never returns.                             *)
Blocked(p) == state[p] \in {"BLOCKED", "W-EXIT"}
LeftFull == state["second"] = "EXITED" /\ (Blocked("first") \/ Blocked("shell"))
PipelineEnds ==
  <>[](pc = "prompt" \/ state["shell"] = "EXITED" \/ asked \/ LeftFull)

(* The return code of two commands that succeed, which parseCommand()      *)
(* returns and "$?" prints (shell.c:40), is success: that of the second.   *)
(* One that has exited before the shell waits for it tells nobody.         *)
ReturnsCodeOfSecond ==
  pc = "prompt" /\ cut = {} /\ command["second"] # "pipeReader" => code = SUCCESS
=============================================================================
