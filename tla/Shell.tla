------------------------------- MODULE Shell -------------------------------
(***************************************************************************)
(* The shell, shell.c, between the keyboard and the screen: one line being *)
(* edited, a history, a prompt.  A key is written to stdin when it is      *)
(* pressed; the shell reads it later and asks for the modifiers then.      *)
(*                                                                         *)
(* A command runs as one step, with any output and any result; what it     *)
(* does with pipes and the pipe itself are modelled in Pipeline.  Nothing  *)
(* prints in the background.                                               *)
(***************************************************************************)
EXTENDS Integers, Sequences, SequencesExt, FiniteSets, FiniteSetsExt

CONSTANTS
  Key, ModifierKey,  \* the keys that are used
  Layout,            \* KbLayout
  Text,              \* characters that are typed into a line
  Commands,
  Output,            \* what a command may print
  Size,              \* MAX_HISTORY_LEN
  ScreenWidth, ScreenHeight, CharWidth, CharHeight, CharSeparation, MaxFontSize,
  Behind,            \* what may lie in memory behind the words of a line
  MaxUnread,         \* bound: characters in stdin
  Lines              \* bound: what is typed or run begins one of these

ASSUME SizeAssumption == Size \in Nat \ {0}

ASSUME ScreenAssumption ==
  /\ {ScreenWidth, ScreenHeight, CharWidth, CharHeight, MaxFontSize}
       \subseteq Nat \ {0}
  /\ CharSeparation \in Nat
  /\ ScreenWidth >= CharWidth * MaxFontSize + CharSeparation
  /\ ScreenHeight >= CharHeight * MaxFontSize + CharSeparation

VARIABLES
  layout,    \* kbLayout
  md,        \* the modifiers held
  stdin,     \* characters written by the keyboard, not yet read
  line,      \* currentCommand
  history,   \* commandHistory
  code,      \* commandReturnCode: a global, it outlives a shell
  screen

vars == <<layout, md, stdin, line, history, code, screen>>

K == INSTANCE Keyboard
L == INSTANCE CommandLine

\* compareArgv()
SameCommand(a, b) == Len(a) = Len(b) /\ \A i \in DOMAIN a : L!SameArg(a[i], b[i])

H == INSTANCE CommandHistory WITH Same <- SameCommand
T == INSTANCE Terminal

SUCCESS == 0
FAILURE == 1      \* every other ExitCode: nothing tells them apart

\* printChar() for each
Show(str) == screen' = T!PrintNextString(screen, str)
Backspaces(n) == [i \in 1..n |-> T!Backspace]

\* newPrompt()
Prompt(c) == IF c = SUCCESS THEN <<" ", ">", " ">> ELSE <<" ", ">", "!", " ">>

-----------------------------------------------------------------------------
\* clearLine(), then a line printed in its place
Replace(new) ==
  /\ Show(Backspaces(Len(line)) \o new)
  /\ line' = new

\* The line printed and extended
Extend(str) ==
  /\ Show(str)
  /\ line' = line \o str

\* deleteWord(), or '\b' when the line is not empty
Delete(n) ==
  /\ Show(Backspaces(n))
  /\ line' = SubSeq(line, 1, Len(line) - n)

\* historyPrev()
HistoryPrev ==
  IF H!CanReadPrev(history)
  THEN /\ history' = H!ReadPrev(history)
       /\ Replace(L!Join(H!ElementRead(history')))
  ELSE UNCHANGED <<history, line, screen>>

\* historyNext()
HistoryNext ==
  IF H!CanReadNext(history)
  THEN /\ history' = H!ReadNext(history)
       /\ Replace(L!Join(H!ElementRead(history')))
  ELSE /\ history' = H!ReadRest(history)
       /\ Replace(<<>>)

\* clearScreenKeepCommand() on a screen
KeepCommand(s) == T!PrintNextString(T!ClearScreen(s), Prompt(code) \o line)

\* incFont(), decFont() and Ctrl-L
ShowAgain(s) == screen' = KeepCommand(s) /\ UNCHANGED <<line, history>>

Control(c) ==
  /\ \/ c = "+" /\ ShowAgain(T!SetFontSize(screen, screen.font + 1))
     \/ c = "-" /\ ShowAgain(T!SetFontSize(screen, screen.font - 1))
     \/ c = "l" /\ ShowAgain(screen)
     \/ c = "w" /\ Delete(L!WordAtEnd(line)) /\ UNCHANGED history
     \/ c = "k" /\ HistoryPrev
     \/ c = "j" /\ HistoryNext
     \/ c \notin {"+", "-", "l", "w", "k", "j"} /\ UNCHANGED <<line, history, screen>>
  /\ UNCHANGED <<layout, code>>

\* What sysWaitPid() of the last command returns
Result(found) == IF found THEN {SUCCESS, FAILURE} ELSE {FAILURE}

\* A line without words
EnterNothing ==
  /\ code' = SUCCESS
  /\ screen' = T!PrintNextString(screen, <<"\n">> \o Prompt(SUCCESS))
  /\ UNCHANGED <<history, layout>>

\* The command runs, or both of a pipe, which may set the layout; its words go
\* to the history, found or not.
Execute(argv, found, piped) ==
  \E ret \in Result(found), out \in Output :
    /\ code' = ret
    /\ screen' = T!PrintNextString(screen, <<"\n">> \o out \o Prompt(ret))
    /\ history' = H!MoveToFrontOrPush(history, argv)
    /\ layout' \in IF found /\ (piped \/ ret = SUCCESS) THEN Layout ELSE {layout}

\* One command: its words are ended before the name is looked up.
EnterOne(argv) == Execute(L!Ended(argv), L!Found(L!Ended(argv)), FALSE)

\* Two commands: both names are looked up, the second first, and only then are
\* the words ended.
EnterTwo(argv, argv2) ==
  LET found == L!Found(argv2) /\ L!Found(argv)
      both == argv \o argv2
  IN Execute(IF found THEN L!Ended(both) ELSE both, found, TRUE)

\* '\n'
Enter ==
  LET p == L!Parse(line)
      before(behind) == L!Unended(p.argv, behind)
      after(behind) ==
        L!Unended(p.argv2, SubSeq(behind, Len(p.argv) + 1, Len(behind)))
  IN
  /\ \/ p.argv = <<>> /\ EnterNothing
     \/ p.argv # <<>> /\ \E behind \in Behind :
          IF p.piped THEN EnterTwo(before(behind), after(behind))
                     ELSE EnterOne(before(behind))
  /\ line' = <<>>

InBounds(str) == \E s \in Lines : IsPrefix(str, s)

\* A character that is typed without Ctrl
Typed(c) ==
  \/ /\ c = T!Backspace
     /\ Delete(IF line = <<>> THEN 0 ELSE 1)
     /\ UNCHANGED <<layout, code, history>>
  \/ /\ c = "\t"
     /\ InBounds(line \o L!Completion(line))
     /\ Extend(L!Completion(line))
     /\ UNCHANGED <<layout, code, history>>
  \/ /\ c \notin {T!Backspace, "\t", "\n"}
     /\ InBounds(Append(line, c))
     /\ Extend(<<c>>)
     /\ UNCHANGED <<layout, code, history>>
  \/ c = "\n" /\ InBounds(line) /\ T!EOF \notin Range(line) /\ Enter

\* The modifiers as they are, and no longer as they were typed
ControlHeld == md["CTRL"]

\* A turn of the loop of shell(), with getKey()
ReadKey ==
  /\ stdin # <<>>
  /\ stdin' = Tail(stdin)
  /\ IF ControlHeld THEN Control(K!ToLower(Head(stdin))) ELSE Typed(Head(stdin))
  /\ UNCHANGED md

-----------------------------------------------------------------------------
\* The bound of the keyboard: what is read without Ctrl is text, and a shift is
\* held only for the sign of a pipe.
Readable(m, str) ==
  IF m["LEFT_SHIFT"] \/ m["RIGHT_SHIFT"]
  THEN ~m["CTRL"] /\ Range(str) \subseteq {"!"}
  ELSE m["CTRL"] \/ Range(str) \subseteq Text \cup {T!Backspace, "\t", "\n"}

\* readKeyToBuffer() for a key that writes
PressKey(k) ==
  LET c == K!Written(layout, md, k) IN
  /\ Len(stdin) < MaxUnread
  /\ ~K!Kills(layout, md, k)
  /\ stdin' = IF c = K!NoChar THEN stdin ELSE Append(stdin, c)
  /\ Readable(md, stdin')
  /\ UNCHANGED <<layout, md, line, history, code, screen>>

\* readKeyToBuffer() for a modifier
PressModifier(k, pressed) ==
  /\ md' = K!ModifiersAfter(md, k, pressed)
  /\ Readable(md', stdin)
  /\ UNCHANGED <<layout, stdin, line, history, code, screen>>

\* The start of shell(): the help is printed, and the prompt.
Started(s, c) ==
  {T!PrintNextString(T!ClearScreen(s), out \o Prompt(c)) : out \in Output}

\* Ctrl-C kills the shell, and main() creates it again.
Restart(k) ==
  /\ K!Kills(layout, md, k)
  /\ line' = <<>>
  /\ history' = H!NewHistory
  /\ screen' \in Started(screen, code)
  /\ UNCHANGED <<layout, md, stdin, code>>

Init ==
  /\ layout = "LATAM"
  /\ md = K!NoModifiers
  /\ stdin = <<>>
  /\ line = <<>>
  /\ history = H!NewHistory
  /\ code = SUCCESS
  /\ screen \in Started(T!NewScreen, SUCCESS)

Next ==
  \/ ReadKey
  \/ \E k \in Key : PressKey(k) \/ Restart(k)
  \/ \E k \in ModifierKey, pressed \in BOOLEAN : PressModifier(k, pressed)

Spec == Init /\ [][Next]_vars
-----------------------------------------------------------------------------
(* The screen ends with the prompt and the line, as far as it has room: no *)
(* backspace at a row's start, no change of font, no scroll or restart     *)
(* leaves a character of the line out, or one that was deleted behind.     *)
ScreenShowsLine ==
  LET shown == T!Shown(screen)
      expected == [i \in 1..Len(Prompt(code) \o line) |->
                     LET c == (Prompt(code) \o line)[i]
                     IN IF c = T!EOF THEN T!Blank ELSE c]
      k == Min({Len(shown), Len(expected)})
  IN /\ \A i \in 0..k-1 : shown[Len(shown) - i] = expected[Len(expected) - i]
     /\ \A i \in DOMAIN screen.cells : i >= T!Cell(screen) => screen.cells[i] = T!Blank

(* The shell is an editor of lines over a list of the last commands: the   *)
(* words of a line, the ring of the history and the place of its reader    *)
(* are what they seem, however the keys interleave with the reads.  Two    *)
(* commands joined by a pipe may be refused, whatever their names, and are *)
(* then not spelt right in the list (shell.c:350-356).                     *)
Kept(argv) ==
  [words |-> [i \in DOMAIN argv |-> argv[i].text], exact |-> argv[1].ended]
Ed == INSTANCE Editor WITH
        list <- [i \in DOMAIN H!Oldest(history) |-> Kept(H!Oldest(history)[i])],
        at <- history.toReadBackwards
ImplementsEditor == Ed!Spec
=============================================================================
