------------------------------- MODULE Editor -------------------------------
(***************************************************************************)
(* What the shell promises to someone who types: a line, and the last Size *)
(* commands, each kept once, the newest last.  Two commands joined by a    *)
(* sign it may refuse to run; it then keeps their words, but perhaps more  *)
(* behind each, and perhaps twice.                                         *)
(***************************************************************************)
EXTENDS Integers, Sequences, SequencesExt, FiniteSets, FiniteSetsExt

CONSTANTS Size, Text, Commands

VARIABLES
  line,
  list,   \* the commands kept: their words, and whether these are exact
  at,     \* how many of them are before the reader
  code    \* what the last command returned

vars == <<line, list, at, code>>

\* The places where a word begins, and those where it ends
Starts(str) == {i \in DOMAIN str : str[i] # " " /\ (i = 1 \/ str[i-1] = " ")}
End(str, i) == Min({j \in i..Len(str) : j = Len(str) \/ str[j+1] = " "})

Words(str) ==
  LET starts == SetToSortSeq(Starts(str), <)
  IN [n \in DOMAIN starts |-> SubSeq(str, starts[n], End(str, starts[n]))]

\* A line with those words
Spells(str, words) ==
  /\ Words(str) = words
  /\ \A i \in DOMAIN str : str[i] = " " => i + 1 \in Starts(str) /\ i > 1

\* A line in which those words begin where words do, in that order
Mentions(str, words) ==
  \E place \in [DOMAIN words -> Starts(str)] :
    \A i, j \in DOMAIN words :
      /\ IsPrefix(words[i], SubSeq(str, place[i], Len(str)))
      /\ i < j => place[i] + Len(words[i]) < place[j]

\* The signs that join two commands: a word follows.
Signs(words) == {i \in 1..Len(words)-1 : words[i] = <<"!">>}
Joined(words) == Signs(words) # {}

\* Of more than two commands, the first and the last
FirstAndLast(words) ==
  SubSeq(words, 1, Min(Signs(words))) \o SubSeq(words, Max(Signs(words)) + 1, Len(words))

\* Perhaps a command, were it known where it ends
MayRun(name) == \E c \in Commands : IsPrefix(name, c)

Init == line = <<>> /\ list = <<>> /\ at = 0 /\ code = 0

\* A character added
Type(c) == line' = Append(line, c) /\ UNCHANGED <<list, at, code>>

\* Some of the end deleted, never a word and what is before it
Erase ==
  /\ \E n \in 0..Len(line) :
       /\ line' = SubSeq(line, 1, n)
       /\ n < Len(line) - 1 => Cardinality(Starts(SubSeq(line, n + 1, Len(line)))) <= 1
  /\ UNCHANGED <<list, at, code>>

\* The line is the beginning of one command, which it becomes.
Complete ==
  /\ line' \in {c \in Commands : IsStrictPrefix(line, c)}
  /\ \A c \in Commands : IsStrictPrefix(line, c) => c = line'
  /\ UNCHANGED <<list, at, code>>

\* The command before or after the one that was read last
Recall(n) ==
  /\ n \in DOMAIN list
  /\ at' = n - 1
  /\ IF list[n].exact THEN Spells(line', list[n].words)
                       ELSE Mentions(line', list[n].words)
  /\ UNCHANGED <<list, code>>

\* Past the newest
Leave ==
  /\ at + 1 >= Len(list)
  /\ at' = Len(list)
  /\ line' = <<>>
  /\ UNCHANGED <<list, code>>

\* A command is now the newest; it is nowhere else, unless it was inexact.
Keep(words, exact) ==
  LET new == [words |-> words, exact |-> exact] IN
  /\ \E others \in {list} \cup {RemoveAt(list, i) : i \in {j \in DOMAIN list : list[j] = new}} :
       /\ exact => new \notin Range(others)
       /\ list' = Append(IF Len(others) = Size THEN Tail(others) ELSE others, new)
  /\ at' = Len(list')
  /\ line' = <<>>

\* A command runs, if there is one of that name.
Run ==
  LET words == Words(line) IN
  /\ words # <<>> /\ ~Joined(words)
  /\ Keep(words, TRUE)
  /\ words[1] \notin Commands => code' # 0

\* Two commands run, or are refused.
RunJoined ==
  LET words == FirstAndLast(Words(line)) IN
  /\ Joined(Words(line))
  /\ \/ /\ Keep(words, TRUE)
        /\ MayRun(words[1]) /\ MayRun(Words(line)[Max(Signs(Words(line))) + 1])
     \/ Keep(words, FALSE) /\ code' # 0

RunNothing ==
  /\ Words(line) = <<>>
  /\ line' = <<>>
  /\ code' = 0
  /\ UNCHANGED <<list, at>>

\* Ctrl-C: another shell
Restart == line' = <<>> /\ list' = <<>> /\ at' = 0 /\ UNCHANGED code

Next ==
  \/ \E c \in Text : Type(c)
  \/ Erase \/ Complete
  \/ Recall(at) \/ Recall(at + 2)
  \/ Leave \/ Run \/ RunJoined \/ RunNothing \/ Restart

Spec == Init /\ [][Next]_vars
=============================================================================
