---------------------------- MODULE CommandLine ----------------------------
(***************************************************************************)
(* What shell.c makes of the characters of a line: the words, the pipe     *)
(* between two commands, the word completed or deleted.                    *)
(*                                                                         *)
(* A word is parsed into memory that is not cleared.  It is a record: its  *)
(* text, whether a 0 was put behind it, and else what is read behind it    *)
(* before there is a 0, which nobody writes to.                            *)
(***************************************************************************)
EXTENDS Integers, Sequences, SequencesExt, FiniteSetsExt

CONSTANT Commands   \* the names that addCommand() has seen

Space == " "
Separator == {" ", "-", ".", ":", ",", ";"}     \* wordSeps
PipeSign == <<"!">>

NewParse ==
  [argv |-> <<>>, argv2 |-> <<>>, piped |-> FALSE, arg |-> <<>>, newWord |-> TRUE]

\* The last word closed, in the array that is being filled
AddWord(p, w) ==
  IF p.piped THEN [p EXCEPT !.argv2 = Append(@, w)]
             ELSE [p EXCEPT !.argv = Append(@, w)]

\* A word follows the sign of a pipe: argv2 is a new, empty array.
SplitsAt(p) == p.arg = PipeSign
Split(p) == IF SplitsAt(p) THEN [p EXCEPT !.piped = TRUE, !.argv2 = <<>>] ELSE p

\* A character of currentCommand
ParseChar(p, c) ==
  IF c = Space THEN [p EXCEPT !.newWord = TRUE]
  ELSE IF p.newWord THEN [AddWord(Split(p), <<c>>) EXCEPT !.arg = <<c>>, !.newWord = FALSE]
  ELSE LET w == Append(p.arg, c)
           last(a) == [a EXCEPT ![Len(a)] = w]
       IN IF p.piped THEN [p EXCEPT !.argv2 = last(@), !.arg = w]
                     ELSE [p EXCEPT !.argv = last(@), !.arg = w]

\* The first half of parseCommand()
Parse(line) == FoldLeft(ParseChar, NewParse, line)

\* Words as they are parsed, with what lies behind each
Unended(argv, behind) ==
  [i \in DOMAIN argv |-> [text |-> argv[i], ended |-> FALSE, rest |-> behind[i]]]

\* setArgsNullTerminaor()
Ended(argv) ==
  [i \in DOMAIN argv |-> [text |-> argv[i].text, ended |-> TRUE, rest |-> <<>>]]

\* A word read as a string, and the length of its Array
Str(word) == word.text \o word.rest
WordLen(word) == Len(word.text) + (IF word.ended THEN 1 ELSE 0)

\* compareArgs()
SameArg(a, b) == WordLen(a) = WordLen(b) /\ Str(a) = Str(b)

\* verifyCommand() finds the name.
Found(argv) == Str(argv[1]) \in Commands

\* historyCopy(): the words with a space between them
Join(argv) == FlattenSeq([i \in DOMAIN argv |->
                            IF i < Len(argv) THEN Append(Str(argv[i]), Space)
                                             ELSE Str(argv[i])])

\* autocomplete(): what is added for the only name that goes on from the line.
Completion(line) ==
  LET more == {c \in Commands : IsStrictPrefix(line, c)}
  IN IF Cardinality(more) = 1
     THEN LET c == CHOOSE x \in more : TRUE IN SubSeq(c, Len(line) + 1, Len(c))
     ELSE <<>>

\* deleteWord(): how many characters go, all separators or none of them
WordAtEnd(line) ==
  LET alike(i) == line[i] \in Separator <=> Last(line) \in Separator
      other == {i \in DOMAIN line : ~alike(i)}
  IN IF line = <<>> THEN 0 ELSE Len(line) - (IF other = {} THEN 0 ELSE Max(other))
=============================================================================
