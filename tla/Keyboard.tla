------------------------------ MODULE Keyboard ------------------------------
(***************************************************************************)
(* keyboard.c and layouts.h: what a key that is pressed or released does.  *)
(*                                                                         *)
(* A key stands for its scan code; of the tables of layouts.h there are    *)
(* the keys that the shell tells apart, one letter for the others.         *)
(***************************************************************************)
EXTENDS Integers

NoChar == "none"     \* 0 in the tables
Eof == "EOF"

Modifier == {"LEFT_SHIFT", "RIGHT_SHIFT", "CTRL", "ALT"}
Upper == [a |-> "A", c |-> "C", d |-> "D", j |-> "J", k |-> "K", l |-> "L", w |-> "W"]
Letter == DOMAIN Upper

\* layoutMaps
Plain(layout, key) ==
  CASE key \in Letter \cup {" ", "\n", "\t", "\\b", "1"} -> key
    [] key = "code 1B" -> IF layout = "LATAM" THEN "+" ELSE "]"
    [] key = "code 35" -> IF layout = "LATAM" THEN "-" ELSE "/"
    [] key = "code 0D" -> IF layout = "LATAM" THEN NoChar ELSE "="

\* layoutShiftMaps
Shifted(layout, key) ==
  CASE key \in Letter -> Upper[key]
    [] key \in {" ", "\n", "\t", "\\b"} -> key
    [] key = "1" -> "!"
    [] key = "code 1B" -> IF layout = "LATAM" THEN "*" ELSE "}"
    [] key = "code 35" -> IF layout = "LATAM" THEN "_" ELSE "?"
    [] key = "code 0D" -> IF layout = "LATAM" THEN NoChar ELSE "+"

\* TO_LOWER()
ToLower(c) == IF \E k \in Letter : c = Upper[k]
              THEN CHOOSE k \in Letter : c = Upper[k] ELSE c

NoModifiers == [m \in Modifier \cup {"CAPS_LOCK"} |-> FALSE]

\* The cases of readKeyToBuffer() for a modifier
ModifiersAfter(md, key, pressed) ==
  IF key \in Modifier THEN [md EXCEPT ![key] = pressed]
  ELSE IF key = "CAPS_LOCK" /\ pressed THEN [md EXCEPT ![key] = ~@]
  ELSE md

\* The character of a key with the modifiers as they are
CharOf(layout, md, key) ==
  IF md["CAPS_LOCK"] # (md["LEFT_SHIFT"] \/ md["RIGHT_SHIFT"])
  THEN Shifted(layout, key) ELSE Plain(layout, key)

\* Ctrl-C kills the process in the foreground and writes nothing.
Kills(layout, md, key) ==
  md["CTRL"] /\ ToLower(CharOf(layout, md, key)) = "c"

\* What is written to stdin for a key that is pressed, or NoChar.
Written(layout, md, key) ==
  LET c == CharOf(layout, md, key) IN
  IF Kills(layout, md, key) THEN NoChar
  ELSE IF md["CTRL"] /\ ToLower(c) = "d" THEN Eof ELSE c
=============================================================================
