------------------------------- MODULE Stdlib -------------------------------
(***************************************************************************)
(* Numbers and strings in stdlib.c, with their twins in testUtil.c and in  *)
(* the kernel's utils.c and naiveConsole.c.  A string is a sequence of     *)
(* characters without the 0 that ends it.                                  *)
(***************************************************************************)
EXTENDS Integers, Sequences, SequencesExt

CONSTANT Width   \* of an int32_t, in bits

Digit == <<"0", "1", "2", "3", "4", "5", "6", "7", "8", "9",
           "A", "B", "C", "D", "E", "F">>
LowerHex == <<"a", "b", "c", "d", "e", "f">>

\* What is left of an integer in an int32_t
Signed(n) == LET m == n % 2^Width IN IF m >= 2^(Width-1) THEN m - 2^Width ELSE m

IsDigit(c) == \E i \in 1..10 : Digit[i] = c
IsHexLetter(c) == \E i \in 1..6 : LowerHex[i] = c \/ Digit[i + 10] = c

\* The digits from the lowest, before they are reversed in place
LowDigits(value, base) ==
  LET f[v \in Nat] == IF v < base THEN <<Digit[v + 1]>>
                      ELSE <<Digit[(v % base) + 1]>> \o f[v \div base]
  IN f[value]

\* uintToBase(): what it writes; it returns the length.
UintToBase(value, base) == Reverse(LowDigits(value, base))

\* intToBase(); it returns the length without the sign.
IntToBase(value, base) ==
  IF value < 0 THEN <<"-">> \o UintToBase(-value, base) ELSE UintToBase(value, base)

\* The letters of one case only
HexLowerToDec(c) ==
  IF IsDigit(c) THEN (CHOOSE i \in 1..10 : Digit[i] = c) - 1
  ELSE IF \E i \in 1..6 : LowerHex[i] = c
       THEN (CHOOSE i \in 1..6 : LowerHex[i] = c) + 9 ELSE -1

\* hexCharToDec()
HexCharToDec(c) ==
  IF IsDigit(c) THEN (CHOOSE i \in 1..10 : Digit[i] = c) - 1
  ELSE IF IsHexLetter(c)
       THEN (CHOOSE i \in 1..6 : LowerHex[i] = c \/ Digit[i + 10] = c) + 9
       ELSE -1

\* strToInt(): from the last character down to one that is no digit
StrToInt(str) ==
  LET minus == str # <<>> /\ str[1] = "-"
      s == IF minus THEN Tail(str) ELSE str
      hex == Len(s) >= 2 /\ s[1] = "0" /\ s[2] = "x"
      t == IF hex THEN SubSeq(s, 3, Len(s)) ELSE s
      base == IF hex THEN 16 ELSE 10
      Counts(c) == IsDigit(c) \/ (hex /\ IsHexLetter(c))
      step(acc, c) ==
        IF acc.going /\ Counts(c)
        THEN [acc EXCEPT !.n = Signed(@ + HexCharToDec(c) * acc.k),
                         !.k = Signed(@ * base)]
        ELSE [acc EXCEPT !.going = FALSE]
      read == FoldLeft(step, [n |-> 0, k |-> 1, going |-> TRUE], Reverse(t))
  IN Signed(IF minus THEN -read.n ELSE read.n)

\* satoi(): 0 unless every character is a digit
Satoi(str) ==
  LET minus == str # <<>> /\ str[1] = "-"
      s == IF minus THEN Tail(str) ELSE str
      n == FoldLeft(LAMBDA acc, c : acc * 10 + HexCharToDec(c), 0, s)
  IN IF \E i \in DOMAIN s : ~IsDigit(s[i]) THEN 0
     ELSE IF minus THEN -n ELSE n

\* printPadding() and printStringWithAlignedPadding()
Aligned(str, len, char, sign) ==
  LET padding == [i \in 1..len |-> char]
  IN IF sign > 0 THEN padding \o str ELSE str \o padding

-----------------------------------------------------------------------------
(* printf(): a format is read character by character, with the padding in  *)
(* static variables that every process shares and that one killed in the   *)
(* middle leaves as they are.  The value returned, which no caller uses,   *)
(* is left out.                                                            *)

Long(n) == n % 2^(2 * Width)   \* a uint64_t
MaxPaddingDigits == 2

Emit(r, str) == [r EXCEPT !.out = @ \o str, !.mode = "text"]
Fails(r) == [r EXCEPT !.out = @ \o <<"error">>, !.mode = "failed"]

\* printStringWithAlignedPadding(): what is printed ends the padding.
Padded(r, before, str) ==
  [Emit(r, before \o Aligned(str, r.paddingLen - Len(str) - r.signs,
                             r.paddingChar, r.paddingSign))
     EXCEPT !.paddingLen = 0, !.signs = 0, !.args = Tail(@)]

\* printAsBaseWithPadding(): the sign comes before the padding.
PrintInt(r, n) ==
  IF n < 0 THEN Padded([r EXCEPT !.signs = 1], <<"-">>, UintToBase(-n, 10))
           ELSE Padded(r, <<>>, UintToBase(n, 10))
PrintUint(r, before, n, base) == Padded(r, before, UintToBase(n, base))

\* The switch of printf(); %u and %x take an int, and so does %li.
Convert(r, c) ==
  LET arg == Head(r.args) IN
  CASE c = "%" -> Emit(r, <<"%">>)
    [] c = "d" -> PrintInt(r, Signed(arg))
    [] c = "u" -> PrintUint(r, <<>>, Long(Signed(arg)), 10)
    [] c = "l" -> [r EXCEPT !.mode = "long"]
    [] c = "x" -> PrintUint(r, <<"0", "x">>, Long(Signed(arg)), 16)
    [] c = "p" -> PrintUint([r EXCEPT !.paddingLen = 8, !.paddingSign = 1,
                                      !.paddingChar = "0"], <<"0", "x">>, Long(arg), 16)
    [] c = "b" -> [Emit(r, <<"0", "b">> \o IntToBase(Signed(arg), 2)) EXCEPT !.args = Tail(@)]
    [] c = "s" -> Padded(r, <<>>, arg)
    [] c = "c" -> [Emit(r, <<arg>>) EXCEPT !.args = Tail(@)]
    [] OTHER -> Fails(r)

ConvertLong(r, c) ==
  CASE c = "x" -> PrintUint(r, <<"0", "x">>, Long(Head(r.args)), 16)
    [] c = "i" -> PrintInt(r, Signed(Head(r.args)))
    [] c = "u" -> PrintUint(r, <<>>, Long(Head(r.args)), 10)
    [] OTHER -> Fails(r)

\* A flag or the first digit of a width
Option(r, c) ==
  CASE c = "-" /\ r.mode = "percent" ->
         [r EXCEPT !.mode = "minus", !.paddingSign = -1]
    [] IsDigit(c) ->
         [r EXCEPT !.mode = "width",
                   !.paddingSign = IF r.mode = "minus" THEN -1 ELSE 1,
                   !.paddingChar = IF c = "0" THEN "0" ELSE " ",
                   !.digits = IF c = "0" THEN <<>> ELSE <<c>>]
    [] OTHER -> Fails(r)

\* The end of a width; of width 0 the conversion is skipped.
Field(r, c) ==
  LET w == [r EXCEPT !.paddingLen = StrToInt(r.digits)] IN
  IF w.paddingLen = 0 THEN Emit(w, <<>>)
  ELSE IF c \in {"u", "d", "l", "x", "s"} THEN Convert(w, c) ELSE Fails(w)

\* A character of the format
FormatChar(r, c) ==
  CASE r.mode = "failed" -> r
    [] r.mode = "text" -> IF c = "%" THEN [r EXCEPT !.mode = "percent"] ELSE Emit(r, <<c>>)
    [] r.mode = "percent" -> IF c = "-" \/ IsDigit(c) THEN Option(r, c) ELSE Convert(r, c)
    [] r.mode = "minus" -> Option(r, c)
    [] r.mode = "width" ->
         IF ~IsDigit(c) THEN Field(r, c)
         ELSE IF Len(r.digits) < MaxPaddingDigits THEN [r EXCEPT !.digits = Append(@, c)]
         ELSE Fails(r)
    [] r.mode = "long" -> ConvertLong(r, c)

\* printf(), after a call that left the padding as it is in left
Printf(left, fmt, args) ==
  FoldLeft(FormatChar,
           [left EXCEPT !.paddingLen = 0]
             @@ [mode |-> "text", out |-> <<>>, args |-> args, digits |-> <<>>,
                 signs |-> 0],
           fmt).out
=============================================================================
