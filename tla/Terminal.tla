------------------------------ MODULE Terminal ------------------------------
(***************************************************************************)
(* The screen as videoDriver.c keeps it for text: a grid of characters in  *)
(* the current font, and a cursor.                                         *)
(*                                                                         *)
(* A screen is a record: cells, the characters in reading order, so that   *)
(* the one at (row, col) is cells[row * cols + col]; the cursor; the font. *)
(* Colours, pixels and the bar that marks the cursor are left out; a       *)
(* change of font is followed by a clearScreen() wherever there is one.    *)
(***************************************************************************)
EXTENDS Integers, Sequences, SequencesExt

CONSTANTS
  ScreenWidth, ScreenHeight,   \* VBE_mode_info, in pixels
  CharWidth, CharHeight,       \* ASCII_BF_WIDTH and ASCII_BF_HEIGHT
  CharSeparation,
  MaxFontSize

Blank == " "
Backspace == "\\b"    \* not an escape in TLA+
EOF == "EOF"           \* -1, no printable character

\* setFontGridValues()
FontCols(font) == ScreenWidth \div (CharWidth * font + CharSeparation)
FontRows(font) == ScreenHeight \div (CharHeight * font + CharSeparation)

Cols(s) == FontCols(s.font)
Rows(s) == FontRows(s.font)
CellsOf(font) == 0..FontCols(font)*FontRows(font)-1
Cell(s) == s.row * Cols(s) + s.col

\* printChar() or the erasing of one, at the cursor; outside the screen it
\* has no cell, and printCharXY() draws printable characters only.
Draw(s, c) ==
  IF Cell(s) \in DOMAIN s.cells /\ c # EOF
  THEN [s EXCEPT !.cells[Cell(s)] = c] ELSE s

CursorHasNext(s) == s.col < Cols(s) /\ s.row < Rows(s)

\* The end of a row seen one column too late.
NextTooLate(s) ==
  IF s.col < Cols(s) THEN [s EXCEPT !.col = @ + 1]
  ELSE IF s.row + 1 < Rows(s) THEN [s EXCEPT !.col = 0, !.row = @ + 1]
  ELSE [s EXCEPT !.col = Cols(s), !.row = Rows(s) - 1]

\* cursorNext()
CursorNext(s) ==
  IF s.col + 1 < Cols(s) THEN [s EXCEPT !.col = @ + 1]
  ELSE IF s.row + 1 < Rows(s) THEN [s EXCEPT !.col = 0, !.row = @ + 1]
  ELSE [s EXCEPT !.col = Cols(s), !.row = Rows(s) - 1]

AtStart(s) == s.col = 0 /\ s.row = 0

\* cursorPrev() away from the start of the screen
CursorPrev(s) ==
  IF s.col > 0 THEN [s EXCEPT !.col = @ - 1]
  ELSE [s EXCEPT !.col = Cols(s) - 1, !.row = @ - 1]

\* eraseChar()
EraseChar(s) == IF AtStart(s) THEN s ELSE Draw(CursorPrev(s), Blank)

\* The pixels moved up by one row of characters.
Scroll(s) ==
  [s EXCEPT !.cells = [i \in DOMAIN @ |-> IF i + Cols(s) \in DOMAIN @
                                          THEN @[i + Cols(s)] ELSE Blank],
            !.col = 0, !.row = Rows(s) - 1]

Newline(s) == [s EXCEPT !.row = @ + 1, !.col = 0]

ScrollIfFull(s) == IF CursorHasNext(s) THEN s ELSE Scroll(s)

PrintGlyph(s, c) == CursorNext(Draw(ScrollIfFull(s), c))

\* printNextChar(); a tab is two spaces and a column more.
PrintNextChar(s, c) ==
  CASE c = Backspace -> EraseChar(s)
    [] c = "\n" -> Newline(s)
    [] c = "\t" -> CursorNext(PrintGlyph(PrintGlyph(ScrollIfFull(s), Blank), Blank))
    [] OTHER -> PrintGlyph(s, c)

\* printNextString(), printNextBuf()
PrintNextString(s, str) == FoldLeft(PrintNextChar, s, str)

\* moveCursor()
MoveCursor(s, col, row) ==
  IF col \in 0..Cols(s)-1 /\ row \in 0..Rows(s)-1
  THEN [s EXCEPT !.col = col, !.row = row] ELSE s

\* clearScreen()
ClearScreen(s) ==
  MoveCursor([s EXCEPT !.cells = [i \in CellsOf(s.font) |-> Blank]], 0, 0)

\* setFontSize()
SetFontSize(s, f) == IF f \in 1..MaxFontSize THEN [s EXCEPT !.font = f] ELSE s

NewScreen ==
  [cells |-> [i \in CellsOf(1) |-> Blank], col |-> 0, row |-> 0, font |-> 1]

\* What stands before the cursor; it may be below the last row for a moment.
Shown(s) == [i \in {j \in 1..Cell(s) : j - 1 \in DOMAIN s.cells} |-> s.cells[i - 1]]
=============================================================================
