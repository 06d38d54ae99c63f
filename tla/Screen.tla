------------------------------- MODULE Screen -------------------------------
(***************************************************************************)
(* The text screen: framebuffer.c and the putchar of interrupt.c.  All of  *)
(* it runs with interrupts off, so each call is one step.  A cell is the   *)
(* character it shows; colours are left out, and so are init_terminal,     *)
(* whose picture kernel_setup clears before the first process runs, and    *)
(* the hardware cursor, which follows cursor_row and cursor_col.           *)
(***************************************************************************)
EXTENDS Integers, Sequences

CONSTANTS
    TERMINAL_HEIGHT, TERMINAL_WIDTH,
    Printable,      \* the characters that fill a cell; Blank is one of them
    ClockCells      \* where system call 23 draws

ASSUME TerminalSize ==
    /\ TERMINAL_HEIGHT \in Nat /\ TERMINAL_HEIGHT > 1
    /\ TERMINAL_WIDTH \in Nat /\ TERMINAL_WIDTH > 1

Blank     == " "
NewLine   == "newline"
Tab       == "tab"
BackSpace == "backspace"
Controls  == {NewLine, Tab, BackSpace}

ASSUME PrintableAssumption ==
    /\ Blank \in Printable
    /\ Printable \cap Controls = {}

LastRow == TERMINAL_HEIGHT - 1
LastCol == TERMINAL_WIDTH - 1
Rows    == 0 .. LastRow
Cols    == 0 .. LastCol

ASSUME ClockAssumption == ClockCells \subseteq Rows \X Cols

VARIABLE screen     \* [cell : [Rows -> [Cols -> Printable]], row, col]

EmptyScreen == [cell |-> [r \in Rows |-> [c \in Cols |-> Blank]], row |-> 0, col |-> 0]

ScreenInit == screen = EmptyScreen

-----------------------------------------------------------------------------
(* framebuffer.c.  Between calls the cursor is on the screen, but within   *)
(* putchar it may stand one place behind the last row or column.           *)
WriteExactLoc(s, r, c, ch) == [s EXCEPT !.cell[r][c] = ch]

MoveCursor(s, r, c) == [s EXCEPT !.row = r, !.col = c]

(* memmove of all lines but the first: the last line stays where it is. *)
MoveLinesUp(s) ==
    [s EXCEPT !.cell = [r \in Rows |-> s.cell[IF r < LastRow THEN r + 1 ELSE r]]]

BlankLastLine(s) ==
    [s EXCEPT !.cell[LastRow] = [c \in Cols |-> Blank]]

ScrollWithoutMoving(s) == MoveCursor(BlankLastLine(s), LastRow, 0)
Scroll(s) == MoveCursor(BlankLastLine(MoveLinesUp(s)), LastRow, 0)

(* framebuffer_auto_down blanks the last line with framebuffer_write,      *)
(* which wraps a cursor behind the last column and, on the last row,       *)
(* scrolls again before the line is blank: the line appears twice.         *)
FramebufferAutoDown(s) ==
    IF s.col >= TERMINAL_WIDTH /\ s.row >= LastRow
    THEN Scroll(WriteExactLoc(MoveLinesUp(s), LastRow, 0, Blank))
    ELSE Scroll(s)

WrapsTooLate(s) == s
WrapCursor(s) ==
    IF s.col < TERMINAL_WIDTH THEN s
    ELSE IF s.row < LastRow THEN MoveCursor(s, s.row + 1, 0)
    ELSE FramebufferAutoDown(MoveCursor(s, s.row + 1, 0))

FramebufferWrite(s, row, col, ch) ==
    LET r == IF col >= TERMINAL_WIDTH THEN row + 1 ELSE row
        c == IF col >= TERMINAL_WIDTH THEN 0 ELSE col
    IN  WrapCursor(IF r >= TERMINAL_HEIGHT
                   THEN WriteExactLoc(FramebufferAutoDown(s), LastRow, c, ch)
                   ELSE WriteExactLoc(s, r, c, ch))

-----------------------------------------------------------------------------
(* putchar. *)
PutNewLine(s) ==
    IF s.row < LastRow THEN MoveCursor(s, s.row + 1, 0)
    ELSE FramebufferAutoDown(MoveCursor(s, s.row + 1, 0))

NextLineIfBehind(s) ==
    IF s.col >= TERMINAL_WIDTH THEN MoveCursor(s, s.row + 1, 0) ELSE s

PutRegular(s, ch) ==
    LET t == NextLineIfBehind(s)
        u == FramebufferWrite(t, t.row, t.col, ch)
    IN  MoveCursor(u, u.row, u.col + 1)

PutTab(s) == PutRegular(PutRegular(PutRegular(PutRegular(s, Blank), Blank), Blank), Blank)

PutBackSpace(s) ==
    LET t == IF s.col > 0 THEN MoveCursor(s, s.row, s.col - 1)
                          ELSE MoveCursor(s, s.row - 1, LastCol)
    IN  IF s.col = 0 /\ s.row = 0 THEN s
        ELSE FramebufferWrite(t, t.row, t.col, Blank)

(* The line that the last call wraps to is the next one: on the last row   *)
(* the screen scrolls when the cursor reaches the last column.             *)
BlankNext(s) == FramebufferWrite(s, s.row, s.col + 1, Blank)

PutChar(s, ch) ==
    BlankNext(CASE ch = NewLine   -> PutNewLine(s)
                [] ch = Tab       -> PutTab(s)
                [] ch = BackSpace -> PutBackSpace(s)
                [] OTHER          -> PutRegular(s, ch))

PrintChar(ch) == screen' = PutChar(screen, ch)

(* System calls 8 and 23. *)
FramebufferClear == screen' = EmptyScreen
DrawClock(ch) ==
    screen' = [screen EXCEPT !.cell = [r \in Rows |-> [c \in Cols |->
                   IF << r, c >> \in ClockCells THEN ch ELSE screen.cell[r][c]]]]

(* The arrow keys. *)
CursorUp   == screen.row > 0       /\ screen' = MoveCursor(screen, screen.row - 1, screen.col)
CursorDown == screen.row < LastRow /\ screen' = MoveCursor(screen, screen.row + 1, screen.col)
CursorRight ==
    /\ ~(screen.row = LastRow /\ screen.col = LastCol)
    /\ screen' = IF screen.col = LastCol
                 THEN MoveCursor(screen, screen.row + 1, 0)
                 ELSE MoveCursor(screen, screen.row, screen.col + 1)
CursorLeft ==
    /\ ~(screen.row = 0 /\ screen.col = 0)
    /\ screen' = IF screen.col = 0
                 THEN MoveCursor(screen, screen.row - 1, LastCol)
                 ELSE MoveCursor(screen, screen.row, screen.col - 1)

ScreenNext ==
    \/ \E ch \in Printable \cup Controls : PrintChar(ch)
    \/ FramebufferClear
    \/ \E ch \in Printable : DrawClock(ch)
    \/ CursorUp \/ CursorDown \/ CursorRight \/ CursorLeft

ScreenSpec == ScreenInit /\ [][ScreenNext]_screen

-----------------------------------------------------------------------------
(* Between calls the cursor is on the screen, wherever the arrow keys have *)
(* put it and however often the lines have wrapped and scrolled: the cells *)
(* that putchar writes are cells of the screen.                            *)
ScreenTypeOK ==
    screen \in [cell : [Rows -> [Cols -> Printable]], row : Rows, col : Cols]

(* The characters in front of the cursor are those of text. *)
ShownBeforeCursor(text) ==
    LET start == TERMINAL_WIDTH * screen.row + screen.col - Len(text)
    IN  /\ start >= 0
        /\ \A i \in 1 .. Len(text) :
              LET k == start + i - 1
              IN  screen.cell[k \div TERMINAL_WIDTH][k % TERMINAL_WIDTH] = text[i]
=============================================================================
