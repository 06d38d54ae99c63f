--------------------------- MODULE TerminalProofs ---------------------------
(***************************************************************************)
(* Proofs about the screen, the keyboard and the shells that use them, for *)
(* a screen of any size, any key maps, any texts and any number of shells. *)
(*                                                                         *)
(* In the middle of a call the cursor may stand one place behind the last  *)
(* row or column; each procedure of framebuffer.c is shown to bring it     *)
(* back, from wherever its callers may have left it.                       *)
(*                                                                         *)
(* For ScreenShowsCommand the cells are numbered in the order in which     *)
(* text fills them: where nothing scrolls, a printed character changes no  *)
(* cell in front of the cursor but the one it fills, and a backspace no    *)
(* cell in front of the one it erases.                                     *)
(*                                                                         *)
(* LineIsSplit is a fact about every line: the words begin at a set of     *)
(* places, which getWord counts in increasing order.                       *)
(***************************************************************************)
EXTENDS Terminal, SequenceTheorems, FiniteSetTheorems, FunctionTheorems,
        WellFoundedInduction, TLAPS

Cells  == [Rows -> [Cols -> Printable]]
Near   == [cell : Cells, row : 0 .. TERMINAL_HEIGHT, col : 0 .. TERMINAL_WIDTH]
Beside == [cell : Cells, row : Rows, col : 0 .. TERMINAL_WIDTH]
Inside == [cell : Cells, row : Rows, col : Cols]

LEMMA SizeFacts ==
    /\ TERMINAL_HEIGHT \in Nat /\ TERMINAL_WIDTH \in Nat
    /\ TERMINAL_HEIGHT > 1 /\ TERMINAL_WIDTH > 1
    /\ LastRow \in Rows /\ 0 \in Rows /\ 0 \in Cols /\ LastCol \in Cols
    /\ Rows \subseteq 0 .. TERMINAL_HEIGHT /\ Cols \subseteq 0 .. TERMINAL_WIDTH
    /\ Blank \in Printable
BY TerminalSize, PrintableAssumption DEF LastRow, LastCol, Rows, Cols

LEMMA InsideIsNear == Inside \subseteq Beside /\ Beside \subseteq Near
BY SizeFacts DEF Inside, Beside, Near

-----------------------------------------------------------------------------
(* The procedures of framebuffer.c, one by one. *)
LEMMA WriteExactLocType ==
    ASSUME NEW s \in Near, NEW r \in Rows, NEW c \in Cols, NEW ch \in Printable
    PROVE  /\ WriteExactLoc(s, r, c, ch) \in Near
           /\ WriteExactLoc(s, r, c, ch).row = s.row
           /\ WriteExactLoc(s, r, c, ch).col = s.col
<1>1. [s.cell EXCEPT ![r][c] = ch] \in Cells
  BY DEF Near, Cells
<1>2. WriteExactLoc(s, r, c, ch) = [s EXCEPT !.cell = [s.cell EXCEPT ![r][c] = ch]]
  BY DEF WriteExactLoc
<1> QED BY <1>1, <1>2 DEF Near

LEMMA MoveCursorType ==
    ASSUME NEW s \in Near, NEW r \in 0 .. TERMINAL_HEIGHT, NEW c \in 0 .. TERMINAL_WIDTH
    PROVE  /\ MoveCursor(s, r, c) \in Near
           /\ MoveCursor(s, r, c).cell = s.cell
           /\ MoveCursor(s, r, c).row = r /\ MoveCursor(s, r, c).col = c
           /\ r \in Rows => MoveCursor(s, r, c) \in Beside
           /\ r \in Rows /\ c \in Cols => MoveCursor(s, r, c) \in Inside
BY DEF MoveCursor, Near, Beside, Inside

LEMMA MoveLinesUpType ==
    ASSUME NEW s \in Near
    PROVE  /\ MoveLinesUp(s) \in Near
           /\ MoveLinesUp(s).row = s.row /\ MoveLinesUp(s).col = s.col
<1>1. \A r \in Rows : (IF r < LastRow THEN r + 1 ELSE r) \in Rows
  BY SizeFacts DEF Rows, LastRow
<1>2. [r \in Rows |-> s.cell[IF r < LastRow THEN r + 1 ELSE r]] \in Cells
  BY <1>1 DEF Near, Cells
<1> QED BY <1>2 DEF MoveLinesUp, Near

LEMMA ScrollType ==
    ASSUME NEW s \in Near
    PROVE  Scroll(s) \in Inside
<1>1. MoveLinesUp(s) \in Near
  BY MoveLinesUpType
<1>2. ASSUME NEW t \in Near PROVE BlankLastLine(t) \in Near
  <2>1. [t.cell EXCEPT ![LastRow] = [c \in Cols |-> Blank]] \in Cells
    BY SizeFacts DEF Near, Cells
  <2> QED BY <2>1 DEF BlankLastLine, Near
<1> QED BY <1>1, <1>2, MoveCursorType, SizeFacts DEF Scroll

LEMMA AutoDownType ==
    ASSUME NEW s \in Near
    PROVE  FramebufferAutoDown(s) \in Inside
<1>1. WriteExactLoc(MoveLinesUp(s), LastRow, 0, Blank) \in Near
  BY MoveLinesUpType, WriteExactLocType, SizeFacts
<1> QED BY <1>1, ScrollType DEF FramebufferAutoDown

LEMMA WrapCursorType ==
    ASSUME NEW s \in Near, s.row \in Rows
    PROVE  WrapCursor(s) \in Inside
<1>0. s.row \in Int /\ s.col \in 0 .. TERMINAL_WIDTH
  BY DEF Near
<1>1. CASE s.col < TERMINAL_WIDTH
  <2>1. s.col \in Cols
    BY <1>0, <1>1, SizeFacts DEF Cols, LastCol
  <2> QED BY <1>1, <2>1 DEF WrapCursor, Near, Inside
<1>2. CASE ~(s.col < TERMINAL_WIDTH) /\ s.row < LastRow
  <2>1. s.row + 1 \in Rows /\ s.row + 1 \in 0 .. TERMINAL_HEIGHT
    BY <1>2, SizeFacts DEF Rows, LastRow
  <2> QED BY <1>2, <2>1, MoveCursorType, SizeFacts DEF WrapCursor
<1>3. CASE ~(s.col < TERMINAL_WIDTH) /\ ~(s.row < LastRow)
  <2>1. s.row + 1 \in 0 .. TERMINAL_HEIGHT
    BY SizeFacts DEF Rows, LastRow
  <2>2. MoveCursor(s, s.row + 1, 0) \in Near
    BY <2>1, MoveCursorType, SizeFacts
  <2> QED BY <1>3, <2>2, AutoDownType DEF WrapCursor
<1> QED BY <1>1, <1>2, <1>3

(* Its callers pass the row of the cursor and a column up to two behind    *)
(* the last.                                                               *)
LEMMA FramebufferWriteType ==
    ASSUME NEW s \in Near, NEW col \in 0 .. TERMINAL_WIDTH + 1, NEW ch \in Printable
    PROVE  FramebufferWrite(s, s.row, col, ch) \in Inside
<1> DEFINE r == IF col >= TERMINAL_WIDTH THEN s.row + 1 ELSE s.row
           c == IF col >= TERMINAL_WIDTH THEN 0 ELSE col
<1>1. s.row \in 0 .. TERMINAL_HEIGHT
  BY DEF Near
<1>2. c \in Cols
  BY SizeFacts DEF Cols, LastCol
<1>3. CASE r >= TERMINAL_HEIGHT
  <2> DEFINE t == WriteExactLoc(FramebufferAutoDown(s), LastRow, c, ch)
  <2>1. FramebufferAutoDown(s) \in Inside
    BY AutoDownType
  <2>2. t \in Near /\ t.row \in Rows
    <3>1. PICK u : u = FramebufferAutoDown(s)
      OBVIOUS
    <3>2. u \in Near /\ u.row \in Rows
      BY <2>1, <3>1, InsideIsNear DEF Inside
    <3>3. WriteExactLoc(u, LastRow, c, ch) \in Near /\ WriteExactLoc(u, LastRow, c, ch).row = u.row
      <4>1. LastRow \in Rows /\ c \in Cols
        BY <1>2, SizeFacts
      <4> HIDE DEF c
      <4> QED BY <3>2, <4>1, WriteExactLocType
    <3> QED BY <3>1, <3>2, <3>3
  <2>3. FramebufferWrite(s, s.row, col, ch) = WrapCursor(t)
    BY <1>3 DEF FramebufferWrite
  <2> QED BY <2>2, <2>3, WrapCursorType
<1>4. CASE ~(r >= TERMINAL_HEIGHT)
  <2> DEFINE t == WriteExactLoc(s, r, c, ch)
  <2>1. r \in Rows /\ s.row \in Rows
    BY <1>1, <1>4, SizeFacts DEF Rows, LastRow
  <2>2. t \in Near /\ t.row \in Rows
    BY <1>2, <2>1, WriteExactLocType
  <2>3. FramebufferWrite(s, s.row, col, ch) = WrapCursor(t)
    BY <1>4 DEF FramebufferWrite
  <2> QED BY <2>2, <2>3, WrapCursorType
<1> QED BY <1>3, <1>4

-----------------------------------------------------------------------------
(* putchar, from a cursor on the screen back to one. *)
LEMMA NextLineIfBehindType ==
    ASSUME NEW s \in Beside
    PROVE  NextLineIfBehind(s) \in Near
<1>1. s \in Near /\ s.row + 1 \in 0 .. TERMINAL_HEIGHT
  BY InsideIsNear, SizeFacts DEF Beside, Rows, LastRow
<1> QED BY <1>1, MoveCursorType, SizeFacts DEF NextLineIfBehind

LEMMA PutRegularType ==
    ASSUME NEW s \in Beside, NEW ch \in Printable
    PROVE  PutRegular(s, ch) \in Beside
<1>1. PICK t \in Near : t = NextLineIfBehind(s)
  BY NextLineIfBehindType
<1>2. t.col \in 0 .. TERMINAL_WIDTH + 1
  BY SizeFacts DEF Near
<1>3. PICK u \in Inside : u = FramebufferWrite(t, t.row, t.col, ch)
  BY <1>2, FramebufferWriteType
<1>4. u \in Near /\ u.row \in Rows /\ u.row \in 0 .. TERMINAL_HEIGHT
  BY InsideIsNear, SizeFacts DEF Inside
<1>5. u.col + 1 \in 0 .. TERMINAL_WIDTH
  BY SizeFacts DEF Inside, Cols, LastCol
<1>6. MoveCursor(u, u.row, u.col + 1) \in Beside
  BY <1>4, <1>5, MoveCursorType
<1>7. PutRegular(s, ch) = MoveCursor(u, u.row, u.col + 1)
  BY <1>1, <1>3 DEF PutRegular
<1> QED BY <1>6, <1>7

LEMMA PutNewLineType ==
    ASSUME NEW s \in Inside
    PROVE  PutNewLine(s) \in Inside
<1>1. s \in Near /\ s.row + 1 \in 0 .. TERMINAL_HEIGHT
  BY InsideIsNear, SizeFacts DEF Inside, Rows, LastRow
<1>2. CASE s.row < LastRow
  <2>1. s.row + 1 \in Rows
    BY <1>1, <1>2, SizeFacts DEF Inside, Rows, LastRow
  <2> QED BY <1>1, <1>2, <2>1, MoveCursorType, SizeFacts DEF PutNewLine
<1>3. CASE ~(s.row < LastRow)
  <2>1. MoveCursor(s, s.row + 1, 0) \in Near
    BY <1>1, MoveCursorType, SizeFacts
  <2> QED BY <1>3, <2>1, AutoDownType DEF PutNewLine
<1> QED BY <1>2, <1>3

LEMMA PutBackSpaceType ==
    ASSUME NEW s \in Inside
    PROVE  PutBackSpace(s) \in Inside
<1> DEFINE t == IF s.col > 0 THEN MoveCursor(s, s.row, s.col - 1)
                             ELSE MoveCursor(s, s.row - 1, LastCol)
<1>1. CASE s.col = 0 /\ s.row = 0
  BY <1>1 DEF PutBackSpace
<1>2. CASE ~(s.col = 0 /\ s.row = 0)
  <2>1. /\ s \in Near /\ s.row \in 0 .. TERMINAL_HEIGHT
        /\ s.col > 0 => s.col - 1 \in 0 .. TERMINAL_WIDTH
        /\ ~(s.col > 0) => s.row - 1 \in 0 .. TERMINAL_HEIGHT
        /\ LastCol \in 0 .. TERMINAL_WIDTH
    BY <1>2, InsideIsNear, SizeFacts DEF Inside, Rows, Cols, LastRow, LastCol
  <2>2. t \in Near
    BY <2>1, MoveCursorType
  <2>3. t.col \in 0 .. TERMINAL_WIDTH + 1
    BY <2>2, SizeFacts DEF Near
  <2>4. FramebufferWrite(t, t.row, t.col, Blank) \in Inside
    BY <2>2, <2>3, FramebufferWriteType, SizeFacts
  <2> QED BY <1>2, <2>4 DEF PutBackSpace
<1> QED BY <1>1, <1>2

LEMMA BlankNextType ==
    ASSUME NEW s \in Beside
    PROVE  BlankNext(s) \in Inside
<1>1. s \in Near /\ s.col + 1 \in 0 .. TERMINAL_WIDTH + 1
  BY InsideIsNear, SizeFacts DEF Beside
<1> QED BY <1>1, FramebufferWriteType, SizeFacts DEF BlankNext

LEMMA PutCharType ==
    ASSUME NEW s \in Inside, NEW ch \in Characters
    PROVE  PutChar(s, ch) \in Inside
<1> DEFINE t == CASE ch = NewLine   -> PutNewLine(s)
                  [] ch = Tab       -> PutTab(s)
                  [] ch = BackSpace -> PutBackSpace(s)
                  [] OTHER          -> PutRegular(s, ch)
<1>1. s \in Beside
  BY InsideIsNear
<1>2. PutTab(s) \in Beside
  BY <1>1, PutRegularType, SizeFacts DEF PutTab
<1>3. ch \in Printable \/ ch \in Controls
  BY DEF Characters
<1>4. t \in Beside
  <2>1. CASE ch \in Controls
    BY <1>2, <2>1, PutNewLineType, PutBackSpaceType, InsideIsNear
    DEF Controls, NewLine, Tab, BackSpace
  <2>2. CASE ch \notin Controls
    <3>1. t = PutRegular(s, ch)
      BY <2>2 DEF Controls
    <3> QED BY <1>1, <1>3, <2>2, <3>1, PutRegularType
  <2> QED BY <2>1, <2>2
<1>5. PutChar(s, ch) = BlankNext(t)
  BY DEF PutChar
<1> HIDE DEF t
<1> QED BY <1>4, <1>5, BlankNextType

-----------------------------------------------------------------------------
LEMMA ScreenTypeIsInside == ScreenTypeOK <=> screen \in Inside
BY DEF ScreenTypeOK, Inside, Cells

LEMMA EmptyScreenType == EmptyScreen \in Inside
BY SizeFacts DEF EmptyScreen, Inside, Cells

LEMMA ArrowsKeepType ==
    ASSUME ScreenTypeOK, CursorUp \/ CursorDown \/ CursorRight \/ CursorLeft
    PROVE  ScreenTypeOK'
<1>1. screen \in Inside /\ screen \in Near
  BY ScreenTypeIsInside, InsideIsNear
<1>2. PICK r \in Rows, c \in Cols : screen' = MoveCursor(screen, r, c)
  <2>1. screen.row \in Rows /\ screen.col \in Cols
    BY <1>1 DEF Inside
  <2>2. CASE CursorUp
    <3>1. screen.row - 1 \in Rows
      BY <2>1, <2>2, SizeFacts DEF CursorUp, Rows, LastRow
    <3> QED BY <2>1, <2>2, <3>1 DEF CursorUp
  <2>3. CASE CursorDown
    <3>1. screen.row + 1 \in Rows
      BY <2>1, <2>3, SizeFacts DEF CursorDown, Rows, LastRow
    <3> QED BY <2>1, <2>3, <3>1 DEF CursorDown
  <2>4. CASE CursorRight
    <3>1. CASE screen.col = LastCol
      <4>1. screen.row + 1 \in Rows
        BY <2>1, <2>4, <3>1, SizeFacts DEF CursorRight, Rows, LastRow
      <4> QED BY <2>4, <3>1, <4>1, SizeFacts DEF CursorRight
    <3>2. CASE screen.col # LastCol
      <4>1. screen.col + 1 \in Cols
        BY <2>1, <3>2, SizeFacts DEF Cols, LastCol
      <4> QED BY <2>1, <2>4, <3>2, <4>1 DEF CursorRight
    <3> QED BY <3>1, <3>2
  <2>5. CASE CursorLeft
    <3>1. CASE screen.col = 0
      <4>1. screen.row - 1 \in Rows
        BY <2>1, <2>5, <3>1, SizeFacts DEF CursorLeft, Rows, LastRow
      <4> QED BY <2>5, <3>1, <4>1, SizeFacts DEF CursorLeft
    <3>2. CASE screen.col # 0
      <4>1. screen.col - 1 \in Cols
        BY <2>1, <3>2, SizeFacts DEF Cols, LastCol
      <4> QED BY <2>1, <2>5, <3>2, <4>1 DEF CursorLeft
    <3> QED BY <3>1, <3>2
  <2> QED BY <2>2, <2>3, <2>4, <2>5
<1>3. r \in 0 .. TERMINAL_HEIGHT /\ c \in 0 .. TERMINAL_WIDTH
  BY SizeFacts
<1>4. screen' \in Inside
  BY <1>1, <1>2, <1>3, MoveCursorType
<1> QED BY <1>4, ScreenTypeIsInside DEF ScreenTypeOK, Inside, Cells

LEMMA ClockKeepsType ==
    ASSUME ScreenTypeOK, NEW ch \in Printable, DrawClock(ch)
    PROVE  ScreenTypeOK'
<1> DEFINE drawn == [r \in Rows |-> [c \in Cols |->
                        IF << r, c >> \in ClockCells THEN ch ELSE screen.cell[r][c]]]
<1>1. screen.cell \in [Rows -> [Cols -> Printable]]
  BY DEF ScreenTypeOK
<1>2. drawn \in [Rows -> [Cols -> Printable]]
  BY <1>1
<1>3. screen' = [screen EXCEPT !.cell = drawn]
  BY DEF DrawClock
<1> HIDE DEF drawn
<1> QED BY <1>2, <1>3 DEF ScreenTypeOK

-----------------------------------------------------------------------------
(* A step of the keyboard or of the shells touches the screen through the  *)
(* procedures above only.                                                  *)
LEMMA KeyKeepsType ==
    ASSUME ScreenTypeOK, KeyboardTypeOK, NEW code \in Scancodes, KeyboardIsr(code)
    PROVE  ScreenTypeOK' /\ KeyboardTypeOK'
<1>1. CASE Ignored(code) \/ ArrowStays(code)
  BY <1>1 DEF Ignored, ArrowStays, keyboardVars, ScreenTypeOK, KeyboardTypeOK
<1>2. CASE ToggleCapslock(code)
  BY <1>2 DEF ToggleCapslock, ScreenTypeOK, KeyboardTypeOK
<1>3. CASE MoveByArrow(code)
  <2>1. KeyboardTypeOK'
    BY <1>3 DEF MoveByArrow, keyboardVars, KeyboardTypeOK
  <2> QED BY <1>3, <2>1, ArrowsKeepType DEF MoveByArrow, ArrowMoves
<1>4. CASE BufferCharacter(code)
  <2>1. keyboard_buffer' \in Characters \cup {NoChar}
    BY <1>4, MapAssumption DEF BufferCharacter
  <2>2. shift_on' \in BOOLEAN
    BY <1>4, Zenon DEF BufferCharacter
  <2>3. UNCHANGED << keyboard_input_on, capslock_on, command, screen >>
    BY <1>4 DEF BufferCharacter
  <2> QED BY <2>1, <2>2, <2>3 DEF KeyboardTypeOK, ScreenTypeOK
<1> QED BY <1>1, <1>2, <1>3, <1>4 DEF KeyboardIsr

LEMMA BufferKeepsType ==
    ASSUME KeyboardTypeOK, GetKeyboardBuffer
    PROVE  KeyboardTypeOK'
<1> DEFINE Typed == Characters \ {NewLine, BackSpace}
<1>1. command \in Seq(Typed) /\ keyboard_buffer \in Characters \cup {NoChar}
  BY DEF KeyboardTypeOK
<1>2. keyboard_buffer \notin {BackSpace, NoChar, NewLine} => keyboard_buffer \in Typed
  BY <1>1
<1> HIDE DEF Typed
<1>3. DeleteCommand \in Seq(Typed)
  BY <1>1 DEF DeleteCommand
<1>4. keyboard_buffer \in Typed => AddCommand(keyboard_buffer) \in Seq(Typed)
  BY <1>1 DEF AddCommand
<1>5. command' \in Seq(Typed)
  BY <1>1, <1>2, <1>3, <1>4 DEF GetKeyboardBuffer
<1>6. keyboard_buffer' = NoChar /\ UNCHANGED << keyboard_input_on, capslock_on, shift_on >>
  BY DEF GetKeyboardBuffer
<1> QED BY <1>5, <1>6 DEF KeyboardTypeOK, Typed

ShellsType ==
    /\ pc \in [Shells -> {"start", "print", "poll", "echo", "clear", "run"}]
    /\ calls \in [Shells -> Seq(Seq(Characters))]
    /\ \A s \in Shells : pc[s] = "print" => calls[s] # << >>
    /\ buf \in [Shells -> Characters \cup {NoChar}]
    /\ idx \in [Shells -> Nat]
    /\ \A s \in Shells : pc[s] = "echo" => buf[s] \in Characters

PrintingType == printing \in Seq(Characters) /\ disturbed \in BOOLEAN

KeysType == keys \in 0 .. MaxKeys

TerminalInv == ScreenTypeOK /\ KeyboardTypeOK /\ ShellsType /\ PrintingType /\ KeysType

LEMMA TerminalInvIsType == TerminalInv <=> TerminalTypeOK
BY DEF TerminalInv, TerminalTypeOK, ShellsType, PrintingType, KeysType

LEMMA ShellStepKeepsType ==
    ASSUME TerminalInv, NEW s \in Shells, ShellStep(s)
    PROVE  TerminalInv'
<1> USE DEF TerminalInv
<1>0. KeysType'
  BY DEF ShellStep, KeysType
<1>1. CASE Start(s)
  <2>1. KeyboardTypeOK' /\ ScreenTypeOK' /\ PrintingType'
    BY <1>1 DEF Start, KeyboardStateActivate, KeyboardTypeOK, ScreenTypeOK, PrintingType
  <2>2. ShellsType'
    BY <1>1, TextAssumption DEF Start, Goto, ShellsType
  <2> QED BY <1>0, <2>1, <2>2
<1>2. CASE Puts(s)
  <2>1. calls[s] \in Seq(Seq(Characters)) /\ calls[s] # << >>
    BY <1>2 DEF Puts, ShellsType
  <2>2. /\ Head(calls[s]) \in Seq(Characters) /\ Tail(calls[s]) \in Seq(Seq(Characters))
        /\ Len(calls[s]) # 1 => Tail(calls[s]) # << >>
    <3>1. /\ Head(calls[s]) \in Seq(Characters)
          /\ Tail(calls[s]) \in Seq(Seq(Characters))
          /\ Len(Tail(calls[s])) = Len(calls[s]) - 1
      BY <2>1, HeadTailProperties
    <3>2. Len(calls[s]) \in Nat
      BY <2>1, EmptySeq
    <3>3. ASSUME Tail(calls[s]) = << >> PROVE Len(calls[s]) = 1
      <4>1. Len(Tail(calls[s])) = 0
        BY <3>3, EmptySeq
      <4> QED BY <3>1, <3>2, <4>1
    <3> QED BY <3>1, <3>3
  <2>3. KeyboardTypeOK' /\ ScreenTypeOK' /\ UNCHANGED buf
    BY <1>2 DEF Puts, keyboardVars, KeyboardTypeOK, ScreenTypeOK
  <2>4. PrintingType'
    BY <1>2, <2>2 DEF Puts, PrintingType
  <2>5. ShellsType'
    BY <1>2, <2>2, <2>3 DEF Puts, Goto, ShellsType
  <2> QED BY <1>0, <2>3, <2>4, <2>5
<1>3. CASE Poll(s)
  <2>1. KeyboardTypeOK'
    BY <1>3, BufferKeepsType DEF Poll
  <2>2. keyboard_buffer \in Characters \cup {NoChar} /\ Len(command') \in Nat
    BY <2>1 DEF KeyboardTypeOK
  <2>3. Echoes(s) => keyboard_buffer \in Characters
    BY <2>2 DEF Echoes, Characters, Controls
  <2>4. ScreenTypeOK' /\ PrintingType' /\ UNCHANGED calls
    BY <1>3 DEF Poll, ScreenTypeOK, PrintingType
  <2>5. ShellsType'
    BY <1>3, <2>2, <2>3, <2>4 DEF Poll, Goto, ShellsType
  <2> QED BY <1>0, <2>1, <2>4, <2>5
<1>4. CASE Echo(s)
  <2>1. << buf[s] >> \in Seq(Characters)
    BY <1>4 DEF Echo, ShellsType
  <2>2. KeyboardTypeOK' /\ ScreenTypeOK' /\ PrintingType'
    BY <1>4, <2>1 DEF Echo, keyboardVars, KeyboardTypeOK, ScreenTypeOK, PrintingType
  <2>3. ShellsType'
    BY <1>4 DEF Echo, Goto, ShellsType
  <2> QED BY <1>0, <2>2, <2>3
<1>5. CASE Clear(s)
  <2>1. KeyboardTypeOK' /\ ScreenTypeOK' /\ PrintingType'
    BY <1>5 DEF Clear, ClearCommand, KeyboardTypeOK, ScreenTypeOK, PrintingType
  <2>2. ShellsType'
    BY <1>5 DEF Clear, Goto, ShellsType
  <2> QED BY <1>0, <2>1, <2>2
<1>6. CASE Run(s)
  <2>1. PICK out \in Seq(Seq(Characters)) :
          calls' = [calls EXCEPT ![s] = << << NewLine >> >> \o out \o Prompt]
    BY <1>6, TextAssumption DEF Run
  <2>2. << << NewLine >> >> \in Seq(Seq(Characters))
    BY DEF Characters, Controls
  <2>3. << << NewLine >> >> \o out \o Prompt \in Seq(Seq(Characters)) \ {<< >>}
    BY <2>2, TextAssumption
  <2>4. KeyboardTypeOK' /\ ScreenTypeOK' /\ PrintingType'
    BY <1>6 DEF Run, keyboardVars, KeyboardTypeOK, ScreenTypeOK, PrintingType
  <2>5. ShellsType'
    BY <1>6, <2>1, <2>3 DEF Run, Goto, ShellsType
  <2> QED BY <1>0, <2>4, <2>5
<1>7. CASE RunClear(s)
  <2>1. ScreenTypeOK'
    BY <1>7, EmptyScreenType DEF RunClear, FramebufferClear, ScreenTypeOK, Inside, Cells
  <2>2. KeyboardTypeOK' /\ PrintingType'
    BY <1>7 DEF RunClear, keyboardVars, KeyboardTypeOK, PrintingType
  <2>3. ShellsType'
    BY <1>7, TextAssumption DEF RunClear, Goto, ShellsType
  <2> QED BY <1>0, <2>1, <2>2, <2>3
<1> QED BY <1>1, <1>2, <1>3, <1>4, <1>5, <1>6, <1>7 DEF ShellStep

LEMMA TerminalInvStep == TerminalInv /\ [TerminalNext]_terminalVars => TerminalInv'
<1> SUFFICES ASSUME TerminalInv, [TerminalNext]_terminalVars PROVE TerminalInv'
  OBVIOUS
<1> USE DEF TerminalInv
<1>1. ASSUME NEW s \in Shells, ShellStep(s) PROVE TerminalInv'
  BY <1>1, ShellStepKeepsType
<1>2. CASE PrintNext
  <2>1. Head(printing) \in Characters /\ Tail(printing) \in Seq(Characters)
    BY <1>2 DEF PrintNext, Continue, PrintingType
  <2>2. screen' \in Inside
    BY <1>2, <2>1, PutCharType, ScreenTypeIsInside DEF PrintNext, PrintChar
  <2>3. ScreenTypeOK'
    BY <2>2 DEF ScreenTypeOK, Inside, Cells
  <2>4. disturbed' \in BOOLEAN
    BY <1>2, Zenon DEF PrintNext
  <2>5. PrintingType'
    BY <1>2, <2>1, <2>4 DEF PrintNext, Continue, PrintingType
  <2>6. KeyboardTypeOK' /\ ShellsType' /\ KeysType'
    BY <1>2 DEF PrintNext, keyboardVars, shellVars, KeyboardTypeOK, ShellsType, KeysType
  <2> QED BY <2>3, <2>5, <2>6
<1>3. ASSUME NEW code \in Scancodes, Key(code) PROVE TerminalInv'
  <2>1. ScreenTypeOK' /\ KeyboardTypeOK'
    BY <1>3, KeyKeepsType DEF Key
  <2>2. disturbed' \in BOOLEAN
    BY <1>3, Zenon DEF Key
  <2>3. PrintingType'
    BY <1>3, <2>2 DEF Key, PrintingType
  <2>4. ShellsType' /\ KeysType'
    BY <1>3, MaxKeysAssumption DEF Key, shellVars, ShellsType, KeysType
  <2> QED BY <2>1, <2>3, <2>4
<1>4. CASE Clock
  <2>1. ScreenTypeOK'
    BY <1>4, ClockKeepsType, TextAssumption DEF Clock
  <2>2. KeyboardTypeOK' /\ ShellsType' /\ PrintingType' /\ KeysType'
    BY <1>4 DEF Clock, keyboardVars, shellVars, KeyboardTypeOK, ShellsType, PrintingType,
                KeysType
  <2> QED BY <2>1, <2>2
<1>5. CASE UNCHANGED terminalVars
  BY <1>5 DEF terminalVars, keyboardVars, shellVars, ScreenTypeOK, KeyboardTypeOK, ShellsType,
              PrintingType, KeysType
<1> QED BY <1>1, <1>2, <1>3, <1>4, <1>5 DEF TerminalNext

LEMMA InitTerminalInv == TerminalInit => TerminalInv
<1> SUFFICES ASSUME TerminalInit PROVE TerminalInv
  OBVIOUS
<1>1. ScreenTypeOK
  BY EmptyScreenType DEF TerminalInit, ScreenInit, ScreenTypeOK, Inside, Cells
<1>2. KeyboardTypeOK
  BY EmptySeq DEF TerminalInit, KeyboardInit, KeyboardTypeOK
<1>3. ShellsType /\ PrintingType /\ KeysType
  BY MaxKeysAssumption DEF TerminalInit, ShellsType, PrintingType, KeysType
<1> QED BY <1>1, <1>2, <1>3 DEF TerminalInv

(* However long the lines are, however often they wrap and scroll and      *)
(* wherever the arrow keys take the cursor, putchar writes cells of the    *)
(* screen, and no shell acts on a key it did not get.                      *)
THEOREM TerminalTypeCorrect == TerminalSpec => []TerminalTypeOK
BY InitTerminalInv, TerminalInvStep, TerminalInvIsType, PTL DEF TerminalSpec

-----------------------------------------------------------------------------
(* Which lines a procedure alters: the one it writes to, and all of them   *)
(* by moving up, once or, behind the last column, twice.                   *)
LEMMA WriteKeepsLines ==
    ASSUME NEW s \in Near, NEW r \in Rows, NEW c \in Cols, NEW ch \in Printable,
           NEW q \in Rows, q # r
    PROVE  WriteExactLoc(s, r, c, ch).cell[q] = s.cell[q]
<1>1. WriteExactLoc(s, r, c, ch).cell = [s.cell EXCEPT ![r][c] = ch]
  BY DEF WriteExactLoc, Near
<1> QED BY <1>1 DEF Near, Cells

LEMMA MoveLinesUpMoves ==
    ASSUME NEW s \in Near, NEW q \in Rows, q < LastRow
    PROVE  MoveLinesUp(s).cell[q] = s.cell[q + 1]
<1>1. MoveLinesUp(s).cell = [r \in Rows |-> s.cell[IF r < LastRow THEN r + 1 ELSE r]]
  BY DEF MoveLinesUp, Near
<1> QED BY <1>1

LEMMA ScrollMoves ==
    ASSUME NEW s \in Near, NEW q \in Rows, q < LastRow
    PROVE  Scroll(s).cell[q] = s.cell[q + 1]
<1> DEFINE t == MoveLinesUp(s)
           u == BlankLastLine(t)
<1>1. t \in Near /\ t.cell[q] = s.cell[q + 1]
  BY MoveLinesUpType, MoveLinesUpMoves
<1> HIDE DEF t
<1>2. u.cell = [t.cell EXCEPT ![LastRow] = [c \in Cols |-> Blank]]
  BY <1>1 DEF BlankLastLine, Near
<1>3. q # LastRow
  BY SizeFacts DEF Rows, LastRow
<1>4. u.cell[q] = t.cell[q]
  BY <1>1, <1>2, <1>3 DEF Near, Cells
<1>5. u \in Near
  <2>1. [t.cell EXCEPT ![LastRow] = [c \in Cols |-> Blank]] \in Cells
    BY <1>1, SizeFacts DEF Near, Cells
  <2> QED BY <1>1, <2>1 DEF BlankLastLine, Near
<1> HIDE DEF u
<1>6. MoveCursor(u, LastRow, 0).cell = u.cell
  BY <1>5, MoveCursorType, SizeFacts
<1>7. Scroll(s) = MoveCursor(u, LastRow, 0)
  BY DEF Scroll, t, u
<1> QED BY <1>1, <1>4, <1>6, <1>7

Behind(s) == s.col >= TERMINAL_WIDTH /\ s.row >= LastRow

LEMMA AutoDownMoves ==
    ASSUME NEW s \in Near, NEW q \in Rows
    PROVE  /\ ~Behind(s) /\ q < LastRow => FramebufferAutoDown(s).cell[q] = s.cell[q + 1]
           /\ Behind(s) /\ q < LastRow - 1 => FramebufferAutoDown(s).cell[q] = s.cell[q + 2]
<1>1. CASE ~Behind(s)
  <2>1. FramebufferAutoDown(s) = Scroll(s)
    BY <1>1, Zenon DEF Behind, FramebufferAutoDown
  <2> QED BY <1>1, <2>1, ScrollMoves
<1>2. CASE Behind(s) /\ q < LastRow - 1
  <2> DEFINE t == MoveLinesUp(s)
             u == WriteExactLoc(t, LastRow, 0, Blank)
  <2>1. q + 1 \in Rows /\ q < LastRow /\ q + 1 < LastRow /\ q + 1 # LastRow
    BY <1>2, SizeFacts DEF Rows, LastRow
  <2>2. t \in Near /\ t.cell[q + 1] = s.cell[(q + 1) + 1]
    BY <2>1, MoveLinesUpType, MoveLinesUpMoves
  <2> HIDE DEF t
  <2>3. u \in Near /\ u.cell[q + 1] = t.cell[q + 1]
    BY <2>1, <2>2, WriteExactLocType, WriteKeepsLines, SizeFacts
  <2> HIDE DEF u
  <2>4. FramebufferAutoDown(s) = Scroll(u)
    BY <1>2 DEF Behind, FramebufferAutoDown, t, u
  <2>5. Scroll(u).cell[q] = u.cell[q + 1]
    BY <2>1, <2>3, ScrollMoves
  <2>6. (q + 1) + 1 = q + 2
    BY DEF Rows
  <2> QED BY <1>2, <2>2, <2>3, <2>4, <2>5, <2>6
<1> QED BY <1>1, <1>2

LEMMA WrapKeepsLines ==
    ASSUME NEW s \in Near, s.row \in Rows, ~Behind(s)
    PROVE  /\ WrapCursor(s).cell = s.cell
           /\ s.col < TERMINAL_WIDTH => WrapCursor(s) = s
<1>1. CASE s.col < TERMINAL_WIDTH
  BY <1>1 DEF WrapCursor
<1>2. CASE ~(s.col < TERMINAL_WIDTH)
  <2>1. s.row < LastRow
    BY <1>2, SizeFacts DEF Behind, Near
  <2>2. s.row + 1 \in 0 .. TERMINAL_HEIGHT
    BY <2>1, SizeFacts DEF Rows, LastRow
  <2>3. WrapCursor(s) = MoveCursor(s, s.row + 1, 0)
    BY <1>2, <2>1 DEF WrapCursor
  <2>4. 0 \in 0 .. TERMINAL_WIDTH
    BY SizeFacts
  <2>5. MoveCursor(s, s.row + 1, 0).cell = s.cell
    BY <2>2, <2>4, MoveCursorType
  <2> QED BY <1>2, <2>3, <2>5
<1> QED BY <1>1, <1>2

(* A write in the line of the cursor or, past its end, in the next one. *)
LEMMA FramebufferWriteKeeps ==
    ASSUME NEW s \in Near, s.row \in Rows, NEW col \in 0 .. TERMINAL_WIDTH + 1,
           NEW ch \in Printable, NEW q \in Rows
    PROVE  LET r == IF col >= TERMINAL_WIDTH THEN s.row + 1 ELSE s.row
               t == FramebufferWrite(s, s.row, col, ch)
           IN  /\ r < TERMINAL_HEIGHT /\ ~Behind(s) /\ q < r => t.cell[q] = s.cell[q]
               /\ r < TERMINAL_HEIGHT /\ s.col < TERMINAL_WIDTH =>
                      t.row = s.row /\ t.col = s.col
               /\ r >= TERMINAL_HEIGHT /\ ~Behind(s) /\ q < LastRow =>
                      t.cell[q] = s.cell[q + 1]
               /\ r >= TERMINAL_HEIGHT /\ Behind(s) /\ q < LastRow - 1 =>
                      t.cell[q] = s.cell[q + 2]
<1> DEFINE r == IF col >= TERMINAL_WIDTH THEN s.row + 1 ELSE s.row
           c == IF col >= TERMINAL_WIDTH THEN 0 ELSE col
           t == FramebufferWrite(s, s.row, col, ch)
<1>1. c \in Cols
  BY SizeFacts DEF Cols, LastCol
<1>2. CASE r < TERMINAL_HEIGHT
  <2> DEFINE u == WriteExactLoc(s, r, c, ch)
  <2>1. r \in Rows /\ ~(r >= TERMINAL_HEIGHT)
    BY <1>2, SizeFacts DEF Rows, LastRow
  <2>2. /\ u \in Near /\ u.row = s.row /\ u.col = s.col
        /\ q # r => u.cell[q] = s.cell[q]
    BY <1>1, <2>1, WriteExactLocType, WriteKeepsLines
  <2>3. t = WrapCursor(u)
    BY <2>1 DEF FramebufferWrite
  <2> HIDE DEF u
  <2>4. ~Behind(s) => t.cell = u.cell
    BY <2>2, <2>3, WrapKeepsLines DEF Behind
  <2>5. s.col < TERMINAL_WIDTH => t = u
    BY <2>2, <2>3 DEF WrapCursor
  <2>6. q < r => q # r
    BY <2>1, SizeFacts DEF Rows, LastRow
  <2> HIDE DEF t, r, c
  <2>7. ~(r >= TERMINAL_HEIGHT)
    BY <2>1
  <2>8. ~Behind(s) /\ q < r => t.cell[q] = s.cell[q]
    BY <2>2, <2>4, <2>6
  <2>9. s.col < TERMINAL_WIDTH => t.row = s.row /\ t.col = s.col
    BY <2>2, <2>5
  <2> QED BY <2>7, <2>8, <2>9 DEF r, t
<1>3. CASE r >= TERMINAL_HEIGHT
  <2> DEFINE a == FramebufferAutoDown(s)
             u == WriteExactLoc(a, LastRow, c, ch)
  <2>1. a \in Inside /\ a \in Near
    BY AutoDownType, InsideIsNear
  <2>2. /\ ~Behind(s) /\ q < LastRow => a.cell[q] = s.cell[q + 1]
        /\ Behind(s) /\ q < LastRow - 1 => a.cell[q] = s.cell[q + 2]
    BY AutoDownMoves
  <2> HIDE DEF a
  <2> HIDE DEF r, c
  <2>8. LastRow \in Rows
    BY SizeFacts DEF Rows, LastRow
  <2>9. u \in Near /\ u.row = a.row /\ u.col = a.col
    BY <1>1, <2>1, <2>8, WriteExactLocType
  <2>10. q # LastRow => u.cell[q] = a.cell[q]
    BY <1>1, <2>1, <2>8, WriteKeepsLines
  <2>3. /\ u \in Near /\ u.row = a.row /\ u.col = a.col
        /\ q # LastRow => u.cell[q] = a.cell[q]
    BY <2>9, <2>10
  <2>4. t = WrapCursor(u)
    BY <1>3 DEF FramebufferWrite, a, u, r, c
  <2> HIDE DEF u
  <2>5. a.col < TERMINAL_WIDTH
    BY <2>1, SizeFacts DEF Inside, Cols, LastCol
  <2>6. t = u
    BY <2>3, <2>4, <2>5 DEF WrapCursor
  <2>7. /\ q < LastRow => q # LastRow
        /\ q < LastRow - 1 => q # LastRow
        /\ ~(r < TERMINAL_HEIGHT)
    BY <1>3, SizeFacts DEF Rows, LastRow, r
  <2> HIDE DEF t, r, c
  <2> QED BY <2>2, <2>3, <2>6, <2>7 DEF r, t
<1>4. r < TERMINAL_HEIGHT \/ r >= TERMINAL_HEIGHT
  BY SizeFacts DEF Rows, LastRow
<1> QED BY <1>2, <1>3, <1>4

-----------------------------------------------------------------------------
(* The lines of s up to the given last one are those of t, k lines higher. *)
Moves(s, t, k, last) == \A r \in k .. last : t.cell[r - k] = s.cell[r]

(* The write that ends putchar scrolls when the cursor stands at the last  *)
(* column of the last row, and twice when it stands behind it.             *)
LEMMA BlankNextKeeps ==
    ASSUME NEW s \in Beside
    PROVE  /\ s.row < LastRow \/ s.col < LastCol => Moves(s, BlankNext(s), 0, s.row - 1)
           /\ s.row = LastRow /\ s.col = LastCol => Moves(s, BlankNext(s), 1, LastRow)
           /\ s.row = LastRow /\ s.col = TERMINAL_WIDTH => Moves(s, BlankNext(s), 2, LastRow)
<1> DEFINE t == FramebufferWrite(s, s.row, s.col + 1, Blank)
<1>1. /\ s \in Near /\ s.row \in Rows /\ s.col + 1 \in 0 .. TERMINAL_WIDTH + 1
      /\ s.col \in 0 .. TERMINAL_WIDTH
  BY InsideIsNear, SizeFacts DEF Beside
<1>2. BlankNext(s) = t
  BY DEF BlankNext
<1> HIDE DEF t
<1>3. CASE s.row < LastRow \/ s.col < LastCol
  <2>1. ASSUME NEW q \in 0 .. s.row - 1 PROVE t.cell[q] = s.cell[q]
    <3>1. q \in Rows /\ ~Behind(s)
      BY <1>1, <1>3, SizeFacts DEF Rows, LastRow, LastCol, Behind
    <3>2. LET r == IF s.col + 1 >= TERMINAL_WIDTH THEN s.row + 1 ELSE s.row
          IN  r < TERMINAL_HEIGHT /\ q < r
      BY <1>1, <1>3, SizeFacts DEF Rows, LastRow, LastCol
    <3> QED BY <1>1, <3>1, <3>2, FramebufferWriteKeeps, SizeFacts DEF t
  <2>2. ASSUME NEW q \in 0 .. s.row - 1 PROVE q - 0 = q
    OBVIOUS
  <2>3. ~(s.row = LastRow /\ s.col = LastCol) /\ ~(s.row = LastRow /\ s.col = TERMINAL_WIDTH)
    BY <1>1, <1>3, SizeFacts DEF Rows, LastRow, LastCol
  <2> QED BY <1>2, <2>1, <2>2, <2>3 DEF Moves
<1>4. CASE s.row = LastRow /\ s.col = LastCol
  <2>1. ASSUME NEW r \in 1 .. LastRow PROVE t.cell[r - 1] = s.cell[r]
    <3>1. r - 1 \in Rows /\ r - 1 < LastRow /\ (r - 1) + 1 = r /\ ~Behind(s)
      BY <1>4, SizeFacts DEF Rows, LastRow, LastCol, Behind
    <3>2. s.col + 1 >= TERMINAL_WIDTH /\ s.row + 1 >= TERMINAL_HEIGHT
      BY <1>4, SizeFacts DEF LastRow, LastCol
    <3>3. t.cell[r - 1] = s.cell[(r - 1) + 1]
      BY <1>1, <3>1, <3>2, FramebufferWriteKeeps, SizeFacts DEF t
    <3> QED BY <3>1, <3>3
  <2>2. ~(s.row < LastRow) /\ ~(s.col < LastCol) /\ s.col # TERMINAL_WIDTH
    BY <1>4, SizeFacts DEF LastRow, LastCol
  <2> QED BY <1>2, <2>1, <2>2 DEF Moves
<1>5. CASE s.row = LastRow /\ s.col = TERMINAL_WIDTH
  <2>1. ASSUME NEW r \in 2 .. LastRow PROVE t.cell[r - 2] = s.cell[r]
    <3>1. r - 2 \in Rows /\ r - 2 < LastRow - 1 /\ (r - 2) + 2 = r /\ Behind(s)
      BY <1>5, SizeFacts DEF Rows, LastRow, LastCol, Behind
    <3>2. s.col + 1 >= TERMINAL_WIDTH /\ s.row + 1 >= TERMINAL_HEIGHT
      BY <1>5, SizeFacts DEF LastRow, LastCol
    <3>3. t.cell[r - 2] = s.cell[(r - 2) + 2]
      BY <1>1, <3>1, <3>2, FramebufferWriteKeeps, SizeFacts DEF t
    <3> QED BY <3>1, <3>3
  <2>2. ~(s.row < LastRow) /\ ~(s.col < LastCol) /\ s.col # LastCol
    BY <1>5, SizeFacts DEF LastRow, LastCol
  <2> QED BY <1>2, <2>1, <2>2 DEF Moves
<1>6. \/ s.row < LastRow \/ s.col < LastCol
      \/ s.row = LastRow /\ s.col = LastCol
      \/ s.row = LastRow /\ s.col = TERMINAL_WIDTH
  BY <1>1, SizeFacts DEF Rows, LastRow, LastCol
<1> QED BY <1>3, <1>4, <1>5, <1>6

(* A write under the cursor alters its line only and leaves it there. *)
LEMMA WriteHere ==
    ASSUME NEW s \in Inside, NEW ch \in Printable
    PROVE  LET t == FramebufferWrite(s, s.row, s.col, ch)
           IN  /\ t \in Inside /\ t.row = s.row /\ t.col = s.col
               /\ Moves(s, t, 0, s.row - 1)
<1> DEFINE t == FramebufferWrite(s, s.row, s.col, ch)
<1>1. /\ s \in Near /\ s.row \in Rows /\ s.col \in 0 .. TERMINAL_WIDTH + 1
      /\ s.col < TERMINAL_WIDTH /\ ~(s.col >= TERMINAL_WIDTH)
      /\ s.row < TERMINAL_HEIGHT /\ ~Behind(s)
  BY InsideIsNear, SizeFacts DEF Inside, Rows, Cols, LastRow, LastCol, Behind
<1>2. t \in Inside
  BY <1>1, FramebufferWriteType
<1>3. t.row = s.row /\ t.col = s.col
  BY <1>1, FramebufferWriteKeeps, SizeFacts
<1>4. ASSUME NEW q \in 0 .. s.row - 1 PROVE t.cell[q - 0] = s.cell[q]
  <2>1. q \in Rows /\ q < s.row /\ q - 0 = q
    BY <1>1, SizeFacts DEF Rows, LastRow
  <2>2. t.cell[q] = s.cell[q]
    BY <1>1, <2>1, FramebufferWriteKeeps
  <2> QED BY <2>1, <2>2
<1> HIDE DEF t
<1>5. Moves(s, t, 0, s.row - 1)
  BY <1>4 DEF Moves
<1> QED BY <1>2, <1>3, <1>5 DEF t

LEMMA RegularKeeps ==
    ASSUME NEW s \in Inside, NEW ch \in Printable
    PROVE  LET v == PutRegular(s, ch)
           IN  /\ v \in Beside /\ v.row = s.row /\ v.col = s.col + 1
               /\ Moves(s, v, 0, s.row - 1)
<1>1. NextLineIfBehind(s) = s
  BY SizeFacts DEF NextLineIfBehind, Inside, Cols, LastCol
<1>2. PICK u \in Inside :
         /\ u = FramebufferWrite(s, s.row, s.col, ch)
         /\ u.row = s.row /\ u.col = s.col /\ Moves(s, u, 0, s.row - 1)
  BY WriteHere
<1>3. PutRegular(s, ch) = MoveCursor(u, u.row, u.col + 1)
  BY <1>1, <1>2 DEF PutRegular
<1>4. u \in Near /\ u.row \in 0 .. TERMINAL_HEIGHT /\ u.col + 1 \in 0 .. TERMINAL_WIDTH
  BY InsideIsNear, SizeFacts DEF Inside, Rows, Cols, LastRow, LastCol
<1>5. PICK v : v = MoveCursor(u, u.row, u.col + 1)
  OBVIOUS
<1>6. v.cell = u.cell /\ v.row = u.row /\ v.col = u.col + 1
  BY <1>4, <1>5, MoveCursorType
<1>7. v \in Beside
  BY <1>4, <1>5, MoveCursorType DEF Inside
<1>8. Moves(s, v, 0, s.row - 1)
  BY <1>2, <1>6 DEF Moves
<1> QED BY <1>2, <1>3, <1>5, <1>6, <1>7, <1>8

LEMMA NewLineKeeps ==
    ASSUME NEW s \in Inside
    PROVE  LET v == PutNewLine(s)
           IN  /\ v \in Inside /\ v.col = 0
               /\ s.row < LastRow => v.row = s.row + 1 /\ v.cell = s.cell
               /\ s.row = LastRow => v.row = LastRow /\ Moves(s, v, 1, LastRow)
<1> DEFINE v == PutNewLine(s)
           t == MoveCursor(s, s.row + 1, 0)
<1>1. s \in Near /\ s.row + 1 \in 0 .. TERMINAL_HEIGHT /\ 0 \in 0 .. TERMINAL_WIDTH
  BY InsideIsNear, SizeFacts DEF Inside, Rows, LastRow
<1>2. t \in Near /\ t.cell = s.cell /\ t.row = s.row + 1 /\ t.col = 0
  BY <1>1, MoveCursorType
<1>3. v \in Inside
  BY PutNewLineType
<1>4. CASE s.row < LastRow
  <2>1. v = t
    BY <1>4 DEF PutNewLine
  <2>2. s.row # LastRow
    BY <1>4, SizeFacts DEF Inside, Rows, LastRow
  <2> HIDE DEF t, v
  <2>3. v.col = 0 /\ v.row = s.row + 1 /\ v.cell = s.cell
    BY <1>2, <2>1
  <2> QED BY <1>3, <2>2, <2>3 DEF v
<1>5. CASE s.row = LastRow
  <2>1. ~(s.row < LastRow) /\ ~(t.col >= TERMINAL_WIDTH) /\ ~Behind(t)
    BY <1>2, <1>5, SizeFacts DEF Inside, Rows, LastRow, Behind
  <2>2. v = FramebufferAutoDown(t)
    BY <2>1 DEF PutNewLine
  <2>3. v = Scroll(t)
    BY <2>1, <2>2 DEF FramebufferAutoDown
  <2> HIDE DEF t
  <2>4. MoveLinesUp(t) \in Near
    BY <1>2, MoveLinesUpType
  <2>5. BlankLastLine(MoveLinesUp(t)) \in Near
    <3> DEFINE m == MoveLinesUp(t)
    <3>1. m \in Near
      BY <2>4
    <3> HIDE DEF m
    <3>2. [m.cell EXCEPT ![LastRow] = [c \in Cols |-> Blank]] \in Cells
      BY <3>1, SizeFacts DEF Near, Cells
    <3>3. BlankLastLine(m) \in Near
      BY <3>1, <3>2 DEF BlankLastLine, Near
    <3> QED BY <3>3 DEF m
  <2>6. LastRow \in 0 .. TERMINAL_HEIGHT
    BY SizeFacts DEF LastRow
  <2>7. v.row = LastRow /\ v.col = 0
    BY <1>1, <2>3, <2>5, <2>6, MoveCursorType DEF Scroll
  <2>8. ASSUME NEW r \in 1 .. LastRow PROVE v.cell[r - 1] = s.cell[r]
    <3>1. r - 1 \in Rows /\ r - 1 < LastRow /\ (r - 1) + 1 = r
      BY SizeFacts DEF Rows, LastRow
    <3>2. v.cell[r - 1] = t.cell[(r - 1) + 1]
      BY <1>2, <2>1, <2>2, <3>1, AutoDownMoves
    <3> QED BY <1>2, <3>1, <3>2
  <2> HIDE DEF v
  <2>9. Moves(s, v, 1, LastRow)
    BY <2>8 DEF Moves
  <2>10. ~(s.row < LastRow)
    BY <2>1
  <2> QED BY <1>3, <2>7, <2>9, <2>10 DEF v
<1>6. s.row < LastRow \/ s.row = LastRow
  BY SizeFacts DEF Inside, Rows, LastRow
<1> QED BY <1>4, <1>5, <1>6

(* The line that a backspace alters, and the cursor it leaves there. *)
LEMMA BackSpaceKeeps ==
    ASSUME NEW s \in Inside
    PROVE  LET v == PutBackSpace(s)
           IN  /\ v \in Inside
               /\ v.row < LastRow \/ v.col < LastCol
               /\ v.row = s.row \/ v.row = s.row - 1
               /\ Moves(s, v, 0, v.row - 1)
<1> DEFINE v == PutBackSpace(s)
<1>1. /\ s \in Near /\ s.row \in Rows /\ s.row \in 0 .. TERMINAL_HEIGHT /\ s.col \in Cols
      /\ s.col > 0 => s.col - 1 \in 0 .. TERMINAL_WIDTH /\ s.col - 1 \in Cols
                   /\ s.col - 1 < LastCol
      /\ ~(s.col > 0) => s.col = 0
      /\ LastCol \in 0 .. TERMINAL_WIDTH /\ LastCol \in Cols /\ 0 < LastCol
  BY InsideIsNear, SizeFacts DEF Inside, Rows, Cols, LastRow, LastCol
<1>2. CASE s.col = 0 /\ s.row = 0
  <2>1. v = s
    BY <1>2 DEF PutBackSpace
  <2> HIDE DEF v
  <2>2. Moves(s, v, 0, v.row - 1)
    BY <1>2, <2>1 DEF Moves
  <2> QED BY <1>1, <1>2, <2>1, <2>2 DEF v
<1>3. CASE s.col > 0
  <2>1. PICK t : t = MoveCursor(s, s.row, s.col - 1)
    OBVIOUS
  <2>2. t \in Inside /\ t.cell = s.cell /\ t.row = s.row /\ t.col = s.col - 1
    BY <1>1, <1>3, <2>1, MoveCursorType
  <2>3. v = FramebufferWrite(t, t.row, t.col, Blank)
    BY <1>1, <1>3, <2>1, SizeFacts DEF PutBackSpace, Cols
  <2> HIDE DEF v
  <2>4. v \in Inside /\ v.row = t.row /\ v.col = t.col /\ Moves(t, v, 0, t.row - 1)
    BY <2>2, <2>3, WriteHere, SizeFacts
  <2>5. Moves(s, v, 0, v.row - 1)
    BY <2>2, <2>4 DEF Moves
  <2> QED BY <1>1, <1>3, <2>2, <2>4, <2>5 DEF v
<1>4. CASE ~(s.col > 0) /\ s.row # 0
  <2>1. PICK t : t = MoveCursor(s, s.row - 1, LastCol)
    OBVIOUS
  <2>2. s.row - 1 \in Rows /\ s.row - 1 \in 0 .. TERMINAL_HEIGHT /\ s.row - 1 < LastRow
    BY <1>1, <1>4, SizeFacts DEF Rows, LastRow
  <2>3. t \in Inside /\ t.cell = s.cell /\ t.row = s.row - 1 /\ t.col = LastCol
    BY <1>1, <2>1, <2>2, MoveCursorType
  <2>4. v = FramebufferWrite(t, t.row, t.col, Blank)
    BY <1>1, <1>4, <2>1 DEF PutBackSpace
  <2> HIDE DEF v
  <2>5. v \in Inside /\ v.row = t.row /\ v.col = t.col /\ Moves(t, v, 0, t.row - 1)
    BY <2>3, <2>4, WriteHere, SizeFacts
  <2>6. Moves(s, v, 0, v.row - 1)
    BY <2>3, <2>5 DEF Moves
  <2> QED BY <2>2, <2>3, <2>5, <2>6 DEF v
<1> QED BY <1>1, <1>2, <1>3, <1>4

LEMMA PutCharKeeps ==
    ASSUME NEW s \in Inside, NEW ch \in Characters, ch # Tab
    PROVE  \E k \in 0 .. (IF s.col = LastCol THEN 2 ELSE 1) :
           \A r \in k .. s.row - (IF ch = NewLine THEN 0 ELSE 1) :
               \/ ch = BackSpace /\ r = s.row - 1
               \/ PutChar(s, ch).cell[r - k] = s.cell[r]
<1> DEFINE t == PutChar(s, ch)
<1>1. /\ s \in Beside /\ s.row \in Rows /\ s.row \in Nat /\ s.col \in Cols
      /\ LastRow \in Nat /\ s.row \in 0 .. LastRow
  BY InsideIsNear, SizeFacts DEF Inside, Rows, LastRow
<1>2. CASE ch = NewLine
  <2>1. PICK v \in Inside :
           /\ v = PutNewLine(s) /\ v.col = 0
           /\ s.row < LastRow => v.row = s.row + 1 /\ v.cell = s.cell
           /\ s.row = LastRow => v.row = LastRow /\ Moves(s, v, 1, LastRow)
    BY NewLineKeeps, PutNewLineType
  <2>2. t = BlankNext(v)
    BY <1>2, <2>1 DEF PutChar, NewLine, Tab, BackSpace
  <2>3. v \in Beside /\ v.col < LastCol
    BY <2>1, InsideIsNear, SizeFacts DEF LastCol
  <2>4. Moves(v, t, 0, v.row - 1)
    BY <2>2, <2>3, BlankNextKeeps
  <2> HIDE DEF t
  <2>5. CASE s.row < LastRow
    <3>1. \A r \in 0 .. s.row : t.cell[r - 0] = s.cell[r]
      BY <1>1, <2>1, <2>4, <2>5 DEF Moves
    <3>2. \A r \in 0 .. s.row - 0 : t.cell[r - 0] = s.cell[r]
      BY <1>1, <3>1
    <3> QED BY <1>2, <3>2 DEF t
  <2>6. CASE s.row = LastRow
    <3>1. ASSUME NEW r \in 1 .. LastRow PROVE t.cell[r - 1] = s.cell[r]
      <4>1. v.cell[r - 1] = s.cell[r]
        BY <2>1, <2>6, <3>1 DEF Moves
      <4>2. r - 1 \in 0 .. v.row - 1 /\ (r - 1) - 0 = r - 1
        BY <1>1, <2>1, <2>6, <3>1
      <4>3. t.cell[(r - 1) - 0] = v.cell[r - 1]
        BY <2>4, <4>2 DEF Moves
      <4> QED BY <4>1, <4>2, <4>3
    <3>2. \A r \in 1 .. s.row - 0 : t.cell[r - 1] = s.cell[r]
      BY <1>1, <2>6, <3>1
    <3>3. 1 \in 0 .. (IF s.col = LastCol THEN 2 ELSE 1)
      OBVIOUS
    <3> QED BY <1>2, <3>2, <3>3 DEF t
  <2> QED BY <1>1, <2>5, <2>6 DEF t
<1>3. CASE ch = BackSpace
  <2>1. PICK v \in Inside :
           /\ v = PutBackSpace(s)
           /\ v.row < LastRow \/ v.col < LastCol
           /\ v.row = s.row \/ v.row = s.row - 1
           /\ Moves(s, v, 0, v.row - 1)
    BY BackSpaceKeeps
  <2>2. t = BlankNext(v)
    BY <1>3, <2>1 DEF PutChar, NewLine, Tab, BackSpace
  <2>3. v \in Beside
    BY <2>1, InsideIsNear
  <2>4. Moves(v, t, 0, v.row - 1)
    BY <2>1, <2>2, <2>3, BlankNextKeeps
  <2> HIDE DEF t
  <2>5. ASSUME NEW r \in 0 .. s.row - 1, r # s.row - 1 PROVE t.cell[r - 0] = s.cell[r]
    <3>1. r \in 0 .. v.row - 1 /\ r - 0 = r
      BY <1>1, <2>1, <2>5
    <3>2. t.cell[r - 0] = v.cell[r] /\ v.cell[r - 0] = s.cell[r]
      BY <2>1, <2>4, <3>1 DEF Moves
    <3> QED BY <3>1, <3>2
  <2>6. ch # NewLine
    BY <1>3 DEF NewLine, BackSpace
  <2> QED BY <1>3, <2>5, <2>6 DEF t
<1>4. CASE ch \notin Controls
  <2>1. ch \in Printable /\ ch # NewLine /\ ch # BackSpace
    BY <1>4 DEF Characters, Controls
  <2>2. PICK v \in Beside :
           /\ v = PutRegular(s, ch) /\ v.row = s.row /\ v.col = s.col + 1
           /\ Moves(s, v, 0, s.row - 1)
    BY <2>1, RegularKeeps
  <2>3. t = BlankNext(v)
    BY <1>4, <2>2 DEF PutChar, Controls
  <2> HIDE DEF t
  <2>4. ASSUME NEW k \in 0 .. 2, NEW last \in Int, Moves(v, t, k, last), s.row - 1 =< last
        PROVE  \A r \in k .. s.row - 1 : t.cell[r - k] = s.cell[r]
    <3>1. ASSUME NEW r \in k .. s.row - 1 PROVE t.cell[r - k] = s.cell[r]
      <4>1. r \in k .. last /\ r \in 0 .. s.row - 1 /\ r - 0 = r
        BY <1>1, <2>4, <3>1
      <4>2. t.cell[r - k] = v.cell[r] /\ v.cell[r - 0] = s.cell[r]
        BY <2>2, <2>4, <4>1 DEF Moves
      <4> QED BY <4>1, <4>2
    <3> QED BY <3>1
  <2>5. s.col = LastCol => v.col = TERMINAL_WIDTH
    BY <2>2, SizeFacts DEF LastCol
  <2>6. CASE v.row < LastRow \/ v.col < LastCol
    <3>1. Moves(v, t, 0, v.row - 1)
      BY <2>3, <2>6, BlankNextKeeps
    <3>2. \A r \in 0 .. s.row - 1 : t.cell[r - 0] = s.cell[r]
      BY <1>1, <2>2, <2>4, <3>1
    <3> QED BY <2>1, <3>2 DEF t
  <2>7. CASE v.row = LastRow /\ v.col = LastCol
    <3>1. Moves(v, t, 1, LastRow)
      BY <2>3, <2>7, BlankNextKeeps
    <3>2. \A r \in 1 .. s.row - 1 : t.cell[r - 1] = s.cell[r]
      BY <1>1, <2>4, <3>1
    <3>3. 1 \in 0 .. (IF s.col = LastCol THEN 2 ELSE 1)
      OBVIOUS
    <3> QED BY <2>1, <3>2, <3>3 DEF t
  <2>8. CASE v.row = LastRow /\ s.col = LastCol
    <3>1. Moves(v, t, 2, LastRow)
      BY <2>3, <2>5, <2>8, BlankNextKeeps
    <3>2. \A r \in 2 .. s.row - 1 : t.cell[r - 2] = s.cell[r]
      BY <1>1, <2>4, <3>1
    <3> QED BY <2>1, <2>8, <3>2 DEF t
  <2>9. \/ v.row < LastRow \/ v.col < LastCol
        \/ v.row = LastRow /\ v.col = LastCol
        \/ v.row = LastRow /\ s.col = LastCol
    BY <1>1, <2>2, SizeFacts DEF Rows, Cols, LastRow, LastCol
  <2> QED BY <2>6, <2>7, <2>8, <2>9
<1> QED BY <1>2, <1>3, <1>4 DEF Controls

(* What is printed never alters the lines above it, but moves them up      *)
(* together, on a screen of any size and for any sequence of characters,   *)
(* wherever the arrow keys have left the cursor.                           *)
THEOREM PrintingKeepsLines == TerminalSpec => LinesAboveAreKept
<1>1. ASSUME TerminalInv, [TerminalNext]_terminalVars, PrintNext, Head(printing) # Tab
      PROVE  \E k \in 0 .. (IF screen.col = LastCol THEN 2 ELSE 1) :
             \A r \in k .. screen.row - (IF Head(printing) = NewLine THEN 0 ELSE 1) :
                 \/ Head(printing) = BackSpace /\ r = screen.row - 1
                 \/ screen'.cell[r - k] = screen.cell[r]
  <2>1. screen \in Inside
    BY <1>1, ScreenTypeIsInside DEF TerminalInv
  <2>2. Head(printing) \in Characters
    BY <1>1 DEF TerminalInv, PrintingType, PrintNext, Continue
  <2>3. screen' = PutChar(screen, Head(printing))
    BY <1>1 DEF PrintNext, PrintChar
  <2> QED BY <1>1, <2>1, <2>2, <2>3, PutCharKeeps
<1> QED BY <1>1, InitTerminalInv, TerminalInvStep, PTL DEF TerminalSpec, LinesAboveAreKept

-----------------------------------------------------------------------------
(* The cells of the screen in the order in which text fills them. *)
Place(r, c) == TERMINAL_WIDTH * r + c

LEMMA PlaceIsUnique ==
    ASSUME NEW r1 \in Nat, NEW r2 \in Nat, NEW c1 \in Cols, NEW c2 \in Cols,
           Place(r1, c1) = Place(r2, c2)
    PROVE  r1 = r2 /\ c1 = c2
<1> DEFINE W == TERMINAL_WIDTH
<1>1. W \in Nat /\ c1 \in 0 .. W - 1 /\ c2 \in 0 .. W - 1 /\ W * r1 + c1 = W * r2 + c2
  BY SizeFacts DEF Cols, LastCol, Place
<1> HIDE DEF W
<1>2. ASSUME NEW a \in Nat, NEW b \in Nat, a < b PROVE W * b >= W * a + W
  <2>1. PICK d \in Nat : b = a + 1 + d
    <3>1. b - a - 1 \in Nat /\ b = a + 1 + (b - a - 1)
      BY <1>2
    <3> QED BY <3>1
  <2>2. W * b = W * a + W + W * d /\ W * d \in Nat /\ W * a \in Nat
    BY <1>1, <2>1
  <2> QED BY <1>1, <2>2
<1>3. W * r1 \in Nat /\ W * r2 \in Nat
  BY <1>1
<1>4. ~(r1 < r2)
  BY <1>1, <1>2, <1>3
<1>5. ~(r2 < r1)
  BY <1>1, <1>2, <1>3
<1> QED BY <1>1, <1>4, <1>5

LEMMA PlaceOf ==
    ASSUME NEW k \in Nat, NEW r \in Rows, NEW c \in Cols, k <= Place(r, c)
    PROVE  /\ k \div TERMINAL_WIDTH \in Rows /\ k % TERMINAL_WIDTH \in Cols
           /\ Place(k \div TERMINAL_WIDTH, k % TERMINAL_WIDTH) = k
<1> DEFINE W == TERMINAL_WIDTH
           q == k \div W
           m == k % W
<1>1. W \in Nat /\ W > 1 /\ r \in Nat /\ c \in 0 .. W - 1
  BY SizeFacts DEF Rows, Cols, LastCol
<1>2. k <= W * r + c
  BY DEF Place
<1> HIDE DEF W
<1>3. q \in Int /\ m \in 0 .. W - 1 /\ k = W * q + m
  BY <1>1
<1> HIDE DEF q, m
<1>4. q >= 0
  BY <1>1, <1>3
<1>5. ~(q > r)
  <2> SUFFICES ASSUME q > r PROVE FALSE
    OBVIOUS
  <2>1. PICK d \in Nat : q = r + 1 + d
    <3>1. q - r - 1 \in Nat /\ q = r + 1 + (q - r - 1)
      BY <1>1, <1>3
    <3> QED BY <3>1
  <2>2. W * q = W * r + W + W * d /\ W * d \in Nat /\ W * r \in Nat
    BY <1>1, <2>1
  <2> QED BY <1>1, <1>2, <1>3, <2>2
<1>6. q \in Rows /\ m \in Cols
  BY <1>1, <1>3, <1>4, <1>5, SizeFacts DEF Rows, Cols, LastRow, LastCol, W
<1> QED BY <1>3, <1>6 DEF Place, q, m, W

At(s) == Place(s.row, s.col)
WithCell(cells, r, c, ch) == [cells EXCEPT ![r][c] = ch]

(* A write that does not scroll changes one cell, and leaves the cursor at *)
(* its place even when it wraps to the next line.                          *)
LEMMA WriteChangesOneCell ==
    ASSUME NEW s \in Near, s.row \in Rows, NEW col \in 0 .. TERMINAL_WIDTH + 1,
           NEW ch \in Printable, NEW r \in Rows, NEW c \in Cols,
           r = (IF col >= TERMINAL_WIDTH THEN s.row + 1 ELSE s.row),
           c = (IF col >= TERMINAL_WIDTH THEN 0 ELSE col),
           s.col < TERMINAL_WIDTH \/ s.row < LastRow
    PROVE  LET t == FramebufferWrite(s, s.row, col, ch)
           IN  /\ t \in Inside /\ At(t) = At(s)
               /\ t.cell = WithCell(s.cell, r, c, ch)
<1> DEFINE t == FramebufferWrite(s, s.row, col, ch)
<1>1. PICK u \in Near : u = WriteExactLoc(s, r, c, ch)
  BY WriteExactLocType
<1>2. u.row = s.row /\ u.col = s.col /\ u.cell = WithCell(s.cell, r, c, ch)
  BY <1>1, WriteExactLocType DEF WriteExactLoc, WithCell, Near
<1>3. t \in Inside
  BY FramebufferWriteType
<1>4. r < TERMINAL_HEIGHT /\ ~(r >= TERMINAL_HEIGHT)
  BY SizeFacts DEF Rows, LastRow
<1>5. t = WrapCursor(u)
  BY <1>1, <1>4 DEF FramebufferWrite
<1> HIDE DEF t
<1>6. CASE s.col < TERMINAL_WIDTH
  <2>1. t = u
    BY <1>2, <1>5, <1>6 DEF WrapCursor
  <2> QED BY <1>2, <1>3, <2>1 DEF t, At
<1>7. CASE ~(s.col < TERMINAL_WIDTH)
  <2>1. s.col = TERMINAL_WIDTH /\ s.row < LastRow /\ s.row \in Nat
    BY <1>7, SizeFacts DEF Near, Rows
  <2>2. t = MoveCursor(u, u.row + 1, 0)
    BY <1>2, <1>5, <1>7, <2>1 DEF WrapCursor
  <2>3. u.row + 1 \in 0 .. TERMINAL_HEIGHT /\ 0 \in 0 .. TERMINAL_WIDTH
    BY <1>2, <2>1, SizeFacts DEF LastRow
  <2>4. t.cell = u.cell /\ t.row = s.row + 1 /\ t.col = 0
    BY <1>2, <2>2, <2>3, MoveCursorType
  <2>5. TERMINAL_WIDTH * (s.row + 1) = TERMINAL_WIDTH * s.row + TERMINAL_WIDTH
    BY <2>1, SizeFacts
  <2>6. At(t) = At(s)
    BY <2>1, <2>4, <2>5, SizeFacts DEF At, Place
  <2> QED BY <1>2, <1>3, <2>4, <2>6 DEF t
<1> QED BY <1>6, <1>7

LEMMA PlaceOrder ==
    ASSUME NEW r \in Rows, NEW c \in Cols
    PROVE  /\ Place(r, c) \in Nat
           /\ Place(r + 1, 0) = Place(r, LastCol) + 1
           /\ Place(r, c + 1) = Place(r, c) + 1
           /\ Place(r, c - 1) = Place(r, c) - 1
           /\ Place(r - 1, LastCol) = Place(r, 0) - 1
           /\ Place(r, c + 2) = Place(r, c) + 2
<1>1. TERMINAL_WIDTH \in Nat /\ r \in Nat /\ c \in Nat
  BY SizeFacts DEF Rows, Cols
<1>2. /\ TERMINAL_WIDTH * (r + 1) = TERMINAL_WIDTH * r + TERMINAL_WIDTH
      /\ TERMINAL_WIDTH * (r - 1) = TERMINAL_WIDTH * r - TERMINAL_WIDTH
      /\ TERMINAL_WIDTH * r \in Nat
  BY <1>1
<1> QED BY <1>1, <1>2 DEF Place, LastCol

(* The cells before place k are as they were. *)
SameBefore(s, t, k) ==
    \A r \in Rows : \A c \in Cols : Place(r, c) < k => t.cell[r][c] = s.cell[r][c]

LEMMA OneCellBehind ==
    ASSUME NEW s \in Near, NEW t \in Near, NEW r \in Rows, NEW c \in Cols,
           NEW ch \in Printable,
           NEW k \in Nat, Place(r, c) >= k, t.cell = WithCell(s.cell, r, c, ch)
    PROVE  SameBefore(s, t, k) /\ t.cell[r][c] = ch
<1>1. s.cell \in [Rows -> [Cols -> Printable]]
  BY DEF Near, Cells
<1>2. t.cell[r][c] = ch
  BY <1>1 DEF WithCell
<1>3. ASSUME NEW r1 \in Rows, NEW c1 \in Cols, Place(r1, c1) < k
      PROVE  t.cell[r1][c1] = s.cell[r1][c1]
  <2>1. Place(r1, c1) \in Nat /\ Place(r, c) \in Nat
    BY PlaceOrder
  <2>2. r1 # r \/ c1 # c
    BY <1>3, <2>1
  <2> QED BY <1>1, <2>2 DEF WithCell
<1> QED BY <1>2, <1>3 DEF SameBefore

(* BlankNext, where it does not scroll, blanks a cell at or behind the     *)
(* cursor.                                                                 *)
LEMMA BlankNextIsBehind ==
    ASSUME NEW s \in Beside, s.row < LastRow \/ s.col < LastCol
    PROVE  LET t == BlankNext(s)
           IN  t \in Inside /\ At(t) = At(s) /\ SameBefore(s, t, At(s))
<1>1. /\ s \in Near /\ s.row \in Rows /\ s.col + 1 \in 0 .. TERMINAL_WIDTH + 1
      /\ s.col \in 0 .. TERMINAL_WIDTH
      /\ s.col < TERMINAL_WIDTH \/ s.row < LastRow
  BY InsideIsNear, SizeFacts DEF Beside, LastCol
<1>2. PICK t : t = FramebufferWrite(s, s.row, s.col + 1, Blank)
  OBVIOUS
<1>3. t = BlankNext(s)
  BY <1>2 DEF BlankNext
<1>4. CASE s.col + 1 >= TERMINAL_WIDTH
  <2>1. s.row + 1 \in Rows /\ 0 \in Cols
    BY <1>1, <1>4, SizeFacts DEF Rows, LastRow, LastCol
  <2>2. t \in Inside /\ At(t) = At(s) /\ t.cell = WithCell(s.cell, s.row + 1, 0, Blank)
    <3>1. PICK c : c = s.col + 1
      OBVIOUS
    <3>2. PICK r : r = s.row + 1
      OBVIOUS
    <3>3. /\ c \in 0 .. TERMINAL_WIDTH + 1 /\ c >= TERMINAL_WIDTH
          /\ r \in Rows /\ 0 \in Cols
          /\ r = (IF c >= TERMINAL_WIDTH THEN s.row + 1 ELSE s.row)
          /\ 0 = (IF c >= TERMINAL_WIDTH THEN 0 ELSE c)
      BY <1>1, <1>4, <2>1, <3>1, <3>2
    <3>4. t = FramebufferWrite(s, s.row, c, Blank)
      BY <1>2, <3>1
    <3>5. Blank \in Printable
      BY SizeFacts
    <3> QED BY <1>1, <3>2, <3>3, <3>4, <3>5, WriteChangesOneCell
  <2>3. At(s) \in Nat /\ Place(s.row + 1, 0) >= At(s)
    <3>1. TERMINAL_WIDTH * (s.row + 1) = TERMINAL_WIDTH * s.row + TERMINAL_WIDTH
          /\ TERMINAL_WIDTH * s.row \in Nat
      BY <1>1, SizeFacts DEF Rows
    <3> QED BY <1>1, <3>1, SizeFacts DEF At, Place
  <2>4. SameBefore(s, t, At(s))
    <3>1. PICK r \in Rows : r = s.row + 1
      BY <2>1
    <3>2. t \in Near /\ Blank \in Printable
      BY <2>2, InsideIsNear, SizeFacts
    <3>3. Place(r, 0) >= At(s) /\ t.cell = WithCell(s.cell, r, 0, Blank)
      BY <2>2, <2>3, <3>1
    <3> QED BY <1>1, <2>1, <2>3, <3>2, <3>3, OneCellBehind, Zenon
  <2> QED BY <1>3, <2>2, <2>4
<1>5. CASE ~(s.col + 1 >= TERMINAL_WIDTH)
  <2>1. s.col + 1 \in Cols /\ s.col \in Cols
    BY <1>1, <1>5, SizeFacts DEF Cols, LastCol
  <2>2. t \in Inside /\ At(t) = At(s) /\ t.cell = WithCell(s.cell, s.row, s.col + 1, Blank)
    <3>1. PICK c : c = s.col + 1
      OBVIOUS
    <3>2. /\ c \in Cols /\ c \in 0 .. TERMINAL_WIDTH + 1 /\ ~(c >= TERMINAL_WIDTH)
          /\ s.row = (IF c >= TERMINAL_WIDTH THEN s.row + 1 ELSE s.row)
          /\ c = (IF c >= TERMINAL_WIDTH THEN 0 ELSE c)
      BY <1>1, <1>5, <2>1, <3>1
    <3>3. t = FramebufferWrite(s, s.row, c, Blank)
      BY <1>2, <3>1
    <3>4. Blank \in Printable
      BY SizeFacts
    <3> QED BY <1>1, <3>1, <3>2, <3>3, <3>4, WriteChangesOneCell
  <2>3. At(s) \in Nat /\ Place(s.row, s.col + 1) >= At(s)
    BY <1>1, <2>1, PlaceOrder DEF At
  <2>4. SameBefore(s, t, At(s))
    <3>1. PICK c \in Cols : c = s.col + 1
      BY <2>1
    <3>2. t \in Near /\ Blank \in Printable
      BY <2>2, InsideIsNear, SizeFacts
    <3>3. Place(s.row, c) >= At(s) /\ t.cell = WithCell(s.cell, s.row, c, Blank)
      BY <2>2, <2>3, <3>1
    <3> QED BY <1>1, <2>3, <3>2, <3>3, OneCellBehind, Zenon
  <2> QED BY <1>3, <2>2, <2>4
<1> QED BY <1>4, <1>5

(* A character is printed under the cursor, which moves to the next place. *)
LEMMA RegularIsPrinted ==
    ASSUME NEW s \in Inside, NEW ch \in Printable, ~(s.row = LastRow /\ s.col >= LastCol - 1)
    PROVE  LET t == PutChar(s, ch)
           IN  /\ t \in Inside /\ At(t) = At(s) + 1
               /\ t.cell[s.row][s.col] = ch /\ SameBefore(s, t, At(s))
<1>1. /\ s \in Near /\ s.row \in Rows /\ s.col \in Cols /\ s.col < TERMINAL_WIDTH
      /\ s.col \in 0 .. TERMINAL_WIDTH + 1 /\ ~(s.col >= TERMINAL_WIDTH)
  BY InsideIsNear, SizeFacts DEF Inside, Cols, LastCol
<1>2. PICK u \in Inside :
         /\ u = FramebufferWrite(s, s.row, s.col, ch) /\ At(u) = At(s)
         /\ u.cell = WithCell(s.cell, s.row, s.col, ch)
  BY <1>1, WriteChangesOneCell
<1>3. u.row = s.row /\ u.col = s.col
  BY <1>1, <1>2, PlaceIsUnique DEF At, Inside, Rows
<1>4. u \in Near /\ u.row \in 0 .. TERMINAL_HEIGHT /\ u.col + 1 \in 0 .. TERMINAL_WIDTH
  <2>1. u \in Near
    BY <1>2, InsideIsNear
  <2>2. u.row \in 0 .. TERMINAL_HEIGHT
    BY <1>1, <1>3, SizeFacts
  <2>3. u.col + 1 \in 0 .. TERMINAL_WIDTH
    BY <1>1, <1>3, SizeFacts DEF Cols, LastCol
  <2> QED BY <2>1, <2>2, <2>3
<1>5. PICK v : v = MoveCursor(u, u.row, u.col + 1)
  OBVIOUS
<1>6. v \in Beside /\ v.cell = u.cell /\ v.row = s.row /\ v.col = s.col + 1
  BY <1>1, <1>3, <1>4, <1>5, MoveCursorType
<1>7. NextLineIfBehind(s) = s
  BY <1>1 DEF NextLineIfBehind
<1>8. v = PutRegular(s, ch)
  BY <1>2, <1>5, <1>7 DEF PutRegular
<1>9. PutChar(s, ch) = BlankNext(v)
  BY <1>8, PrintableAssumption DEF PutChar, Controls
<1>10. v.row < LastRow \/ v.col < LastCol
  BY <1>1, <1>6, SizeFacts DEF Rows, Cols, LastRow, LastCol
<1>11. PICK t : t = BlankNext(v)
  OBVIOUS
<1>12. t \in Inside /\ At(t) = At(v) /\ SameBefore(v, t, At(v))
  BY <1>6, <1>10, <1>11, BlankNextIsBehind
<1>13. At(v) = At(s) + 1 /\ At(s) \in Nat /\ At(s) = Place(s.row, s.col)
  BY <1>1, <1>6, PlaceOrder DEF At
<1>14. SameBefore(s, u, At(s)) /\ u.cell[s.row][s.col] = ch
  <2>1. At(s) \in Nat /\ Place(s.row, s.col) >= At(s)
    BY <1>13
  <2>2. s \in Near /\ u \in Near /\ s.row \in Rows /\ s.col \in Cols
    BY <1>1, <1>4
  <2>3. u.cell = WithCell(s.cell, s.row, s.col, ch)
    BY <1>2
  <2> QED BY <2>1, <2>2, <2>3, OneCellBehind
<1>15. SameBefore(s, t, At(s))
  <2> SUFFICES ASSUME NEW r \in Rows, NEW c \in Cols, Place(r, c) < At(s)
               PROVE  t.cell[r][c] = s.cell[r][c]
    BY DEF SameBefore
  <2>1. Place(r, c) < At(v)
    BY <1>13, PlaceOrder
  <2> QED BY <1>6, <1>12, <1>14, <2>1 DEF SameBefore
<1>16. t.cell[s.row][s.col] = ch
  <2>1. Place(s.row, s.col) < At(v)
    BY <1>13
  <2> QED BY <1>1, <1>6, <1>12, <1>14, <2>1 DEF SameBefore
<1> QED BY <1>9, <1>11, <1>12, <1>13, <1>15, <1>16

(* A backspace goes one place back and alters nothing in front of it. *)
LEMMA BackSpaceIsPrinted ==
    ASSUME NEW s \in Inside, At(s) > 0
    PROVE  LET t == PutChar(s, BackSpace)
           IN  t \in Inside /\ At(t) = At(s) - 1 /\ SameBefore(s, t, At(s) - 1)
<1>1. /\ s \in Near /\ s.row \in Rows /\ s.col \in Cols /\ s.row \in Nat /\ s.col \in Nat
      /\ TERMINAL_WIDTH * 0 + 0 = 0 /\ 0 \in Nat
  BY InsideIsNear, SizeFacts DEF Inside, Rows, Cols
<1>2. ~(s.col = 0 /\ s.row = 0)
  BY SizeFacts DEF At, Place
<1>3. PICK u \in Inside :
         /\ PutBackSpace(s) = FramebufferWrite(u, u.row, u.col, Blank)
         /\ u.cell = s.cell /\ At(u) = At(s) - 1
         /\ u.row < LastRow \/ u.col < LastCol
  <2>1. CASE s.col > 0
    <3>1. /\ s.col - 1 \in Cols /\ s.col - 1 < LastCol /\ s.row \in 0 .. TERMINAL_HEIGHT
          /\ s.col - 1 \in 0 .. TERMINAL_WIDTH
      BY <1>1, <2>1, SizeFacts DEF Rows, Cols, LastRow, LastCol
    <3>2. PICK u : u = MoveCursor(s, s.row, s.col - 1)
      OBVIOUS
    <3>3. u \in Inside /\ u.cell = s.cell /\ u.row = s.row /\ u.col = s.col - 1
      BY <1>1, <3>1, <3>2, MoveCursorType
    <3>4. PutBackSpace(s) = FramebufferWrite(u, u.row, u.col, Blank)
      BY <1>2, <2>1, <3>2 DEF PutBackSpace
    <3>5. At(u) = At(s) - 1
      BY <1>1, <3>3, PlaceOrder DEF At
    <3> QED BY <3>1, <3>3, <3>4, <3>5
  <2>2. CASE ~(s.col > 0)
    <3>1. /\ s.col = 0 /\ s.row - 1 \in Rows /\ s.row - 1 < LastRow
          /\ s.row - 1 \in 0 .. TERMINAL_HEIGHT /\ LastCol \in 0 .. TERMINAL_WIDTH
      BY <1>1, <1>2, <2>2, SizeFacts DEF Rows, Cols, LastRow, LastCol
    <3>2. PICK u : u = MoveCursor(s, s.row - 1, LastCol)
      OBVIOUS
    <3>3. u \in Inside /\ u.cell = s.cell /\ u.row = s.row - 1 /\ u.col = LastCol
      <4>1. s \in Near /\ LastCol \in Cols
        BY <1>1, SizeFacts
      <4> QED BY <3>1, <3>2, <4>1, MoveCursorType
    <3>4. PutBackSpace(s) = FramebufferWrite(u, u.row, u.col, Blank)
      BY <1>2, <2>2, <3>2 DEF PutBackSpace
    <3>5. At(u) = At(s) - 1
      BY <1>1, <3>1, <3>3, PlaceOrder DEF At
    <3> QED BY <3>1, <3>3, <3>4, <3>5
  <2> QED BY <2>1, <2>2
<1>4. /\ u \in Near /\ u.row \in Rows /\ u.col \in Cols /\ u.col < TERMINAL_WIDTH
      /\ u.col \in 0 .. TERMINAL_WIDTH + 1 /\ ~(u.col >= TERMINAL_WIDTH)
  BY InsideIsNear, SizeFacts DEF Inside, Cols, LastCol
<1>5. PICK v \in Inside :
         /\ v = FramebufferWrite(u, u.row, u.col, Blank) /\ At(v) = At(u)
         /\ v.cell = WithCell(u.cell, u.row, u.col, Blank)
  <2>1. PICK r, c : r = u.row /\ c = u.col
    OBVIOUS
  <2>2. /\ r \in Rows /\ c \in Cols /\ c \in 0 .. TERMINAL_WIDTH + 1
        /\ r = (IF c >= TERMINAL_WIDTH THEN u.row + 1 ELSE u.row)
        /\ c = (IF c >= TERMINAL_WIDTH THEN 0 ELSE c)
    BY <1>4, <2>1
  <2>3. Blank \in Printable
    BY SizeFacts
  <2>4. LET v == FramebufferWrite(u, u.row, c, Blank)
        IN  v \in Inside /\ At(v) = At(u) /\ v.cell = WithCell(u.cell, r, c, Blank)
    BY <1>4, <2>2, <2>3, WriteChangesOneCell
  <2> QED BY <2>1, <2>4
<1>6. v.row = u.row /\ v.col = u.col /\ v \in Beside /\ v \in Near
  BY <1>4, <1>5, PlaceIsUnique, InsideIsNear DEF At, Inside, Rows
<1>7. PICK t : t = BlankNext(v)
  OBVIOUS
<1>8. t \in Inside /\ At(t) = At(v) /\ SameBefore(v, t, At(v))
  BY <1>3, <1>6, <1>7, BlankNextIsBehind
<1>9. PutChar(s, BackSpace) = t
  BY <1>3, <1>5, <1>7 DEF PutChar, BackSpace, NewLine, Tab
<1>10. At(u) \in Nat /\ At(u) = Place(u.row, u.col)
  BY <1>4, PlaceOrder DEF At
<1>11. SameBefore(u, v, At(u))
  <2>1. At(u) \in Nat /\ Place(u.row, u.col) >= At(u)
    BY <1>10
  <2> QED BY <1>4, <1>5, <1>6, <2>1, OneCellBehind, SizeFacts
<1>12. SameBefore(s, t, At(u))
  BY <1>3, <1>5, <1>8, <1>11 DEF SameBefore
<1> QED BY <1>3, <1>5, <1>8, <1>9, <1>12

-----------------------------------------------------------------------------
ShownIn(s, text) ==
    LET start == At(s) - Len(text)
    IN  /\ start >= 0
        /\ \A i \in 1 .. Len(text) :
              LET k == start + i - 1
              IN  s.cell[k \div TERMINAL_WIDTH][k % TERMINAL_WIDTH] = text[i]

LEMMA AtIsNat ==
    ASSUME NEW s \in Inside
    PROVE  At(s) \in Nat /\ s.row \in Rows /\ s.col \in Cols
BY PlaceOrder DEF Inside, At

LEMMA ShownInIsShown ==
    ASSUME NEW text \in Seq(Characters), screen \in Inside, ShownIn(screen, text)
    PROVE  ShownBeforeCursor(text)
<1>1. At(screen) = TERMINAL_WIDTH * screen.row + screen.col
  BY DEF At, Place
<1>2. PICK start : start = At(screen) - Len(text)
  OBVIOUS
<1>3. start = TERMINAL_WIDTH * screen.row + screen.col - Len(text)
  <2>1. /\ Len(text) \in Int /\ screen.col \in Int
        /\ TERMINAL_WIDTH \in Int /\ screen.row \in Int
    BY SizeFacts DEF Inside, Rows, Cols
  <2>2. TERMINAL_WIDTH * screen.row \in Int
    BY <2>1
  <2>3. \A a, b, c \in Int : (a + b) - c = a + b - c
    OBVIOUS
  <2> QED BY <1>1, <1>2, <2>1, <2>2, <2>3
<1>4. start >= 0
  BY <1>2 DEF ShownIn
<1>5. ASSUME NEW i \in 1 .. Len(text)
      PROVE  screen.cell[(start + i - 1) \div TERMINAL_WIDTH][(start + i - 1) % TERMINAL_WIDTH]
               = text[i]
  BY <1>2 DEF ShownIn
<1> QED BY <1>3, <1>4, <1>5, Zenon DEF ShownBeforeCursor

(* The ith of l places from n on is in front of place n + l. *)
LEMMA PlaceInFront ==
    ASSUME NEW n \in Nat, NEW l \in Nat, NEW i \in 1 .. l, NEW k, k = n + i - 1,
           NEW a \in Nat, a = n + l, NEW z \in Nat, a <= z
    PROVE  k \in Nat /\ k < a /\ k <= z
OBVIOUS

(* What stands before a place stays when only later cells change. *)
LEMMA ShownStays ==
    ASSUME NEW s \in Inside, NEW t \in Inside, NEW text \in Seq(Characters),
           NEW rest \in Nat, At(t) = At(s) - rest,
           NEW longer \in Seq(Characters), Len(longer) = Len(text) + rest,
           \A i \in 1 .. Len(text) : longer[i] = text[i],
           ShownIn(s, longer), SameBefore(s, t, At(t))
    PROVE  ShownIn(t, text)
<1> DEFINE start == At(s) - Len(longer)
<1>1. At(s) \in Nat /\ At(t) \in Nat /\ Len(text) \in Nat /\ Len(longer) \in Nat
  BY AtIsNat
<1>2. start = At(t) - Len(text) /\ start \in Nat
  BY <1>1 DEF ShownIn
<1>3. ASSUME NEW i \in 1 .. Len(text), NEW k, k = start + i - 1
      PROVE  t.cell[k \div TERMINAL_WIDTH][k % TERMINAL_WIDTH] = text[i]
  <2>1. k \in Nat /\ k < At(t) /\ k <= At(s)
    <3>1. PICK n \in Nat, l \in Nat : n = start /\ l = Len(text)
      BY <1>1, <1>2, Zenon
    <3> HIDE DEF start
    <3>2. At(t) = n + l /\ At(t) <= At(s)
      BY <1>1, <1>2, <3>1
    <3>3. i \in 1 .. l /\ k = n + i - 1
      BY <1>3, <3>1
    <3> QED BY <1>1, <3>2, <3>3, PlaceInFront
  <2>0. i \in 1 .. Len(longer)
    BY <1>1
  <2>2. s.cell[k \div TERMINAL_WIDTH][k % TERMINAL_WIDTH] = longer[i]
    BY <1>3, <2>0 DEF ShownIn
  <2>3. /\ k \div TERMINAL_WIDTH \in Rows /\ k % TERMINAL_WIDTH \in Cols
        /\ Place(k \div TERMINAL_WIDTH, k % TERMINAL_WIDTH) = k
    BY <2>1, PlaceOf, AtIsNat DEF At
  <2>4. t.cell[k \div TERMINAL_WIDTH][k % TERMINAL_WIDTH]
          = s.cell[k \div TERMINAL_WIDTH][k % TERMINAL_WIDTH]
    BY <2>1, <2>3 DEF SameBefore
  <2> QED BY <2>2, <2>4
<1> HIDE DEF start
<1> QED BY <1>2, <1>3 DEF ShownIn

LEMMA PrintedIsShown ==
    ASSUME NEW s \in Inside, NEW ch \in Printable, ~(s.row = LastRow /\ s.col >= LastCol - 1),
           NEW text \in Seq(Characters), ShownIn(s, text)
    PROVE  PutChar(s, ch) \in Inside /\ ShownIn(PutChar(s, ch), Append(text, ch))
<1>1. PICK t : t = PutChar(s, ch)
  OBVIOUS
<1>2. /\ t \in Inside /\ At(t) = At(s) + 1
      /\ t.cell[s.row][s.col] = ch /\ SameBefore(s, t, At(s))
  BY <1>1, RegularIsPrinted
<1> DEFINE start == At(s) - Len(text)
           new == Append(text, ch)
<1>3. /\ At(s) \in Nat /\ Len(text) \in Nat /\ Len(new) = Len(text) + 1
      /\ s.row \in Rows /\ s.col \in Cols
  BY AtIsNat
<1>4. start = At(t) - Len(new) /\ start \in Nat
  BY <1>2, <1>3 DEF ShownIn
<1>5. ASSUME NEW i \in 1 .. Len(new), NEW k, k = start + i - 1
      PROVE  t.cell[k \div TERMINAL_WIDTH][k % TERMINAL_WIDTH] = new[i]
  <2>1. k \in Nat /\ k <= At(s)
    BY <1>2, <1>3, <1>4, <1>5
  <2>2. /\ k \div TERMINAL_WIDTH \in Rows /\ k % TERMINAL_WIDTH \in Cols
        /\ Place(k \div TERMINAL_WIDTH, k % TERMINAL_WIDTH) = k
    BY <1>3, <2>1, PlaceOf DEF At
  <2>3. CASE i = Len(new)
    <3>1. k = At(s) /\ new[i] = ch
      BY <1>3, <1>5, <2>3
    <3>2. k \div TERMINAL_WIDTH = s.row /\ k % TERMINAL_WIDTH = s.col
      BY <1>3, <2>2, <3>1, PlaceIsUnique DEF At, Rows
    <3> QED BY <1>2, <3>1, <3>2
  <2>4. CASE i # Len(new)
    <3>1. i \in 1 .. Len(text) /\ new[i] = text[i] /\ k < At(s)
      BY <1>3, <1>5, <2>4
    <3>2. s.cell[k \div TERMINAL_WIDTH][k % TERMINAL_WIDTH] = text[i]
      BY <1>5, <3>1 DEF ShownIn
    <3>3. t.cell[k \div TERMINAL_WIDTH][k % TERMINAL_WIDTH]
            = s.cell[k \div TERMINAL_WIDTH][k % TERMINAL_WIDTH]
      BY <1>2, <2>2, <3>1 DEF SameBefore
    <3> QED BY <3>1, <3>2, <3>3
  <2> QED BY <2>3, <2>4
<1> HIDE DEF start, new
<1>6. ShownIn(t, new)
  BY <1>4, <1>5 DEF ShownIn
<1> QED BY <1>1, <1>2, <1>6 DEF new

LEMMA ErasedIsShown ==
    ASSUME NEW s \in Inside, NEW x \in Characters,
           NEW text \in Seq(Characters), ShownIn(s, Append(text, x))
    PROVE  PutChar(s, BackSpace) \in Inside /\ ShownIn(PutChar(s, BackSpace), text)
<1>1. PICK t : t = PutChar(s, BackSpace)
  OBVIOUS
<1>2. PICK longer \in Seq(Characters) : longer = Append(text, x)
  <2>1. Append(text, x) \in Seq(Characters)
    OBVIOUS
  <2> QED BY <2>1, Zenon
<1>3. Len(longer) = Len(text) + 1 /\ Len(text) \in Nat /\ At(s) \in Nat
      /\ \A i \in 1 .. Len(text) : longer[i] = text[i]
  BY <1>2, AtIsNat
<1>4. At(s) > 0
  BY <1>2, <1>3 DEF ShownIn
<1>5. t \in Inside /\ At(t) = At(s) - 1 /\ SameBefore(s, t, At(s) - 1)
  BY <1>1, <1>4, BackSpaceIsPrinted
<1>6. ShownIn(t, text)
  <2>1. ShownIn(s, longer)
    BY <1>2
  <2> QED BY <1>3, <1>5, <2>1, ShownStays
<1> QED BY <1>1, <1>5, <1>6

-----------------------------------------------------------------------------
Typed == Characters \ {NewLine, BackSpace}

(* rest is still to be printed behind shown: then the prompt and the       *)
(* command line stand there, from which a backspace erases one character.  *)
Completes(shown, rest, text) ==
    \/ rest \in Seq(Typed) /\ shown \o rest = text
    \/ rest = << BackSpace >> /\ \E x \in Characters : shown = Append(text, x)

(* What the shell that has taken a character will print of it. *)
ToEcho(s) == IF pc[s] = "echo" THEN << buf[s] >> ELSE << >>

Underway(rest) ==
    /\ Pending = {} => rest = printing
    /\ \A s \in Pending : Pending = {s} /\ printing = << >> /\ rest = ToEcho(s)

ShowingInv ==
    ~disturbed =>
        \E shown \in Seq(Characters), rest \in Seq(Characters) :
            /\ ShownIn(screen, shown)
            /\ Completes(shown, rest, PromptEnd \o command)
            /\ Underway(rest)

(* What a shell that prints prints last. *)
PromptIsLast ==
    \A s \in Shells : pc[s] = "print" => calls[s][Len(calls[s])] = PromptEnd

LEMMA FullTyped ==
    ASSUME KeyboardTypeOK
    PROVE  PromptEnd \o command \in Seq(Typed)
<1>1. Printable \subseteq Typed
  BY PrintableAssumption DEF Typed, Characters, Controls
<1>2. PromptEnd \in Seq(Typed) /\ command \in Seq(Typed)
  BY <1>1, TextAssumption DEF KeyboardTypeOK, Typed
<1> QED BY <1>2

(* One more character is added behind a text. *)
LEMMA AppendedLast ==
    ASSUME NEW a \in Seq(Characters), NEW b \in Seq(Characters), NEW ch \in Characters
    PROVE  (a \o b) \o << ch >> = a \o Append(b, ch)
OBVIOUS

LEMMA StepOfText ==
    ASSUME NEW S, NEW shown \in Seq(S), NEW rest \in Seq(S), rest # << >>
    PROVE  /\ Head(rest) \in S /\ Tail(rest) \in Seq(S)
           /\ Append(shown, Head(rest)) \o Tail(rest) = shown \o rest
OBVIOUS

LEMMA PrintingShows ==
    ASSUME TerminalInv, ShowingInv, PrintNext
    PROVE  ShowingInv'
<1> SUFFICES ASSUME ~disturbed' PROVE ShowingInv'
  BY DEF ShowingInv
<1> USE DEF TerminalInv
<1>1. /\ ~disturbed /\ Head(printing) # Tab /\ ~AtCorner(Head(printing))
      /\ printing # << >> /\ printing' = Tail(printing)
      /\ screen' = PutChar(screen, Head(printing))
      /\ UNCHANGED << pc, buf, command >>
  BY DEF PrintNext, Continue, PrintChar, keyboardVars, shellVars
<1>2. PICK shown \in Seq(Characters), rest \in Seq(Characters) :
         /\ ShownIn(screen, shown)
         /\ Completes(shown, rest, PromptEnd \o command)
         /\ Underway(rest)
  BY <1>1 DEF ShowingInv
<1>3. Pending = {} /\ rest = printing /\ Pending' = Pending
  BY <1>1, <1>2 DEF Underway, Pending
<1>4. Underway(Tail(rest))'
  BY <1>1, <1>3 DEF Underway
<1>5. screen \in Inside
  BY ScreenTypeIsInside
<1>6. SUFFICES \E shown1 \in Seq(Characters) :
                  ShownIn(screen', shown1) /\ Completes(shown1, Tail(rest), PromptEnd \o command)
  <2>1. Tail(rest) \in Seq(Characters)
    BY <1>1, <1>3
  <2> QED BY <1>1, <1>4, <2>1 DEF ShowingInv
<1>7. CASE rest = << BackSpace >>
  <2>1. PICK text \in Seq(Characters), x \in Characters :
           shown = Append(text, x) /\ text = PromptEnd \o command
    <3>1. PromptEnd \o command \in Seq(Typed)
      BY FullTyped
    <3>2. PromptEnd \o command \in Seq(Characters)
      BY <3>1 DEF Typed
    <3>3. ~(rest \in Seq(Typed))
      BY <1>7 DEF Typed
    <3> QED BY <1>2, <3>2, <3>3, Zenon DEF Completes
  <2>2. ShownIn(PutChar(screen, BackSpace), text)
    BY <1>2, <1>5, <2>1, ErasedIsShown
  <2>3. Head(rest) = BackSpace /\ Tail(rest) = << >>
    BY <1>7
  <2>4. << >> \in Seq(Typed) /\ text \o << >> = text
    BY <2>1
  <2>5. Completes(text, Tail(rest), PromptEnd \o command)
    BY <2>1, <2>3, <2>4 DEF Completes
  <2> QED BY <1>1, <1>3, <2>1, <2>2, <2>3, <2>5
<1>8. CASE rest # << BackSpace >>
  <2>1. rest \in Seq(Typed) /\ shown \o rest = PromptEnd \o command
    BY <1>2, <1>8 DEF Completes
  <2>2. /\ Head(rest) \in Typed /\ Tail(rest) \in Seq(Typed)
        /\ Append(shown, Head(rest)) \o Tail(rest) = PromptEnd \o command
    <3>1. rest # << >>
      BY <1>1, <1>3
    <3>2. PICK text : text = shown \o rest
      OBVIOUS
    <3>3. Head(rest) \in Typed /\ Tail(rest) \in Seq(Typed)
      BY <2>1, <3>1
    <3>4. rest \in Seq(Characters)
      OBVIOUS
    <3>5. Append(shown, Head(rest)) \o Tail(rest) = text
      BY <3>1, <3>2, <3>4, StepOfText
    <3> QED BY <2>1, <3>2, <3>3, <3>5
  <2>3. Head(rest) \in Printable
    BY <1>1, <1>3, <2>2 DEF Typed, Characters, Controls
  <2>4. ~(screen.row = LastRow /\ screen.col >= LastCol - 1)
    BY <1>1, <1>3, <2>3 DEF AtCorner
  <2>5. ShownIn(screen', Append(shown, Head(rest)))
    BY <1>1, <1>2, <1>3, <1>5, <2>3, <2>4, PrintedIsShown
  <2>6. Append(shown, Head(rest)) \in Seq(Characters)
    BY <2>3 DEF Characters
  <2>7. Completes(Append(shown, Head(rest)), Tail(rest), PromptEnd \o command)
    BY <2>2, Zenon DEF Completes
  <2> QED BY <2>5, <2>6, <2>7
<1> QED BY <1>7, <1>8

(* The steps of the shells that leave the screen alone. *)
LEMMA ShellShows ==
    ASSUME TerminalInv, ShowingInv, PromptIsLast, NEW s \in Shells, ShellStep(s)
    PROVE  ShowingInv'
<1> SUFFICES ASSUME ~disturbed' PROVE ShowingInv'
  BY DEF ShowingInv
<1> USE DEF TerminalInv
<1>0. /\ s \in DOMAIN pc /\ s \in DOMAIN buf /\ printing = << >>
      /\ pc \in [Shells -> {"start", "print", "poll", "echo", "clear", "run"}]
      /\ buf \in [Shells -> Characters \cup {NoChar}]
  BY DEF ShellsType, ShellStep
<1>1. ASSUME UNCHANGED << screen, command, printing, disturbed, buf >>,
             NEW label \in {"start", "print", "poll", "run"},
             pc[s] \notin {"echo", "clear"}, pc' = [pc EXCEPT ![s] = label]
      PROVE  ShowingInv'
  <2>1. Pending' = Pending
    BY <1>0, <1>1 DEF Pending
  <2>2. \A t \in Pending : ToEcho(t)' = ToEcho(t)
    BY <1>0, <1>1 DEF Pending, ToEcho
  <2>3. \A rest : Underway(rest) => Underway(rest)'
    BY <1>1, <2>1, <2>2 DEF Underway
  <2> QED BY <1>1, <2>3 DEF ShowingInv
<1>2. CASE Start(s)
  BY <1>1, <1>2 DEF Start, KeyboardStateActivate, Goto
<1>3. CASE Puts(s)
  <2>1. /\ Len(calls[s]) = 1 /\ command = << >> /\ Pending = {}
        /\ printing' = Head(calls[s]) /\ pc' = [pc EXCEPT ![s] = "poll"]
        /\ UNCHANGED << screen, command, buf >>
    BY <1>3 DEF Puts, Goto, keyboardVars
  <2>2. printing' = PromptEnd
    <3>1. calls[s] \in Seq(Seq(Characters)) /\ calls[s][Len(calls[s])] = PromptEnd
      BY <1>3 DEF Puts, ShellsType, PromptIsLast
    <3> QED BY <2>1, <3>1
  <2>3. Pending' = {}
    BY <1>0, <2>1 DEF Pending
  <2>4. Underway(PromptEnd)'
    BY <2>2, <2>3 DEF Underway
  <2>5. PromptEnd \o command \in Seq(Typed) /\ << >> \o PromptEnd = PromptEnd \o command
        /\ PromptEnd \in Seq(Typed) /\ PromptEnd \in Seq(Characters)
    <3>1. PromptEnd \o command \in Seq(Typed)
      BY FullTyped
    <3>2. PromptEnd \in Seq(Characters)
      BY TextAssumption DEF Characters
    <3>3. << >> \o PromptEnd = PromptEnd /\ PromptEnd \o << >> = PromptEnd
      BY <3>2
    <3> QED BY <2>1, <3>1, <3>2, <3>3
  <2>6. Completes(<< >>, PromptEnd, PromptEnd \o command)
    BY <2>5, Zenon DEF Completes
  <2>7. ShownIn(screen, << >>)
    BY AtIsNat, ScreenTypeIsInside DEF ShownIn
  <2>8. << >> \in Seq(Characters)
    OBVIOUS
  <2> QED BY <2>1, <2>4, <2>5, <2>6, <2>7, <2>8 DEF ShowingInv
<1>4. CASE Poll(s)
  <2>1. /\ pc[s] = "poll" /\ ~disturbed /\ UNCHANGED << screen, printing >>
        /\ buf' = [buf EXCEPT ![s] = keyboard_buffer]
        /\ keyboard_buffer # NoChar => idx[s] = Len(command) /\ Pending = {}
        /\ keyboard_buffer \in Characters \cup {NoChar}
        /\ command \in Seq(Typed)
    BY <1>4 DEF Poll, KeyboardTypeOK, Typed
  <2>2. /\ command' = IF keyboard_buffer = BackSpace THEN DeleteCommand
                      ELSE IF keyboard_buffer \in {NoChar, NewLine} THEN command
                      ELSE AddCommand(keyboard_buffer)
        /\ pc' = [pc EXCEPT ![s] =
                    CASE keyboard_buffer = NewLine -> "clear"
                      [] Echoes(s)                 -> "echo"
                      [] OTHER                     -> "poll"]
    BY <1>4 DEF Poll, GetKeyboardBuffer, Goto
  <2>3. PICK shown \in Seq(Characters), rest \in Seq(Characters) :
           /\ ShownIn(screen, shown)
           /\ Completes(shown, rest, PromptEnd \o command)
           /\ Underway(rest)
    BY <2>1 DEF ShowingInv
  <2>4. /\ NewLine # NoChar /\ BackSpace # NoChar
        /\ BackSpace # NewLine /\ s \notin Pending
    BY <2>1, MapAssumption DEF Characters, Controls, NewLine, BackSpace, Pending
  <2>5. CASE keyboard_buffer = NoChar
    <3>1. command' = command /\ pc' = pc
      BY <1>0, <2>1, <2>2, <2>4, <2>5 DEF Echoes
    <3>2. Pending' = Pending /\ \A t \in Pending : ToEcho(t)' = ToEcho(t)
      BY <1>0, <2>1, <2>4, <3>1 DEF Pending, ToEcho
    <3>3. Underway(rest)'
      BY <2>1, <2>3, <3>2 DEF Underway
    <3> QED BY <2>1, <2>3, <3>1, <3>3 DEF ShowingInv
  <2>6. CASE keyboard_buffer # NoChar
    <3>1. Pending = {} /\ rest = << >> /\ shown = PromptEnd \o command
      <4>1. Pending = {} /\ rest = << >>
        BY <1>0, <2>1, <2>3, <2>6 DEF Underway
      <4>2. rest # << BackSpace >> /\ shown \o << >> = shown
        BY <4>1
      <4> QED BY <2>3, <4>1, <4>2 DEF Completes
    <3>2. PromptEnd \o command \in Seq(Typed)
      BY FullTyped
    <3>3. CASE keyboard_buffer = NewLine
      <4>1. command' = command /\ pc'[s] = "clear" /\ Pending' = {s}
        <5>1. command' = command /\ pc' = [pc EXCEPT ![s] = "clear"]
          BY <2>2, <2>4, <3>3 DEF Echoes
        <5> QED BY <1>0, <3>1, <5>1 DEF Pending
      <4>2. Underway(<< >>)'
        BY <1>0, <2>1, <4>1 DEF Underway, ToEcho
      <4> QED BY <2>1, <2>3, <3>1, <4>1, <4>2 DEF ShowingInv
    <3>4. CASE keyboard_buffer = BackSpace /\ command = << >>
      <4>1. command' = command /\ Len(command') = idx[s]
        BY <2>1, <2>2, <2>6, <3>4 DEF DeleteCommand
      <4>2. pc' = pc
        BY <1>0, <2>1, <2>2, <2>4, <3>4, <4>1 DEF Echoes
      <4>3. Pending' = {}
        BY <3>1, <4>2 DEF Pending
      <4>4. Underway(<< >>)'
        BY <1>0, <2>1, <4>3 DEF Underway
      <4> QED BY <2>1, <2>3, <3>1, <4>1, <4>4 DEF ShowingInv
    <3>5. CASE keyboard_buffer = BackSpace /\ command # << >>
      <4>1. /\ command' \in Seq(Typed) /\ Len(command') # Len(command)
            /\ \E x \in Characters : command = Append(command', x)
        <5>1. command' = SubSeq(command, 1, Len(command) - 1)
          BY <2>2, <3>5 DEF DeleteCommand
        <5>2. PICK x \in Typed : x = command[Len(command)]
          BY <2>1, <3>5
        <5>3. command = Append(SubSeq(command, 1, Len(command) - 1), x)
          BY <2>1, <3>5, <5>2
        <5>4. x \in Characters /\ command = Append(command', x)
          BY <5>1, <5>2, <5>3 DEF Typed
        <5>5. command' \in Seq(Typed) /\ Len(command') # Len(command)
          BY <2>1, <3>5, <5>1
        <5> QED BY <5>4, <5>5
      <4>2. pc'[s] = "echo" /\ Pending' = {s} /\ buf'[s] = BackSpace
        BY <1>0, <2>1, <2>2, <2>4, <2>6, <3>1, <3>5, <4>1 DEF Echoes, Pending
      <4>3. Underway(<< BackSpace >>)'
        BY <1>0, <2>1, <4>2 DEF Underway, ToEcho
      <4>4. Completes(shown, << BackSpace >>, PromptEnd \o command')
        <5>1. PICK x \in Characters : command = Append(command', x)
          BY <4>1
        <5>2. PromptEnd \in Seq(Characters) /\ command' \in Seq(Characters)
          BY <4>1, TextAssumption DEF Typed, Characters
        <5>3. shown = Append(PromptEnd \o command', x)
          BY <3>1, <5>1, <5>2
        <5> QED BY <5>3, Zenon DEF Completes
      <4>5. << BackSpace >> \in Seq(Characters)
        BY DEF Characters, Controls
      <4> QED BY <2>1, <2>3, <4>3, <4>4, <4>5 DEF ShowingInv
    <3>6. CASE keyboard_buffer \notin {BackSpace, NewLine}
      <4>1. PICK ch \in Typed : ch = keyboard_buffer
        BY <2>1, <2>6, <3>6 DEF Typed
      <4>2. command' = Append(command, ch)
        BY <2>2, <2>6, <3>6, <4>1 DEF AddCommand
      <4>3. pc'[s] = "echo" /\ Pending' = {s} /\ buf'[s] = ch
        BY <1>0, <2>1, <2>2, <2>6, <3>1, <3>6, <4>1 DEF Echoes, Pending
      <4>4. Underway(<< ch >>)'
        BY <1>0, <2>1, <4>3 DEF Underway, ToEcho
      <4>5. Completes(shown, << ch >>, PromptEnd \o command')
        <5>1. PromptEnd \in Seq(Characters) /\ command \in Seq(Characters) /\ ch \in Characters
          BY <2>1, TextAssumption DEF Typed, Characters
        <5>2. shown \o << ch >> = PromptEnd \o command'
          BY <3>1, <4>2, <5>1, AppendedLast, Zenon
        <5>3. << ch >> \in Seq(Typed)
          <6>1. ch \in Typed
            OBVIOUS
          <6> QED BY <6>1
        <5> QED BY <5>2, <5>3, Zenon DEF Completes
      <4>6. << ch >> \in Seq(Characters)
        BY DEF Typed
      <4> QED BY <2>1, <2>3, <4>4, <4>5, <4>6 DEF ShowingInv
    <3> QED BY <3>3, <3>4, <3>5, <3>6
  <2> QED BY <2>5, <2>6
<1>5. CASE Echo(s)
  <2>1. /\ pc[s] = "echo" /\ s \in Pending /\ printing' = << buf[s] >> /\ ~disturbed
        /\ pc' = [pc EXCEPT ![s] = "poll"] /\ UNCHANGED << screen, command, buf >>
    BY <1>5 DEF Echo, Goto, keyboardVars, Pending
  <2>2. PICK shown \in Seq(Characters), rest \in Seq(Characters) :
           /\ ShownIn(screen, shown)
           /\ Completes(shown, rest, PromptEnd \o command)
           /\ Underway(rest)
    BY <2>1 DEF ShowingInv
  <2>3. rest = << buf[s] >> /\ Pending = {s}
    BY <2>1, <2>2 DEF Underway, ToEcho
  <2>4. Pending' = {}
    BY <1>0, <2>1, <2>3 DEF Pending
  <2>5. Underway(rest)'
    BY <2>1, <2>3, <2>4 DEF Underway
  <2> QED BY <2>1, <2>2, <2>5 DEF ShowingInv
<1>6. CASE Clear(s)
  BY <1>6 DEF Clear
<1>7. CASE Run(s)
  BY <1>1, <1>7 DEF Run, Goto, keyboardVars
<1>8. CASE RunClear(s)
  BY <1>8 DEF RunClear
<1> QED BY <1>2, <1>3, <1>4, <1>5, <1>6, <1>7, <1>8 DEF ShellStep

LEMMA PromptStaysLast ==
    ASSUME TerminalInv, PromptIsLast, [TerminalNext]_terminalVars
    PROVE  PromptIsLast'
<1> USE DEF TerminalInv
<1>0. /\ calls \in [Shells -> Seq(Seq(Characters))]
      /\ pc \in [Shells -> {"start", "print", "poll", "echo", "clear", "run"}]
      /\ Prompt[Len(Prompt)] = PromptEnd
  BY TextAssumption DEF ShellsType
<1>1. ASSUME NEW s \in Shells, NEW label, pc' = [pc EXCEPT ![s] = label],
             NEW texts, calls' = [calls EXCEPT ![s] = texts],
             label = "print" => texts[Len(texts)] = PromptEnd
      PROVE  PromptIsLast'
  BY <1>0, <1>1 DEF PromptIsLast
<1>2. ASSUME NEW s \in Shells, ShellStep(s) PROVE PromptIsLast'
  <2>1. CASE Start(s) \/ RunClear(s)
    BY <1>0, <1>1, <2>1 DEF Start, RunClear, Goto
  <2>2. CASE Puts(s)
    <3>1. calls[s] \in Seq(Seq(Characters)) /\ calls[s] # << >>
          /\ calls[s][Len(calls[s])] = PromptEnd
      BY <1>0, <2>2 DEF Puts, ShellsType, PromptIsLast
    <3>2. Len(calls[s]) # 1 => Tail(calls[s])[Len(Tail(calls[s]))] = PromptEnd
      <4>1. \A seq \in Seq(Seq(Characters)) : seq # << >> /\ Len(seq) # 1 =>
               Tail(seq)[Len(Tail(seq))] = seq[Len(seq)]
        <5> SUFFICES ASSUME NEW seq \in Seq(Seq(Characters)), seq # << >>, Len(seq) # 1
                     PROVE  Tail(seq)[Len(Tail(seq))] = seq[Len(seq)]
          OBVIOUS
        <5>1. Len(seq) \in Nat /\ Len(seq) > 1
          <6>1. Len(seq) \in Nat
            OBVIOUS
          <6>2. Len(seq) # 0
            BY EmptySeq
          <6>3. \A n \in Nat : n # 0 /\ n # 1 => n > 1
            OBVIOUS
          <6> QED BY <6>1, <6>2, <6>3, Zenon
        <5>2. Len(Tail(seq)) = Len(seq) - 1
          BY HeadTailProperties
        <5>3. Tail(seq)[Len(seq) - 1] = seq[Len(seq) - 1 + 1]
          BY <5>1, <5>2, HeadTailProperties
        <5> QED BY <5>1, <5>2, <5>3
      <4> QED BY <3>1, <4>1
    <3>3. /\ calls' = [calls EXCEPT ![s] = Tail(calls[s])]
          /\ Len(calls[s]) = 1 => pc' = [pc EXCEPT ![s] = "poll"]
          /\ Len(calls[s]) # 1 => pc' = [pc EXCEPT ![s] = "print"]
      BY <1>0, <2>2 DEF Puts, Goto
    <3>4. CASE Len(calls[s]) = 1
      <4> DEFINE texts == Tail(calls[s])
      <4>1. pc' = [pc EXCEPT ![s] = "poll"] /\ calls' = [calls EXCEPT ![s] = texts]
        BY <3>3, <3>4
      <4>2. "poll" # "print"
        OBVIOUS
      <4> HIDE DEF texts
      <4> QED BY <1>1, <4>1, <4>2
    <3>5. CASE Len(calls[s]) # 1
      <4> DEFINE texts == Tail(calls[s])
      <4>1. /\ pc' = [pc EXCEPT ![s] = "print"] /\ calls' = [calls EXCEPT ![s] = texts]
            /\ texts[Len(texts)] = PromptEnd
        BY <3>2, <3>3, <3>5
      <4> HIDE DEF texts
      <4> QED BY <1>1, <4>1
    <3> QED BY <3>4, <3>5
  <2>3. CASE Poll(s) \/ Echo(s) \/ Clear(s)
    <3>1. calls' = calls /\ \E label \in {"clear", "echo", "poll", "run"} :
                               pc' = [pc EXCEPT ![s] = label]
      BY <2>3 DEF Poll, Echo, Clear, Goto
    <3> QED BY <1>0, <3>1 DEF PromptIsLast
  <2>4. CASE Run(s)
    <3>1. PICK out \in Seq(Seq(Characters)) :
             calls' = [calls EXCEPT ![s] = << << NewLine >> >> \o out \o Prompt]
      BY <2>4, TextAssumption DEF Run
    <3>2. << << NewLine >> >> \o out \in Seq(Seq(Characters))
      BY DEF Characters, Controls
    <3>3. Prompt \in Seq(Seq(Characters)) /\ Prompt # << >>
      BY TextAssumption
    <3>4. ASSUME NEW front \in Seq(Seq(Characters))
          PROVE  (front \o Prompt)[Len(front \o Prompt)] = PromptEnd
      BY <1>0, <3>3
    <3> QED BY <1>1, <2>4, <3>1, <3>2, <3>4 DEF Run, Goto
  <2> QED BY <1>2, <2>1, <2>2, <2>3, <2>4 DEF ShellStep
<1>3. CASE UNCHANGED << pc, calls >>
  BY <1>3 DEF PromptIsLast
<1>4. PrintNext \/ (\E code \in Scancodes : Key(code)) \/ Clock \/ UNCHANGED terminalVars
        => UNCHANGED << pc, calls >>
  BY DEF PrintNext, Key, Clock, shellVars, terminalVars
<1> QED BY <1>2, <1>3, <1>4 DEF TerminalNext

LEMMA ShowingStep ==
    TerminalInv /\ ShowingInv /\ PromptIsLast /\ [TerminalNext]_terminalVars
        => ShowingInv' /\ PromptIsLast'
<1> SUFFICES ASSUME TerminalInv, ShowingInv, PromptIsLast, [TerminalNext]_terminalVars
             PROVE  ShowingInv' /\ PromptIsLast'
  OBVIOUS
<1>1. CASE UNCHANGED << screen, command, printing, disturbed, buf, pc >>
  <2>1. Pending' = Pending /\ \A t \in Pending : ToEcho(t)' = ToEcho(t)
    BY <1>1 DEF Pending, ToEcho
  <2>2. \A rest : Underway(rest) => Underway(rest)'
    BY <1>1, <2>1 DEF Underway
  <2> QED BY <1>1, <2>2, PromptStaysLast DEF ShowingInv
<1>2. ASSUME NEW code \in Scancodes, Key(code) PROVE ShowingInv'
  <2>1. CASE disturbed'
    BY <2>1 DEF ShowingInv
  <2>2. CASE ~disturbed'
    <3>1. UNCHANGED << screen, disturbed >>
      BY <1>2, <2>2, Zenon DEF Key, TerminalInv, PrintingType
    <3>2. UNCHANGED << command, printing, buf, pc >>
      BY <1>2 DEF Key, shellVars, KeyboardIsr, Ignored, ToggleCapslock, MoveByArrow,
                  ArrowStays, BufferCharacter, keyboardVars
    <3> QED BY <1>1, <3>1, <3>2
  <2> QED BY <2>1, <2>2
<1>3. Clock => ShowingInv'
  BY DEF Clock, ShowingInv
<1>4. UNCHANGED terminalVars => ShowingInv'
  BY <1>1 DEF terminalVars, keyboardVars, shellVars
<1>5. ShowingInv'
  BY <1>2, <1>3, <1>4, PrintingShows, ShellShows DEF TerminalNext
<1> QED BY <1>5, PromptStaysLast

LEMMA ShowingShows ==
    ASSUME TerminalInv, ShowingInv
    PROVE  ScreenShowsCommand
<1> SUFFICES ASSUME ~disturbed, printing = << >>, Pending = {}
             PROVE  ShownBeforeCursor(PromptEnd \o command)
  BY DEF ScreenShowsCommand
<1>1. PICK shown \in Seq(Characters), rest \in Seq(Characters) :
         /\ ShownIn(screen, shown)
         /\ Completes(shown, rest, PromptEnd \o command)
         /\ Underway(rest)
  BY DEF ShowingInv
<1>2. rest = << >> /\ rest # << BackSpace >> /\ shown \o << >> = shown
  BY <1>1 DEF Underway
<1>3. shown = PromptEnd \o command
  BY <1>1, <1>2 DEF Completes
<1> QED BY <1>1, <1>3, ShownInIsShown, ScreenTypeIsInside DEF TerminalInv

(* Whatever is typed and erased, however often the line wraps, and in any  *)
(* interleaving with the other shells and the keyboard: as long as nothing *)
(* disturbs the line, what stands in front of the cursor is the prompt and *)
(* the command line of the kernel.                                         *)
THEOREM TheScreenShowsTheCommand == TerminalSpec => []ScreenShowsCommand
<1>1. TerminalInit => TerminalInv /\ ShowingInv /\ PromptIsLast
  BY InitTerminalInv DEF TerminalInit, ShowingInv, PromptIsLast
<1>2. TerminalInv /\ ShowingInv /\ PromptIsLast => ScreenShowsCommand
  BY ShowingShows
<1> QED BY <1>1, <1>2, TerminalInvStep, ShowingStep, PTL DEF TerminalSpec

-----------------------------------------------------------------------------
LEMMA LeastNat ==
    ASSUME NEW T, T \subseteq Nat, T # {}
    PROVE  \E m \in T : \A n \in T : m <= n
<1> DEFINE R == {ss \in Nat \X Nat : ss[1] < ss[2]}
<1>1. IsWellFoundedOn(R, Nat)
  BY NatLessThanWellFounded, Zenon DEF OpToRel
<1>2. PICK x \in T : \A y \in T : ~(<< y, x >> \in R)
  <2> HIDE DEF R
  <2> QED BY <1>1, WFMin
<1>3. ASSUME NEW y \in T PROVE x <= y
  <2>1. << y, x >> \in Nat \X Nat /\ ~(<< y, x >> \in R)
    BY <1>2
  <2>2. ~(y < x)
    BY <2>1
  <2> QED BY <2>2
<1> QED BY <1>3

(* The place of a number in a finite set of them, and the numbers in order. *)
UpTo(S, s) == {t \in S : t <= s}
RankOf(S, s) == Cardinality(UpTo(S, s))

Ordered(S) ==
    {e \in [1 .. Cardinality(S) -> S] : \A j, k \in DOMAIN e : j < k => e[j] < e[k]}

LEMMA RankType ==
    ASSUME NEW S \in SUBSET Nat, IsFiniteSet(S), NEW s \in S
    PROVE  RankOf(S, s) \in 1 .. Cardinality(S) /\ IsFiniteSet(UpTo(S, s))
<1>1. IsFiniteSet(UpTo(S, s)) /\ RankOf(S, s) <= Cardinality(S)
  BY FS_Subset DEF UpTo, RankOf
<1>2. s \in UpTo(S, s)
  BY DEF UpTo
<1>3. RankOf(S, s) \in Nat /\ Cardinality(S) \in Nat /\ RankOf(S, s) # 0
  BY <1>1, <1>2, FS_CardinalityType, FS_EmptySet DEF RankOf
<1> QED BY <1>1, <1>3

LEMMA RankGrows ==
    ASSUME NEW S \in SUBSET Nat, IsFiniteSet(S), NEW s \in S, NEW t \in S, s < t
    PROVE  RankOf(S, s) < RankOf(S, t)
<1>0. s \in Nat /\ t \in Nat /\ \A x \in S : x \in Nat
  OBVIOUS
<1>1. UpTo(S, s) \in SUBSET UpTo(S, t) /\ t \in UpTo(S, t) /\ t \notin UpTo(S, s)
  <2>1. \A x \in UpTo(S, s) : x \in UpTo(S, t)
    <3> SUFFICES ASSUME NEW x \in S, x <= s PROVE x <= t
      BY DEF UpTo
    <3>1. x \in Nat
      BY <1>0
    <3> QED BY <1>0, <3>1
  <2>2. ~(t <= s) /\ t <= t
    BY <1>0
  <2> QED BY <2>1, <2>2 DEF UpTo
<1>2. RankOf(S, s) <= RankOf(S, t) /\ RankOf(S, s) # RankOf(S, t)
  BY <1>1, RankType, FS_Subset DEF RankOf
<1> QED BY <1>2, RankType

LEMMA NumbersInOrder ==
    ASSUME NEW S \in SUBSET Nat, IsFiniteSet(S)
    PROVE  Ordered(S) # {}
<1> DEFINE n == Cardinality(S)
           r == [s \in S |-> RankOf(S, s)]
<1>1. n \in Nat /\ IsFiniteSet(1 .. n) /\ Cardinality(1 .. n) = n
  BY FS_CardinalityType, FS_Interval
<1>2. r \in [S -> 1 .. n]
  BY RankType
<1>3. ASSUME NEW s \in S, NEW t \in S, r[s] = r[t] PROVE s = t
  <2>1. ~(s < t) /\ ~(t < s)
    BY <1>3, RankGrows, RankType
  <2> QED BY <2>1
<1>4. r \in Injection(S, 1 .. n)
  BY <1>2, <1>3 DEF Injection, IsInjective
<1> HIDE DEF r
<1>5. r \in Surjection(S, 1 .. n)
  BY <1>1, <1>4, FS_Injection
<1>6. \A k \in 1 .. n : \E s \in S : r[s] = k
  BY <1>5 DEF Surjection
<1> DEFINE e == [k \in 1 .. n |-> CHOOSE s \in S : r[s] = k]
<1>7. \A k \in 1 .. n : e[k] \in S /\ r[e[k]] = k
  BY <1>6
<1>8. e \in [1 .. n -> S]
  BY <1>7
<1>9. ASSUME NEW j \in 1 .. n, NEW k \in 1 .. n, j < k PROVE e[j] < e[k]
  <2>1. e[j] \in S /\ e[k] \in S /\ RankOf(S, e[j]) = j /\ RankOf(S, e[k]) = k
    BY <1>7 DEF r
  <2>2. PICK a \in S, b \in S : a = e[j] /\ b = e[k]
    BY <2>1
  <2>3. a \in Nat /\ b \in Nat /\ RankOf(S, a) = j /\ RankOf(S, b) = k
    BY <2>1, <2>2
  <2>4. ~(b < a) /\ b # a
    BY <1>9, <2>3, RankGrows
  <2> QED BY <2>2, <2>3, <2>4
<1> HIDE DEF e
<1>10. e \in Ordered(S)
  BY <1>8, <1>9 DEF Ordered
<1> QED BY <1>10

LEMMA OrderIsRank ==
    ASSUME NEW S \in SUBSET Nat, IsFiniteSet(S), NEW e \in Ordered(S)
    PROVE  /\ \A k \in 1 .. Cardinality(S) : e[k] \in S /\ RankOf(S, e[k]) = k
           /\ \A s \in S : \E k \in 1 .. Cardinality(S) : e[k] = s
<1> DEFINE n == Cardinality(S)
<1>1. n \in Nat /\ IsFiniteSet(1 .. n) /\ Cardinality(1 .. n) = n
  BY FS_CardinalityType, FS_Interval
<1> HIDE DEF n
<1>2. e \in [1 .. n -> S] /\ \A j, k \in 1 .. n : j < k => e[j] < e[k]
  BY DEF Ordered, n
<1>3. ASSUME NEW j \in 1 .. n, NEW k \in 1 .. n, e[j] = e[k] PROVE j = k
  <2>1. e[j] \in Nat
    <3>1. e[j] \in S
      BY <1>2
    <3> QED BY <3>1
  <2>2. ~(e[j] < e[k]) /\ ~(e[k] < e[j])
    BY <1>3, <2>1
  <2> QED BY <1>1, <1>2, <2>2
<1>4. e \in Injection(1 .. n, S)
  BY <1>2, <1>3 DEF Injection, IsInjective
<1>5. e \in Surjection(1 .. n, S)
  BY <1>1, <1>4, FS_Injection DEF n
<1>6. \A s \in S : \E k \in 1 .. n : e[k] = s
  BY <1>5 DEF Surjection
<1>7. ASSUME NEW k \in 1 .. n PROVE e[k] \in S /\ RankOf(S, e[k]) = k
  <2> DEFINE f == [j \in 1 .. k |-> e[j]]
  <2>1. \A j \in 1 .. k : j \in 1 .. n /\ e[j] \in UpTo(S, e[k])
    <3> SUFFICES ASSUME NEW j \in 1 .. k PROVE j \in 1 .. n /\ e[j] \in UpTo(S, e[k])
      OBVIOUS
    <3>1. j \in 1 .. n /\ (j < k \/ j = k)
      BY <1>1
    <3>2. e[j] \in S /\ e[k] \in S /\ (e[j] < e[k] \/ e[j] = e[k])
      BY <1>2, <3>1
    <3>3. e[j] <= e[k]
      <4>1. e[j] \in Nat /\ e[k] \in Nat
        BY <3>2
      <4> QED BY <3>2, <4>1
    <3> QED BY <3>1, <3>2, <3>3 DEF UpTo
  <2>2. f \in [1 .. k -> UpTo(S, e[k])]
    BY <2>1
  <2>3. ASSUME NEW i \in 1 .. k, NEW j \in 1 .. k, f[i] = f[j] PROVE i = j
    BY <1>3, <2>1, <2>3
  <2>4. ASSUME NEW t \in UpTo(S, e[k]) PROVE \E j \in 1 .. k : f[j] = t
    <3>1. PICK j \in 1 .. n : e[j] = t
      BY <1>6 DEF UpTo
    <3>2. e[j] \in Nat /\ e[k] \in Nat /\ e[j] <= e[k]
      BY <1>2, <3>1 DEF UpTo
    <3>3. ~(k < j)
      BY <1>2, <3>2
    <3>4. j \in 1 .. k
      BY <1>1, <3>3
    <3> QED BY <3>1, <3>4
  <2>5. f \in Bijection(1 .. k, UpTo(S, e[k]))
    BY <2>2, <2>3, <2>4 DEF Bijection, Injection, Surjection, IsInjective
  <2> HIDE DEF f
  <2>6. k \in Nat /\ IsFiniteSet(1 .. k) /\ Cardinality(1 .. k) = k
    BY <1>1, FS_Interval
  <2>7. ExistsBijection(1 .. k, UpTo(S, e[k]))
    BY <2>5 DEF ExistsBijection
  <2>8. Cardinality(UpTo(S, e[k])) = k
    BY <2>6, <2>7, FS_Bijection
  <2> QED BY <1>2, <2>8 DEF RankOf
<1> QED BY <1>6, <1>7 DEF n

(* Counting from 0 instead of 1. *)
LEMMA ShiftedIsAsLarge ==
    ASSUME NEW S \in SUBSET Nat, IsFiniteSet(S)
    PROVE  LET T == {s - 1 : s \in S}
           IN  IsFiniteSet(T) /\ Cardinality(T) = Cardinality(S)
<1> DEFINE T == {s - 1 : s \in S}
           f == [s \in S |-> s - 1]
<1>1. f \in Bijection(S, T)
  BY DEF Bijection, Injection, Surjection, IsInjective
<1> HIDE DEF f, T
<1>2. ExistsBijection(S, T)
  BY <1>1 DEF ExistsBijection
<1>3. IsFiniteSet(T) /\ Cardinality(T) = Cardinality(S)
  BY <1>2, FS_Bijection
<1> QED BY <1>3 DEF T

-----------------------------------------------------------------------------
LEMMA SameCardinality == ASSUME NEW S PROVE Line!Cardinality(S) = Cardinality(S)
BY DEF Line!Cardinality, Cardinality

Starts(line) == Line!TrueStarts(line)

LEMMA StartsType ==
    ASSUME NEW line \in Seq(Characters)
    PROVE  /\ Starts(line) \in SUBSET Nat /\ IsFiniteSet(Starts(line))
           /\ \A s \in Starts(line) :
                 /\ s \in 1 .. Len(line) /\ line[s] # Blank
                 /\ s > 1 => line[s - 1] = Blank
           /\ \A s \in 1 .. Len(line) :
                 line[s] # Blank /\ (s > 1 => line[s - 1] = Blank) => s \in Starts(line)
<1>1. Starts(line) \in SUBSET (1 .. Len(line))
  BY DEF Starts, Line!TrueStarts
<1>2. IsFiniteSet(1 .. Len(line))
  BY FS_Interval
<1>3. IsFiniteSet(Starts(line))
  BY <1>1, <1>2, FS_Subset
<1>4. Starts(line) \in SUBSET Nat
  BY <1>1
<1> QED BY <1>3, <1>4 DEF Starts, Line!TrueStarts

(* Behind a blank, or the beginning, a word begins at the latest where a   *)
(* character stands.                                                       *)
LEMMA StartBefore ==
    ASSUME NEW line \in Seq(Characters), NEW j \in Nat, NEW p \in 1 .. Len(line), j < p,
           j = 0 \/ line[j] = Blank, line[p] # Blank
    PROVE  \E s \in Starts(line) : j < s /\ s <= p
<1> DEFINE T == {i \in 1 .. Len(line) : j < i /\ line[i] # Blank}
<1>1. T \subseteq Nat /\ T # {}
  <2>1. p \in T
    OBVIOUS
  <2> QED BY <2>1
<1>2. PICK s \in T : \A i \in T : s <= i
  <2> HIDE DEF T
  <2> QED BY <1>1, LeastNat
<1>3. s \in 1 .. Len(line) /\ j < s /\ line[s] # Blank /\ s <= p
  BY <1>2
<1>4. ASSUME s > 1 PROVE line[s - 1] = Blank
  <2>1. CASE s - 1 = j
    BY <1>4, <2>1
  <2>2. CASE s - 1 # j
    <3>1. s - 1 \in 1 .. Len(line) /\ j < s - 1
      BY <1>3, <1>4, <2>2
    <3>2. s - 1 \notin T
      <4>1. ASSUME s - 1 \in T PROVE s <= s - 1
        BY <1>2, <4>1
      <4> QED BY <1>3, <4>1
    <3> QED BY <3>1, <3>2
  <2> QED BY <2>1, <2>2
<1> QED BY <1>3, <1>4, StartsType

(* The end of a word. *)
IsEnd(line, s, e) ==
    /\ e \in s .. Len(line)
    /\ \A i \in s .. e : line[i] # Blank
    /\ e < Len(line) => line[e + 1] = Blank

LEMMA EndIsUnique ==
    ASSUME NEW line \in Seq(Characters), NEW s \in 1 .. Len(line), NEW e, IsEnd(line, s, e)
    PROVE  Line!TrueEnd(line, s) = e
<1>1. ASSUME NEW a, NEW b, IsEnd(line, s, a), IsEnd(line, s, b) PROVE ~(a < b)
  <2> SUFFICES ASSUME a < b PROVE FALSE
    OBVIOUS
  <2>1. a \in s .. Len(line) /\ b \in s .. Len(line)
    BY <1>1 DEF IsEnd
  <2>2. a + 1 \in s .. b /\ a < Len(line)
    BY <2>1
  <2> QED BY <1>1, <2>2 DEF IsEnd
<1>2. ASSUME NEW a, IsEnd(line, s, a) PROVE a = e
  <2>1. ~(a < e) /\ ~(e < a)
    BY <1>1, <1>2
  <2>2. a \in Int /\ e \in Int
    BY <1>2 DEF IsEnd
  <2> QED BY <2>1, <2>2
<1>3. Line!TrueEnd(line, s) = CHOOSE a \in s .. Len(line) : IsEnd(line, s, a)
  BY DEF Line!TrueEnd, IsEnd
<1>4. e \in s .. Len(line)
  BY DEF IsEnd
<1> QED BY <1>2, <1>3, <1>4

IsLast(line, s) == \A t \in Starts(line) : t <= s

(* The blanks at which getWord may stop. *)
Blanks(line, s) == {i \in Line!Scanned(line) : i > s /\ Line!At(line, i) = Blank}

LEMMA BlanksAre ==
    ASSUME NEW line \in Seq(Characters), NEW s \in Nat, NEW i
    PROVE  i \in Blanks(line, s - 1) <=>
              i \in 0 .. Len(line) - 2 /\ i >= s /\ line[i + 1] = Blank
BY DEF Blanks, Line!Scanned, Line!At

LEMMA BlankIsSeen ==
    ASSUME NEW line \in Seq(Characters), NEW s \in Nat, NEW i \in Int,
           s < i, i < Len(line), line[i] = Blank
    PROVE  i - 1 \in Blanks(line, s - 1)
<1>1. PICK j : j = i - 1
  OBVIOUS
<1>2. j \in 0 .. Len(line) - 2 /\ j >= s /\ line[j + 1] = Blank
  <2>1. Len(line) \in Nat /\ j + 1 = i
    BY <1>1
  <2> QED BY <1>1, <2>1
<1> QED BY <1>1, <1>2, BlanksAre

LEMMA WordEndIs ==
    ASSUME NEW line \in Seq(Characters), NEW s \in Starts(line)
    PROVE  IF Line!LastWordKeepsBlank(line) /\ IsLast(line, s)
           THEN /\ Line!WordEnd(line, s - 1) = Len(line)
                /\ Line!TrueEnd(line, s) = Len(line) - 1 /\ s <= Len(line) - 1
           ELSE Line!WordEnd(line, s - 1) = Line!TrueEnd(line, s)
<1>1. s \in 1 .. Len(line) /\ line[s] # Blank /\ Len(line) \in Nat
  BY StartsType
<1>2. CASE Blanks(line, s - 1) # {}
  <2>1. PICK m \in Blanks(line, s - 1) : \A i \in Blanks(line, s - 1) : m <= i
    <3>1. Blanks(line, s - 1) \subseteq Nat
      BY <1>1, BlanksAre
    <3> QED BY <1>2, <3>1, LeastNat
  <2>2. m \in 0 .. Len(line) - 2 /\ m >= s /\ line[m + 1] = Blank
    BY <1>1, <2>1, BlanksAre
  <2>3. Line!Min(Blanks(line, s - 1)) = m
    <3>1. ASSUME NEW x \in Blanks(line, s - 1), \A i \in Blanks(line, s - 1) : x <= i
          PROVE  x = m
      <4>1. x <= m /\ m <= x /\ x \in Int
        BY <1>1, <2>1, <3>1, BlanksAre
      <4> QED BY <2>2, <4>1
    <3> QED BY <2>1, <3>1 DEF Line!Min
  <2>4. Line!WordEnd(line, s - 1) = m
    BY <1>2, <2>3 DEF Line!WordEnd, Blanks
  <2>5. IsEnd(line, s, m)
    <3>1. ASSUME NEW i \in s .. m, line[i] = Blank PROVE FALSE
      <4>1. s \in Nat /\ i \in Int /\ s < i /\ i < Len(line)
        BY <1>1, <2>2, <3>1
      <4>2. m <= i - 1
        BY <2>1, <3>1, <4>1, BlankIsSeen
      <4> QED BY <2>2, <4>2
    <3> QED BY <1>1, <2>2, <3>1 DEF IsEnd
  <2>6. Line!TrueEnd(line, s) = m
    BY <1>1, <2>5, EndIsUnique
  <2>7. ASSUME Line!LastWordKeepsBlank(line) PROVE ~IsLast(line, s)
    <3>1. line[Len(line) - 1] # Blank /\ Len(line) > 1
      BY <2>7 DEF Line!LastWordKeepsBlank
    <3>2. m + 1 < Len(line) - 1
      <4>1. m + 1 # Len(line) - 1
        BY <2>2, <3>1
      <4> QED BY <1>1, <2>2, <4>1
    <3>3. PICK t \in Starts(line) : m + 1 < t
      <4>1. m + 1 \in Nat /\ Len(line) - 1 \in 1 .. Len(line)
        BY <1>1, <2>2, <3>1
      <4> QED BY <2>2, <3>1, <3>2, <4>1, StartBefore
    <3>4. t \in Nat /\ ~(t <= s)
      BY <1>1, <2>2, <3>3, StartsType
    <3> QED BY <3>3, <3>4 DEF IsLast
  <2> QED BY <2>4, <2>6, <2>7
<1>3. CASE Blanks(line, s - 1) = {}
  <2>1. Line!WordEnd(line, s - 1) = Len(line)
    BY <1>3 DEF Line!WordEnd, Blanks
  <2>2. ASSUME NEW i \in s .. Len(line) - 1, line[i] = Blank PROVE FALSE
    <3>1. s \in Nat /\ i \in Int /\ s < i /\ i < Len(line)
      BY <1>1, <2>2
    <3>2. i - 1 \in Blanks(line, s - 1)
      BY <2>2, <3>1, BlankIsSeen
    <3> QED BY <1>3, <3>2
  <2>3. CASE line[Len(line)] # Blank
    <3>1. IsEnd(line, s, Len(line))
      BY <1>1, <2>2, <2>3 DEF IsEnd
    <3>2. ~Line!LastWordKeepsBlank(line)
      BY <2>3 DEF Line!LastWordKeepsBlank
    <3> QED BY <1>1, <2>1, <3>1, <3>2, EndIsUnique
  <2>4. CASE line[Len(line)] = Blank
    <3>1. s <= Len(line) - 1 /\ Len(line) - 1 \in s .. Len(line) - 1 /\ Len(line) > 1
      BY <1>1, <2>4
    <3>2. IsEnd(line, s, Len(line) - 1)
      BY <1>1, <2>2, <2>4, <3>1 DEF IsEnd
    <3>3. Line!LastWordKeepsBlank(line)
      BY <2>2, <2>4, <3>1 DEF Line!LastWordKeepsBlank
    <3>4. ASSUME NEW t \in Starts(line) PROVE t <= s
      <4>1. t \in 1 .. Len(line) /\ (t > 1 => line[t - 1] = Blank)
        BY StartsType
      <4>2. SUFFICES ASSUME t > s PROVE FALSE
        BY <1>1, <4>1
      <4>3. t - 1 \in s .. Len(line) - 1 /\ line[t - 1] = Blank
        BY <1>1, <4>1, <4>2
      <4> QED BY <2>2, <4>3
    <3> QED BY <1>1, <2>1, <3>1, <3>2, <3>3, <3>4, EndIsUnique DEF IsLast
  <2> QED BY <2>3, <2>4
<1> QED BY <1>2, <1>3

-----------------------------------------------------------------------------
(* countWords and getWord begin their words where the words begin. *)
LEMMA FoundStarts ==
    ASSUME NEW line \in Seq(Characters), Len(line) # 1
    PROVE  Line!WordStarts(line) = {s - 1 : s \in Starts(line)}
<1>0. Len(line) \in Nat
  OBVIOUS
<1>1. ASSUME NEW w \in Line!WordStarts(line) PROVE \E s \in Starts(line) : w = s - 1
  <2>1. CASE w \in Line!Scanned(line) /\ w = 0 /\ Line!At(line, 0) # Blank
    <3>1. 1 \in 1 .. Len(line) /\ line[1] # Blank /\ w = 1 - 1
      BY <1>0, <2>1 DEF Line!Scanned, Line!At
    <3>2. 1 \in Starts(line)
      BY <3>1, StartsType
    <3> QED BY <3>1, <3>2
  <2>2. CASE ~(w \in Line!Scanned(line) /\ w = 0 /\ Line!At(line, 0) # Blank)
    <3>1. PICK i \in Line!Scanned(line) :
             w = i + 1 /\ Line!At(line, i) = Blank /\ Line!At(line, i + 1) # Blank
      BY <2>2 DEF Line!WordStarts, Line!StartsAfterBlank
    <3>2. PICK s : s = i + 2
      OBVIOUS
    <3>3. s \in 1 .. Len(line) /\ w = s - 1 /\ line[s] # Blank /\ line[s - 1] = Blank
      <4>1. i \in 0 .. Len(line) - 2 /\ i + 1 + 1 = s /\ i + 1 = s - 1
        BY <1>0, <3>1, <3>2 DEF Line!Scanned
      <4>2. line[i + 1] = Blank /\ line[i + 1 + 1] # Blank
        BY <3>1 DEF Line!At
      <4> QED BY <1>0, <3>1, <4>1, <4>2
    <3> QED BY <3>3, StartsType
  <2> QED BY <2>1, <2>2
<1>2. ASSUME NEW s \in Starts(line) PROVE s - 1 \in Line!WordStarts(line)
  <2>1. s \in 1 .. Len(line) /\ line[s] # Blank /\ (s > 1 => line[s - 1] = Blank)
    BY StartsType
  <2>2. CASE s = 1
    <3>1. 0 \in Line!Scanned(line) /\ Line!At(line, 0) # Blank /\ s - 1 = 0
      <4>1. 0 \in 0 .. Len(line) - 2
        <5>1. \A n \in Nat : 1 \in 1 .. n /\ n # 1 => 0 \in 0 .. n - 2
          OBVIOUS
        <5> QED BY <1>0, <2>1, <2>2, <5>1, Zenon
      <4>2. line[0 + 1] # Blank /\ s - 1 = 0
        BY <2>1, <2>2
      <4> QED BY <4>1, <4>2 DEF Line!Scanned, Line!At
    <3> QED BY <3>1 DEF Line!WordStarts
  <2>3. CASE s # 1
    <3>1. PICK i : i = s - 2
      OBVIOUS
    <3>2. i \in 0 .. Len(line) - 2 /\ i + 1 = s - 1 /\ i + 1 + 1 = s
      BY <1>0, <2>1, <2>3, <3>1
    <3>3. /\ i \in Line!Scanned(line)
          /\ Line!At(line, i) = Blank /\ Line!At(line, i + 1) # Blank
      <4>1. line[i + 1] = Blank /\ line[i + 1 + 1] # Blank
        BY <1>0, <2>1, <2>3, <3>2
      <4> QED BY <3>2, <4>1 DEF Line!Scanned, Line!At
    <3>4. i + 1 \in Line!StartsAfterBlank(line)
      BY <3>3 DEF Line!StartsAfterBlank
    <3> QED BY <3>2, <3>4 DEF Line!WordStarts
  <2> QED BY <2>2, <2>3
<1> QED BY <1>1, <1>2

LEMMA WordsCounted ==
    ASSUME NEW line \in Seq(Characters), Len(line) # 1
    PROVE  Line!CountWords(line) = Cardinality(Starts(line))
BY FoundStarts, ShiftedIsAsLarge, StartsType, SameCardinality DEF Line!CountWords

LEMMA FoundBefore ==
    ASSUME NEW line \in Seq(Characters), Len(line) # 1, NEW s \in Starts(line)
    PROVE  Line!Cardinality({t \in Line!WordStarts(line) : t < s - 1})
             = RankOf(Starts(line), s) - 1
<1> DEFINE S == Starts(line)
           U == UpTo(S, s) \ {s}
           T == {t \in Line!WordStarts(line) : t < s - 1}
<1>1. S \in SUBSET Nat /\ IsFiniteSet(S) /\ s \in S /\ s \in UpTo(S, s)
  <2>1. S \in SUBSET Nat /\ IsFiniteSet(S) /\ s \in S
    BY StartsType
  <2>2. s \in Nat
    BY <2>1
  <2> QED BY <2>1, <2>2 DEF UpTo
<1>2. IsFiniteSet(U) /\ Cardinality(U) = RankOf(S, s) - 1
  <2>1. IsFiniteSet(UpTo(S, s))
    BY <1>1, RankType
  <2> QED BY <1>1, <2>1, FS_RemoveElement DEF RankOf
<1>3. U \in SUBSET Nat
  BY <1>1 DEF UpTo
<1>4. T = {t - 1 : t \in U}
  <2>1. \A t \in S : t \in Int
    BY <1>1
  <2>2. ASSUME NEW t \in S PROVE t - 1 < s - 1 <=> t \in U
    BY <1>1, <2>1, <2>2 DEF UpTo
  <2>3. Line!WordStarts(line) = {t - 1 : t \in S}
    BY FoundStarts
  <2>4. U \subseteq S
    BY DEF UpTo
  <2> HIDE DEF S, U
  <2>5. T = {v \in {t - 1 : t \in S} : v < s - 1}
    BY <2>3
  <2> HIDE DEF T
  <2>6. ASSUME NEW v \in T PROVE v \in {t - 1 : t \in U}
    <3>1. PICK t \in S : v = t - 1 /\ v < s - 1
      BY <2>5
    <3> QED BY <2>2, <3>1
  <2>7. ASSUME NEW t \in U PROVE t - 1 \in T
    BY <2>2, <2>4, <2>5
  <2> QED BY <2>6, <2>7
<1> HIDE DEF S, U, T
<1>5. Cardinality(T) = Cardinality(U)
  BY <1>2, <1>3, <1>4, ShiftedIsAsLarge
<1> QED BY <1>2, <1>5, SameCardinality DEF S, T

LEMMA WordStartIs ==
    ASSUME NEW line \in Seq(Characters), Len(line) # 1, NEW e \in Ordered(Starts(line)),
           NEW k \in 1 .. Cardinality(Starts(line))
    PROVE  Line!WordStart(line, k - 1) = e[k] - 1
<1> DEFINE S == Starts(line)
           P(w) == Line!Cardinality({t \in Line!WordStarts(line) : t < w}) = k - 1
<1>1. S \in SUBSET Nat /\ IsFiniteSet(S) /\ Line!WordStarts(line) = {s - 1 : s \in S}
  BY StartsType, FoundStarts
<1>2. e[k] \in S /\ RankOf(S, e[k]) = k
  BY <1>1, OrderIsRank
<1>3. ASSUME NEW s \in S PROVE P(s - 1) <=> RankOf(S, s) = k
  <2>1. RankOf(S, s) \in Nat /\ k \in Nat
    BY <1>1, RankType, FS_CardinalityType
  <2>2. Line!Cardinality({t \in Line!WordStarts(line) : t < s - 1}) = RankOf(S, s) - 1
    BY FoundBefore
  <2> QED BY <2>1, <2>2
<1>4. ASSUME NEW s \in S, RankOf(S, s) = k PROVE s = e[k]
  <2>1. PICK j \in 1 .. Cardinality(S) : e[j] = s
    BY <1>1, OrderIsRank
  <2>2. RankOf(S, e[j]) = j
    BY <1>1, <2>1, OrderIsRank
  <2> QED BY <1>4, <2>1, <2>2
<1>5. Line!WordStart(line, k - 1) = CHOOSE w \in Line!WordStarts(line) : P(w)
  BY DEF Line!WordStart
<1> HIDE DEF P, S
<1>6. e[k] - 1 \in Line!WordStarts(line) /\ P(e[k] - 1)
  BY <1>1, <1>2, <1>3
<1>7. ASSUME NEW w \in Line!WordStarts(line), P(w) PROVE w = e[k] - 1
  <2>1. PICK s \in S : w = s - 1
    BY <1>1
  <2> QED BY <1>3, <1>4, <1>7, <2>1
<1> QED BY <1>5, <1>6, <1>7

LEMMA WordGrows ==
    ASSUME NEW line \in Seq(Characters), NEW s \in 1 .. Len(line), s <= Len(line) - 1
    PROVE  SubSeq(line, s, Len(line))
             = Append(SubSeq(line, s, Len(line) - 1), line[Len(line)])
OBVIOUS

LEMMA LineSplits ==
    ASSUME NEW line \in Seq(Characters)
    PROVE  Line!SplitsIntoWords(line)
<1> DEFINE found == [k \in 1 .. Line!CountWords(line) |-> Line!GetWord(line, k - 1)]
           words == Line!TrueWords(line)
           S == Starts(line)
           n == Cardinality(S)
<1>1. CASE Len(line) = 1
  <2>1. Line!WordStarts(line) = {}
    BY <1>1 DEF Line!WordStarts, Line!StartsAfterBlank, Line!Scanned
  <2>2. Line!CountWords(line) = 0
    BY <2>1, SameCardinality, FS_EmptySet DEF Line!CountWords
  <2>3. found = << >>
    BY <2>2
  <2> HIDE DEF found
  <2> QED BY <1>1, <2>3 DEF Line!SplitsIntoWords, found
<1>2. CASE Len(line) # 1
  <2>1. S \in SUBSET Nat /\ IsFiniteSet(S) /\ n \in Nat /\ Line!CountWords(line) = n
    BY <1>2, StartsType, WordsCounted, FS_CardinalityType
  <2>2. PICK e \in Ordered(S) :
           words = [k \in 1 .. n |-> SubSeq(line, e[k], Line!TrueEnd(line, e[k]))]
    <3> DEFINE InOrder(e) == \A j, k \in DOMAIN e : j < k => e[j] < e[k]
    <3>1. PICK e : e = CHOOSE f \in [1 .. n -> S] : InOrder(f)
      OBVIOUS
    <3>2. \E f \in [1 .. n -> S] : InOrder(f)
      BY <2>1, NumbersInOrder DEF Ordered
    <3> HIDE DEF InOrder, S, n
    <3>3. e \in [1 .. n -> S] /\ InOrder(e)
      BY <3>1, <3>2, Zenon
    <3>4. e \in Ordered(S)
      BY <3>3 DEF Ordered, InOrder, n
    <3>5. words = [k \in DOMAIN e |-> SubSeq(line, e[k], Line!TrueEnd(line, e[k]))]
      <4>1. Line!Cardinality(S) = n
        BY SameCardinality DEF n
      <4> QED BY <3>1, <4>1 DEF Line!TrueWords, S, InOrder, Starts
    <3>6. DOMAIN e = 1 .. n
      BY <3>3
    <3> QED BY <3>4, <3>5, <3>6
  <2>3. \A k \in 1 .. n : e[k] \in S /\ e[k] \in 1 .. Len(line)
    BY <2>1, OrderIsRank, StartsType
  <2>4. \A k \in 1 .. n : IsLast(line, e[k]) <=> k = n
    <3> SUFFICES ASSUME NEW k \in 1 .. n PROVE IsLast(line, e[k]) <=> k = n
      OBVIOUS
    <3>1. \A i, j \in 1 .. n : i < j => e[i] < e[j]
      BY DEF Ordered
    <3>2. ASSUME k # n PROVE ~IsLast(line, e[k])
      <4>1. n \in 1 .. n /\ k < n
        BY <2>1, <3>2
      <4>2. e[k] < e[n] /\ e[n] \in S /\ e[k] \in Nat /\ e[n] \in Nat
        BY <2>3, <3>1, <4>1
      <4>3. ~(e[n] <= e[k])
        BY <4>2
      <4> QED BY <4>2, <4>3 DEF IsLast
    <3>3. ASSUME k = n, NEW t \in S PROVE t <= e[k]
      <4>1. PICK j \in 1 .. n : e[j] = t
        BY <2>1, OrderIsRank
      <4>2. j < k \/ j = k
        BY <2>1, <3>3
      <4>3. e[j] < e[k] \/ e[j] = e[k]
        BY <3>1, <4>2
      <4>4. e[j] \in Nat /\ e[k] \in Nat
        BY <2>3
      <4> QED BY <4>1, <4>3, <4>4
    <3> QED BY <3>2, <3>3 DEF IsLast
  <2>5. ASSUME NEW k \in 1 .. n
        PROVE  found[k] = SubSeq(line, e[k], Line!WordEnd(line, e[k] - 1))
    <3>1. Line!WordStart(line, k - 1) = e[k] - 1
      BY <1>2, WordStartIs
    <3>2. (e[k] - 1) + 1 = e[k]
      BY <2>3
    <3>3. Line!GetWord(line, k - 1) = SubSeq(line, e[k], Line!WordEnd(line, e[k] - 1))
      BY <3>1, <3>2 DEF Line!GetWord
    <3> QED BY <2>1, <3>3
  <2>6. found = [k \in 1 .. n |-> found[k]]
    BY <2>1
  <2> HIDE DEF found, words, n, S
  <2>7. CASE Line!LastWordKeepsBlank(line)
    <3>1. line[Len(line)] = Blank /\ Len(line) > 1 /\ line[Len(line) - 1] # Blank
      BY <2>7 DEF Line!LastWordKeepsBlank
    <3>2. n # 0
      <4>1. PICK s \in S : 0 < s
        BY <3>1, StartBefore DEF S
      <4>2. S # {}
        BY <4>1
      <4> QED BY <2>1, <4>2, FS_EmptySet DEF n
    <3>3. Len(words) = n /\ n \in 1 .. n
      BY <2>1, <2>2, <3>2
    <3>4. found[n] = Append(words[n], Blank)
      <4>1. /\ Line!WordEnd(line, e[n] - 1) = Len(line)
            /\ Line!TrueEnd(line, e[n]) = Len(line) - 1 /\ e[n] <= Len(line) - 1
        BY <2>3, <2>4, <2>7, <3>3, WordEndIs DEF S
      <4>2. e[n] \in 1 .. Len(line)
        BY <2>3, <3>3
      <4>3. words[n] = SubSeq(line, e[n], Len(line) - 1)
        BY <2>2, <3>3, <4>1
      <4>4. found[n] = SubSeq(line, e[n], Len(line))
        BY <2>5, <3>3, <4>1
      <4> QED BY <3>1, <4>1, <4>2, <4>3, <4>4, WordGrows
    <3>5. ASSUME NEW k \in 1 .. n, k # n PROVE found[k] = words[k]
      <4>1. Line!WordEnd(line, e[k] - 1) = Line!TrueEnd(line, e[k])
        BY <2>3, <2>4, <3>5, WordEndIs DEF S
      <4> QED BY <2>2, <2>5, <4>1
    <3>6. found = [words EXCEPT ![n] = Append(words[n], Blank)]
      BY <2>2, <2>6, <3>4, <3>5
    <3> QED BY <1>2, <2>7, <3>3, <3>6 DEF Line!SplitsIntoWords, found, words
  <2>8. CASE ~Line!LastWordKeepsBlank(line)
    <3>1. ASSUME NEW k \in 1 .. n PROVE found[k] = words[k]
      <4>1. Line!WordEnd(line, e[k] - 1) = Line!TrueEnd(line, e[k])
        BY <2>3, <2>8, WordEndIs DEF S
      <4> QED BY <2>2, <2>5, <4>1
    <3>2. found = words
      BY <2>2, <2>6, <3>1
    <3> QED BY <1>2, <2>8, <3>2 DEF Line!SplitsIntoWords, found, words
  <2> QED BY <2>7, <2>8
<1> QED BY <1>1, <1>2

(* Whatever was typed and erased, the shell finds the words of the line,   *)
(* all of them and in order, but for a line of one character and a blank   *)
(* at the end.                                                             *)
THEOREM LinesAreSplit == TerminalSpec => []LineIsSplit
<1>1. TerminalTypeOK => LineIsSplit
  <2> SUFFICES ASSUME TerminalTypeOK PROVE LineIsSplit
    OBVIOUS
  <2>1. command \in Seq(Characters)
    BY DEF TerminalTypeOK, KeyboardTypeOK
  <2> QED BY <2>1, LineSplits DEF LineIsSplit
<1> QED BY <1>1, TerminalTypeCorrect, PTL
=============================================================================
