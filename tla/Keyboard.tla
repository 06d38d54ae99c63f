------------------------------ MODULE Keyboard ------------------------------
(***************************************************************************)
(* keyboard.c: the interrupt handler of the keyboard, its buffer of one    *)
(* character and the command line that the kernel keeps for the shells.    *)
(* The handler also moves the cursor of Screen.                            *)
(*                                                                         *)
(* The key maps are abstracted to the functions plain, shifted and caps    *)
(* from scancodes to characters; every release code and the prefix of the  *)
(* arrow keys map to no character.  ctrl_on and read_extended_mode, which  *)
(* nothing reads, are left out, and so is the end of command, an array of  *)
(* 100 characters that idx is never compared with.                         *)
(***************************************************************************)
EXTENDS Screen

CONSTANTS
    Scancodes,
    plain, shifted, caps    \* [Scancodes -> Characters or NoChar]

NoChar     == "0"
Characters == Printable \cup Controls

Capslock      == "capslock"
ShiftPress    == {"left shift", "right shift"}
ShiftRelease  == {"left shift released", "right shift released"}
Arrows        == {"up", "down", "left", "right"}

ASSUME MapAssumption ==
    /\ NoChar \notin Characters
    /\ \A map \in {plain, shifted, caps} :
          map \in [Scancodes -> Characters \cup {NoChar}]

VARIABLES
    keyboard_input_on, capslock_on, shift_on,
    keyboard_buffer,    \* a character or NoChar
    command             \* sequence of characters; idx is its length

keyboardVars == << keyboard_input_on, capslock_on, shift_on, keyboard_buffer, command >>

KeyboardInit ==
    /\ keyboard_input_on = FALSE /\ capslock_on = FALSE /\ shift_on = FALSE
    /\ keyboard_buffer = NoChar
    /\ command = << >>

KeyboardStateActivate ==
    /\ keyboard_input_on' = TRUE
    /\ UNCHANGED << capslock_on, shift_on, keyboard_buffer, command >>

-----------------------------------------------------------------------------
(* keyboard_isr, by the branch it takes. *)
Ignored(code) == ~keyboard_input_on /\ UNCHANGED << keyboardVars, screen >>

ToggleCapslock(code) ==
    /\ keyboard_input_on /\ code = Capslock
    /\ capslock_on' = ~capslock_on
    /\ UNCHANGED << keyboard_input_on, shift_on, keyboard_buffer, command, screen >>

ArrowMoves(code) ==
    \/ code = "up"    /\ CursorUp
    \/ code = "down"  /\ CursorDown
    \/ code = "right" /\ CursorRight
    \/ code = "left"  /\ CursorLeft

MoveByArrow(code) ==
    /\ keyboard_input_on
    /\ ArrowMoves(code)
    /\ UNCHANGED keyboardVars

(* Up and down return even when they do not move.  Left and right in their *)
(* corner go on to the key maps, as every other code does.                 *)
ArrowStays(code) ==
    /\ keyboard_input_on
    /\ \/ code = "up" /\ screen.row = 0
       \/ code = "down" /\ screen.row = LastRow
    /\ UNCHANGED << keyboardVars, screen >>

FallsThrough(code) ==
    \/ code \notin Arrows \cup {Capslock}
    \/ code = "left"  /\ screen.row = 0 /\ screen.col = 0
    \/ code = "right" /\ screen.row = LastRow /\ screen.col = LastCol

BufferCharacter(code) ==
    /\ keyboard_input_on
    /\ FallsThrough(code)
    /\ shift_on' = ((shift_on \/ code \in ShiftPress) /\ code \notin ShiftRelease)
    /\ keyboard_buffer' = IF capslock_on THEN caps[code]
                          ELSE IF shift_on' THEN shifted[code]
                          ELSE plain[code]
    /\ UNCHANGED << keyboard_input_on, capslock_on, command, screen >>

KeyboardIsr(code) ==
    \/ Ignored(code) \/ ToggleCapslock(code)
    \/ MoveByArrow(code) \/ ArrowStays(code) \/ BufferCharacter(code)

-----------------------------------------------------------------------------
AddCommand(c)   == Append(command, c)
DeleteCommand == IF command = << >> THEN command ELSE SubSeq(command, 1, Len(command) - 1)

(* System call 4, up to the copy of the command line for the caller. *)
KeepKeyboardBuffer ==
    /\ command' = IF keyboard_buffer = BackSpace THEN DeleteCommand
                  ELSE IF keyboard_buffer \in {NoChar, NewLine} THEN command
                  ELSE AddCommand(keyboard_buffer)
    /\ UNCHANGED << keyboard_buffer, keyboard_input_on, capslock_on, shift_on >>
GetKeyboardBuffer ==
    /\ keyboard_buffer' = NoChar
    /\ command' = IF keyboard_buffer = BackSpace THEN DeleteCommand
                  ELSE IF keyboard_buffer \in {NoChar, NewLine} THEN command
                  ELSE AddCommand(keyboard_buffer)
    /\ UNCHANGED << keyboard_input_on, capslock_on, shift_on >>

(* System call 17. *)
ClearCommand ==
    /\ command' = << >>
    /\ UNCHANGED << keyboard_input_on, capslock_on, shift_on, keyboard_buffer >>

KeyboardTypeOK ==
    /\ keyboard_input_on \in BOOLEAN /\ capslock_on \in BOOLEAN /\ shift_on \in BOOLEAN
    /\ keyboard_buffer \in Characters \cup {NoChar}
    /\ command \in Seq(Characters \ {NewLine, BackSpace})
=============================================================================
