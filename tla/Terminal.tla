------------------------------ MODULE Terminal ------------------------------
(***************************************************************************)
(* The conversation of the shells (user-shell.c) with the keyboard and the *)
(* screen.  Every shell polls the one keyboard buffer with system call 4   *)
(* and echoes what it got with system call 5: between the two, another     *)
(* shell, a key or the clock may come in.  Within a system call nothing    *)
(* comes in; printing is the rest of what the current one has to print.    *)
(*                                                                         *)
(* What a command prints is one of Outputs, and what the prompt prints is  *)
(* Prompt: each is a sequence of calls of puts.  The commands themselves   *)
(* are the modules Shell and FileCommands.                                 *)
(***************************************************************************)
EXTENDS Keyboard

Line == INSTANCE Words WITH Separator <- Blank

CONSTANTS
    Shells,
    Prompt,     \* non-empty sequence of texts, the last of which is PromptEnd
    PromptEnd,
    Outputs,    \* set of sequences of texts
    Digit,      \* what the clock draws
    MaxKeys     \* bound: the number of scancodes the keyboard sends

ASSUME TextAssumption ==
    /\ Prompt \in Seq(Seq(Characters)) /\ Prompt # << >>
    /\ PromptEnd \in Seq(Printable) /\ Prompt[Len(Prompt)] = PromptEnd
    /\ Outputs \subseteq Seq(Seq(Characters))
    /\ Digit \in Printable
ASSUME MaxKeysAssumption == MaxKeys \in Nat

VARIABLES
    pc, calls,      \* by shell: control state, calls of puts still to make
    buf, idx,       \* by shell: the locals of main, idx as of its last call
    printing,       \* the rest of the text that the kernel is printing
    disturbed,      \* BOOLEAN, history: see ScreenShowsCommand
    keys            \* the number of scancodes so far

shellVars    == << pc, calls, buf, idx >>
terminalVars == << screen, keyboardVars, shellVars, printing, disturbed, keys >>

TerminalInit ==
    /\ ScreenInit /\ KeyboardInit
    /\ pc = [s \in Shells |-> "start"]
    /\ calls = [s \in Shells |-> << >>]
    /\ buf = [s \in Shells |-> NoChar]
    /\ idx = [s \in Shells |-> 0]
    /\ printing = << >>
    /\ disturbed = TRUE
    /\ keys = 0

Goto(s, label) == pc' = [pc EXCEPT ![s] = label]

(* Some shell has taken a character and has not acted on it. *)
Pending == {s \in Shells : pc[s] \in {"echo", "clear"}}

-----------------------------------------------------------------------------
Start(s) ==
    /\ pc[s] = "start"
    /\ KeyboardStateActivate
    /\ calls' = [calls EXCEPT ![s] = Prompt]
    /\ Goto(s, "print")
    /\ UNCHANGED << screen, buf, idx, printing, disturbed >>

(* The last text is the end of the prompt: a new line begins. *)
Puts(s) ==
    LET last == Len(calls[s]) = 1
    IN  /\ pc[s] = "print"
        /\ printing' = Head(calls[s])
        /\ calls' = [calls EXCEPT ![s] = Tail(@)]
        /\ idx' = [idx EXCEPT ![s] = 0]
        /\ Goto(s, IF last THEN "poll" ELSE "print")
        /\ disturbed' = ~(last /\ command = << >> /\ Pending = {})
        /\ UNCHANGED << screen, keyboardVars, buf >>

(* One iteration of the loop that reads a command, up to its echo. *)
EchoesBlindly(s) == keyboard_buffer \notin {NoChar, NewLine}
Echoes(s) ==
    \/ keyboard_buffer = BackSpace /\ Len(command') # idx[s]
    \/ keyboard_buffer \notin {BackSpace, NoChar, NewLine}

Poll(s) ==
    /\ pc[s] = "poll"
    /\ GetKeyboardBuffer
    /\ buf' = [buf EXCEPT ![s] = keyboard_buffer]
    /\ idx' = [idx EXCEPT ![s] = Len(command')]
    /\ Goto(s, CASE keyboard_buffer = NewLine -> "clear"
                 [] Echoes(s)                 -> "echo"
                 [] OTHER                     -> "poll")
    /\ disturbed' = (disturbed \/ /\ keyboard_buffer # NoChar
                                  /\ idx[s] # Len(command) \/ Pending # {})
    /\ UNCHANGED << screen, calls, printing >>

Echo(s) ==
    /\ pc[s] = "echo"
    /\ printing' = << buf[s] >>
    /\ Goto(s, "poll")
    /\ UNCHANGED << screen, keyboardVars, calls, buf, idx, disturbed >>

Clear(s) ==
    /\ pc[s] = "clear"
    /\ ClearCommand
    /\ disturbed' = TRUE
    /\ Goto(s, "run")
    /\ UNCHANGED << screen, calls, buf, idx, printing >>

(* A command, followed by the next prompt. *)
Run(s) ==
    /\ pc[s] = "run"
    /\ \E out \in Outputs :
          calls' = [calls EXCEPT ![s] = << << NewLine >> >> \o out \o Prompt]
    /\ Goto(s, "print")
    /\ UNCHANGED << screen, keyboardVars, buf, idx, printing, disturbed >>

RunClear(s) ==
    /\ pc[s] = "run"
    /\ FramebufferClear
    /\ calls' = [calls EXCEPT ![s] = Prompt]
    /\ disturbed' = TRUE
    /\ Goto(s, "print")
    /\ UNCHANGED << keyboardVars, buf, idx, printing >>

ShellStep(s) ==
    /\ printing = << >>
    /\ UNCHANGED keys
    /\ \/ Start(s) \/ Puts(s) \/ Poll(s) \/ Echo(s) \/ Clear(s) \/ Run(s) \/ RunClear(s)

-----------------------------------------------------------------------------
(* The character that is printed reaches the last cell but one of the last *)
(* row: putchar scrolls before that row is full.                           *)
AtCorner(ch) ==
    ch \in Printable /\ screen.row = LastRow /\ screen.col >= LastCol - 1

Continue == printing # << >> /\ printing' = Tail(printing)

PrintNext ==
    /\ Continue
    /\ PrintChar(Head(printing))
    /\ disturbed' = (disturbed \/ Head(printing) = Tab \/ AtCorner(Head(printing)))
    /\ UNCHANGED << keyboardVars, shellVars, keys >>

Key(code) ==
    /\ printing = << >> /\ keys < MaxKeys
    /\ KeyboardIsr(code)
    /\ keys' = keys + 1
    /\ disturbed' = (disturbed \/ screen' # screen)
    /\ UNCHANGED << shellVars, printing >>

(* The clock program. *)
Clock ==
    /\ printing = << >>
    /\ DrawClock(Digit)
    /\ disturbed' = TRUE
    /\ UNCHANGED << keyboardVars, shellVars, printing, keys >>

TerminalNext ==
    \/ \E s \in Shells : ShellStep(s)
    \/ PrintNext
    \/ \E code \in Scancodes : Key(code)
    \/ Clock

TerminalSpec == TerminalInit /\ [][TerminalNext]_terminalVars

(* A system call runs to its end, and the scheduler runs every shell. *)
FairTerminalSpec ==
    TerminalSpec /\ WF_printing(Continue)
                 /\ \A s \in Shells : WF_terminalVars(ShellStep(s))

-----------------------------------------------------------------------------
TerminalTypeOK ==
    /\ ScreenTypeOK /\ KeyboardTypeOK
    /\ pc \in [Shells -> {"start", "print", "poll", "echo", "clear", "run"}]
    /\ calls \in [Shells -> Seq(Seq(Characters))]
    /\ \A s \in Shells : pc[s] = "print" => calls[s] # << >>
    /\ buf \in [Shells -> Characters \cup {NoChar}]
    /\ idx \in [Shells -> Nat]
    /\ printing \in Seq(Characters)
    /\ \A s \in Shells : pc[s] = "echo" => buf[s] \in Characters
    /\ disturbed \in BOOLEAN
    /\ keys \in 0 .. MaxKeys

(* Whoever waits for a key sees in front of the cursor the prompt and the  *)
(* command line as the kernel has it, backspaces included and over the end *)
(* of lines: the echo of the shell, which goes by its own copy of idx, and *)
(* the buffer of the kernel agree.  It is not so after an arrow key, a     *)
(* tab, the clock or the corner of the screen, where the screen scrolls,   *)
(* or when several shells take the characters of one line.                 *)
ScreenShowsCommand ==
    ~disturbed /\ printing = << >> /\ (\E s \in Shells : pc[s] = "poll") /\ Pending = {}
        => ShownBeforeCursor(PromptEnd \o command)

(* The line as the shell would split it, whatever was typed and erased:    *)
(* its words, but for the two cases that Words names.                      *)
LineIsSplit == Line!SplitsIntoWords(command)

(* Printing a character never alters a line above the cursor, nor a        *)
(* newline the line it ends: such a line stays, or moves up by the number  *)
(* of lines that the screen scrolls, which is two only behind the last     *)
(* column.  Only a backspace at the first column erases the end of the     *)
(* line above.  A tab is four characters.                                  *)
LinesAboveAreKept ==
    [][PrintNext /\ Head(printing) # Tab =>
          \E k \in 0 .. (IF screen.col = LastCol THEN 2 ELSE 1) :
          \A r \in k .. screen.row - (IF Head(printing) = NewLine THEN 0 ELSE 1) :
              \/ Head(printing) = BackSpace /\ r = screen.row - 1
              \/ screen'.cell[r - k] = screen.cell[r]]_terminalVars

(* No key stays in the buffer: some shell asks for it, whatever the others *)
(* are printing.                                                           *)
KeysAreTaken == keyboard_buffer # NoChar ~> keyboard_buffer = NoChar
=============================================================================
