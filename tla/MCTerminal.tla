----------------------------- MODULE MCTerminal -----------------------------
(* A small screen, a letter in both cases, and every kind of key. *)
EXTENDS Terminal
MCPrintable == {Blank, "$", "a", "A"}
MCScancodes == {"a", "space", "enter", "backspace", "tab", Capslock,
                "left shift", "left shift released", "up", "down", "left", "right"}
Letter(code, ch) ==
    CASE code = "a"         -> ch
      [] code = "space"     -> Blank
      [] code = "enter"     -> NewLine
      [] code = "backspace" -> BackSpace
      [] code = "tab"       -> Tab
      [] OTHER              -> NoChar
MCPlain     == [code \in MCScancodes |-> Letter(code, "a")]
MCShifted   == [code \in MCScancodes |-> Letter(code, "A")]
MCPromptEnd == << "$" >>
MCPrompt    == << << NewLine >>, MCPromptEnd >>
MCOutputs   == {<< >>}
MCClockCells == {<< TERMINAL_HEIGHT - 2, 2 >>}
=============================================================================
