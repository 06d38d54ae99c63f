SPECIFICATION FairTerminalSpec
CONSTANTS
    TERMINAL_HEIGHT = 3
    TERMINAL_WIDTH = 3
    Printable <- MCPrintable
    ClockCells <- MCClockCells
    Scancodes <- MCScancodes
    plain <- MCPlain
    shifted <- MCShifted
    caps <- MCShifted
    Shells = {s1, s2}
    Prompt <- MCPrompt
    PromptEnd <- MCPromptEnd
    Outputs <- MCOutputs
    Digit = "A"
    MaxKeys = 3
INVARIANTS TerminalTypeOK ScreenShowsCommand LineIsSplit
PROPERTIES LinesAboveAreKept KeysAreTaken
