\* One shell whose kill finds stale pids; 5 usable frames, programs of 2 and 3 pages.
CONSTANTS
    PAGE_FRAME_MAX_COUNT = 6
    PAGING_DIRECTORY_TABLE_MAX_COUNT = 6
    PROCESS_PAGE_FRAME_COUNT_MAX = 3
    PROCESS_COUNT_MAX = 3
    shell = shell
    clock = clock
    large = large
    huge = huge
    Programs = {shell, clock, large, huge}
    Shells = {shell}
    Executables = {clock, large, huge}
    InitProgram = shell
    PagesOf <- MCPagesOf
SPECIFICATION ShellSpec
INVARIANTS
    ShellTypeOK
    NothingFreeBelowNext
    FrameConservation
    NoFrameLost
    UnusedDirectoryIsEmpty
    DirectoryPerProcess
    FramesBelongToActive
    RunsInOwnAddressSpace
    ReadTargetIsMapped
    OnlyTheDestroyedFault
PROPERTIES
    OthersUntouched
\* The count that a stale kill makes too low can let a creation search for ever.
CHECK_DEADLOCK FALSE
