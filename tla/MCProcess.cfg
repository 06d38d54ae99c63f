\* One shell and memory for every slot: 4 slots of 2 pages, 9 usable frames.
CONSTANTS
    PAGE_FRAME_MAX_COUNT = 10
    PAGING_DIRECTORY_TABLE_MAX_COUNT = 8
    PROCESS_PAGE_FRAME_COUNT_MAX = 2
    PROCESS_COUNT_MAX = 4
    shell = shell
    clock = clock
    huge = huge
    Programs = {shell, clock, huge}
    Shells = {shell}
    Executables = {clock, huge}
    InitProgram = shell
    PagesOf <- MCPagesOf
SPECIFICATION FairSpec
INVARIANTS
    ProcessTypeOK
    CountIsActiveSlots
    NoFrameIsShared
    CreatedProcessHasItsPages
PROPERTIES
    PidsAreFresh
    TurnComesCloser
    NobodyStarves
    PagingSpec
