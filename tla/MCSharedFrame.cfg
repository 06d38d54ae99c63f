\* 5 usable frames for 3 slots of 2 pages.
CONSTANTS
    PAGE_FRAME_MAX_COUNT = 6
    PAGING_DIRECTORY_TABLE_MAX_COUNT = 6
    PROCESS_PAGE_FRAME_COUNT_MAX = 2
    PROCESS_COUNT_MAX = 3
    shell = shell
    clock = clock
    huge = huge
    Programs = {shell, clock, huge}
    Shells = {shell}
    Executables = {clock}
    InitProgram = shell
    PagesOf <- MCPagesOf
SPECIFICATION Spec
INVARIANTS
    NoFrameIsShared
