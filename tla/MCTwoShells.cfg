\* Shells that load further shells; no stale list is needed.
CONSTANTS
    PAGE_FRAME_MAX_COUNT = 8
    PAGING_DIRECTORY_TABLE_MAX_COUNT = 5
    PROCESS_PAGE_FRAME_COUNT_MAX = 2
    PROCESS_COUNT_MAX = 3
    shell = shell
    clock = clock
    huge = huge
    Programs = {shell, clock, huge}
    Shells = {shell}
    Executables = {shell}
    InitProgram = shell
    PagesOf <- MCPagesOf
SPECIFICATION Spec
INVARIANTS
    OnlyTheDestroyedFault
CHECK_DEADLOCK FALSE
