\* Memory for every slot; 4 directories for 3 slots.
CONSTANTS
    PAGE_FRAME_MAX_COUNT = 8
    PAGING_DIRECTORY_TABLE_MAX_COUNT = 4
    PROCESS_PAGE_FRAME_COUNT_MAX = 2
    PROCESS_COUNT_MAX = 3
    shell = shell
    clock = clock
    huge = huge
    Programs = {shell, clock, huge}
    Shells = {shell}
    Executables = {clock}
    InitProgram = shell
    PagesOf <- MCPagesOf
SPECIFICATION Spec
INVARIANTS
    DirectoriesRunOutOnlyInUse
