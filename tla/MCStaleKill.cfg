\* One shell; kill is typed for any pid ever given out.
CONSTANTS
    PAGE_FRAME_MAX_COUNT = 8
    PAGING_DIRECTORY_TABLE_MAX_COUNT = 5
    PROCESS_PAGE_FRAME_COUNT_MAX = 2
    PROCESS_COUNT_MAX = 3
    shell = shell
    clock = clock
    large = large
    huge = huge
    Programs = {shell, clock, large, huge}
    Shells = {shell}
    Executables = {clock}
    InitProgram = shell
    PagesOf <- MCPagesOf
SPECIFICATION ShellSpec
INVARIANTS
    KillsActiveOnly
CHECK_DEADLOCK FALSE
