\* A slot that held a folder is given to a file.
CONSTANTS
    CLUSTER_MAP_SIZE = 6
    Entries <- MCEntries
    a = a
    b = b
    x = x
    Names = {a, b}
    NoName = NoName
    Payloads = {x}
    MaxSize = 1
SPECIFICATION Spec
INVARIANTS
    FoldersHaveNoSize
CONSTRAINT UntilDefect
CHECK_DEADLOCK FALSE
