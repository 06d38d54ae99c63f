\* A deletion of the name of an empty entry.
CONSTANTS
    CLUSTER_MAP_SIZE = 6
    Entries <- MCEntries
    a = a
    b = b
    x = x
    Names = {a, NoName}
    NoName = NoName
    Payloads = {x}
    MaxSize = 1
SPECIFICATION Spec
INVARIANTS
    BootSectorIsKept
CONSTRAINT UntilDefect
CHECK_DEADLOCK FALSE
