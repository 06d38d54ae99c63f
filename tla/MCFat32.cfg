\* Three clusters to allocate, two names per directory, files of one to three clusters.
CONSTANTS
    CLUSTER_MAP_SIZE = 6
    Entries <- MCEntries
    a = a
    b = b
    x = x
    Names = {a, b, NoName}
    NoName = NoName
    Payloads = {x}
    MaxSize = 3
SPECIFICATION FairSpec
INVARIANTS
    Fat32TypeOK
    ChainsAreSound
    NoClusterIsLost
    FatIsSaved
    FoldersAreTables
PROPERTIES
    IsFileStore
    OperationsEnd
    OperationsGetShorter
CONSTRAINT UntilDefect
CHECK_DEADLOCK FALSE
