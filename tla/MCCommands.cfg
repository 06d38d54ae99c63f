SPECIFICATION FairCommandsSpec
CONSTANTS
    Names <- MCNames
    Payloads <- MCPayloads
    InitialFiles <- MCFiles
    Prefix <- MCPrefix
    Paths <- MCPaths
    Garbage = "garbage"
    MaxSize = 2
    Folders = {3, 4}
    Root = 2
    Capacity = 7
    BootCluster = 0
    FileData = 5
    NOT_FOUND = 9999
INVARIANTS CommandsTypeOK DirectoriesAreATree PathNamesCwd ListingIsCurrent FindIsComplete
PROPERTIES NothingVanishes CommandsEnd
