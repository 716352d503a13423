SPECIFICATION Spec
CONSTANTS
    a = a
    b = b
    v = v
    w = w
    NoData = NoData
    NoBuffer = NoBuffer
    Paths <- MCPaths
    Buffers <- MCBuffers
    NumInodes = 5
    NumBlocks = 4
    DirSlots = 2
    DIRECT_BLOCKS = 2
    MaxFaults = 1
INVARIANTS
    FsInv
    AckedIsRead
    NamedIsInitialised
    FreeCountsSuffice
