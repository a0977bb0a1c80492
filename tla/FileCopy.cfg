SPECIFICATION CopySpec
CONSTANTS
    Total = 4
    MinSizes = {4, 5}
    ChunkSize = 2
    MaxRetries = 2
    MaxResumes = 2
    Lengths = {0, 2, 3}
    MaxVersion = 2
    MaxRuns = 3
    Sizes = {0, 3, 5}
    RpcChunk = 2
    PipeSize = 1
    MaxCalls = 2
INVARIANTS
    PartialIsPrefix
    PartIsPrefix
    RpcFileIsSource
    UnpackedIsWhole
PROPERTIES
    ReplacedIsWhole
    CopyEnds
CHECK_DEADLOCK FALSE
