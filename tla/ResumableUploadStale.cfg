SPECIFICATION Spec
CONSTANTS
    Total = 2
    MinSizes = {0}
    ChunkSize = 1
    MaxRetries = 1
INVARIANTS
    CommittedIsSource
