CONSTANTS
    ChunkSize = 2
    MaxChunks = 2
SPECIFICATION Spec
INVARIANTS TypeOK NoneLost
PROPERTY Implements
