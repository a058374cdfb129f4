CONSTANTS
    BlockSize = 8
    Word = 128
    ChunkSize = 10
    MaxLength = 20
    MaxDigests = 2
SPECIFICATION Spec
INVARIANTS TypeOK DigestIsRight
PROPERTY DigestIsStable
