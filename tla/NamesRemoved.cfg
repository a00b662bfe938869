SPECIFICATION MCSpec
CONSTANTS
    Halves = {"names"}
    Dbrefs <- MCDbrefs
    Values <- MCValues
    NoObj = NoObj
    SizeOf <- MCSizeOf
    BLOCK_SIZE = 2
    DB_BITBLOCK = 2
    BYTE_BITS = 2
    MaxBlocks = 4
    Names <- MCNames
    NamedDbrefs <- MCNamedDbrefs
    NoDbref = NoDbref
    NAME_CACHE_SIZE = 2
INVARIANTS RemovedNamesGone
