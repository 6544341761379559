SPECIFICATION Spec
CONSTANTS
    Thread = {t1}
    Block <- SerialBlocks
    NullHash = NullHash
    Genesis <- G
    HashBytes <- MCHashBytes
    Height = {0, 1, 2, 3, 4}
    Clock = {20, 30}
    MAX_FUTURE = 8
    MAX_MONEY = 8
    BYTE = 4
    WORD = 4096
    LONG = 65536
    HASH_BYTES = 8
    BLOCK_TIME_TARGET = 8
    EARLY_PHASE = 3
    DIFFICULTY_INTERVAL = 2
    SaveInterval = 2
    SUBSIDY_HALVING_INTERVAL = 100
    INITIAL_BLOCK_SUBSIDY = 4
INVARIANT UtxoIsLedger
