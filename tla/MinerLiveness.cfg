SPECIFICATION GrowthSpec
CONSTANTS
    Thread = {t1, t2}
    Block = {}
    Height = {}
    NullHash = NullHash
    Genesis <- MCGenesis
    HashBytes <- MCZeros
    Tx = {}
    Payout = Payout
    EASY_MINE_DIFFICULTY <- MCEasy
    MAX_MEMPOOL_SIZE = 1
    MaxNonce = 0
    MaxHeight = 3
    Clock = {20, 30}
    MAX_FUTURE = 20
    MAX_MONEY = 20
    BYTE = 4
    WORD = 4096
    LONG = 65536
    HASH_BYTES = 4
    BLOCK_TIME_TARGET = 8
    EARLY_PHASE = 3
    DIFFICULTY_INTERVAL = 10
    SaveInterval = 100
    SUBSIDY_HALVING_INTERVAL = 100
    INITIAL_BLOCK_SUBSIDY = 8
CHECK_DEADLOCK FALSE
PROPERTY StopReturns
PROPERTY MiningGrows
