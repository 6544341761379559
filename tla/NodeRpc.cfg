SPECIFICATION MCSpec
CONSTANTS
    BYTE = 8
    BASE = 5
    HASH_LEN = 2
    CHECK_LEN = 1
    ADDRESS_VERSION = 3
    Checksum <- MCChecksum
    Words = 6
    WordCount = 8
    Hash160 <- MCHash160
    LONG = 1000
    MAX_MONEY = 100
    MAX_MEMPOOL_SIZE = 2
    Coins <- MCCoins
    BlockHex = {"block"}
    AcceptsBlock <- MCAcceptsBlock
    Address <- MCAddress
    Secret = "pw"
    Client = {c1}
    Draws <- MCDraws
    Passes = {"", "pw"}
    Absent = Absent
    MaxRuns = 2
    MaxSteps = 5
    MaxStarts = 3
INVARIANT WalletTypeOK
INVARIANT FreshAddresses
INVARIANT CountDecidesReach
INVARIANT FileRestores
PROPERTY StopReturns
INVARIANT AbortNeedsFailure
CHECK_DEADLOCK FALSE
