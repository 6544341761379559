SPECIFICATION FairDaemonSpec
CONSTANTS
    Thread = {t1, t2}
    LaunchSet <- MCOnce
    Home = "home"
    Number <- MCNumber
    ToInt <- MCToInt
    Bits = 1
    Genesis <- MCGenesis
    Payout <- MCPayout
    Seconds <- MCOneSecond
    Pooled <- MCPooled
    SaveInterval = 2
    Hit <- MCHitAnyone
    MaxRuns = 1
    MaxHeight = 2
    MAX_SCRIPT = 10
    NullHash = NullHash
    HashBytes <- MCHashBytes
    MAX_FUTURE = 20
    MAX_MONEY = 20
    BYTE = 4
    WORD = 4096
    LONG = 65536
    HASH_BYTES = 8
    BLOCK_TIME_TARGET = 8
    EARLY_PHASE = 3
    SUBSIDY_HALVING_INTERVAL = 1
    INITIAL_BLOCK_SUBSIDY = 8
PROPERTY ShutdownCompletes
CHECK_DEADLOCK FALSE
