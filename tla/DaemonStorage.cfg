SPECIFICATION DaemonSpec
CONSTANTS
    Thread = {t1, t2}
    LaunchSet <- MCTwoProcesses
    Home = "home"
    Number <- MCNumber
    ToInt <- MCToInt
    Bits = 1
    Genesis <- MCGenesis
    Payout <- MCPayout
    Seconds <- MCSeconds
    Pooled <- MCPooled
    SaveInterval = 2
    Hit <- MCHitMain
    MaxRuns = 2
    MaxHeight = 2
    MAX_SCRIPT = 10
    NullHash = NullHash
    HashBytes <- MCHashBytes
    MAX_FUTURE = 20
    MAX_MONEY = 20
    BYTE = 4
    WORD = 4096
    LONG = 65536
    HASH_BYTES = 8
    BLOCK_TIME_TARGET = 8
    EARLY_PHASE = 3
    SUBSIDY_HALVING_INTERVAL = 1
    INITIAL_BLOCK_SUBSIDY = 8
INVARIANT StorageTypeOK
PROPERTY ReadBack
INVARIANT FileIsOneRun
INVARIANT ShutdownKeepsSave
PROPERTY ImplementsSnapshot
SYMMETRY MCSymmetry
CHECK_DEADLOCK FALSE
