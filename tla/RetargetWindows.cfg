SPECIFICATION Spec
CONSTANTS
    BYTE = 4
    WORD = 4096
    LONG = 65536
    HASH_BYTES = 8
    BLOCK_TIME_TARGET = 8
    EARLY_PHASE = 5
    DIFFICULTY_INTERVAL = 3
    EASY_MINE_DIFFICULTY <- MCEasy
    MAX_EXPONENT = 12
    GenesisTime <- MCGenesisTime
    Clock <- MCClock
    MaxHeight = 6
INVARIANT TypeOK
 
PROPERTY OnTimeKeepsExponent
PROPERTY BackwardsIsSlowest
PROPERTY FastIsHarder
CHECK_DEADLOCK FALSE
