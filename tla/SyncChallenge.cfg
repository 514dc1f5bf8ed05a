SPECIFICATION Spec
CONSTANTS
    LIMB_BITS = 6
    DIFFICULTY_NUM_LIMBS = 3
    MINIMUM_DIFFICULTY = 5
    TARGET_BLOCK_INTERVAL = 5
    MINIMUM_BLOCK_TIME = 1
    WAIT_LOG2 = 2
    FACTOR_LOG2 = 2
    GenesisDifficulties <- MCGenesisDifficulties
    BlockTimes = {1, 4, 7, 60}
    MaxHeight = 4
    MaxReorgs = 1
    SYNC_CHALLENGE_NUM_BLOCK_PAIRS = 2
    SYNC_CHALLENGE_POW_WITNESS_LENGTH = 2
    SYNC_MODE_THRESHOLD = 2
INVARIANTS
    DifficultyIsExact
    LongerWaitIsNeverHarder
PROPERTIES
    HonestAnswerIsTrusted
CHECK_DEADLOCK FALSE
