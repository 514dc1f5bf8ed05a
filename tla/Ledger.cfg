SPECIFICATION Spec
CONSTANTS
    Premine <- MCPremine
    PREMINE_LOCK = 1
    INITIAL_BLOCK_SUBSIDY = 4
    BLOCKS_PER_GENERATION = 2
    MINIMUM_BLOCK_TIME = 1
    FUTUREDATING_LIMIT = 1
    MINING_REWARD_TIME_LOCK_PERIOD = 2
    TIME_LOCK_MARGIN = 1
    MAX_NUM_TXS_TO_MERGE = 2
    MAX_AMOUNT = 20
    BATCH_SIZE = 2
    Payments = {1}
    Fees = {1}
    GuesserFees = {1, 4}
    DatedAhead = 1
    DatedBack = 0
    MaxTime = 3
    MaxHeight = 2
    MaxInitiated = 2
INVARIANTS
    SupplyIsAccountedFor
    NoEarlySpend
    
    TemplatesAreValid
CHECK_DEADLOCK FALSE
