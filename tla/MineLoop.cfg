SPECIFICATION Spec
CONSTANTS
    g = g  b1 = b1  a1 = a1  a2 = a2  coin = coin
    Blocks <- MCBlocks
    Genesis = g
    Chain <- MCChain
    Utxos = {coin}
    Spends <- MCSpends
    Work <- MCWork
    Roles <- AllRoles
    Capacity = 2
    MaxExported = 1
    Fees = {1}
    None = None
    MaxEvents = 2
INVARIANTS
    WaitIsAnswered
    StaleCompositionIsInterrupted
PROPERTIES
    WaitEnds
    PauseIsHonoured
CHECK_DEADLOCK FALSE
