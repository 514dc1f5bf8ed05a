SPECIFICATION Spec
CONSTANTS
    g = g
    a1 = a1
    a2 = a2
    a3 = a3
    b1 = b1
    p = p
    x = x
    y = y
    z = z
    f = f
    Blocks = {g, a1, a2, a3, b1}
    Genesis = g
    Chain <- MCChain
    Utxos <- MCUtxos
    Spends <- MCSpends
    Work <- MCWork
    Records = {p, x, y, z, f}
    Outputs <- MCOutputs
    AnnouncedTo <- MCAnnouncedTo
    Offchain = {y}
    Premine = {p}
    Guessed = {f}
    Reproducible = {}
    ScanHeights = {0, 1, 2, 3}
    FutureKeys = 2
    NumMps = 1
    PruneDepth = 2
    Claimers = {"t1"}
    NoBlock = NoBlock
    Broken = Broken
    MaxKeys = 2
    MaxStarts = 1
INVARIANTS ProofsAreValid ReceivedCoinsAreMonitored PanicIsExplained MonitoredCoinsAreRecoverable
CHECK_DEADLOCK FALSE
