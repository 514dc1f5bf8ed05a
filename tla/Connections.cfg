SPECIFICATION Spec
CONSTANTS
    t1 = t1
    t2 = t2
    Tasks <- MCTasks
    Callers = {"caller", "other"}
    Listeners = {"cli"}
    Ip <- MCIp
    Listen <- MCListen
    Reports <- MCReports
    Gossip <- MCGossip
    Own = "own"
    Incompatible = {}
    CliPeers = {"cli"}
    CliBans = {}
    MaxPeers = 2
    MaxPerIp = 1
    Tolerance = 1
    Severities <- MCSeverities
    MaxPotential = 0
    Capacity = 1
    None = None
SYMMETRY MCSymmetry
INVARIANTS
    PeerMapIsSound
    EntriesMatchTasks
    BanIsRemembered
CHECK_DEADLOCK FALSE
