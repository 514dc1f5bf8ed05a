SPECIFICATION Spec
CONSTANTS
    BATCH_SIZE = 2
    CHUNK_SIZE = 2
    WINDOW_SIZE = 4
    sample_indices <- MCSampleIndices
    Premine = 6
    MaxOutputs = 2
    MaxInputs = 2
    MaxLeafs = 9
    MaxRemovals = 2
    MaxReverts = 1
INVARIANTS ArchivalIsTheChain ProofIsRestored VerifiesUntilRemoved PendingStaysValid
CHECK_DEADLOCK FALSE
