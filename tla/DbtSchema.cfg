SPECIFICATION Spec
CONSTANTS
    Vecs = {chunks}
    Values = {v, w}
    Default = v
    NoValue = NoValue
    Deleted = Deleted
    MaxLen = 3
    MaxPersists = 2
INVARIANTS
    NothingIsMissing
PROPERTIES
    StoreImplemented
