SPECIFICATION Spec
CONSTANTS
    Others = {t1, t2}
    Capacity = 1
INVARIANT NoCircularWait
CHECK_DEADLOCK FALSE
SYMMETRY Symmetry
