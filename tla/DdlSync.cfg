SPECIFICATION Spec
CONSTANTS
    Xacts = {x1}
    Replicas = {n1, n2}
    MaxData = 0
    MaxDisconnects = 1
SYMMETRY Symmetry
INVARIANTS
    NoQueryDuringFileOp
    OldestApplySafe
CHECK_DEADLOCK FALSE
