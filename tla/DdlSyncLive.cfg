SPECIFICATION FairSpec
CONSTANTS
    Xacts = {x1}
    Replicas = {n1}
    MaxData = 1
    MaxDisconnects = 2
INVARIANTS
    TypeOK
    ReportedLockHeld
PROPERTIES
    LockLsnMonotone
    WaiterReleased
    ReplicaCatchesUp
CHECK_DEADLOCK FALSE
