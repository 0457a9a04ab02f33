SPECIFICATION Spec
CONSTANTS
    Rels = {r1}
    Entries = {e1}
    Backends = {b1, b2}
    None = None
    MaxBlocks = 1
    MaxGen = 4
    ReplicaGen = 1
INVARIANT
    ReplicaLookupSound
CHECK_DEADLOCK FALSE
