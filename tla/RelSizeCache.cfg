SPECIFICATION Spec
CONSTANTS
    Rels = {r1, r2}
    Entries = {e1, e2}
    Backends = {b1, b2}
    None = None
    MaxBlocks = 1
    MaxGen = 4
    ReplicaGen = 1
SYMMETRY Symmetry
INVARIANTS
    MappingSound
    LookupSound
    CacheCoherent
CHECK_DEADLOCK FALSE
