SPECIFICATION Spec
CONSTANTS
    Size = 6
    Slots = {1, 2, 3}
    MaxRefNum = 4
    Writers = {w1}
    Senders = {s1}
    Lens = {2}
    WalBuffers = 2
    BlockSize = 3
    DirectIO = TRUE
    MaxLsn = 7
INVARIANTS
    TypeOK
    VisitNamesPosition
    ReadyMeansWhole
    WorkingRefHeld
PROPERTIES
    NoGap
    SavedInOrder
CHECK_DEADLOCK FALSE
