SPECIFICATION FairSpec
CONSTANTS
    Size = 9
    Slots = {1, 2}
    MaxRefNum = 2
    Writers = {w1, w2}
    Senders = {}
    Lens = {2}
    WalBuffers = 2
    BlockSize = 3
    DirectIO = TRUE
    MaxLsn = 9
INVARIANTS
    VisitNamesPosition
PROPERTIES
    WriterServed
