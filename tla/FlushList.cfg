SPECIFICATION FairSpec
CONSTANTS
    Buffers = {b1, b2, b3, b4}
    EndOfList = EndOfList
    NotInList = NotInList
    FlushBatchSize = 2
    RoundSize = 2
    MaxLsn = 3
INVARIANTS
    TypeOK
    ListIntact
    HeadIsOldest
    NeverOutOfOrder
    CursorInList
PROPERTIES
    RefinesQueue
    HeadServed
