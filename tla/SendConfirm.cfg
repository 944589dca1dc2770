CONSTANTS
    t1 = t1  t2 = t2  a = a  b = b  c1 = c1  c2 = c2
    Txns <- TwoTxns
    Sources = {a, b}
    Broadcast = {b}
    SourceOf <- MCSourceOf
    Contents = {c1, c2}
    ContentOf <- DistinctContents
    Valid = 1
    MaxHeight = 2
    MaxSends = 2
    ChunkSize = 1
    NoTxn = NoTxn
SPECIFICATION FairSpec
INVARIANTS TypeOK NoFalseUnconfirmed OneTransmission NoDuplicateRemoval PanicsOnlyForBroadcast
PROPERTIES EventuallyReported ImplementsService
CHECK_DEADLOCK FALSE
