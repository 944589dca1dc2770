CONSTANTS
    b1 = b1  b2 = b2  s1 = s1  A = A  B = B
    Trades = {b1, b2, s1}
    Trade <- Copies
    Tokens = {A, B}
    MoonbagBps = 5000
    ChunkSize = 1
    MaxErrors = 1
    MaxCrashes = 1
    LastSlot = 2
    LastUpdate = 2
    SlotOf <- Announcements
    Workers = {w1, w2}
    Schemes = {"ConfirmedOnly", "FinalizedOnly", "Both"}
    MaxAge = 0
SPECIFICATION MCSpec
INVARIANTS TrackedIsHeld RebuiltFromCopies BlocksOnce WorkersEndByRetries
PROPERTIES OnlySentDustLeaves DustIsSwept AnnouncedIsFetched
CHECK_DEADLOCK FALSE
