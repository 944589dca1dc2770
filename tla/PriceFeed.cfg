CONSTANTS
    SOL = SOL
    Tokens = {SOL, A}
    MaxMoves = 1
    Unpolled = Unpolled
SPECIFICATION FairSpec
PROPERTY StalePricesAreAskedFor
CHECK_DEADLOCK FALSE
