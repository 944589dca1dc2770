CONSTANTS
    o1 = o1  o2 = o2  o3 = o3  w1 = w1  w2 = w2  A = A  B = B
    Orders = {o1}
    Swap <- SellAll
    Wallets = {w1}
    InitWallets = {w1}
    BuyDisabledWallets = {}
    SOL = SOL
    Tokens = {SOL, A, B}
    Static = {SOL}
    MinInput = 1
    MaxInput = 4
    Yields = {2}
    MoonbagBps = 0
    MinFee = 2  MaxFee = 5  FeeIncrease = 1
    Tips = {3}
    SendJitoDefault = FALSE
    MaxExecutionQueue = 3
    MaxPending = 3
    ExecutionRetries = 1
    SendTxnRetries = 1
    ConfirmedErrorRetries = 1
    Bootstrap <- Holding
    FalseUnconfirmed = FALSE
    NoHistory = NoHistory
SPECIFICATION Spec
INVARIANT RetryIsNotSkipped
CHECK_DEADLOCK FALSE
