CONSTANTS
    o1 = o1  o2 = o2  o3 = o3  o4 = o4  w1 = w1  w2 = w2
    sol = sol  tokA = tokA  tokB = tokB
    Orders = {o1, o3}
    SwapOf <- Swaps
    Wallets = {w1, w2}
    Tokens = {sol, tokA}
    Static = {sol}
    Tiers <- OneTier
    Yields = {4}
    MoonbagBps = 2500
    SendTxnRetries = 1
    MaxRestarts = 0
    MaxSnapshots = 0
    None = None
SPECIFICATION Spec
INVARIANT ExecutionsWithinTiers
CHECK_DEADLOCK FALSE
