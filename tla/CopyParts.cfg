CONSTANTS
    o1 = o1  o2 = o2  o3 = o3  o4 = o4  w1 = w1  w2 = w2
    sol = sol  tokA = tokA  tokB = tokB  A = A  B = B  SOL = SOL
    Orders = {o1, o2, o4}
    SwapOf <- Swaps
    Wallets = {w1, w2}
    Tokens = {sol, tokA, tokB}
    Static = {sol}
    Tiers <- OneTier
    Yields = {4}
    MoonbagBps = 2500
    SendTxnRetries = 1
    MaxRestarts = 1
    MaxSnapshots = 1
    None = None
    Capacity = 6
    MaxInserts = 10
    MaxRemaining = 1
    Texts = {"none", "plain", "invoke", "success"}
    MaxDeeds = 2
    Cuts = {0, 3}
    MaxSlot = 1
    MaxPollErrors = 0
    MaxAhead = 2
    SlotCapacity = 1
    Receivers = {"leaders"}
    LeaderOf <- Schedule
    Unlisted = {2}
    Offset = 1
    NumLeaders = 2
    SlotsPerLeader = 2
    Window = 4
SPECIFICATION MCSpec
INVARIANTS OneBuyPerPing CountsHaveVolumes ShedOnlyOld
           DecodedAsBuilt InfosCoverMetas EventsAttributed SwapIsExact LeaderWindow
PROPERTIES NotificationsAdvance
CHECK_DEADLOCK FALSE
