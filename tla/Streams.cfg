CONSTANTS
    InitialSigs = 0
    MaxSigs = 4
    ErrSigs = {3}
    IgnoreErrors = TRUE
    InitRetries = 1
    MaxAttempts = 1
    MaxTasks = 2
    MaxCommands = 2
    OldSigs = 4
    NewestSig = 6
    FailedSigs = {5}
    IgnoreFailed = TRUE
    Wanted = 3
    PageSize = 2
    RecentRetries = 2
    Requests = 2
    Given <- OneGiven
    Accounts = {a, b}
    MaxTxns = 2
    MaxChanges = 3
    MaxBreaks = 1
SPECIFICATION MCSpec
INVARIANTS NoGap DisorderOnlyAfterFailure NoOrphan PagesJoin AlwaysServed RepeatsOnlyWhileReplacing
PROPERTIES QuitCompletes ChangesApplied
CHECK_DEADLOCK FALSE
