CONSTANTS
    SOL = SOL  A = A  B = B
    Texts = {"none", "success"}
    MaxDeeds = 2
    Cuts = {}
SPECIFICATION MCSpec
INVARIANT StackNeverEmpty
CHECK_DEADLOCK FALSE
