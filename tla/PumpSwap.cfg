CONSTANTS
    Sol = Sol
    Mints = {Sol, A, B}
    Amounts = {0, 1, 5, 40}
    SlippageBps = 500
    FeeBps = 100
    Curves <- OpenAndComplete
SPECIFICATION Spec
INVARIANT PumpSwapsBuild
CHECK_DEADLOCK FALSE
