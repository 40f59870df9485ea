SPECIFICATION Spec
CONSTANTS
    MaxTid = 16
    WinSize = 4
    First = 13
    Last = 18
    MaxAhead = 0
    Suspends = FALSE
    EarlyBars = {}
INVARIANTS InOrder
