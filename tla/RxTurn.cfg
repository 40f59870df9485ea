SPECIFICATION Spec
CONSTANTS
    MaxTid = 16
    WinSize = 4
    First = 0
    Last = 5
    MaxAhead = 1
    Suspends = FALSE
    EarlyBars = {}
INVARIANTS InOrder InOrderInv NoNeedlessDrop
