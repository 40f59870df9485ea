SPECIFICATION Spec
CONSTANTS
    MaxTid = 16
    WinSize = 4
    First = 13
    Last = 17
    MaxAhead = 1
    Suspends = TRUE
    EarlyBars = {"check", "resume"}
INVARIANTS TypeOK Aligned HeadIsHole ReorderInv
