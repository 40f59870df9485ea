SPECIFICATION Spec
CONSTANTS
    Board = "mx8mm"
    BootLimit = 2
    MaxCuts = 0
    ExtMedia = FALSE
    EarlyUpdater = FALSE
INVARIANTS ConfirmedWhole
