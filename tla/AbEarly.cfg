SPECIFICATION Spec
CONSTANTS
    Board = "mx8mm"
    BootLimit = 2
    MaxCuts = 1
    ExtMedia = FALSE
    EarlyUpdater = TRUE
INVARIANTS FallbackArmed
