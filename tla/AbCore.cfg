SPECIFICATION FairSpec
CONSTANTS
    Board = "mx6ul"
    BootLimit = 3
    MaxCuts = 2
    ExtMedia = FALSE
    EarlyUpdater = FALSE
INVARIANTS Rescue FallbackStarts FallbackArmed HangIsWatched RescueInv
PROPERTIES Recovers KeepsPromise
