SPECIFICATION Spec
CONSTANTS
    Board = "mx8mm"
    BootLimit = 2
    MaxCuts = 1
    ExtMedia = TRUE
    EarlyUpdater = TRUE
INVARIANTS TypeOK TargetsAgree TargetInv
PROPERTIES RunningSlotUntouched
CHECK_DEADLOCK FALSE
