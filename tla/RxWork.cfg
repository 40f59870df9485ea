SPECIFICATION Spec
CONSTANTS
    High = 1
    Low = 1
    Ports = 2
    Events = {"addba", "delba", "sync", "ps_sleep"}
    MaxIrqs = 2
    MaxRoles = 1
INVARIANTS TypeOK Exclusion QueueBound NotForgotten HeldWatched WorkInv
CHECK_DEADLOCK FALSE
