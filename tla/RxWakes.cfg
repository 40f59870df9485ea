SPECIFICATION FairSpec
CONSTANTS
    High = 1
    Low = 1
    Ports = 1
    Events = {"addba", "ps_sleep"}
    MaxIrqs = 3
    MaxRoles = 0
PROPERTIES BlockEnds Processed DeliveredUnlessLeft HeldGoesUp
CHECK_DEADLOCK FALSE
