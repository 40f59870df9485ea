SPECIFICATION Spec
CONSTANTS
    Nodes = {n1, n2}
    Bsses = {b1, b2}
    PerBss = 1
    Kinds = {"get", "dump"}
    OwnKinds = {"set"}
    NoResp = {"dump"}
    NoNodeLimit = 1
    MaxInternal = 1
    MaxFailures = 1
    MaxRemoves = 1
    NoNode = NoNode
    NoCmd = NoCmd
    NoReq = NoReq
INVARIANTS RespHasCommand
CHECK_DEADLOCK FALSE
