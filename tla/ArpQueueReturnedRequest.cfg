CONSTANTS
    IP <- MCIP
    NoIP = "none"
    Id = {1, 2}
    Iface <- MCIface
    rtable <- MCrtable
    ifip <- MCifip
    Packets <- Crossing
    Req = {a, b, c, d}
    NULL = NULL
    MaxTries = 5
    StackLimit = 8

SPECIFICATION Spec
SYMMETRY ReqSymmetry

INVARIANTS
    ReturnedRequestLive
