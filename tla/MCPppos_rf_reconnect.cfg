SPECIFICATION Spec
CONSTANTS
    Clients = {gprs}
    Initiator = gprs
    NCmds = 9
    RegCmd = 7
    MaxFail = 20
    Ops <- AllOps
    Faults <- NoFaults
INVARIANT EndsOnlyOnRequest
CHECK_DEADLOCK FALSE
