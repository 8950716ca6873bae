SPECIFICATION Spec
CONSTANTS
    Clients = {gprs}
    Initiator = gprs
    NCmds = 2
    RegCmd = 2
    MaxFail = 1
    Ops <- NoOps
    Faults <- RunningFaults
INVARIANT ConnectedIsUp
CHECK_DEADLOCK FALSE
