SPECIFICATION FairSpec
CONSTANTS
    Clients = {gprs}
    Initiator = gprs
    NCmds = 9
    RegCmd = 7
    MaxFail = 20
    Ops <- DisconnectOps
    Faults <- RunningFaults
INVARIANT DisconnectHolds
PROPERTIES LossAnswered RequestServed InitReturns
CHECK_DEADLOCK FALSE
