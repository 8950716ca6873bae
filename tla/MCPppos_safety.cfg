SPECIFICATION Spec
CONSTANTS
    Clients = {gprs, app}
    Initiator = gprs
    NCmds = 2
    RegCmd = 2
    MaxFail = 1
    Ops <- AllOps
    Faults <- AllFaults
INVARIANTS TypeOK LinkOwned ConnectedServed PcbLive OneTask InitComplete
PROPERTY Abstract
CHECK_DEADLOCK FALSE
