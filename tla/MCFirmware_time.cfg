SPECIFICATION FairSystem
CONSTANTS
    retry_count = 10
    Clients = {gprs, app}
    Initiator = gprs
    NCmds = 2
    RegCmd = 2
    MaxFail = 1
    Ops <- AllOps
    Faults <- AllFaults
INVARIANTS TimeSetOrFlap FullBudget SntpBalanced
PROPERTIES OnClient Decides
CHECK_DEADLOCK FALSE
