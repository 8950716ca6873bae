SPECIFICATION FairKoSpec
CONSTANTS
    o1 = o1
    o2 = o2
    Options = {o1, o2}
    Groups = {}
    Texts = {NoText}
    NoText = NoText
    NoGroup = NoGroup
    AllRow = AllRow
    NoRow = NoRow
    Detached = Detached
    NoTimer = NoTimer
    NoClick = NoClick
    NumberDisplayed = 1
    MaxCalls = 1
    MaxDue = 2
    Contents <- ContentsDef
    Disablings <- DisablingsDef
    Owner <- OwnerDef
    Matches <- MatchesDef
    ValueOf <- ValueOfDef
    Configs <- ConfigsDef
    Calls <- CallsDef
INVARIANT NoWidgetUnbound
CHECK_DEADLOCK FALSE
