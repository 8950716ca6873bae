SPECIFICATION MCSpec
CONSTANTS
    o1 = o1
    o2 = o2
    g1 = g1
    t1 = t1
    Options = {o1, o2}
    Groups = {g1}
    Texts = {NoText, t1}
    NoText = NoText
    NoGroup = NoGroup
    AllRow = AllRow
    NoRow = NoRow
    Detached = Detached
    NoTimer = NoTimer
    NoClick = NoClick
    NumberDisplayed = 1
    MaxCalls = 2
    Contents <- ContentsDef
    Disablings <- DisablingsDef
    Owner <- OwnerDef
    Matches <- MatchesDef
    ValueOf <- ValueOfDef
    Configs <- ConfigsDef
    Calls <- CallsDef
INVARIANTS TypeOK Synced MarksRight CaptionRight FilterRight
PROPERTY SparedUntouched
CONSTRAINT CallsBound
CHECK_DEADLOCK FALSE
