SPECIFICATION FairSpec
CONSTANTS
    NoOp = NoOp
    NoCall = NoCall
    Screens = {"main", "swap"}
    Ops = {o1, o2}
    Calls = {k1, k2}
    Choices <- HotChoices
    MaxTxns = 2
PROPERTIES
    LockIsReleased
CHECK_DEADLOCK FALSE
