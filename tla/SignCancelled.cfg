SPECIFICATION Spec
CONSTANTS
    NoOp = NoOp
    NoCall = NoCall
    Screens = {"transfer"}
    Ops = {o1, o2}
    Calls = {k1, k2}
    Choices <- BrokenChoices
    MaxTxns = 2
PROPERTIES
    CancelledBeforeSending
CHECK_DEADLOCK FALSE
