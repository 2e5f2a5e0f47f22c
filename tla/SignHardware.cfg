SPECIFICATION Spec
CONSTANTS
    NoOp = NoOp
    NoCall = NoCall
    Screens = {"main", "swap", "transfer"}
    Ops = {o1, o2}
    Calls = {k1, k2}
    Choices <- HWChoices
    MaxTxns = 2
SYMMETRY Symmetry
INVARIANTS
    TypeOK
    WorkingHoldsTheLock
    HistoryMatchesNetwork
    OneCallPerController
PROPERTIES
    CommittedIsFrozen
    CancelledSendsNoMore
CHECK_DEADLOCK FALSE
