SPECIFICATION Spec
CONSTANTS
    acctA = acctA
    acctB = acctB
    t1 = t1
    t2 = t2
    swapReq = swapReq
    transferReq = transferReq
    claimReq = claimReq
    send = send
    sign = sign
    connect = connect
    network = network
    oneClick = oneClick
    None = None
    SwitchId = SwitchId
    BenzinId = BenzinId
    OneClickId = oneClick
    MaxWindows = 1
    Accts <- MCAccts
    Tasks <- MCTasks
    Reqs <- MCReqs
    Kind <- MCKind
    For <- MCFor
    Internal = {swapReq, transferReq, claimReq}
    Swaps = {swapReq}
    Rewards = {claimReq}
    Together = {{acctA, acctB, send, sign}}
SYMMETRY Symmetry
INVARIANTS
    RejectedMessageIsNotAsked
CHECK_DEADLOCK FALSE
