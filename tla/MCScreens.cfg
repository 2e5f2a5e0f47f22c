SPECIFICATION Spec
CONSTANTS
    b1 = b1
    b2 = b2
    t1 = t1
    t2 = t2
    NotYet = NotYet
    None = None
    Forms <- ThreeForms
    RouteNames = {r1, r2}
    Turns = 3
    PoolForms = {f1}
    Owners = {a1, a2}
    Withdrawals = 2
    Steps = 4
    Holders = {a1, a2}
    Indexes = {0, 1}
    Relays = 2
    Syncs = 4
    TransferChains = {c1, c2}
    Sends = {s1, s2}
    TransferUpdates = 4
    ListChains = {c1, c2}
    Sessions = {popup, tab}
    MaxChoices = 3
    Batches = {b1, b2}
    FeeTokens = {t1, t2}
    Covers <- Coverage
    FeeTurns = 3
    MaxLoops = 2
    Messages = {m1, m2}
    Presses = 5
    EmailTurns = 2
    Budgets <- TwoBudgets
    PoolTurns = 4
    Chains = {c1, c2}
    Listed = {u}
    Rare = {v}
    ListTurns = 3
    Routes = {1, 2}
    Swaps = {1}
    Attempts = 2
    Restarts = 1
    Blocks <- TwoBlocks
    Network <- ByBlock
    EthPrices = {12}
    BundlerPrices <- TwoBundlers
    FeeOptions <- ThreeOptions
    MinTip = 8
    MinGas = 10
    RatioOne = 10
    MaxAttempts = 2
    Signatures = 2
INVARIANTS
    ScreensTypeOK
    SignsWhatIsShown
    LoopsAreKept
    FetchingIsCurrent
    RelaysAreRecorded
    SubmitsTheQuote
CHECK_DEADLOCK FALSE
