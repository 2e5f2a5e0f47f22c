SPECIFICATION Spec
CONSTANTS
    urlA = urlA
    urlB = urlB
    addrA = addrA
    addrB = addrB
    k1 = k1
    k2 = k2
    None = None
    Unset = Unset
    Users = {u1, u2}
    Schedules <- OneVesting
    Penalties = {1}
    Rages = {1}
    Whole = 2
    Delays = {1}
    MaxSupply = 7
    Amounts = {1, 2}
    Grants = {2}
    Roots <- OneRoot
    MaxTime = 3
    MaxCalls = 4
    Keys = {k1, k2}
    Owners = {k1}
    Entry = entry
    Rec = rec
    Recoveries <- TwoRecoveries
    LockTime = 1
    WaitAdded = 1
    WaitRemoved = 1
    Settings <- ThreeSettings
    MaxDepth = 2
    MaxOperations = 1
    MaxNonce = 2
    MaxTimestamp = 2
    NetChains = {1, 2}
    Defaults = {1}
    Urls = {urlA, urlB}
    Home = urlA
    NetStorages <- ThreeStorages
    Configs <- TwoConfigs
    Syncs = {s1, s2}
    Budgets <- TwoBudgets
    Current = Current
    Wallets = {addrA, addrB}
    Keyed = {addrA}
    Smart = {addrB}
    AccountStarts <- TwoStarts
    Enabled = {1}
    NetIds = {1, 2}
    Moves = 2
    Chains = {1}
    Lights = {{}, {1}}
    Batches = {opA}
    Asks = 2
    Upsets = 1
    ShownNets = {1, 2}
    SimulatedOps = {opA}
    SelectStarts = {None, addrA}
    SelectBudgets <- TwoSelections
    DefiNets = {1}
    Updates = 2
    Removals = 1
    Restarts = 1
    Stops = 2
    KeystoreKeys = {k1, k2}
    KeyChanges = 3
    PickSources = {s1, s2}
    Paths = {p1, p2}
    LastPage = 2
    PickerTurns = 3
    Updaters = {1, 2}
    LoadCall = 0
    Published = 3
    DappIds = {1, 2}
    Catalog = {1}
    Tabs = {1}
    DappChanges = 2
    Addresses = {addrA, addrB}
    Names = {nameA, nameB}
    Edits = 3
    Saves = 2
    HintTokens = {tokenA, tokenB}
    HintStarts = {{}, {tokenA}}
    Limit = 1
    HintChanges = 2
    Phrases = {seedA}
    Passphrases = {passA}
    Null = Null
    Undefined = Undefined
    Adds = 2
    SeedTurns = 3
INVARIANTS
    ServicesTypeOK
    QuietSelectionServes
    QuietPortfolioIsCurrent
    StoreIsTrue
    PoolIsSound
    AccountIsKept
PROPERTIES
    ShareValueNeverFalls
CHECK_DEADLOCK FALSE
