SPECIFICATION Spec
CONSTANTS
    NoAccount = NoAccount
    Accounts = {a1, private}
    PrivateAccount = private
    Chains = {c1}
    Kinds = {"UserOperation", "MultipleTxns", "PrivacyPoolsRelayer"}
    MaxItems = 1
    BannerWindow = 2
    MaxCalls = 2
    BatchSizes = {2}
    Refreshes = {r1, r2}
    MaxOps = 2
    Closable = {}
    Viewable = {}
INVARIANTS
    BatchSettlesInOrder
    RacelessStatusIsOwn
CHECK_DEADLOCK FALSE
