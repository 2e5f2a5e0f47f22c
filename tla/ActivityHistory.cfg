SPECIFICATION Spec
CONSTANTS
    NoAccount = NoAccount
    Accounts = {a1, private}
    PrivateAccount = private
    Chains = {c1}
    Kinds = {"Relayer", "ImportedAccount"}
    MaxItems = 2
    BannerWindow = 2
    MaxCalls = 2
    BatchSizes = {1}
    Refreshes = {r1}
    MaxOps = 3
    Closable = {1}
    Viewable = {a1}
INVARIANTS
    TypeOK
    HistoryBounded
    QuietHistoryIsStored
    ViewIsCurrent
PROPERTIES
    TrimKeepsNewest
    OnlyConfirmedBannersAreHidden
CHECK_DEADLOCK FALSE
