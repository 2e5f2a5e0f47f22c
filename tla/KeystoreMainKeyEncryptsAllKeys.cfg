SPECIFICATION RecoverySpec
CONSTANTS
    NoValue = NoValue
    Passwords = {p1}
    Values = {p1, v1}
    Internal = {hot}
    External = {}
    MaxMainKeys = 2
    MaxTogether = 2
INVARIANTS
    MainKeyEncryptsAllKeys
CHECK_DEADLOCK FALSE
