SPECIFICATION RecoverySpec
CONSTANTS
    NoValue = NoValue
    Passwords = {p1}
    Values = {p1, v1}
    Internal = {hot}
    External = {}
    MaxMainKeys = 2
    MaxTogether = 2
INVARIANTS
    RecoveryTypeOK
    QuietKeystoreOpens
CONSTRAINT Undisturbed
CHECK_DEADLOCK FALSE
