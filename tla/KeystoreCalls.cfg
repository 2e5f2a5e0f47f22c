SPECIFICATION Spec
CONSTANTS
    NoValue = NoValue
    Passwords = {p1}
    Values = {p1, p2}
    Internal = {hot}
    External = {device}
    MaxMainKeys = 2
    MaxTogether = 2
INVARIANTS
    TypeOK
    OneMainKey
    KeysSurviveRestart
    QuietKeystoreOpens
PROPERTIES
    ImplementsStatusLock
CONSTRAINT Undisturbed
CHECK_DEADLOCK FALSE
