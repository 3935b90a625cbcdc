\* Every operation, with faults: three requests of a user over three tokens.
CONSTANTS
    Users = {u1}
    Tokens = {t1, t2, t3}
    Requests = {r1, r2, r3}
    Ops <- AllOps
    TTL = 2
    Faults = TRUE
    None = None
    Login = Login
SPECIFICATION FairSpec
INVARIANTS SingleUse Rotated IndexOutlives Listed RevokeAllReaches
PROPERTIES ImplementsLedger IndexCleared
CHECK_DEADLOCK FALSE
