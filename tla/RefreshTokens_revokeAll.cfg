\* A login and two global logouts, nothing fails.
CONSTANTS
    Users = {u1}
    Tokens = {t1}
    Requests = {r1, r2, r3}
    Ops = {"generateTokens", "revokeAllForUser"}
    TTL = 2
    Faults = FALSE
    None = None
    Login = Login
SPECIFICATION Spec
INVARIANT RevokeAllRevokes
CHECK_DEADLOCK FALSE
