\* Two requests in flight, three secrets, two addresses; cookies of two ticks; two
\* filters of three values, seven items, three salts.
CONSTANTS
    s1 = s1  s2 = s2  s3 = s3  home = home  mobile = mobile  r1 = r1  r2 = r2
    Secrets = {s1, s2, s3}
    Addresses = {home, mobile}
    Requests = {r1, r2}
    MaxAge = 2
    None = None
    Rules = {"eq", "gt", "in", "isnull"}
    Words = {"abc", "007"}
    Number <- MCNumber
    MaxFilters = 2  MaxValues = 3  MaxTotal = 7
    Services = {"orders"}
    Configs <- MCConfigs
    Volatile = {"redis", "rss"}
    Hashes = {"h1", "h2"}
    Rounds = {0, 3, 4, 10, 12}
    MaxSalts = 3
    Lengths = {1, 3}
    Calls <- MCCalls
    Redactions <- MCRedactions
SPECIFICATION SumSpec
SYMMETRY Symmetry
INVARIANTS RefusedForCause KeptUnlessRaced
INVARIANTS ReadAsWritten PagesCover ReadyForCause NewHashesValid SecretsCensored
PROPERTY SecretNotRenewed
CHECK_DEADLOCK FALSE
