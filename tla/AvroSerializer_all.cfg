\* Two sends to two topics and to one that is not configured, a schema that evolves
\* once, and ids that are old after a tick.
CONSTANTS
    t1 = t1
    t2 = t2
    Sends = {s1, s2}
    Topics = {t1, t2}
    Others = {t3}
    Schema <- BothAndValue
    Interval = 1
    MaxClock = 1
    MaxId = 2
    None = None
SPECIFICATION FairSpec
INVARIANTS FailsForCause RoundTrip
PROPERTIES NeverOlder Ends
CHECK_DEADLOCK FALSE
