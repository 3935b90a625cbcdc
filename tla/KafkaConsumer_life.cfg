\* Two topics, one of which seeks; two disconnects; any request may be rejected.
CONSTANTS
    t1 = t1  t2 = t2  d1 = d1  d2 = d2
    Topics = {t1, t2}
    Seeks = {t1}
    Attempts = 2
    Disconnects = {d1, d2}
    Faults = TRUE
SPECIFICATION FairSpec
INVARIANTS Positioned ClosedUnlessOverlapped
PROPERTIES InitEnds DisconnectEnds
CHECK_DEADLOCK FALSE
