\* The consumer crashes.
CONSTANTS
    t1 = t1  t2 = t2  d1 = d1  d2 = d2
    Topics = {t1}
    Seeks = {t1}
    Attempts = 2
    Disconnects = {d1}
    Faults = TRUE
SPECIFICATION Spec
INVARIANT ConnectedIsTrue
CHECK_DEADLOCK FALSE
