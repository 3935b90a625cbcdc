\* The module is destroyed while the first send connects; nothing is rejected.
CONSTANTS
    Sends = {s1}
    Disconnects = {d1}
    Faults = FALSE
    None = None
SPECIFICATION Spec
INVARIANT ClosedByDestroy
CHECK_DEADLOCK FALSE
