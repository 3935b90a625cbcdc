\* Two requests, two orders of the interceptors, one retry.  Ids from explicit dates, with
\* a clock that is set back, and restarts; every millisecond in range.
CONSTANTS
    Requests = {r1, r2}
    Chains <- MCChains
    Paths = {"plain", "core", "skipped"}
    Retries = 1
    a = a  b = b  c = c  hostA = hostA  hostB = hostB
    Instances = {a, b, c}
    Hosts = {hostA, hostB}
    HostOf <- MCHostOf
    Epoch <- MCEpoch
    Node <- MCNode
    Nodes = 2
    Sequences = 2
    MaxOffset = 3
    Horizon = 2
    Dates = {0, 2}
    Steady = TRUE
    None = None
SPECIFICATION SumSpec
SYMMETRY Symmetry
INVARIANTS UniqueIds Decodable OwnHeaders OneTrace
PROPERTIES Monotonic StatusAgreed
CHECK_DEADLOCK FALSE
