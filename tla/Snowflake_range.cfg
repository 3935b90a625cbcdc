\* An explicit date beyond the 41-bit range between two ids of a millisecond.
CONSTANTS
    a = a  b = b  c = c  hostA = hostA  hostB = hostB
    Instances = {a, b, c}
    Hosts = {hostA, hostB}
    HostOf <- MCHostOf
    Epoch <- MCEpoch
    Node <- MCNode
    Nodes = 2
    Sequences = 4
    MaxOffset = 2
    Horizon = 3
    Dates = {3}
    Steady = TRUE
    None = None
SPECIFICATION Spec
INVARIANTS UniqueIds
CHECK_DEADLOCK FALSE
