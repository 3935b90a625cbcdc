\* As Clients_safety.cfg: an attempt breaks while its container is created.
CONSTANTS
    Sends = {s1, s2, s3, s4}
    Disconnects = {d1, d2}
    Faults = TRUE
    None = None
    Mails = {"m1", "m2", "m3"}
    Names = {"sales"}
    Partials <- MCPartials
    Templates <- MCTemplates
    Instances = {i, j}
    Attempts = 3
    Starts = 1
    Unnamed = "unnamed"
    TestOptions <- MCOptions
    Composes = {"a", "b", "c"}
    Models = {"m", "n"}
    Topics = {"a", "b"}
SPECIFICATION SumSpec
SYMMETRY Symmetry
INVARIANT LeftoverRemoved
CHECK_DEADLOCK FALSE
