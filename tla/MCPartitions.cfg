CONSTANTS
    Partitions = {p1, p2}
    Kinds = {"good", "bad"}
    MaxTries = 2
    Configs <- RetryingOnly
    MaxLog = 2
    MaxFaults = 0
    MaxDLQFaults = 2
    MaxResets = 0
SPECIFICATION Spec
INVARIANT ForcedByItself
CHECK_DEADLOCK FALSE
