CONSTANTS
    Partitions = {p1}
    Kinds = {"good", "bad"}
    MaxTries = 2
    Configs <- RetryingOnly
    MaxLog = 2
    MaxFaults = 0
    MaxDLQFaults = 1
    MaxResets = 0
SPECIFICATION Spec
INVARIANT CommittedIsSettled
CHECK_DEADLOCK FALSE
