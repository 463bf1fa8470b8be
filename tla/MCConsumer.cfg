CONSTANTS
    Partitions = {p1, p2}
    Kinds = {"good", "garbage"}
    MaxTries = 2
    Configs <- BothGroups
    MaxLog = 2
    MaxFaults = 2
    MaxDLQFaults = 1
    MaxResets = 1
SPECIFICATION LiveSpec
INVARIANT CommittedIsTried
INVARIANT ForceIsEarned
PROPERTY EventuallySettled
CHECK_DEADLOCK FALSE
