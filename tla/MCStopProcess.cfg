CONSTANTS
    Streams = {s1}
    MaxRecorders = 1
    PortGroups = 1
    MaxAttempts = 2
    Multiplier = 2
    MaxStarts = 2
    MaxSegments = 2
    MaxExits = 2
    MaxFaults = 0
SPECIFICATION Spec
INVARIANT SlotCoversProcess
CHECK_DEADLOCK FALSE
