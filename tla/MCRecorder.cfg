CONSTANTS
    Streams = {s1}
    MaxRecorders = 1
    PortGroups = 2
    MaxAttempts = 2
    Multiplier = 2
    MaxStarts = 2
    MaxSegments = 2
    MaxExits = 4
    MaxFaults = 2
SPECIFICATION LiveSpec
INVARIANT CopyIsWhole
INVARIANT CleanupIsSafe
INVARIANT ResourcesExact
PROPERTY CloseEnds
CHECK_DEADLOCK FALSE
