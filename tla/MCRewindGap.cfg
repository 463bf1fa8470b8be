CONSTANTS
    Durations = {1, 2}
    Window = 3
    MaxEpochs = 1
    MaxFrags = 3
    MaxFaults = 1
SPECIFICATION RewindSpec
INVARIANT DatesMatch
CHECK_DEADLOCK FALSE
