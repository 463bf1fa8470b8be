CONSTANTS
    Durations = {1, 2}
    Window = 3
    MaxEpochs = 2
    MaxFrags = 2
    MaxFaults = 0
SPECIFICATION RewindSpec
PROPERTY EndlistIsFinal
CHECK_DEADLOCK FALSE
