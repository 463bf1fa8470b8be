CONSTANTS
    Durations = {1, 2}
    Window = 3
    MaxEpochs = 2
    MaxFrags = 2
    MaxFaults = 1
SPECIFICATION LiveSpec
INVARIANT DatesExact
PROPERTY StableDiscontinuity
PROPERTY NothingSkipped
PROPERTY EventuallyServed
CHECK_DEADLOCK FALSE
