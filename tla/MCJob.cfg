\* Two processes, one with two callers that share a job dir; one crash
\* and one failing call.
SPECIFICATION LiveSpec
CONSTANTS
    Processes = {p1, p2}
    Consuming = {p1}
    Segments = {1, 2}
    Base = 2
    NameCapacity = 2
    MaxFaults = 1
    MaxCrashes = 1
INVARIANT RecordingIsListed
INVARIANT DirIsOwned
PROPERTY EventuallyRecorded
CHECK_DEADLOCK FALSE
