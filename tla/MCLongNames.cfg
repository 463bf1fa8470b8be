\* Names of one digit of base three: the fourth segment's is "10", which is
\* sorted before "2".
SPECIFICATION Spec
CONSTANTS
    Processes = {p1}
    Consuming = {}
    Segments = {1, 2, 3, 4}
    Base = 3
    NameCapacity = 3
    MaxFaults = 0
    MaxCrashes = 0
INVARIANT NamesAlwaysSort
CHECK_DEADLOCK FALSE
