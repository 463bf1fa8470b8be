CONSTANTS
    Conns = {c1, c2}
    None = None
    MaxIce = 0
    MaxFaults = 1
SPECIFICATION LiveSpec
PROPERTY DetachedEnds
CHECK_DEADLOCK FALSE
