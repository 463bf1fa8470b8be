CONSTANTS
    Conns = {c1, c2}
    None = None
    MaxIce = 2
    MaxFaults = 0
SPECIFICATION Spec
PROPERTY RegisteredWhileAlive
CHECK_DEADLOCK FALSE
