CONSTANTS
    Conns = {c1, c2}
    None = None
    MaxIce = 2
    MaxFaults = 1
SPECIFICATION Spec
SYMMETRY ConnSymmetry
INVARIANT NewestConnHolds
INVARIANT NoLeakedPeer
INVARIANT DropIsReal
CHECK_DEADLOCK FALSE
