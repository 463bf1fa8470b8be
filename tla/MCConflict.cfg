CONSTANTS
    Req = {r1, r2}
    Contents = {a, b}
    Reasons = {}
    None = None
    MaxStreams = 1
    MaxCreates = 1
    MaxSegs = 1
    MaxDeclares = 0
    MaxTime = 1
SPECIFICATION Spec
SYMMETRY RequestSymmetry
INVARIANT StoredMatchesRegistered
CHECK_DEADLOCK FALSE
