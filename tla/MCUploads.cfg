CONSTANTS
    Req = {r1, r2}
    Contents = {a}
    Reasons = {}
    None = None
    MaxStreams = 2
    MaxCreates = 2
    MaxSegs = 1
    MaxDeclares = 2
    MaxTime = 2
SPECIFICATION Spec
SYMMETRY RequestSymmetry
INVARIANT OneActiveStream
INVARIANT CompleteIsWhole
PROPERTY NeverReopened
CHECK_DEADLOCK FALSE
