CONSTANTS
    Req = {r1, r2}
    Contents = {}
    Reasons = {}
    None = None
    MaxStreams = 1
    MaxCreates = 1
    MaxSegs = 2
    MaxDeclares = 2
    MaxTime = 1
SPECIFICATION Spec
SYMMETRY RequestSymmetry
PROPERTY InventoryOnlyGrows
CHECK_DEADLOCK FALSE
