CONSTANTS
    Scale = 6
    GapTolerance = 2
    Studies <- BothStudies
    MaxSegs = 4
SPECIFICATION CoverageSpec
INVARIANT MajorityProtects
INVARIANT NoFalseAlarm
INVARIANT InteriorGapSeen
CHECK_DEADLOCK FALSE
