CONSTANTS
    Desktop = {}
    WebRTC = {w1}
    NoStream = NoStream
    Seqs = {1}
    WatchdogGrace = 1
    WebRTCGrace = 1
    GracePeriod = 1
    RetryInterval = 1
    MaxAttempts = 2
    MaxTries = 2
    MaxConcurrent = 1
    MaxCreates = 1
    MaxQueue = 1
    MaxNow = 4
    MaxFaults = 0
    MaxCrashes = 0
    Expiries <- TwoExpiries
SPECIFICATION Spec
INVARIANT DropIsRight
CHECK_DEADLOCK FALSE
