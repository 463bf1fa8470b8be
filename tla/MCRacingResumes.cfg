CONSTANTS
    Desktop = {d1}
    WebRTC = {}
    NoStream = NoStream
    Seqs = {1}
    WatchdogGrace = 1
    WebRTCGrace = 1
    GracePeriod = 1
    RetryInterval = 1
    MaxAttempts = 2
    MaxTries = 2
    MaxConcurrent = 1
    MaxCreates = 2
    MaxQueue = 1
    MaxNow = 5
    MaxFaults = 0
    MaxCrashes = 0
    Expiries <- FarExpiries
SPECIFICATION Spec
INVARIANT ArmedPastExpiry
CHECK_DEADLOCK FALSE
