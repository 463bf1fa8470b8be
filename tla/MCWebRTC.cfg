CONSTANTS
    Desktop = {}
    WebRTC = {w1}
    NoStream = NoStream
    Seqs = {1, 2}
    WatchdogGrace = 1
    WebRTCGrace = 1
    GracePeriod = 1
    RetryInterval = 1
    MaxAttempts = 2
    MaxTries = 2
    MaxConcurrent = 1
    MaxCreates = 1
    MaxQueue = 1
    MaxNow = 3
    MaxFaults = 2
    MaxCrashes = 1
    Expiries <- OneExpiry
SPECIFICATION LiveSpec
INVARIANT NoOrphan
PROPERTY ArmedIsRecorded
CHECK_DEADLOCK FALSE
