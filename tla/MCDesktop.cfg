CONSTANTS
    Desktop = {d1}
    WebRTC = {}
    NoStream = NoStream
    Seqs = {1, 2}
    WatchdogGrace = 1
    WebRTCGrace = 1
    GracePeriod = 1
    RetryInterval = 1
    MaxAttempts = 2
    MaxTries = 1
    MaxConcurrent = 2
    MaxCreates = 1
    MaxQueue = 1
    MaxNow = 3
    MaxFaults = 2
    MaxCrashes = 1
    Expiries <- OneExpiry
SPECIFICATION Spec
INVARIANT NoOrphan
PROPERTY LedgerKept
CHECK_DEADLOCK FALSE
