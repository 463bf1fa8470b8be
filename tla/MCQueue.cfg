SPECIFICATION HealthSpec
CONSTANTS
    Topics = {t1, t2}
    DLQTopics = {d1}
    Calls = {c1, c2, c3}
    Cooldown = 3
    MaxLosses = 1
    MaxBrokerFaults = 1
    LagDuration = 2
    DLQThreshold = 3
    FetchErrorThreshold = 3
PROPERTY EarnedRetry
PROPERTY TopicsReturn
INVARIANT LagAlertEarned
PROPERTY LagReported
CHECK_DEADLOCK FALSE
