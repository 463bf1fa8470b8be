CONSTANTS
    Sessions = {s1}
    Types = {camera}
    MaxGen = 2
    MaxAlerts = 2
    EventCap = 1
    AlertCap = 1
    MaxFaults = 1
SPECIFICATION LiveSpec
INVARIANT TileIsRouted
INVARIANT RegistrationHolds
PROPERTY EventuallyExact
PROPERTY EventuallyRouted
PROPERTY GoroutinesEnd
CHECK_DEADLOCK FALSE
