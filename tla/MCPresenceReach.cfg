SPECIFICATION FairSpec
CONSTANTS
    MaxSessions = 2
    Pushers = {p1}
    Workloads = 1
    Workers = 2
    Capacity = 2
    MaxPushes = 1
    Faults = {"half"}
    MaxFaults = 1
PROPERTIES ReconnectReachable
CHECK_DEADLOCK FALSE
