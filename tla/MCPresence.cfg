SPECIFICATION FairSpec
CONSTANTS
    MaxSessions = 2
    Pushers = {p1}
    Workloads = 1
    Workers = 2
    Capacity = 1
    MaxPushes = 1
    Faults = {"half", "crash", "db", "expiry"}
    MaxFaults = 1
INVARIANTS TypeOK EntryHasOwner
PROPERTIES RowPromise GoneGoesOffline ShardIsFreed HeardGoesOnline
CHECK_DEADLOCK FALSE
