SPECIFICATION FairSpec
CONSTANTS
    p1 = p1
    Ids = {s1}
    NoId = NoId
    Ports = {p1}
    NoPort = NoPort
    Port <- MCPort
    Requests = {r1, r2}
    Ops = {"create", "patch", "delete"}
    Slots = {k1, k2, k3}
    NoSlot = NoSlot
    Faults = {"drop", "crash", "unreachable", "bind", "accept", "api", "db",
              "replay", "skip", "forgotten"}
    MaxRequests = 2
    MaxFaults = 1
INVARIANTS TypeOK ListenerTracked StartingTracked
 
CHECK_DEADLOCK FALSE
