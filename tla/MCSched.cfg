SPECIFICATION FairSpec
CONSTANTS
    Objs = {o1, o2, o3}
    NoObj = NoObj
    Senders = {s1, s2, s3}
    CAP_LATENCY = 1
    CAP_NORMAL = 1
    CAP_BULK = 1
    MaxPackets = 3
INVARIANTS TypeOK RunningHasSender NoStrandedPacket
PROPERTY EverythingSent
CHECK_DEADLOCK FALSE
