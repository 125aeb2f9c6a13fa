SPECIFICATION FairSpec
CONSTANTS
    Callers = {c1, c2}
    Waker = w
    DefaultAlpn = TRUE
    LocalFirst = TRUE
    GateMode = "managed"
    InitMember = TRUE
    Events = {}
    MaxGen = 2
    MaxBuffer = 1
PROPERTY WaitersAnswered
CHECK_DEADLOCK FALSE
