SPECIFICATION FairSpec
CONSTANTS
    Callers = {c1, c2}
    Waker = w
    DefaultAlpn = FALSE
    LocalFirst = FALSE
    GateMode = "managed"
    InitMember = TRUE
    Events = {"reject", "transient", "close", "auth", "close_all"}
    MaxGen = 2
    MaxBuffer = 1
PROPERTIES OnlyInstallsOutliveReconcile CallsReturn
