SPECIFICATION Spec
CONSTANTS
    Callers = {c1, c2}
    Waker = w
    DefaultAlpn = TRUE
    LocalFirst = TRUE
    GateMode = "direct"
    InitMember = TRUE
    Events = {"reject", "transient", "accept", "close", "auth", "close_all", "idle"}
    MaxGen = 1
    MaxBuffer = 1
SYMMETRY CallerSymmetry
INVARIANTS TypeOK BlockedHoldsNothing IdleHasNoLiveConn DialingHasOwner
PROPERTIES NoDialInHold OnlyRefusedDialOrphans OnlyInstallsBreakEnforcement
