SPECIFICATION FairSpec
CONSTANTS
    MaxVersion = 3
    MaxCommands = 2
    Faults = {"slow", "refuse", "tun", "route", "kernel", "listener", "outbound", "control"}
    MaxFaults = 2
INVARIANTS PlaneAgrees
PROPERTIES MessagesHandled RestartRecovers
CHECK_DEADLOCK FALSE
