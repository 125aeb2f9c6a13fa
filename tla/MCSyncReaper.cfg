SPECIFICATION FairSpec
CONSTANTS
    Self = self
    Peers = {p1}
    Listener = listener
    Session = session
    Polls = {q1}
    Writes = {"status", "expire"}
    Faults = {}
    MaxOrg = 2
    MaxNet = 3
    MaxFaults = 0
PROPERTY Converges
CHECK_DEADLOCK FALSE
