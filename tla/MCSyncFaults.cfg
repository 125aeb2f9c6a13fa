SPECIFICATION FairSpec
CONSTANTS
    Self = self
    Peers = {p1}
    Listener = listener
    Session = session
    Polls = {q1}
    Writes = {"enroll", "remove", "status", "expire", "purge", "ttl", "other"}
    Faults = {"crash", "ws", "build", "offline", "notify", "reaper"}
    MaxOrg = 2
    MaxNet = 2
    MaxFaults = 1
INVARIANTS TypeOK NeverAhead ExactAtCurrent
PROPERTIES NoResurrection Converges
CHECK_DEADLOCK FALSE
