SPECIFICATION FairSpec
CONSTANTS
    Reads = {r1, r2}
    Quirks = {"revive", "silent", "skip", "cut", "end"}
    MaxWrites = 4
INVARIANT QuietIsShown
PROPERTIES SeedKeepsNewer AnnouncedIsShown
CHECK_DEADLOCK FALSE
