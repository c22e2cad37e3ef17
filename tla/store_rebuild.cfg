SPECIFICATION StoreFairSpec
CONSTANTS
    Keys = {k1, k2}
    Streamers = {s1}
    Putters = {}
    Deleters = {d1}
    Labelers = {l1}
    Readers = {}
    MaxClock = 2
    MaxRebuilds = 1
    None = None
    BlockSize = 2
    MaxLen = 3
    Vals = {1}
    MaxU48 = 3
    ForeignFile = "recreate"
    Starts = {"empty", "foreign", "legacy"}
    Faults = {"kill", "power", "tear", "error", "short"}
    MaxSeals = 4
    MaxOpens = 4
    MaxOps = 3
    Scenarios <- FaultScenarios
    Absent = Absent
    Torn = Torn
    Partial = Partial
 
INVARIANT NonceUnique
INVARIANT ResealSound
PROPERTY RebuildCompletes
CHECK_DEADLOCK FALSE
