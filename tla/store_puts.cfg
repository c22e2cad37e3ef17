SPECIFICATION StoreSpec
CONSTANTS
    Keys = {k1, k2}
    Streamers = {s1, s2}
    Putters = {u1}
    Deleters = {}
    Labelers = {}
    Readers = {r1}
    MaxClock = 3
    MaxRebuilds = 0
    None = None
    BlockSize = 2
    MaxLen = 5
    Vals = {0, 1}
    MaxU48 = 20
    ForeignFile = "recreate"
    Starts = {"empty", "foreign", "legacy"}
    Faults = {"kill", "power", "tear", "error", "short"}
    MaxSeals = 20
    MaxOpens = 4
    MaxOps = 3
    Scenarios <- FileScenarios
    Absent = Absent
    Torn = Torn
    Partial = Partial
SYMMETRY Symmetry
INVARIANT UnlockedKeyIndexed
 
PROPERTY ImplementsPlainFile
CHECK_DEADLOCK FALSE
