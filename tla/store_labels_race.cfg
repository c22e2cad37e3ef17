SPECIFICATION Spec
CONSTANTS
    Keys = {k1}
    Streamers = {s1}
    Putters = {}
    Deleters = {}
    Labelers = {l1}
    Readers = {}
    MaxClock = 3
    MaxRebuilds = 0
    None = None
PROPERTY LabelsKeepBody
CHECK_DEADLOCK FALSE
