SPECIFICATION MCAnySpec
CONSTANTS
    k1 = k1
    k2 = k2
    k3 = k3
    b1 = b1
    b2 = b2
    b3 = b3
    o1 = o1
    o2 = o2
    NodeKeys = {k1, k2, k3}
    Buckets = {b1, b2, b3}
    Objects = {o1, o2}
    Holds <- HoldsDef
    Claimed = {b1, b3}
    Modes = {"operator", "device"}
    MaxStarts = 1
    MaxStops = 1
    None = None
    Partial = Partial
INVARIANT MigratedSkipped
CHECK_DEADLOCK FALSE
