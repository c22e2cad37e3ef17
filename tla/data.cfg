SPECIFICATION DataSpec
CONSTANTS
    Nobody = Nobody
    w1 = w1
    w2 = w2
    k1 = k1
    k2 = k2
    c1 = c1
    c2 = c2
    c3 = c3
    UKeys = {k1, k2}
    Workers = {w1, w2}
    Callers = {c1, c2, c3}
    Chunks = 1
    Batch = 1
    NoUpload = NoUpload
    Pad = Pad
    Refused = Refused
    Offsets = {0, 1, 3, 4, 8, 9}
 
 
PROPERTY PoolLive
CHECK_DEADLOCK FALSE
