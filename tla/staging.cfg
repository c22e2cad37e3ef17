SPECIFICATION MCSpec
CONSTANTS
    Putters = {p1, p2}
    Labelers = {l1}
    Readers = {r1}
    Admins = {a1}
    Inodes = {i1, i2, i3, i4}
    Blocks = 2
    MaxClock = 2
    MaxFaults = 1
    None = None
SYMMETRY Symmetry
CONSTRAINT NothingEvicted
INVARIANT GetReadsWhole
