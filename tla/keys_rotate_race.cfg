SPECIFICATION MCSpec
CONSTANTS
    alice = alice
    bob = bob
    w1 = w1
    w2 = w2
    r1 = r1
    a1 = a1
    a2 = a2
    k1 = k1
    k2 = k2
    o1 = o1
    o2 = o2
    Users = {alice}
    Slots = {0}
    Primary <- PrimaryDef
    Role <- RoleDef
    Objects = {o1}
    Writers = {w1}
    Readers = {}
    Admins = {a1, a2}
    Rekeyers = {}
    Ops = {"rotate", "acl", "share", "config", "delete"}
    GrantLevels = {"read"}
    InitEpochs = 1
    MaxRetainedEpochs = 2
    MaxKeyPairs = 3
    MaxGen = 1
    Traffic <- RotateRaceTraffic
    None = None
INVARIANT ObjectsReadable
CHECK_DEADLOCK FALSE
