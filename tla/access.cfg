SPECIFICATION AccessSpec
CONSTANTS
    alice = alice
    bob = bob
    w1 = w1
    w2 = w2
    r1 = r1
    a1 = a1
    a2 = a2
    k1 = k1
    k2 = k2
    o1 = o1
    o2 = o2
    Users = {alice, bob}
    Slots = {0, 1, 2}
    Primary <- PrimaryDef
    Role <- RoleDef
    Objects = {o1, o2}
    Writers = {w1, w2}
    Readers = {r1}
    Admins = {a1, a2}
    Rekeyers = {k1, k2}
    Ops = {"rotate", "acl", "share", "config", "delete"}
    GrantLevels = {"read", "writeonly"}
    InitEpochs = 2
    MaxRetainedEpochs = 2
    MaxKeyPairs = 3
    MaxGen = 2
    Traffic <- PassingTraffic
    None = None
    pr = pr
    pa = pa
    pb = pb
    Passwords = {pr, pa, pb}
    Reqs = {q1, q2}
    Mixes <- SessMixes
    Account <- AccountDef
    Secret <- SecretDef
    Second <- SecondDef
    Logged <- LoggedDef
    Targets <- TargetsDef
    MaxFailed = 2
    MaxRefreshes = 1
    MaxTokens = 4
    MaxWrites = 2
    q1 = q1
    q2 = q2
    Tasks = {m1, m2}
    Boot = boot
    Hosts <- AllHosts
    MaxRuns = 2
INVARIANT OneJob
 
INVARIANT RevokedAlone
INVARIANT SessionsFollowAccounts
 
INVARIANT GuessesBounded
INVARIANT GuardReads
INVARIANT SecretOnlyInSecretmem
CHECK_DEADLOCK FALSE
