SPECIFICATION NodeSpec
CONSTANTS
    k1 = k1
    k2 = k2
    k3 = k3
    b1 = b1
    b2 = b2
    b3 = b3
    o1 = o1
    o2 = o2
    NodeKeys = {k1, k2, k3}
    Buckets = {b1, b2, b3}
    Objects = {o1, o2}
    Holds <- HoldsDef
    Claimed = {b1, b3}
    Modes = {"operator", "device"}
    MaxStarts = 2
    MaxStops = 2
    None = None
    Partial = Partial
    Unset = Unset
    s1 = s1
    s2 = s2
    Setups = {s1, s2}
    Default <- MCDefault
    ConfigDir <- MCConfigDir
    Protected <- MCProtected
    Slots = {1, 2}
    Periods = {1, 2}
    MAX_DEVICES = 4
    Passcode = "passcode"
    Nil = Nil
    Malformed = Malformed
    Wrong = Wrong
    HomeIds = {"h1", "h2"}
    AwayIds = {"a1", "a2"}
    Helpers = {"helper1", "helper2"}
    Slack = 1
    MaxCount = 3
    MaxArms = 2
    Mixes <- PassingMixes
INVARIANT CopyKept
 
INVARIANT OpensOnce
INVARIANT WrittenReopens
INVARIANT GrantWindow
 
 
PROPERTY Resumes
PROPERTY NoLostUpdate
PROPERTY NothingOverwritten
CHECK_DEADLOCK FALSE
