SPECIFICATION MCSpec
CONSTANTS
    Paths <- MCPaths
    Root <- MCRoot
    Metas <- MCMetas
    MaxIno = 6
    NoPath = NoPath
    NoMeta = NoMeta
    Dirs = {"d", "e"}
    Names = {"f", "g"}
    Labels = {"l", "m"}
    Threads = {1, 2}
    MaxLen = 2
    MaxWr = 2
    MaxFh = 2
    MaxFail = 1
    Mixes <- PassingMixes
    None = None
INVARIANT TableInverse
 
CHECK_DEADLOCK FALSE
