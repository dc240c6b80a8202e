CONSTANTS
    v1 = v1
    v2 = v2
    c1 = c1
    c2 = c2
    p1 = p1
    p2 = p2
    Volumes = {v1, v2}
    NoVolume = NoVolume
    Classes = {c1, c2}
    Paths = {p1, p2}
    ClassOf <- TwoClasses
    PathOf <- OwnPaths
    ModeOf <- FilesystemAndBlock
    PolicyOf <- AllDelete
    Configs <- ChangingConfigs
    Faults = {"crash", "apiErrors", "ioErrors", "watchLag"}
    MaxLag = 3
SPECIFICATION Spec
INVARIANTS ProcessInv NoPVWhileCleaning CleanWhenOffered CacheInv
PROPERTIES ImplementsLifecycle
